----------------------------- MODULE ConfigDiff -----------------------------
(***************************************************************************)
(* internal/config/diff.go: how two VIP lists differ.  A config maps every *)
(* VIP name to its definition or to Absent; names and prefixes are unique  *)
(* in a validated config.  specs stands for what a check is configured     *)
(* with besides its name: the parameters of the check and the VIP's local  *)
(* address guard, a change of which changes every check of the VIP.        *)
(***************************************************************************)
CONSTANTS Names, Absent

Removed(running, candidate) ==
    {v \in Names : /\ running[v] # Absent
                   /\ \/ candidate[v] = Absent
                      \/ candidate[v].prefix # running[v].prefix}

Added(running, candidate) ==
    {v \in Names : /\ candidate[v] # Absent
                   /\ \/ running[v] = Absent
                      \/ candidate[v].prefix # running[v].prefix}

Changed(running, candidate) ==
    {v \in Names : /\ running[v] # Absent /\ candidate[v] # Absent
                   /\ running[v].prefix = candidate[v].prefix
                   /\ running[v] # candidate[v]}

(* diffVIP: checks that must reach a verdict first, and checks that go.    *)
ChecksChangedKnownOnly(old, new) ==
    {c \in new.checks \cap old.checks : old.specs[c] # new.specs[c]}

ChecksChanged(old, new) ==
    {c \in new.checks : c \notin old.checks \/ old.specs[c] # new.specs[c]}

ChecksRemoved(old, new) == old.checks \ new.checks
=============================================================================
