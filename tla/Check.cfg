CONSTANTS
    Nil = Nil
    V4 <- MCV4
    V6 <- MCV6
    Mapped <- MCMapped
    Loopback <- MCLoopback
    CIDRs <- MCCIDRs
    URLs <- MCURLs
    Canonical <- MCCanonical
    Malformed <- MCMalformed
    Exprs <- MCExprs
    Env = {"HOME"}
    CertFiles = {"ca.pem"}
    Files <- MCFiles
    Options <- MCOptions
    Locals <- MCLocals
    Answers <- MCAnswers

SPECIFICATION FairSpec

INVARIANTS
    TypeOK
    LoadedIsSound
    ReloadedRoutesFit
    
    BuildFailsForCause
    ExitIsVerdict
    PassedOnEvidence

PROPERTY
    CommandEnds
