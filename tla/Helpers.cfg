SPECIFICATION Spec
INVARIANTS
    CiphersAgree
    DigestAnySplit
    GlobsMatch
    StringsFit
    WalkMeetsSelected
    CodesAgree
    ChainsApart
CHECK_DEADLOCK FALSE
