SPECIFICATION FairSpec
CONSTANTS
    Legs = {1, 2}
    BatchOf <- OneBatch
    CanQuery = FALSE
INVARIANTS
    TypeOK
    ClaimProtocol
    FailedLegsArePayable
    ConfirmedLegsWereAccepted
PROPERTIES
    ReplaysAreNoOps
    PaymentSpec
    OutcomeReachesLedger
    PendingLegsAreSubmitted
