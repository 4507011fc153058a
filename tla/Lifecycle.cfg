SPECIFICATION Spec
CONSTANTS
    MaxAttempts = 2
    GracePeriod = 1
    TermsSet <- MCTerms
    Requests = {h1, h2}
    MaxTime = 2
SYMMETRY HandlerSymmetry
INVARIANTS
    TypeOK
    CustodyConserved
    AuditLogFaithful
    DisputeInStep
    RefundHasHumanCause
    PayoutHasHandoffOrArbitration
    LockoutHolds
    SanctionsAreEarned
    SweepClaimsSucceed
PROPERTIES
    TerminalIsFinal
    TimersNeverFireEarly
    EscrowSpec
