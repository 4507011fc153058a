SPECIFICATION Spec
CONSTANTS
    Pockets = {1}
    Ttl = 1
    VerifyLimit = 1
    AmountsTold = TRUE
    Handlers = {h1}
    MaxTime = 1
PROPERTIES
    ExpiresOnlyUnpaid
