SPECIFICATION FairSpec
CONSTANTS
    Pockets = {1, 2}
    Ttl = 1
    VerifyLimit = 1
    AmountsTold = TRUE
    Handlers = {h1}
    MaxTime = 1
INVARIANTS
    TypeOK
    
PROPERTIES
    CollectionSpec
    
