SPECIFICATION Spec
CONSTANTS
    MaxAttempts = 1
    GracePeriod = 1
    TermsSet <- MCTerms
    Requests = {h1, h2}
    MaxTime = 3
PROPERTIES
    OnlyVendorRefundsFunded
