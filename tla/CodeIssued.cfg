SPECIFICATION FairSpec
CONSTANTS
    MaxAttempts = 1
    GracePeriod = 1
    TermsSet <- MCTerms
    Requests = {h1}
    MaxTime = 3
PROPERTIES
    CodeEventuallyIssued
