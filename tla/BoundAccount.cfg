SPECIFICATION Spec
CONSTANTS
    MaxAttempts = 5
    GracePeriod = 1
    Drafts <- MCDrafts
    Users = {u1, u2, u3}
    Nobody = Nobody
    Handlers = {h1, h2}
PROPERTIES
    OnlyHoldersAccept
