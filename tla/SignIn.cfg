SPECIFICATION Spec
CONSTANTS
    Flows = {f1, f2}
    Browsers = {b1, b2}
    Subs = {s1, s2}
    Emails = {e1}
    Waiting = {p}
    Nobody = nobody
    Keys = {1, 2}
SYMMETRY Symmetry
INVARIANTS
    TypeOK
PROPERTIES
    RegistrySpec
    RotationsSettle
CHECK_DEADLOCK FALSE
