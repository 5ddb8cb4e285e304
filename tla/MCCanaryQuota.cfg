CONSTANTS
    a = a
    b = b
    c1 = c1
    c2 = c2
    Claims = {a, b}
    Connections = {c1, c2}
    NoConnection = NoConnection
    Units <- WholeAllowance
    Allowance = 2
SPECIFICATION CanarySpec
INVARIANTS
    AllowanceSpentOnce
CHECK_DEADLOCK FALSE
