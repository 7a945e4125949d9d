\* Two browsers, three users, a role of each kind, two edits, one restart.
SPECIFICATION AccountsSpec
CONSTANTS
    b1 = b1
    b2 = b2
    helper = helper
    operator = operator
    i1 = i1
    Callers <- TwoCallers
    Custom <- OneRole
    Builtin <- OneBuiltin
    SeedCodes <- OperatorCodes
    Codes <- SomeCodes
    Instances <- OneInstance
    MaxUsers = 3
    MaxRequests = 2
    MaxRestarts = 1
SYMMETRY CallerSymmetry
INVARIANTS
    TokensFollowPasswords
    NoPermissionWithoutLogin
