SPECIFICATION Spec
CONSTANTS
    User = {u1, u2}
    Browser = {b1, b2}
    Name = {n1}
    None = None
    Login = {l1, l2}
    Hook = {k1}
    MaxTokens = 3
INVARIANTS OwnLoginAccepted TokenKept
PROPERTY OwnerOnly
CHECK_DEADLOCK FALSE
