SPECIFICATION Spec
CONSTANTS
    n1 = n1  n2 = n2  t1 = t1  u1 = u1
    Nodes = {n1, n2}
    Teams = {a}
    Users = {u1}
    Tokens = {t1}
    Verifiers = {v1, v2}
    Requests = {r1}
    TokenNode <- AllForN1
    ReqUser <- ByU1
    ReqNode <- OnN1
    Public = Public
    ApiTTL = 2
    ProxyTTL = 1
    Patience = 1
    MaxTime = 4
SYMMETRY Twins
INVARIANTS
    RevocationBites
    OnlyOwnNode
    StrangersKeptOut
