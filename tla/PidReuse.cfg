SPECIFICATION Spec
CONSTANTS
    Requests = {r1, r2, r3}
    Pids = {p1, p2}
    None = None
INVARIANTS
    IInv
PROPERTIES
    ForeignHitOnlyWhenGone
