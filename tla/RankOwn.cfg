SPECIFICATION Spec
CONSTANTS
    o1 = o1
    o2 = o2
    o3 = o3
    Callers = {a, b}
    Procs = {o1, o2, o3}
    Windows = {0, 1, 2}
    Limits = {1, 2}
    Volume <- Bytes
INVARIANTS
    ResultIsOwn
