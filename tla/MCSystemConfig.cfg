SPECIFICATION Spec
CONSTANTS
    svc = svc
    k1 = k1
    t1 = t1
    t2 = t2
    Layers <- MCLayers
    Services = {assoc_key, svc}
    AssocKey = assoc_key
    Keys = {k1}
    Templates = {t1, t2}
    UserItems <- SetByUser
    NetItems <- ReceivedItems
    MaxOps = 6
    None = None
INVARIANTS
    QuietIsConsistent
    SeenIsAssociated
PROPERTIES
    MoveKeepsItem
CHECK_DEADLOCK FALSE
