CONSTANTS
    Target = {t1, t2, t3}
    Link = {l1}
    Metric = {1, 2}
    NoRoute = NoRoute
    InitialCapacity = 0
    DefaultSize = 1
    MaxLoad = 2
SPECIFICATION Spec
INVARIANTS
    TypeOK
    IndexAgrees
PROPERTY ImplementsMap
