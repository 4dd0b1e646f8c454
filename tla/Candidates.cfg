SPECIFICATION Spec
CONSTANTS
    a = a
    b = b
    c = c
    d = d
    e = e
    f = f
    g = g
    NULL = NULL
    Windows <- MCWindows
    RootOwner <- MCRootOwner
    Steady <- MCSteady
    Looks <- MCLooks
    Orders <- MCOrders
    Monitors <- MCMonitors
    Measures <- MCMeasures
INVARIANTS
    GroupRepresented
    OneTilePerGroup
    TilesApart
