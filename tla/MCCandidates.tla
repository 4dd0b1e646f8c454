---------------------------- MODULE MCCandidates ----------------------------
EXTENDS Candidates

CONSTANTS a, b, c, d, e, f, g

MCWindows == {a, b, c, d, e, f, g}
MCRootOwner == [w \in MCWindows |-> IF w \in {b, c} THEN a ELSE w]
MCSteady == {d, e, f, g}
MCLooks == {{}, {"visible"}, {"visible", "tool"}, {"visible", "app"},
            {"visible", "app", "noactivate"}, {"visible", "cloaked"}}
\* An owned window stands above its owner.
MCOrders == {<<b, c, a>>, <<d, b, c, e, a>>, <<d, b, e, c, a, f, g>>}

Area(px, py, w, h) == [x |-> px, y |-> py, width |-> w, height |-> h]
MCMonitors ==
    [main |-> [bounds |-> Area(0, 0, 240, 160), workingArea |-> Area(0, 0, 240, 150)],
     side |-> [bounds |-> Area(-200, 20, 200, 320), workingArea |-> Area(-190, 20, 190, 320)]]

On(m, w, h) == [monitor |-> m, width |-> w, height |-> h]
MCMeasures ==
    {[w \in MCWindows |-> On("main", 240, 150)],
     [w \in MCWindows |-> IF w \in {a, b, d} THEN On("main", 301, 7) ELSE On("main", 9, 203)],
     [w \in MCWindows |-> IF w \in {b, e, g} THEN On("side", 97, 131) ELSE On("main", 50, 33)],
     [w \in MCWindows |-> CASE w \in {a, d} -> Gone
                            [] w \in {b, e} -> On("main", 0, 40)
                            [] OTHER -> On("side", 400, 300)]}
=============================================================================
