----------------------------- MODULE Candidates -----------------------------
(***************************************************************************)
(* Which windows a session offers and where their tiles go:                *)
(* window/window_finder.rs, geometry/layout.rs, geometry/grid_layout.rs.   *)
(*                                                                         *)
(* EnumWindows takes a list of the top-level windows once and calls back   *)
(* for each of them; the callback reads the styles, the cloaking and the   *)
(* last active popup of that moment, while the applications go on.  So an  *)
(* enumeration is one step per window, and other applications may show,    *)
(* hide, restyle and activate their windows between any two of them.       *)
(* Layout::new then measures each candidate, on monitors listed before.    *)
(***************************************************************************)
EXTENDS GridLayout, FiniteSets

CONSTANTS Windows,   \* the top-level windows
          NULL,      \* WindowHandle::NULL
          RootOwner, \* [Windows -> Windows], GetAncestor(w, GA_ROOTOWNER)
          Steady,    \* the windows whose look does not change
          Looks,     \* the sets of style bits a window takes
          Orders,    \* the lists EnumWindows may call back for
          Monitors,  \* [id -> [bounds, workingArea]], a display each
          Measures   \* what measuring the candidates may give, by window

ASSUME RootAssumption ==
    /\ NULL \notin Windows
    /\ RootOwner \in [Windows -> Windows]
    /\ \A w \in Windows : RootOwner[RootOwner[w]] = RootOwner[w]

ASSUME LookAssumption ==
    /\ Steady \subseteq Windows
    /\ {"visible"} \in Looks
    /\ Looks \subseteq SUBSET {"visible", "cloaked", "disabled",
                               "noactivate", "app", "tool"}

\* Every list holds whole groups: owners and owned windows are all top level.
ASSUME OrderAssumption ==
    /\ Orders \subseteq Seq(Windows)
    /\ \A o \in Orders : \A v, w \in Windows :
          /\ RootOwner[v] = RootOwner[w]
          /\ \E i \in 1..Len(o) : o[i] = v
          => \E i \in 1..Len(o) : o[i] = w

ASSUME MeasureAssumption ==
    /\ \A m \in DOMAIN Monitors : /\ Monitors[m].bounds \in Rectangle
                                  /\ Monitors[m].workingArea \in Rectangle
    /\ \A f \in Measures : \A w \in Windows : f[w].width \in Int /\ f[w].height \in Int

VARIABLES
    look,     \* [Windows -> Looks]: the styles and attributes of a window
    active,   \* [Windows -> Windows]: for a root owner, its last active popup
    phase,    \* how far a session's refresh has come (TypeOK lists the values)
    order,    \* the windows this EnumWindows calls back for
    at,       \* how many of them have been visited
    windows,  \* WindowFinder.windows
    quiet,    \* TRUE if no window has changed since EnumWindows began
    measured, \* [window -> rectangle and monitor, or Gone], of Layout::new
    known,    \* the monitors all_monitors() listed
    bounds    \* Layout.bounds

world == <<look, active>>
enumeration == <<order, at, windows>>
layout == <<measured, known, bounds>>
vars == <<look, active, phase, order, at, windows, quiet, measured, known, bounds>>

Gone == [monitor |-> "none", width |-> 0, height |-> 0]
Nothing == [w \in {} |-> Gone]

\* The windows of an application, and the list as a set.
Group(r) == {w \in Windows : RootOwner[w] = r}
Listed == {windows[i] : i \in 1..Len(windows)}
Visited == {order[i] : i \in 1..at}

----------------------------------------------------------------------------
\* IsWindowVisible and GetLastActivePopup.
IsVisible(w) == "visible" \in look[w]
GetLastActivePopup(w) == IF RootOwner[w] = w THEN active[w] ELSE w

\* get_last_active_visible_popup: the walk from the root to its last active
\* popup, which is owned or the root, so that the next try ends it.
LastActiveVisiblePopup(root) ==
    LET popup == GetLastActivePopup(root)
    IN  IF IsVisible(popup) THEN popup ELSE NULL

\* can_represent_application
CanRepresent(w) ==
    /\ w # NULL
    /\ "cloaked" \notin look[w]
    /\ "disabled" \notin look[w]
    /\ "visible" \in look[w]
    /\ "noactivate" \notin look[w]
    /\ "app" \in look[w] \/ "tool" \notin look[w]

\* The rule before owned tool windows were considered: the popup or nothing.
IsAltTabWindowUnrepresented(w) == LastActiveVisiblePopup(RootOwner[w]) = w

\* A rule that keeps the root beside the dialog that stands for it.
IsAltTabWindowBoth(w) ==
    RootOwner[w] = w \/ LastActiveVisiblePopup(RootOwner[w]) = w

\* is_alt_tab_window
IsAltTabWindow(w) ==
    LET root == RootOwner[w]
        popup == LastActiveVisiblePopup(root)
    IN  IF popup # root /\ ~CanRepresent(popup) THEN root = w ELSE popup = w

\* get_window_type(w) = AppWindow
IsAppWindow(w) ==
    /\ "cloaked" \notin look[w]
    /\ "disabled" \notin look[w] /\ "visible" \in look[w]
    /\ "noactivate" \notin look[w]
    /\ "app" \in look[w] \/ ("tool" \notin look[w] /\ IsAltTabWindow(w))

----------------------------------------------------------------------------
Init ==
    /\ look \in [Windows -> Looks]
    /\ \A w \in Steady : look[w] = {"visible"}
    /\ active = RootOwner
    /\ phase = "idle"
    /\ order = <<>> /\ at = 0 /\ windows = <<>>
    /\ quiet = TRUE
    /\ measured = Nothing /\ known = {} /\ bounds = Nothing

\* External: an application restyles, shows, hides or closes a window.
LookChanges(w) ==
    /\ phase \in {"idle", "enumerating"}
    /\ w \notin Steady
    /\ \E l \in Looks \ {look[w]} : look' = [look EXCEPT ![w] = l]
    /\ quiet' = (phase = "idle")
    /\ UNCHANGED <<active, phase, enumeration, layout>>

\* External: the user or the application activates another window of a group.
ActiveChanges(r) ==
    /\ phase \in {"idle", "enumerating"}
    /\ \E w \in Group(r) \ {active[r]} : active' = [active EXCEPT ![r] = w]
    /\ quiet' = (phase = "idle")
    /\ UNCHANGED <<look, phase, enumeration, layout>>

\* WindowFinder::new
Begin ==
    /\ phase = "idle"
    /\ phase' = "enumerating"
    /\ order' \in Orders
    /\ at' = 0
    /\ windows' = <<>>
    /\ UNCHANGED <<world, quiet, layout>>

\* enum_window_callback, for the next window of the list.
Visit ==
    /\ phase = "enumerating"
    /\ at < Len(order)
    /\ at' = at + 1
    /\ windows' = IF IsAppWindow(order[at + 1])
                  THEN Append(windows, order[at + 1])
                  ELSE windows
    /\ UNCHANGED <<world, phase, order, quiet, layout>>

\* EnumWindows returns.
Found ==
    /\ phase = "enumerating"
    /\ at = Len(order)
    /\ phase' = "found"
    /\ UNCHANGED <<world, enumeration, quiet, layout>>

\* The places in the list of the candidates that were measured on a monitor.
OnMonitor(m) ==
    {i \in 1..Len(windows) :
        measured[windows[i]].monitor = m /\ ~IsEmpty(measured[windows[i]])}

\* Which of the places a place is, from 1.
Rank(places, i) == Cardinality({j \in places : j <= i})

\* Layout::new measures each candidate: try_get_rect and the nearest monitor,
\* either of which may give nothing.  The monitors were listed first.
Measure ==
    /\ phase = "found"
    /\ phase' = "measured"
    /\ known' \in {DOMAIN Monitors} \cup {{m} : m \in DOMAIN Monitors}
    /\ \E f \in Measures : measured' = [w \in Listed |-> f[w]]
    /\ UNCHANGED <<world, enumeration, quiet, bounds>>

\* GridLayout::arrange gives each of them the cell of its rank.
Tiles(m) ==
    LET on == OnMonitor(m)
    IN  [w \in {windows[i] : i \in on} |->
            TileOf(Monitors[m], measured[w], Cardinality(on),
                   Rank(on, CHOOSE i \in on : windows[i] = w))]

\* A monitor that was listed, and has room.
Usable(m) ==
    /\ m \in known
    /\ ~IsEmpty(Monitors[m].bounds) /\ ~IsEmpty(Monitors[m].workingArea)

\* GridLayout::arrange over the listed monitors.
Placement ==
    [w \in {v \in Listed : Usable(measured[v].monitor) /\ ~IsEmpty(measured[v])} |->
        Tiles(measured[w].monitor)[w]]

Arrange ==
    /\ phase = "measured"
    /\ phase' = "laid"
    /\ bounds' = Placement
    /\ UNCHANGED <<world, enumeration, quiet, measured, known>>

\* The session has taken the layout over.
Release ==
    /\ phase = "laid"
    /\ phase' = "idle"
    /\ order' = <<>> /\ at' = 0 /\ windows' = <<>>
    /\ quiet' = TRUE
    /\ measured' = Nothing /\ known' = {} /\ bounds' = Nothing
    /\ UNCHANGED world

Next ==
    \/ \E w \in Windows : LookChanges(w)
    \/ \E w \in Windows : ActiveChanges(w)
    \/ Begin \/ Visit \/ Found
    \/ Measure \/ Arrange \/ Release

Spec == Init /\ [][Next]_vars

----------------------------------------------------------------------------
TypeOK ==
    /\ look \in [Windows -> Looks]
    /\ active \in [Windows -> Windows]
    /\ \A w \in Windows : RootOwner[active[w]] = RootOwner[w]
    /\ phase \in {"idle", "enumerating", "found", "measured", "laid"}
    /\ order \in Orders \cup {<<>>}
    /\ at \in 0..Len(order)
    /\ windows \in Seq(Windows)
    /\ quiet \in BOOLEAN

(***************************************************************************)
(* An enumeration during which nothing changes offers every application    *)
(* whose root could be shown, whatever popup it activated last: the root,  *)
(* or the popup that stands for it, is among the candidates                *)
(* (window_finder.rs:103: the popup "must not make the whole application   *)
(* disappear").                                                            *)
(***************************************************************************)
GroupRepresented ==
    phase \in {"found", "measured", "laid"} /\ quiet =>
        \A r \in Visited :
            RootOwner[r] = r /\ CanRepresent(r) => Group(r) \cap Listed # {}

(***************************************************************************)
(* Nor is an application offered twice: of the windows of a group at most  *)
(* one is a candidate, but for those that ask for a place of their own     *)
(* (WS_EX_APPWINDOW), although each was judged by itself, in a callback of *)
(* its own (window_finder.rs:3: "keeps owned dialog windows from replacing *)
(* their Alt-Tab owner").                                                  *)
(***************************************************************************)
OneTilePerGroup ==
    phase \in {"found", "measured", "laid"} /\ quiet =>
        \A v, w \in Listed :
            /\ RootOwner[v] = RootOwner[w]
            /\ "app" \notin look[v] /\ "app" \notin look[w]
            => v = w

(***************************************************************************)
(* Every candidate that was measured on a listed monitor has a tile there, *)
(* of at least a pixel, inside the working area and not larger than the    *)
(* window, and no two tiles of a monitor share a pixel, so that a click    *)
(* means one of them: rounding each of four numbers on its own costs the   *)
(* margins, never more.                                                    *)
(***************************************************************************)
TilesApart ==
    phase = "laid" =>
        \A w \in Listed :
            Usable(measured[w].monitor) /\ ~IsEmpty(measured[w]) =>
                /\ w \in DOMAIN bounds
                /\ ~IsEmpty(bounds[w])
                /\ bounds[w].width <= measured[w].width
                /\ bounds[w].height <= measured[w].height
                /\ Inside(bounds[w], Monitors[measured[w].monitor].workingArea)
                /\ \A v \in DOMAIN bounds \ {w} :
                      measured[v].monitor = measured[w].monitor =>
                          Apart(bounds[v], bounds[w])
=============================================================================
