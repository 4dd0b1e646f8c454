-------------------------------- MODULE Session --------------------------------
(***************************************************************************)
(* The previews of a session: SessionWindow's port to the controller, the  *)
(* collection it owns (ApplicationWindows) and the tiles in it             *)
(* (ApplicationWindow), driven by the controller's handlers.  Every handler *)
(* runs on the UI thread to its end; the windows that are previewed open,  *)
(* hide and die at any time in between.                                    *)
(*                                                                         *)
(* Which key or pointer position asks for an operation is left to Switcher *)
(* and to the layout: here any of them may be asked for.                   *)
(***************************************************************************)
EXTENDS Integers, Sequences, FiniteSets

CONSTANTS
  Sources,        \* windows that can be previewed
  Nothing,        \* no source
  NativeMayFail,  \* may drawing, timers and posts fail?
  Flicker         \* may an enumeration be empty for a moment?

ASSUME SourcesAssumption ==
  /\ IsFiniteSet(Sources) /\ Nothing \notin Sources
  /\ NativeMayFail \in BOOLEAN /\ Flicker \in BOOLEAN

VARIABLES
  state,           \* the controller's SwitcherState,
  candidateCount,  \* its candidate_count
  selectedIndex,   \* and its selected_index
  applications,    \* the previews, Empty for none
  closeButtonMode, \* close_button_mode
  pendingCloses,   \* pending_closes
  evidenceTicks,   \* refresh_evidence_ticks
  refreshTimer,    \* is APPLICATION_REFRESH_TIMER_ID set?
  windows          \* what has become of each source

controller == <<state, candidateCount, selectedIndex>>
watch == <<pendingCloses, evidenceTicks, refreshTimer>>
vars == <<controller, applications, closeButtonMode, watch, windows>>

NoIndex == -1
ConfirmationTicks == 2
EmptyConfirmationTicks == 3
CloseButtonModes == {"AlwaysVisible", "HoverOnly", "Hidden"}

\* Shown windows are candidates of the switcher; excluded ones are visible,
\* but not among its candidates (disabled, cloaked); hidden ones are alive.
Fates == {"shown", "excluded", "hidden", "gone"}
IsAlive(source) == windows[source] # "gone"
IsVisible(source) == windows[source] \in {"shown", "excluded"}

-----------------------------------------------------------------------------
(* A tile: its interaction state, and the picture last drawn of it.        *)

ShowsButton(tile) ==
  tile.mode = "AlwaysVisible" \/ (tile.mode = "HoverOnly" /\ tile.hovered)

Picture(tile) == [selected |-> tile.selected, button |-> ShowsButton(tile)]

Redrawn(tile) == [tile EXCEPT !.picture = Picture(tile), !.missed = FALSE]

\* What a redraw leaves behind if nobody asks how it went.
BestEffort(tile) ==
  {Redrawn(tile)} \cup
  (IF NativeMayFail THEN {[tile EXCEPT !.missed = TRUE]} ELSE {})

NewTile(source, mode) ==
  LET tile == [source |-> source, mode |-> mode,
               selected |-> FALSE, hovered |-> FALSE]
  IN [source |-> source, mode |-> mode, selected |-> FALSE, hovered |-> FALSE,
      picture |-> Picture(tile), missed |-> FALSE]

\* Mutant: the hover is not drawn.
InteractedUnhovered(tile, selected, hovered) ==
  LET next == [tile EXCEPT !.selected = selected, !.hovered = hovered]
  IN IF selected # tile.selected THEN Redrawn(next) ELSE next

\* set_interaction_state, drawn where its change shows.
Interacted(tile, selected, hovered) ==
  LET next == [tile EXCEPT !.selected = selected, !.hovered = hovered]
  IN IF \/ selected # tile.selected
        \/ hovered # tile.hovered /\ tile.mode = "HoverOnly"
     THEN Redrawn(next) ELSE next

\* close_button_hit at a point of the tile that the button would cover.
ButtonHit(tile) == ShowsButton(tile)

-----------------------------------------------------------------------------
(* The collection.                                                         *)

Empty == [tiles |-> <<>>, selected |-> NoIndex, hovered |-> NoIndex]
Count(apps) == Len(apps.tiles)
Indexes(apps) == 0 .. Count(apps) - 1
SourceAt(apps, index) == apps.tiles[index + 1].source
Previewed(apps) == {apps.tiles[i].source : i \in DOMAIN apps.tiles}
SelectedSource(apps) ==
  IF apps.selected = NoIndex THEN Nothing ELSE SourceAt(apps, apps.selected)

\* select_by_index: the old tile first, then the new one.
SelectByIndex(apps, index) ==
  [tiles |-> [i \in DOMAIN apps.tiles |->
                LET tile == apps.tiles[i]
                IN IF i - 1 = index
                     THEN Interacted(tile, TRUE, tile.hovered)
                   ELSE IF i - 1 = apps.selected
                     THEN Interacted(tile, FALSE, tile.hovered) ELSE tile],
   selected |-> index, hovered |-> apps.hovered]

\* set_hovered_index.
SetHoveredIndex(apps, index) ==
  [tiles |-> [i \in DOMAIN apps.tiles |->
                LET tile == apps.tiles[i]
                IN IF i - 1 = index
                     THEN Interacted(tile, tile.selected, TRUE)
                   ELSE IF i - 1 = apps.hovered
                     THEN Interacted(tile, tile.selected, FALSE) ELSE tile],
   selected |-> apps.selected, hovered |-> index]

\* set_pointer_index, which lets go of both where they differ from the pointer.
SetPointerIndex(apps, index) ==
  IF apps.selected = index /\ apps.hovered = index THEN apps
  ELSE [tiles |-> [i \in DOMAIN apps.tiles |->
                     Interacted(apps.tiles[i], i - 1 = index, i - 1 = index)],
        selected |-> index, hovered |-> index]

\* Orders in which some of the sources can be listed, each once.
Rows ==
  UNION {{row \in [1 .. n -> Sources] :
            \A i, j \in 1 .. n : row[i] = row[j] => i = j}
         : n \in 0 .. Cardinality(Sources)}
Listed(row) == {row[i] : i \in DOMAIN row}

\* The candidates of a switcher that opened now.
Offered == {source \in Sources : windows[source] = "shown"}

\* What WindowFinder::new may find now.
Found ==
  {row \in Rows : Listed(row) = Offered}
  \cup (IF Flicker THEN {<<>>} ELSE {})

\* What build makes of it: candidates that fail are skipped, in their order.
Accepted(found) ==
  IF ~NativeMayFail THEN {found}
  ELSE {row \in Rows :
          /\ Listed(row) \subseteq Listed(found)
          /\ \A i, j \in DOMAIN row : i < j =>
               \E p, q \in DOMAIN found :
                 p < q /\ found[p] = row[i] /\ found[q] = row[j]}

Built(row) ==
  [Empty EXCEPT !.tiles =
     [i \in DOMAIN row |-> NewTile(row[i], closeButtonMode)]]

\* set_pointer_hover: the new previews are hovered where the pointer is, and
\* nobody asks whether that was drawn.
PointerHover(apps) ==
  {apps} \cup
  UNION {LET hovered == SetHoveredIndex(apps, index)
         IN {[hovered EXCEPT !.tiles = [@ EXCEPT ![index + 1] = tile]] :
               tile \in IF closeButtonMode = "HoverOnly"
                          THEN BestEffort([apps.tiles[index + 1]
                                             EXCEPT !.hovered = TRUE])
                          ELSE {hovered.tiles[index + 1]}}
         : index \in Indexes(apps)}

-----------------------------------------------------------------------------
(* The session's shared steps, with the controller's answer to each.       *)

NoEvidence == pendingCloses' = {} /\ evidenceTicks' = 0

\* Mutant: the requests outlive their session.
CloseKeepingRequests ==
  /\ state' = "Idle" /\ candidateCount' = 0 /\ selectedIndex' = NoIndex
  /\ applications' = Empty
  /\ refreshTimer' = FALSE /\ UNCHANGED <<pendingCloses, evidenceTicks>>

\* close_session_resources and reset_state.
Close ==
  /\ state' = "Idle" /\ candidateCount' = 0 /\ selectedIndex' = NoIndex
  /\ applications' = Empty
  /\ refreshTimer' = FALSE /\ NoEvidence

FailAndClose == NativeMayFail /\ Close

\* The previews and the controller's selection move together.
Publish(apps, index) ==
  /\ applications' = apps
  /\ selectedIndex' = index

\* select or clear_selection, and the controller's assignment.
Choose(index) ==
  \/ /\ Publish(SelectByIndex(applications, index), index)
     /\ UNCHANGED <<state, candidateCount, watch>>
  \/ applications.selected # index /\ FailAndClose

\* SetForegroundWindow of the selected source: denied, or it is gone.
MayActivate(source) == IF IsAlive(source) THEN BOOLEAN ELSE {FALSE}

Visible == state = "Visible" /\ UNCHANGED <<windows, closeButtonMode>>

Init ==
  /\ state = "Idle" /\ candidateCount = 0 /\ selectedIndex = NoIndex
  /\ applications = Empty
  /\ closeButtonMode = "AlwaysVisible"
  /\ pendingCloses = {} /\ evidenceTicks = 0 /\ refreshTimer = FALSE
  /\ windows \in [Sources -> Fates]

-----------------------------------------------------------------------------
(* The handlers.                                                           *)

\* try_open, of the session and then of the controller, which selects the first
\* preview; without candidates, or with a native failure, nothing is open.
Open ==
  /\ state = "Idle"
  /\ \/ /\ \E found \in Found : \E row \in Accepted(found) :
             /\ row # <<>>
             /\ \E apps \in PointerHover(Built(row)) :
                  Publish(SelectByIndex(apps, 0), 0)
             /\ candidateCount' = Len(row)
        /\ state' = "Visible"
        /\ refreshTimer' = TRUE /\ NoEvidence
     \/ Close
  /\ UNCHANGED <<windows, closeButtonMode>>

\* The keyboard moves the selection.
Select(index) == Visible /\ Choose(index)

\* try_commit_selection: a denied activation leaves the session open.
Commit ==
  /\ Visible /\ selectedIndex # NoIndex
  /\ TRUE \in MayActivate(SelectedSource(applications))
  /\ Close

\* A digit or a click on a preview: select, then commit.
SelectAndCommit(index) ==
  /\ Visible
  /\ \/ TRUE \in MayActivate(SourceAt(applications, index)) /\ Close
     \/ Choose(index)

\* handle_mouse_move.
PointerMove(hit) ==
  /\ Visible
  /\ \/ /\ Publish(SetPointerIndex(applications, hit), hit)
        /\ UNCHANGED <<state, candidateCount, watch>>
     \/ FailAndClose

\* Mutant: the failed redraw of the hover is not answered.
PointerLeaveUnanswered ==
  /\ Visible
  /\ applications' = [SetHoveredIndex(applications, NoIndex)
                        EXCEPT !.hovered = applications.hovered]
  /\ UNCHANGED <<controller, watch>>

\* handle_mouse_leave.
PointerLeave ==
  /\ Visible
  /\ \/ /\ applications' = SetHoveredIndex(applications, NoIndex)
        /\ UNCHANGED <<controller, watch>>
     \/ FailAndClose

\* try_close_at a preview's close button, and the selection is cleared.  A
\* target that cannot be asked and is still there is not waited for.
RequestClose(index) ==
  LET target == SourceAt(applications, index)
      asks == target \notin pendingCloses
  IN /\ Visible
     /\ ButtonHit(applications.tiles[index + 1])
     /\ \/ /\ asks
           /\ pendingCloses' = pendingCloses \cup {target}
           /\ refreshTimer' = TRUE
           /\ Publish(SelectByIndex(applications, NoIndex), NoIndex)
           /\ UNCHANGED <<state, candidateCount, evidenceTicks>>
        \/ /\ ~asks \/ (NativeMayFail /\ IsVisible(target))
           /\ Choose(NoIndex)
        \/ asks /\ FailAndClose

\* A click beside every preview.
ClickBackground == Visible /\ Choose(NoIndex)

\* Escape, Alt+F4, a lost foreground, an interruption.
Cancel == Visible /\ Close

\* set_close_button_mode.
SetCloseButtonMode(mode) ==
  /\ mode # closeButtonMode
  /\ closeButtonMode' = mode
  /\ \E tiles \in [DOMAIN applications.tiles ->
                     UNION {BestEffort([applications.tiles[i]
                                          EXCEPT !.mode = mode])
                            : i \in DOMAIN applications.tiles}] :
       /\ \A i \in DOMAIN tiles :
            tiles[i] \in BestEffort([applications.tiles[i] EXCEPT !.mode = mode])
       /\ applications' = [applications EXCEPT !.tiles = tiles]
  /\ UNCHANGED <<controller, watch, windows>>

\* A source answers WM_GETICON, and its tile is drawn with the new icon.
IconChanged(index) ==
  /\ Visible
  /\ \E tile \in BestEffort(applications.tiles[index + 1]) :
       applications' =
         [applications EXCEPT !.tiles = [@ EXCEPT ![index + 1] = tile]]
  /\ UNCHANGED <<controller, watch>>

-----------------------------------------------------------------------------
(* The refresh timer and the relayout of a changed display.                *)

\* Mutant: only what was closed through the switcher is evidence.
EvidenceOfRequests == \E source \in pendingCloses : ~IsVisible(source)

\* A close that was asked for is done, or a source is gone.
Evidence ==
  \/ \E source \in pendingCloses : ~IsVisible(source)
  \/ \E source \in Previewed(applications) : ~IsAlive(source)

\* The count saturates; beyond the last threshold it tells nothing more.
Ticks ==
  IF ~Evidence THEN 0
  ELSE IF evidenceTicks < EmptyConfirmationTicks THEN evidenceTicks + 1
  ELSE evidenceTicks

\* A previewed source is alive, other than one that hid when asked to close.
Survives ==
  \E source \in Previewed(applications) :
    /\ IsAlive(source)
    /\ ~(source \in pendingCloses /\ ~IsVisible(source))

TimerTick == Visible /\ refreshTimer

\* refresh_application_session without evidence, with too little of it, or with
\* nothing enumerated that would say which previews are left.
RefreshKeeps ==
  /\ TimerTick
  /\ \/ Ticks < ConfirmationTicks
     \/ <<>> \in Found /\ (Survives \/ Ticks < EmptyConfirmationTicks)
  /\ evidenceTicks' = Ticks
  /\ UNCHANGED <<controller, applications, pendingCloses, refreshTimer>>

\* The last preview is gone.
RefreshEmpty ==
  /\ TimerTick
  /\ Ticks >= EmptyConfirmationTicks
  /\ <<>> \in Found /\ ~Survives
  /\ Close

\* Mutant: the controller keeps its selection over the new previews.
RefreshReplacesUnder ==
  /\ TimerTick
  /\ Ticks >= ConfirmationTicks
  /\ \E found \in Found \ {<<>>} : \E row \in Accepted(found) :
       IF row = <<>> THEN Close
       ELSE /\ \E apps \in PointerHover(Built(row)) :
                 applications' = apps /\ UNCHANGED selectedIndex
            /\ candidateCount' = Len(row)
            /\ evidenceTicks' = 0
            /\ pendingCloses' = pendingCloses \cap Listed(found)
            /\ UNCHANGED <<state, refreshTimer>>

\* The previews are built anew behind the old ones; the controller has no
\* selection then.
RefreshReplaces ==
  /\ TimerTick
  /\ Ticks >= ConfirmationTicks
  /\ \E found \in Found \ {<<>>} : \E row \in Accepted(found) :
       IF row = <<>> THEN Close
       ELSE /\ \E apps \in PointerHover(Built(row)) : Publish(apps, NoIndex)
            /\ candidateCount' = Len(row)
            /\ evidenceTicks' = 0
            /\ pendingCloses' = pendingCloses \cap Listed(found)
            /\ UNCHANGED <<state, refreshTimer>>

RefreshTick == RefreshKeeps \/ RefreshEmpty \/ RefreshReplaces

\* Mutant: the previews are laid out as they are enumerated.
SwappedNever(found) == found

\* The selected source takes its old place, where both are enumerated.
Swapped(found) ==
  LET source == SelectedSource(applications)
      place == applications.selected + 1
  IN IF source \in Listed(found) /\ place <= Len(found)
     THEN LET from == CHOOSE i \in DOMAIN found : found[i] = source
          IN [found EXCEPT ![place] = source, ![from] = found[place]]
     ELSE found

Clamped(index, count) == IF index < count THEN index ELSE count - 1

\* relayout_session once the display has settled: the selection keeps its place,
\* or takes the last one.
Relayout ==
  /\ Visible
  /\ \E found \in Found \ {<<>>} : \E row \in Accepted(Swapped(found)) :
       /\ row # <<>>
       /\ LET index == Clamped(applications.selected, Len(row))
          IN /\ applications' \in PointerHover(SelectByIndex(Built(row), index))
             /\ selectedIndex' = Clamped(selectedIndex, Len(row))
       /\ candidateCount' = Len(row)
  /\ UNCHANGED <<state, watch>>

\* A source is shown, excluded, hidden or destroyed.
WindowChanges(source, fate) ==
  /\ IsAlive(source)
  /\ windows' = [windows EXCEPT ![source] = fate]
  /\ UNCHANGED <<controller, applications, closeButtonMode, watch>>

Pointer ==
  \/ \E index \in Indexes(applications) :
       \/ Select(index) \/ SelectAndCommit(index) \/ PointerMove(index)
       \/ RequestClose(index)
  \/ PointerMove(NoIndex) \/ PointerLeave \/ ClickBackground

Next ==
  \/ Open \/ Pointer \/ Commit \/ Cancel
  \/ \E mode \in CloseButtonModes : SetCloseButtonMode(mode)
  \/ \E index \in Indexes(applications) : IconChanged(index)
  \/ RefreshTick \/ Relayout
  \/ \E source \in Sources, fate \in Fates : WindowChanges(source, fate)

\* The timer ticks, and an enumeration is empty by mistake only for a moment.
Fairness == WF_vars(RefreshTick) /\ WF_vars(RefreshReplaces)

Spec == Init /\ [][Next]_vars /\ Fairness

-----------------------------------------------------------------------------
(* Properties.                                                             *)

Tiles ==
  [source : Sources, mode : CloseButtonModes, selected : BOOLEAN,
   hovered : BOOLEAN, picture : [selected : BOOLEAN, button : BOOLEAN],
   missed : BOOLEAN]

\* Every variable has its type, and an index of the collection a preview.
TypeOK ==
  /\ state \in {"Idle", "Visible"}
  /\ candidateCount \in 0 .. Cardinality(Sources)
  /\ selectedIndex \in NoIndex .. candidateCount - 1
  /\ \E n \in 0 .. Cardinality(Sources) : applications.tiles \in [1 .. n -> Tiles]
  /\ applications.selected \in Indexes(applications) \cup {NoIndex}
  /\ applications.hovered \in Indexes(applications) \cup {NoIndex}
  /\ closeButtonMode \in CloseButtonModes
  /\ pendingCloses \subseteq Sources
  /\ evidenceTicks \in 0 .. EmptyConfirmationTicks
  /\ refreshTimer \in BOOLEAN
  /\ windows \in [Sources -> Fates]

\* SessionPort's promise, kept by the native session and the controller that
\* drives it: the count and the selection never part from the previews.
Port ==
  INSTANCE SessionPort WITH
    MaxCandidates <- Cardinality(Sources),
    graph <- [count |-> Count(applications), selected |-> applications.selected]
ImplementsPort == Port!Spec

\* Each tile knows whether it is the selected and the hovered one, although a
\* redraw may fail between the old tile's change and the new one's.
FlagsAgree ==
  \A i \in DOMAIN applications.tiles :
    /\ applications.tiles[i].selected <=> applications.selected = i - 1
    /\ applications.tiles[i].hovered <=> applications.hovered = i - 1

\* A tile shows its selection and the close button a click on it would hit,
\* unless one of the redraws that nobody answers for has failed.
PicturesCurrent ==
  \A i \in DOMAIN applications.tiles :
    LET tile == applications.tiles[i]
    IN tile.mode = closeButtonMode /\ (tile.picture = Picture(tile) \/ tile.missed)

\* The previewed windows, in their order on the screen.
Row(apps) == [i \in DOMAIN apps.tiles |-> apps.tiles[i].source]

\* The selected source is another one after a step that changes the row only if
\* something was selected that is not offered any more or is beyond the end of
\* what is, or if not all that is offered is previewed.
ChoiceKept ==
  LET before == SelectedSource(applications)
      after  == SelectedSource(applications')
  IN /\ state = "Visible"
     /\ Row(applications') # Row(applications)
     /\ after \notin {before, Nothing}
     => /\ before # Nothing
        /\ \/ before \notin Offered
           \/ applications.selected >= Cardinality(Offered)
           \/ Previewed(applications') # Offered

\* What a released Alt would activate is what the user chose: previews that are
\* replaced, reordered or renumbered leave it selected or leave nothing selected,
\* as long as it can keep its place; and where nothing was chosen, nothing is.
ReplacementsKeepChoice == [][ChoiceKept]_vars

\* While there are previews their sources are watched, and a session leaves
\* neither a timer nor a close request behind for the next one.
WatchedWhileShown ==
  /\ state = "Visible" <=> refreshTimer
  /\ state = "Visible" <=> applications.tiles # <<>>
  /\ state = "Idle" => pendingCloses = {} /\ evidenceTicks = 0

\* The tile of a destroyed window leaves the screen, whatever else is previewed
\* and however often an enumeration comes out empty, unless no window is offered
\* while another previewed one is alive.
GoneTilesLeave ==
  \A source \in Sources :
    (source \in Previewed(applications) /\ ~IsAlive(source))
      ~> \/ source \notin Previewed(applications)
         \/ Offered = {} /\ Survives

=============================================================================
