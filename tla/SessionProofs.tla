---------------------------- MODULE SessionProofs ----------------------------
(***************************************************************************)
(* The previews of a session, for any number of sources, however they are  *)
(* enumerated and whatever fails: the tiles, the collection and the        *)
(* controller never part, and together they implement SessionPort.         *)
(*                                                                         *)
(* What carries it is that every change of the collection keeps it in      *)
(* order (WellKept), tile by tile, and that every handler either closes    *)
(* the session or publishes a collection in order.                         *)
(***************************************************************************)
EXTENDS Session, FunctionTheorems, FiniteSetTheorems, TLAPS

\* A tile in order: drawn as it is, or known to have missed a redraw.
TileOK(tile, mode, selected, hovered) ==
  /\ tile \in Tiles
  /\ tile.mode = mode /\ tile.selected = selected /\ tile.hovered = hovered
  /\ tile.picture = Picture(tile) \/ tile.missed

Collections(n) ==
  [tiles : [1 .. n -> Tiles], selected : NoIndex .. n - 1,
   hovered : NoIndex .. n - 1]

\* A collection of n previews in order.
WellKept(apps, n, mode) ==
  /\ n \in 0 .. Cardinality(Sources) /\ apps \in Collections(n)
  /\ \A i \in 1 .. n : TileOK(apps.tiles[i], mode, apps.selected = i - 1,
                                                   apps.hovered = i - 1)

Kept == \E n \in Nat : WellKept(applications, n, closeButtonMode)

Agree ==
  /\ candidateCount = Count(applications)
  /\ selectedIndex = applications.selected

Rest ==
  /\ state \in {"Idle", "Visible"} /\ closeButtonMode \in CloseButtonModes
  /\ pendingCloses \subseteq Sources /\ evidenceTicks \in 0 .. 3
  /\ refreshTimer \in BOOLEAN /\ windows \in [Sources -> Fates]

IInv == Kept /\ Agree /\ Rest /\ WatchedWhileShown

\* A step of the controller and the native session, as SessionPort has it.
PortStep == Port!Next \/ UNCHANGED Port!session

StepOK == PortStep /\ ChoiceKept

-----------------------------------------------------------------------------
(* Tiles.                                                                  *)

\* What a tile draws is a picture.
LEMMA PictureType ==
  ASSUME NEW tile \in Tiles
  PROVE  Picture(tile) \in [selected : BOOLEAN, button : BOOLEAN]
BY DEF Tiles, Picture, ShowsButton

\* A redraw keeps a tile well typed, whether it succeeds or fails.
LEMMA RedrawnOK ==
  ASSUME NEW mode, NEW selected, NEW hovered, NEW tile,
         tile \in Tiles, tile.mode = mode, tile.selected = selected,
         tile.hovered = hovered
  PROVE  TileOK(Redrawn(tile), mode, selected, hovered)
<1>1. Picture(tile) \in [selected : BOOLEAN, button : BOOLEAN]
  BY PictureType
<1>2. Redrawn(tile) \in Tiles
  BY <1>1 DEF Tiles, Redrawn
<1>3. /\ Redrawn(tile).mode = mode /\ Redrawn(tile).selected = selected
      /\ Redrawn(tile).hovered = hovered /\ Redrawn(tile).picture = Picture(tile)
  BY DEF Tiles, Redrawn
<1>4. Picture(Redrawn(tile)) = Picture(tile)
  BY <1>3 DEF Picture, ShowsButton
<1> QED BY <1>2, <1>3, <1>4 DEF TileOK

\* set_interaction_state redraws whenever the picture would be another.
LEMMA InteractedOK ==
  ASSUME NEW mode, NEW selected \in BOOLEAN, NEW hovered \in BOOLEAN,
         NEW tile, TileOK(tile, mode, tile.selected, tile.hovered)
  PROVE  TileOK(Interacted(tile, selected, hovered), mode, selected, hovered)
<1> DEFINE next == [tile EXCEPT !.selected = selected, !.hovered = hovered]
<1>1. next \in Tiles /\ next.mode = mode /\ next.selected = selected
      /\ next.hovered = hovered /\ next.picture = tile.picture
      /\ next.missed = tile.missed
  BY DEF TileOK, Tiles
<1>2. CASE selected # tile.selected \/ (hovered # tile.hovered /\ tile.mode = "HoverOnly")
  <2>1. TileOK(Redrawn(next), mode, selected, hovered)
    BY <1>1, RedrawnOK
  <2> QED BY <1>2, <2>1 DEF Interacted
<1>3. CASE selected = tile.selected /\ ~(hovered # tile.hovered /\ tile.mode = "HoverOnly")
  <2>1. Interacted(tile, selected, hovered) = next
    BY <1>3 DEF Interacted
  <2>2. Picture(next) = Picture(tile)
    BY <1>1, <1>3 DEF Picture, ShowsButton, TileOK
  <2> QED BY <1>1, <2>1, <2>2 DEF TileOK
<1> QED BY <1>2, <1>3

\* Neither drawing nor its flags change what a tile is of.
LEMMA InteractedSource ==
  ASSUME NEW tile \in Tiles, NEW selected, NEW hovered
  PROVE  Interacted(tile, selected, hovered).source = tile.source
BY DEF Tiles, Interacted, Redrawn

\* A redraw nobody answers for either happens or is known to be missing.
LEMMA BestEffortOK ==
  ASSUME NEW mode, NEW tile \in Tiles, tile.mode = mode,
         NEW drawn \in BestEffort(tile)
  PROVE  TileOK(drawn, mode, tile.selected, tile.hovered)
<1>1. CASE drawn = Redrawn(tile)
  BY <1>1, RedrawnOK
<1>2. CASE drawn = [tile EXCEPT !.missed = TRUE]
  BY <1>2 DEF TileOK, Tiles
<1> QED BY <1>1, <1>2 DEF BestEffort

\* A best-effort redraw leaves the source of a tile.
LEMMA BestEffortSource ==
  ASSUME NEW tile \in Tiles, NEW drawn \in BestEffort(tile)
  PROVE  drawn.source = tile.source
BY DEF Tiles, BestEffort, Redrawn

\* A new tile is well kept: not selected, not hovered, drawn once.
LEMMA NewTileOK ==
  ASSUME NEW source \in Sources, NEW mode \in CloseButtonModes
  PROVE  TileOK(NewTile(source, mode), mode, FALSE, FALSE)
BY DEF TileOK, NewTile, Tiles, Picture, ShowsButton

-----------------------------------------------------------------------------
(* Collections.                                                            *)

\* What a collection in order is made of.
LEMMA Parts ==
  ASSUME NEW n, NEW mode, NEW apps, WellKept(apps, n, mode)
  PROVE  /\ n \in Nat /\ n <= Cardinality(Sources)
         /\ apps.tiles \in [1 .. n -> Tiles]
         /\ apps.tiles \in Seq(Tiles) /\ Len(apps.tiles) = n
         /\ DOMAIN apps.tiles = 1 .. n
         /\ apps.selected \in NoIndex .. n - 1
         /\ apps.hovered \in NoIndex .. n - 1
         /\ apps = [tiles |-> apps.tiles, selected |-> apps.selected,
                    hovered |-> apps.hovered]
         /\ Indexes(apps) = 0 .. n - 1
         /\ \A i \in 1 .. n : TileOK(apps.tiles[i], mode, apps.tiles[i].selected,
                                     apps.tiles[i].hovered)
<1>1. n \in Nat /\ n <= Cardinality(Sources)
  BY FS_CardinalityType, SourcesAssumption DEF WellKept
<1>2. apps.tiles \in [1 .. n -> Tiles] /\ apps.selected \in NoIndex .. n - 1
      /\ apps.hovered \in NoIndex .. n - 1
      /\ apps = [tiles |-> apps.tiles, selected |-> apps.selected,
                 hovered |-> apps.hovered]
  BY DEF WellKept, Collections
<1>3. apps.tiles \in Seq(Tiles) /\ Len(apps.tiles) = n /\ DOMAIN apps.tiles = 1 .. n
  BY <1>1, <1>2
<1>4. Indexes(apps) = 0 .. n - 1
  BY <1>3 DEF Indexes, Count
<1>5. \A i \in 1 .. n : TileOK(apps.tiles[i], mode, apps.tiles[i].selected,
                               apps.tiles[i].hovered)
  BY DEF WellKept, TileOK
<1> QED BY <1>1, <1>2, <1>3, <1>4, <1>5

\* A collection put together of tiles in order.
LEMMA Assembled ==
  ASSUME NEW n \in Nat, n <= Cardinality(Sources), NEW mode, NEW tiles,
         NEW selected \in NoIndex .. n - 1, NEW hovered \in NoIndex .. n - 1,
         DOMAIN tiles = 1 .. n, tiles = [i \in 1 .. n |-> tiles[i]],
         \A i \in 1 .. n : TileOK(tiles[i], mode, selected = i - 1, hovered = i - 1)
  PROVE  WellKept([tiles |-> tiles, selected |-> selected, hovered |-> hovered], n, mode)
<1>1. tiles \in [1 .. n -> Tiles]
  BY DEF TileOK
<1>2. n \in 0 .. Cardinality(Sources)
  BY FS_CardinalityType, SourcesAssumption
<1> QED BY <1>1, <1>2 DEF WellKept, Collections

\* The empty collection is well kept.
LEMMA EmptyOK == ASSUME NEW mode PROVE WellKept(Empty, 0, mode)
<1>1. 0 \in Nat /\ 0 <= Cardinality(Sources) /\ NoIndex \in NoIndex .. 0 - 1
  BY FS_CardinalityType, SourcesAssumption DEF NoIndex
<1>2. <<>> \in [1 .. 0 -> Tiles]
  OBVIOUS
<1> QED BY <1>1, <1>2 DEF WellKept, Collections, Empty

\* select_by_index: only the two tiles it touches change their flag.
LEMMA SelectOK ==
  ASSUME NEW n, NEW mode, NEW apps, WellKept(apps, n, mode),
         NEW index \in NoIndex .. n - 1
  PROVE  /\ WellKept(SelectByIndex(apps, index), n, mode)
         /\ SelectByIndex(apps, index).selected = index
<1> DEFINE tiles == [i \in DOMAIN apps.tiles |->
                 LET tile == apps.tiles[i]
                 IN IF i - 1 = index
                      THEN Interacted(tile, TRUE, tile.hovered)
                    ELSE IF i - 1 = apps.selected
                      THEN Interacted(tile, FALSE, tile.hovered) ELSE tile]
<1>1. /\ n \in Nat /\ n <= Cardinality(Sources) /\ DOMAIN apps.tiles = 1 .. n
      /\ apps.hovered \in NoIndex .. n - 1
  BY Parts
<1>2. SelectByIndex(apps, index) =
        [tiles |-> tiles, selected |-> index, hovered |-> apps.hovered]
  BY DEF SelectByIndex
<1>3. ASSUME NEW i \in 1 .. n
      PROVE  TileOK(tiles[i], mode, index = i - 1, apps.hovered = i - 1)
  <2> DEFINE tile == apps.tiles[i]
  <2>1. /\ TileOK(tile, mode, tile.selected, tile.hovered)
        /\ tile.selected = (apps.selected = i - 1)
        /\ tile.hovered = (apps.hovered = i - 1) /\ tile.hovered \in BOOLEAN
    BY DEF WellKept, TileOK
  <2>2. CASE i - 1 = index
    <3>1. tiles[i] = Interacted(tile, TRUE, tile.hovered)
      BY <1>1, <2>2
    <3>2. TileOK(Interacted(tile, TRUE, tile.hovered), mode, TRUE, tile.hovered)
      BY <2>1, InteractedOK
    <3>3. (index = i - 1) = TRUE
      BY <2>2
    <3> QED BY <2>1, <3>1, <3>2, <3>3
  <2>3. CASE i - 1 # index /\ i - 1 = apps.selected
    <3>1. tiles[i] = Interacted(tile, FALSE, tile.hovered)
      BY <1>1, <2>3
    <3>2. TileOK(Interacted(tile, FALSE, tile.hovered), mode, FALSE, tile.hovered)
      BY <2>1, InteractedOK
    <3>3. (index = i - 1) = FALSE
      BY <2>3
    <3> QED BY <2>1, <3>1, <3>2, <3>3
  <2>4. CASE i - 1 # index /\ i - 1 # apps.selected
    <3>1. tiles[i] = tile
      BY <1>1, <2>4
    <3>2. tile.selected = FALSE /\ (index = i - 1) = FALSE
      BY <2>1, <2>4
    <3> QED BY <2>1, <3>1, <3>2
  <2> QED BY <2>2, <2>3, <2>4
<1>4. DOMAIN tiles = 1 .. n /\ tiles = [i \in 1 .. n |-> tiles[i]]
  BY <1>1
<1> HIDE DEF tiles
<1>5. WellKept([tiles |-> tiles, selected |-> index, hovered |-> apps.hovered], n, mode)
  BY <1>1, <1>3, <1>4, Assembled
<1> QED BY <1>2, <1>5

\* set_hovered_index, likewise.
LEMMA HoverOK ==
  ASSUME NEW n, NEW mode, NEW apps, WellKept(apps, n, mode),
         NEW index \in NoIndex .. n - 1
  PROVE  /\ WellKept(SetHoveredIndex(apps, index), n, mode)
         /\ SetHoveredIndex(apps, index).selected = apps.selected
         /\ \A i \in 1 .. n :
              SetHoveredIndex(apps, index).tiles[i].source = apps.tiles[i].source
<1> DEFINE tiles == [i \in DOMAIN apps.tiles |->
                 LET tile == apps.tiles[i]
                 IN IF i - 1 = index
                      THEN Interacted(tile, tile.selected, TRUE)
                    ELSE IF i - 1 = apps.hovered
                      THEN Interacted(tile, tile.selected, FALSE) ELSE tile]
<1>1. /\ n \in Nat /\ n <= Cardinality(Sources) /\ DOMAIN apps.tiles = 1 .. n
      /\ apps.selected \in NoIndex .. n - 1
  BY Parts
<1>2. SetHoveredIndex(apps, index) =
        [tiles |-> tiles, selected |-> apps.selected, hovered |-> index]
  BY DEF SetHoveredIndex
<1>3. ASSUME NEW i \in 1 .. n
      PROVE  /\ TileOK(tiles[i], mode, apps.selected = i - 1, index = i - 1)
             /\ tiles[i].source = apps.tiles[i].source
  <2> DEFINE tile == apps.tiles[i]
  <2>1. /\ TileOK(tile, mode, tile.selected, tile.hovered)
        /\ tile.selected = (apps.selected = i - 1)
        /\ tile.hovered = (apps.hovered = i - 1) /\ tile.selected \in BOOLEAN
    BY DEF WellKept, TileOK
  <2>2. CASE i - 1 = index
    <3>1. tiles[i] = Interacted(tile, tile.selected, TRUE)
      BY <1>1, <2>2
    <3>2. TileOK(Interacted(tile, tile.selected, TRUE), mode, tile.selected, TRUE)
      BY <2>1, InteractedOK
    <3>3. (index = i - 1) = TRUE
      BY <2>2
    <3>4. Interacted(tile, tile.selected, TRUE).source = tile.source
      BY <2>1, InteractedSource DEF TileOK
    <3> QED BY <2>1, <3>1, <3>2, <3>3, <3>4
  <2>3. CASE i - 1 # index /\ i - 1 = apps.hovered
    <3>1. tiles[i] = Interacted(tile, tile.selected, FALSE)
      BY <1>1, <2>3
    <3>2. TileOK(Interacted(tile, tile.selected, FALSE), mode, tile.selected, FALSE)
      BY <2>1, InteractedOK
    <3>3. (index = i - 1) = FALSE
      BY <2>3
    <3>4. Interacted(tile, tile.selected, FALSE).source = tile.source
      BY <2>1, InteractedSource DEF TileOK
    <3> QED BY <2>1, <3>1, <3>2, <3>3, <3>4
  <2>4. CASE i - 1 # index /\ i - 1 # apps.hovered
    <3>1. tiles[i] = tile
      BY <1>1, <2>4
    <3>2. tile.hovered = FALSE /\ (index = i - 1) = FALSE
      BY <2>1, <2>4
    <3> QED BY <2>1, <3>1, <3>2
  <2> QED BY <2>2, <2>3, <2>4
<1>4. DOMAIN tiles = 1 .. n /\ tiles = [i \in 1 .. n |-> tiles[i]]
  BY <1>1
<1> HIDE DEF tiles
<1>5. WellKept([tiles |-> tiles, selected |-> apps.selected, hovered |-> index], n, mode)
  BY <1>1, <1>3, <1>4, Assembled
<1> QED BY <1>2, <1>3, <1>5

\* set_pointer_index.
LEMMA PointerOK ==
  ASSUME NEW n, NEW mode, NEW apps, WellKept(apps, n, mode),
         NEW index \in NoIndex .. n - 1
  PROVE  /\ WellKept(SetPointerIndex(apps, index), n, mode)
         /\ SetPointerIndex(apps, index).selected = index
         /\ \A i \in 1 .. n :
              SetPointerIndex(apps, index).tiles[i].source = apps.tiles[i].source
<1> DEFINE tiles == [i \in DOMAIN apps.tiles |->
                       Interacted(apps.tiles[i], i - 1 = index, i - 1 = index)]
<1>1. n \in Nat /\ n <= Cardinality(Sources) /\ DOMAIN apps.tiles = 1 .. n
  BY Parts
<1>2. CASE apps.selected = index /\ apps.hovered = index
  BY <1>2 DEF SetPointerIndex
<1>3. CASE ~(apps.selected = index /\ apps.hovered = index)
  <2>1. ASSUME NEW i \in 1 .. n
        PROVE  /\ TileOK(tiles[i], mode, index = i - 1, index = i - 1)
               /\ tiles[i].source = apps.tiles[i].source
    <3>1. TileOK(apps.tiles[i], mode, apps.tiles[i].selected, apps.tiles[i].hovered)
      BY DEF WellKept, TileOK
    <3>2. tiles[i] = Interacted(apps.tiles[i], index = i - 1, index = i - 1)
      BY <1>1
    <3>3. ASSUME NEW here \in BOOLEAN
          PROVE  TileOK(Interacted(apps.tiles[i], here, here), mode, here, here)
      BY <3>1, InteractedOK
    <3>4. tiles[i].source = apps.tiles[i].source
      BY <3>1, <3>2, InteractedSource DEF TileOK
    <3> QED BY <3>2, <3>3, <3>4
  <2>2. DOMAIN tiles = 1 .. n /\ tiles = [i \in 1 .. n |-> tiles[i]]
    BY <1>1
  <2>3. SetPointerIndex(apps, index) =
          [tiles |-> tiles, selected |-> index, hovered |-> index]
    BY <1>3 DEF SetPointerIndex
  <2> HIDE DEF tiles
  <2>4. WellKept([tiles |-> tiles, selected |-> index, hovered |-> index], n, mode)
    BY <1>1, <2>1, <2>2, Assembled
  <2> QED BY <2>1, <2>3, <2>4
<1> QED BY <1>2, <1>3

-----------------------------------------------------------------------------
(* What is enumerated and built.                                           *)

\* A list of sources, each once, no longer than there are sources.
RowOK(row) ==
  /\ row \in [1 .. Len(row) -> Sources]
  /\ \A i, j \in 1 .. Len(row) : row[i] = row[j] => i = j
  /\ Len(row) \in Nat /\ Len(row) <= Cardinality(Sources)

\* A list of sources is well formed.
LEMMA RowsOK == ASSUME NEW row \in Rows PROVE RowOK(row)
<1>1. PICK n \in 0 .. Cardinality(Sources) :
        /\ row \in [1 .. n -> Sources]
        /\ \A i, j \in 1 .. n : row[i] = row[j] => i = j
  BY DEF Rows
<1>2. n \in Nat /\ n <= Cardinality(Sources)
  BY FS_CardinalityType, SourcesAssumption
<1>3. Len(row) = n
  BY <1>1, <1>2
<1> QED BY <1>1, <1>2, <1>3 DEF RowOK

\* What WindowFinder finds is such a list.
LEMMA FoundOK ==
  ASSUME NEW found \in Found, found # <<>>
  PROVE  RowOK(found) /\ Listed(found) = Offered
BY RowsOK DEF Found

\* What ApplicationWindows::build accepts of a list is such a list.
LEMMA AcceptedOK ==
  ASSUME NEW found, RowOK(found) \/ found = <<>>,
         NEW row \in Accepted(found), row # <<>>
  PROVE  RowOK(row) /\ Len(row) >= 1
<1>1. RowOK(row)
  BY RowsOK DEF Accepted
<1>2. Len(row) # 0
  <2> SUFFICES ASSUME Len(row) = 0 PROVE FALSE
    OBVIOUS
  <2>1. row \in [1 .. 0 -> Sources]
    BY <1>1 DEF RowOK
  <2> QED BY <2>1
<1> QED BY <1>1, <1>2 DEF RowOK

\* The new previews have nothing selected, nothing hovered, nothing missed.
LEMMA BuiltOK ==
  ASSUME NEW row, RowOK(row), closeButtonMode \in CloseButtonModes
  PROVE  /\ WellKept(Built(row), Len(row), closeButtonMode)
         /\ Built(row).selected = NoIndex
         /\ \A i \in 1 .. Len(row) : Built(row).tiles[i].source = row[i]
<1> DEFINE n == Len(row)
           tiles == [i \in DOMAIN row |-> NewTile(row[i], closeButtonMode)]
<1>1. n \in Nat /\ n <= Cardinality(Sources) /\ DOMAIN row = 1 .. n
      /\ \A i \in 1 .. n : row[i] \in Sources
  BY DEF RowOK
<1>2. Built(row) = [tiles |-> tiles, selected |-> NoIndex, hovered |-> NoIndex]
  BY DEF Built, Empty
<1>3. NoIndex \in NoIndex .. n - 1 /\ \A i \in 1 .. n : NoIndex # i - 1
  BY <1>1 DEF NoIndex
<1>4. \A i \in 1 .. n : TileOK(tiles[i], closeButtonMode, NoIndex = i - 1, NoIndex = i - 1)
  BY <1>1, <1>3, NewTileOK
<1>5. DOMAIN tiles = 1 .. n /\ tiles = [i \in 1 .. n |-> tiles[i]]
  BY <1>1
<1>6. \A i \in 1 .. n : tiles[i].source = row[i]
  BY <1>1 DEF NewTile
<1> HIDE DEF tiles
<1>7. WellKept([tiles |-> tiles, selected |-> NoIndex, hovered |-> NoIndex], n,
               closeButtonMode)
  BY <1>1, <1>3, <1>4, <1>5, Assembled
<1> QED BY <1>2, <1>6, <1>7

\* One tile of a collection redrawn.
LEMMA ReplaceOK ==
  ASSUME NEW n, NEW mode, NEW apps, WellKept(apps, n, mode),
         NEW i \in 1 .. n, NEW tile,
         TileOK(tile, mode, apps.tiles[i].selected, apps.tiles[i].hovered)
  PROVE  /\ WellKept([apps EXCEPT !.tiles = [@ EXCEPT ![i] = tile]], n, mode)
         /\ [apps EXCEPT !.tiles = [@ EXCEPT ![i] = tile]].selected = apps.selected
<1> DEFINE tiles == [apps.tiles EXCEPT ![i] = tile]
<1>1. /\ n \in Nat /\ n <= Cardinality(Sources)
      /\ apps.tiles \in [1 .. n -> Tiles]
      /\ apps.selected \in NoIndex .. n - 1 /\ apps.hovered \in NoIndex .. n - 1
      /\ apps = [tiles |-> apps.tiles, selected |-> apps.selected,
                 hovered |-> apps.hovered]
  BY Parts
<1>3. DOMAIN tiles = 1 .. n /\ tiles = [j \in 1 .. n |-> tiles[j]]
      /\ \A j \in 1 .. n : tiles[j] = IF j = i THEN tile ELSE apps.tiles[j]
  BY <1>1
<1>4. ASSUME NEW j \in 1 .. n
      PROVE  TileOK(tiles[j], mode, apps.selected = j - 1, apps.hovered = j - 1)
  BY <1>3 DEF WellKept, TileOK
<1> HIDE DEF tiles
<1>2. [apps EXCEPT !.tiles = tiles] =
        [tiles |-> tiles, selected |-> apps.selected, hovered |-> apps.hovered]
  <2>1. PICK t, s, h : apps = [tiles |-> t, selected |-> s, hovered |-> h]
    BY <1>1
  <2> QED BY <2>1
<1>5. WellKept([tiles |-> tiles, selected |-> apps.selected,
                hovered |-> apps.hovered], n, mode)
  BY <1>1, <1>3, <1>4, Assembled
<1> QED BY <1>2, <1>5 DEF tiles

\* set_pointer_hover keeps the order, the selection and the sources.
LEMMA PointerHoverOK ==
  ASSUME NEW n, NEW apps, WellKept(apps, n, closeButtonMode),
         NEW after \in PointerHover(apps)
  PROVE  /\ WellKept(after, n, closeButtonMode)
         /\ after.selected = apps.selected
         /\ \A i \in 1 .. n : after.tiles[i].source = apps.tiles[i].source
<1>1. CASE after = apps
  BY <1>1
<1>2. ASSUME NEW index \in Indexes(apps), NEW tile,
             closeButtonMode = "HoverOnly" =>
               tile \in BestEffort([apps.tiles[index + 1] EXCEPT !.hovered = TRUE]),
             closeButtonMode # "HoverOnly" =>
               tile = SetHoveredIndex(apps, index).tiles[index + 1],
             after = [SetHoveredIndex(apps, index)
                        EXCEPT !.tiles = [@ EXCEPT ![index + 1] = tile]]
      PROVE  /\ WellKept(after, n, closeButtonMode)
             /\ after.selected = apps.selected
             /\ \A i \in 1 .. n : after.tiles[i].source = apps.tiles[i].source
  <2> DEFINE hovered == SetHoveredIndex(apps, index)
             here == index + 1
             old == apps.tiles[here]
             shown == [old EXCEPT !.hovered = TRUE]
  <2>1. here \in 1 .. n /\ index \in NoIndex .. n - 1 /\ n \in Nat
    BY <1>2, Parts DEF NoIndex
  <2>2. /\ WellKept(hovered, n, closeButtonMode) /\ hovered.selected = apps.selected
        /\ \A i \in 1 .. n : hovered.tiles[i].source = apps.tiles[i].source
    BY <2>1, HoverOK
  <2>3. hovered.hovered = index
    BY DEF SetHoveredIndex
  <2> HIDE DEF hovered
  <2>4. /\ TileOK(old, closeButtonMode, old.selected, old.hovered)
        /\ old.selected = (apps.selected = here - 1)
    BY <2>1 DEF WellKept, TileOK
  <2>5. /\ TileOK(hovered.tiles[here], closeButtonMode, hovered.tiles[here].selected,
                  hovered.tiles[here].hovered)
        /\ hovered.tiles[here].selected = (hovered.selected = here - 1)
        /\ hovered.tiles[here].hovered = (hovered.hovered = here - 1)
    BY <2>1, <2>2 DEF WellKept, TileOK
  <2>6. hovered.tiles[here].hovered = TRUE /\ hovered.tiles[here].selected = old.selected
    <3>1. (hovered.hovered = here - 1) = TRUE
      BY <2>1, <2>3
    <3>2. (hovered.selected = here - 1) = (apps.selected = here - 1)
      BY <2>2
    <3> QED BY <2>4, <2>5, <3>1, <3>2, Zenon
  <2>7. /\ TileOK(tile, closeButtonMode, hovered.tiles[here].selected,
                  hovered.tiles[here].hovered)
        /\ tile.source = old.source
    <3>1. CASE closeButtonMode = "HoverOnly"
      <4>1. /\ shown \in Tiles /\ shown.mode = closeButtonMode
            /\ shown.selected = old.selected /\ shown.hovered = TRUE
            /\ shown.source = old.source
        BY <2>4 DEF TileOK, Tiles
      <4>2. tile \in BestEffort(shown)
        BY <1>2, <3>1
      <4> HIDE DEF shown
      <4>3. TileOK(tile, closeButtonMode, shown.selected, shown.hovered)
        BY <4>1, <4>2, BestEffortOK
      <4>4. tile.source = shown.source
        BY <4>1, <4>2, BestEffortSource
      <4> QED BY <4>1, <4>3, <4>4, <2>6
    <3>2. CASE closeButtonMode # "HoverOnly"
      BY <3>2, <1>2, <2>1, <2>2, <2>5 DEF hovered
    <3> QED BY <3>1, <3>2
  <2>8. after = [hovered EXCEPT !.tiles = [@ EXCEPT ![here] = tile]]
    BY <1>2 DEF hovered
  <2>9. WellKept(after, n, closeButtonMode) /\ after.selected = hovered.selected
    BY <2>1, <2>2, <2>7, <2>8, ReplaceOK
  <2>10. \A i \in 1 .. n :
           after.tiles[i] = IF i = here THEN tile ELSE hovered.tiles[i]
    <3>1. hovered.tiles \in [1 .. n -> Tiles]
          /\ hovered = [tiles |-> hovered.tiles, selected |-> hovered.selected,
                        hovered |-> hovered.hovered]
      BY <2>2, Parts
    <3>2. after.tiles = [hovered.tiles EXCEPT ![here] = tile]
      BY <2>8, <3>1
    <3> QED BY <3>1, <3>2, <2>1
  <2> QED BY <2>1, <2>2, <2>7, <2>9, <2>10
<1>3. \/ after = apps
      \/ \E index \in Indexes(apps) :
           \E tile \in IF closeButtonMode = "HoverOnly"
                          THEN BestEffort([apps.tiles[index + 1]
                                             EXCEPT !.hovered = TRUE])
                          ELSE {SetHoveredIndex(apps, index).tiles[index + 1]} :
             after = [SetHoveredIndex(apps, index)
                        EXCEPT !.tiles = [@ EXCEPT ![index + 1] = tile]]
  BY DEF PointerHover
<1> QED BY <1>1, <1>2, <1>3

\* Selecting changes no source.
LEMMA SelectSources ==
  ASSUME NEW n, NEW mode, NEW apps, WellKept(apps, n, mode),
         NEW index \in NoIndex .. n - 1, NEW i \in 1 .. n
  PROVE  SelectByIndex(apps, index).tiles[i].source = apps.tiles[i].source
<1> DEFINE tile == apps.tiles[i]
<1>1. tile \in Tiles /\ i \in DOMAIN apps.tiles
  BY Parts
<1>2. SelectByIndex(apps, index).tiles[i] \in
        {tile, Interacted(tile, TRUE, tile.hovered), Interacted(tile, FALSE, tile.hovered)}
  BY <1>1 DEF SelectByIndex
<1>3. Interacted(tile, TRUE, tile.hovered).source = tile.source
  BY <1>1, InteractedSource
<1>4. Interacted(tile, FALSE, tile.hovered).source = tile.source
  BY <1>1, InteractedSource
<1> QED BY <1>2, <1>3, <1>4

\* While no preview is replaced, nothing is said of the user's choice.
LEMMA SameRow ==
  ASSUME NEW n, NEW m, NEW k, WellKept(applications, n, m), WellKept(applications', n, k),
         \A i \in 1 .. n : applications'.tiles[i].source = applications.tiles[i].source
  PROVE  ChoiceKept
<1>1. DOMAIN applications.tiles = 1 .. n /\ DOMAIN applications'.tiles = 1 .. n
  BY Parts
<1>2. Row(applications') = Row(applications)
  BY <1>1 DEF Row
<1> QED BY <1>2 DEF ChoiceKept

-----------------------------------------------------------------------------
(* The two ways a handler ends.                                            *)

\* In a visible session there are well-kept previews, the timer runs and the
\* controller has counted them.
LEMMA InSession ==
  ASSUME IInv, state = "Visible"
  PROVE  \E n \in Nat : /\ WellKept(applications, n, closeButtonMode)
                        /\ n >= 1 /\ candidateCount = n /\ refreshTimer = TRUE
<1>1. PICK n \in Nat : WellKept(applications, n, closeButtonMode)
  BY DEF IInv, Kept
<1>2. Count(applications) = n /\ applications.tiles \in [1 .. n -> Tiles]
  BY <1>1, Parts DEF Count
<1>3. applications.tiles # <<>> /\ refreshTimer = TRUE
  BY DEF IInv, WatchedWhileShown, Rest
<1>4. n # 0
  BY <1>2, <1>3
<1> QED BY <1>1, <1>2, <1>3, <1>4 DEF IInv, Agree

\* The session is closed: nothing of it is left.
LEMMA ClosesOK ==
  ASSUME IInv, Close, UNCHANGED <<closeButtonMode, windows>>
  PROVE  IInv' /\ StepOK
<1>1. applications' = Empty /\ Count(applications') = 0
      /\ applications'.selected = NoIndex /\ applications'.tiles = <<>>
  BY DEF Close, Empty, Count
<1>2. Kept'
  <2>1. WellKept(applications', 0, closeButtonMode')
    BY <1>1, EmptyOK
  <2> QED BY <2>1 DEF Kept
<1>3. Agree'
  BY <1>1 DEF Agree, Close, Count
<1>4. Rest'
  <2>1. state' = "Idle" /\ refreshTimer' = FALSE /\ pendingCloses' = {}
        /\ evidenceTicks' = 0
    BY DEF Close, NoEvidence
  <2>2. closeButtonMode' \in CloseButtonModes /\ windows' \in [Sources -> Fates]
    BY DEF IInv, Rest
  <2>3. pendingCloses' \subseteq Sources
    BY <2>1
  <2>4. evidenceTicks' \in 0 .. 3
    BY <2>1
  <2>5. refreshTimer' \in BOOLEAN /\ state' \in {"Idle", "Visible"}
    BY <2>1
  <2> QED BY <2>2, <2>3, <2>4, <2>5 DEF Rest
<1>5. WatchedWhileShown'
  BY <1>1 DEF WatchedWhileShown, Close, NoEvidence
<1>6. Port!Close
  BY <1>1 DEF Port!Close, Port!Shows, Port!NoIndex, Close, NoIndex, Count
<1>7. ChoiceKept
  BY <1>1 DEF ChoiceKept, SelectedSource
<1> QED BY <1>2, <1>3, <1>4, <1>5, <1>6, <1>7 DEF IInv, StepOK, PortStep, Port!Next

\* A collection in order is published, and the controller selects in it.
LEMMA PublishesOK ==
  ASSUME IInv, NEW n \in Nat, n >= 1, NEW apps, WellKept(apps, n, closeButtonMode),
         applications' = apps, selectedIndex' = apps.selected,
         candidateCount' = n,
         state' = "Visible", refreshTimer' = TRUE,
         pendingCloses' \subseteq Sources, evidenceTicks' \in 0 .. 3,
         UNCHANGED <<closeButtonMode, windows>>
  PROVE  IInv' /\ Port!Shows(n, apps.selected)
<1>1. Len(apps.tiles) = n /\ apps.tiles # <<>>
  <2>1. Len(apps.tiles) = n
    BY Parts
  <2> QED BY <2>1
<1>2. Kept'
  <2>1. WellKept(applications', n, closeButtonMode')
    OBVIOUS
  <2> QED BY <2>1 DEF Kept
<1>3. Agree'
  BY <1>1 DEF Agree, Count
<1>4. Rest'
  BY DEF IInv, Rest
<1>5. WatchedWhileShown'
  BY <1>1 DEF WatchedWhileShown
<1>6. Port!Shows(n, apps.selected)
  BY <1>1 DEF Port!Shows, Count
<1> QED BY <1>2, <1>3, <1>4, <1>5, <1>6 DEF IInv

\* The same previews, drawn or not: nothing the controller would notice.
LEMMA RedrawsOK ==
  ASSUME IInv, NEW n \in Nat, WellKept(applications, n, closeButtonMode),
         WellKept(applications', n, closeButtonMode'),
         applications'.selected = applications.selected,
         \A i \in 1 .. n : applications'.tiles[i].source = applications.tiles[i].source,
         UNCHANGED <<controller, pendingCloses, refreshTimer>>,
         Rest', evidenceTicks' = evidenceTicks \/ state = "Visible"
  PROVE  IInv' /\ StepOK
<1>1. /\ Len(applications.tiles) = n /\ Len(applications'.tiles) = n
      /\ applications.selected \in NoIndex .. n - 1
  BY Parts
<1>2. ChoiceKept
  BY SameRow
<1>3. Kept'
  BY DEF Kept
<1>4. Agree'
  BY <1>1 DEF IInv, Agree, Count, controller
<1>5. applications'.tiles # <<>> <=> applications.tiles # <<>>
  BY <1>1, Parts
<1>6. WatchedWhileShown'
  BY <1>5 DEF IInv, WatchedWhileShown, controller
<1>7. UNCHANGED Port!session
  BY <1>1 DEF Port!session, controller, Count
<1> QED BY <1>2, <1>3, <1>4, <1>6, <1>7 DEF IInv, StepOK, PortStep

-----------------------------------------------------------------------------
(* The handlers.                                                           *)

\* The selection moves among the previews, or away from them.
LEMMA MovesOK ==
  ASSUME IInv, Visible, NEW n \in Nat, n >= 1, candidateCount = n,
         WellKept(applications, n, closeButtonMode),
         NEW apps, WellKept(apps, n, closeButtonMode),
         \A i \in 1 .. n : apps.tiles[i].source = applications.tiles[i].source,
         Publish(apps, apps.selected), UNCHANGED <<state, candidateCount>>,
         refreshTimer' = TRUE, pendingCloses' \subseteq Sources,
         evidenceTicks' \in 0 .. 3
  PROVE  IInv' /\ StepOK
<1>1. IInv' /\ Port!Shows(n, apps.selected)
  BY PublishesOK DEF Publish, Visible
<1>2. apps.selected \in Port!NoIndex .. candidateCount - 1
  BY Parts DEF NoIndex, Port!NoIndex
<1>3. Port!Select
  BY <1>1, <1>2 DEF Port!Select, Visible
<1>4. ChoiceKept
  BY SameRow DEF Publish, Visible
<1> QED BY <1>1, <1>3, <1>4 DEF StepOK, PortStep, Port!Next

\* Selecting keeps the invariant and is a step of the port.
LEMMA ChooseOK ==
  ASSUME IInv, Visible, NEW index \in Indexes(applications) \cup {NoIndex},
         Choose(index)
  PROVE  IInv' /\ StepOK
<1>1. PICK n \in Nat : /\ WellKept(applications, n, closeButtonMode)
                       /\ n >= 1 /\ candidateCount = n /\ refreshTimer = TRUE
  BY InSession DEF Visible
<1>2. index \in NoIndex .. n - 1
  BY <1>1, Parts DEF NoIndex
<1>3. CASE /\ Publish(SelectByIndex(applications, index), index)
           /\ UNCHANGED <<state, candidateCount, watch>>
  <2> DEFINE apps == SelectByIndex(applications, index)
  <2>1. /\ WellKept(apps, n, closeButtonMode) /\ apps.selected = index
        /\ \A i \in 1 .. n : apps.tiles[i].source = applications.tiles[i].source
    BY <1>1, <1>2, SelectOK, SelectSources
  <2>2. Publish(apps, apps.selected)
    BY <1>3, <2>1
  <2>3. /\ UNCHANGED <<state, candidateCount>> /\ refreshTimer' = TRUE
        /\ pendingCloses' \subseteq Sources /\ evidenceTicks' \in 0 .. 3
    BY <1>1, <1>3 DEF IInv, Rest, watch
  <2> HIDE DEF apps
  <2> QED BY <1>1, <2>1, <2>2, <2>3, MovesOK
<1>4. CASE FailAndClose
  BY <1>4, ClosesOK DEF FailAndClose, Visible
<1> QED BY <1>3, <1>4 DEF Choose

\* Pointing keeps the invariant and is a step of the port.
LEMMA PointerMoveOK ==
  ASSUME IInv, NEW index \in Indexes(applications) \cup {NoIndex}, PointerMove(index)
  PROVE  IInv' /\ StepOK
<1>0. Visible
  BY DEF PointerMove
<1>1. PICK n \in Nat : /\ WellKept(applications, n, closeButtonMode)
                       /\ n >= 1 /\ candidateCount = n /\ refreshTimer = TRUE
  BY <1>0, InSession DEF Visible
<1>2. index \in NoIndex .. n - 1
  BY <1>1, Parts DEF NoIndex
<1>3. CASE /\ Publish(SetPointerIndex(applications, index), index)
           /\ UNCHANGED <<state, candidateCount, watch>>
  <2> DEFINE apps == SetPointerIndex(applications, index)
  <2>1. /\ WellKept(apps, n, closeButtonMode) /\ apps.selected = index
        /\ \A i \in 1 .. n : apps.tiles[i].source = applications.tiles[i].source
    BY <1>1, <1>2, PointerOK
  <2>2. Publish(apps, apps.selected)
    BY <1>3, <2>1
  <2>3. /\ UNCHANGED <<state, candidateCount>> /\ refreshTimer' = TRUE
        /\ pendingCloses' \subseteq Sources /\ evidenceTicks' \in 0 .. 3
    BY <1>1, <1>3 DEF IInv, Rest, watch
  <2> HIDE DEF apps
  <2> QED BY <1>0, <1>1, <2>1, <2>2, <2>3, MovesOK
<1>4. CASE FailAndClose
  BY <1>0, <1>4, ClosesOK DEF FailAndClose, Visible
<1> QED BY <1>3, <1>4 DEF PointerMove

\* Leaving a tile keeps the invariant and is a step of the port.
LEMMA PointerLeaveOK ==
  ASSUME IInv, PointerLeave
  PROVE  IInv' /\ StepOK
<1>0. Visible
  BY DEF PointerLeave
<1>1. PICK n \in Nat : WellKept(applications, n, closeButtonMode)
  BY DEF IInv, Kept
<1>2. CASE /\ applications' = SetHoveredIndex(applications, NoIndex)
           /\ UNCHANGED <<controller, watch>>
  <2>1. NoIndex \in NoIndex .. n - 1
    BY DEF NoIndex
  <2>2. /\ WellKept(applications', n, closeButtonMode')
        /\ applications'.selected = applications.selected
        /\ \A i \in 1 .. n : applications'.tiles[i].source = applications.tiles[i].source
    BY <1>0, <1>1, <1>2, <2>1, HoverOK DEF Visible
  <2>3. Rest' /\ UNCHANGED <<controller, pendingCloses, refreshTimer, evidenceTicks>>
    BY <1>0, <1>2 DEF IInv, Rest, Visible, controller, watch
  <2> QED BY <1>1, <2>2, <2>3, RedrawsOK
<1>3. CASE FailAndClose
  BY <1>0, <1>3, ClosesOK DEF FailAndClose, Visible
<1> QED BY <1>2, <1>3 DEF PointerLeave

\* A click on a close button keeps the invariant and is a step of the port.
LEMMA RequestCloseOK ==
  ASSUME IInv, NEW index \in Indexes(applications), RequestClose(index)
  PROVE  IInv' /\ StepOK
<1>0. Visible
  BY DEF RequestClose
<1>1. PICK n \in Nat : /\ WellKept(applications, n, closeButtonMode)
                       /\ n >= 1 /\ candidateCount = n /\ refreshTimer = TRUE
  BY <1>0, InSession DEF Visible
<1> DEFINE target == SourceAt(applications, index)
<1>2. target \in Sources
  <2>1. index + 1 \in 1 .. n
    BY <1>1, Parts
  <2> QED BY <1>1, <2>1, Parts DEF SourceAt, TileOK, Tiles
<1>3. CASE /\ pendingCloses' = pendingCloses \cup {target}
           /\ refreshTimer' = TRUE
           /\ Publish(SelectByIndex(applications, NoIndex), NoIndex)
           /\ UNCHANGED <<state, candidateCount, evidenceTicks>>
  <2> DEFINE apps == SelectByIndex(applications, NoIndex)
  <2>1. NoIndex \in NoIndex .. n - 1
    BY DEF NoIndex
  <2>2. /\ WellKept(apps, n, closeButtonMode) /\ apps.selected = NoIndex
        /\ \A i \in 1 .. n : apps.tiles[i].source = applications.tiles[i].source
    <3>1. WellKept(apps, n, closeButtonMode) /\ apps.selected = NoIndex
      BY <1>1, <2>1, SelectOK
    <3>2. \A i \in 1 .. n : apps.tiles[i].source = applications.tiles[i].source
      BY <1>1, <2>1, SelectSources
    <3> QED BY <3>1, <3>2
  <2>3. Publish(apps, apps.selected)
    BY <1>3, <2>2
  <2>4. /\ UNCHANGED <<state, candidateCount>> /\ refreshTimer' = TRUE
        /\ pendingCloses' \subseteq Sources /\ evidenceTicks' \in 0 .. 3
    BY <1>2, <1>3 DEF IInv, Rest
  <2> HIDE DEF apps
  <2> QED BY <1>0, <1>1, <2>2, <2>3, <2>4, MovesOK
<1>4. CASE Choose(NoIndex)
  BY <1>0, <1>4, ChooseOK
<1>5. CASE FailAndClose
  BY <1>0, <1>5, ClosesOK DEF FailAndClose, Visible
<1> QED BY <1>3, <1>4, <1>5 DEF RequestClose

\* A click on a preview keeps the invariant and closes the port.
LEMMA SelectAndCommitOK ==
  ASSUME IInv, NEW index \in Indexes(applications), SelectAndCommit(index)
  PROVE  IInv' /\ StepOK
BY ClosesOK, ChooseOK DEF SelectAndCommit, Visible

\* A change of the close button mode keeps the invariant.
LEMMA ModeOK ==
  ASSUME IInv, NEW mode \in CloseButtonModes, SetCloseButtonMode(mode)
  PROVE  IInv' /\ StepOK
<1>1. PICK n \in Nat : WellKept(applications, n, closeButtonMode)
  BY DEF IInv, Kept
<1>2. /\ n <= Cardinality(Sources) /\ DOMAIN applications.tiles = 1 .. n
      /\ applications.selected \in NoIndex .. n - 1
      /\ applications.hovered \in NoIndex .. n - 1
      /\ applications = [tiles |-> applications.tiles,
                         selected |-> applications.selected,
                         hovered |-> applications.hovered]
  BY <1>1, Parts
<1>3. PICK tiles :
        /\ DOMAIN tiles = 1 .. n /\ tiles = [i \in 1 .. n |-> tiles[i]]
        /\ \A i \in 1 .. n :
             tiles[i] \in BestEffort([applications.tiles[i] EXCEPT !.mode = mode])
        /\ applications' = [applications EXCEPT !.tiles = tiles]
  BY <1>2 DEF SetCloseButtonMode
<1>4. applications' = [tiles |-> tiles, selected |-> applications.selected,
                       hovered |-> applications.hovered]
  <2>1. PICK t, s, h : applications = [tiles |-> t, selected |-> s, hovered |-> h]
    BY <1>2
  <2> QED BY <1>3, <2>1
<1>5. ASSUME NEW i \in 1 .. n
      PROVE  /\ TileOK(tiles[i], mode, applications.selected = i - 1,
                                       applications.hovered = i - 1)
             /\ tiles[i].source = applications.tiles[i].source
  <2> DEFINE old == applications.tiles[i]
             next == [old EXCEPT !.mode = mode]
  <2>1. old \in Tiles /\ old.selected = (applications.selected = i - 1)
        /\ old.hovered = (applications.hovered = i - 1)
    BY <1>1 DEF WellKept, TileOK
  <2>2. /\ next \in Tiles /\ next.mode = mode /\ next.selected = old.selected
        /\ next.hovered = old.hovered /\ next.source = old.source
    BY <2>1 DEF Tiles
  <2>3. tiles[i] \in BestEffort(next)
    BY <1>3
  <2> HIDE DEF next
  <2>4. TileOK(tiles[i], mode, next.selected, next.hovered)
    BY <2>2, <2>3, BestEffortOK
  <2>5. tiles[i].source = next.source
    BY <2>2, <2>3, BestEffortSource
  <2> QED BY <2>1, <2>2, <2>4, <2>5
<1>6. WellKept([tiles |-> tiles, selected |-> applications.selected,
                hovered |-> applications.hovered], n, mode)
  BY <1>2, <1>3, <1>5, Assembled
<1>7. mode = closeButtonMode'
  BY DEF SetCloseButtonMode
<1>8. Rest' /\ UNCHANGED <<controller, pendingCloses, refreshTimer, evidenceTicks>>
  BY <1>7 DEF IInv, Rest, SetCloseButtonMode, controller, watch
<1>9. WellKept(applications', n, closeButtonMode')
  BY <1>4, <1>6, <1>7
<1>10. /\ applications'.selected = applications.selected
       /\ \A i \in 1 .. n : applications'.tiles[i].source = applications.tiles[i].source
  BY <1>4, <1>5
<1> QED BY <1>1, <1>8, <1>9, <1>10, RedrawsOK

\* An icon that arrives keeps the invariant.
LEMMA IconOK ==
  ASSUME IInv, NEW index \in Indexes(applications), IconChanged(index)
  PROVE  IInv' /\ StepOK
<1>1. PICK n \in Nat : WellKept(applications, n, closeButtonMode)
  BY DEF IInv, Kept
<1> DEFINE here == index + 1
           old == applications.tiles[here]
<1>2. here \in 1 .. n
  BY <1>1, Parts
<1>3. PICK tile \in BestEffort(old) :
        applications' = [applications EXCEPT !.tiles = [@ EXCEPT ![here] = tile]]
  BY DEF IconChanged
<1>4. TileOK(old, closeButtonMode, old.selected, old.hovered)
  BY <1>1, <1>2, Parts
<1>5. TileOK(tile, closeButtonMode, old.selected, old.hovered) /\ tile.source = old.source
  BY <1>3, <1>4, BestEffortOK, BestEffortSource DEF TileOK
<1>6. UNCHANGED <<closeButtonMode, windows, controller, watch>>
  BY DEF IconChanged, Visible
<1>7. /\ WellKept(applications', n, closeButtonMode')
      /\ applications'.selected = applications.selected
  BY <1>1, <1>2, <1>3, <1>5, <1>6, ReplaceOK
<1>8. \A i \in 1 .. n : applications'.tiles[i].source = applications.tiles[i].source
  <2>1. applications.tiles \in [1 .. n -> Tiles]
        /\ applications = [tiles |-> applications.tiles,
                           selected |-> applications.selected,
                           hovered |-> applications.hovered]
    BY <1>1, Parts
  <2>2. applications'.tiles = [applications.tiles EXCEPT ![here] = tile]
    BY <1>3, <2>1
  <2> QED BY <1>2, <1>5, <2>1, <2>2
<1>9. Rest' /\ UNCHANGED <<controller, pendingCloses, refreshTimer, evidenceTicks>>
  BY <1>6 DEF IInv, Rest, controller, watch
<1> QED BY <1>1, <1>7, <1>8, <1>9, RedrawsOK

\* The windows of others change; nothing of the session does.
LEMMA WindowOK ==
  ASSUME IInv, NEW source \in Sources, NEW fate \in Fates, WindowChanges(source, fate)
  PROVE  IInv' /\ StepOK
<1>1. PICK n \in Nat : WellKept(applications, n, closeButtonMode)
  BY DEF IInv, Kept
<1>2. UNCHANGED <<controller, applications, closeButtonMode, watch>>
      /\ windows' \in [Sources -> Fates]
  BY DEF WindowChanges, IInv, Rest
<1>3. Rest' /\ UNCHANGED <<controller, pendingCloses, refreshTimer, evidenceTicks>>
  BY <1>2 DEF IInv, Rest, controller, watch
<1>4. /\ WellKept(applications', n, closeButtonMode')
      /\ applications'.selected = applications.selected
      /\ \A i \in 1 .. n : applications'.tiles[i].source = applications.tiles[i].source
  BY <1>1, <1>2
<1> QED BY <1>1, <1>3, <1>4, RedrawsOK

\* A refresh that finds nothing to do keeps the invariant.
LEMMA RefreshKeepsOK == ASSUME IInv, RefreshKeeps PROVE IInv' /\ StepOK
<1>0. Visible
  BY DEF RefreshKeeps, TimerTick
<1>1. PICK n \in Nat : WellKept(applications, n, closeButtonMode)
  BY DEF IInv, Kept
<1>2. UNCHANGED <<controller, applications, closeButtonMode, pendingCloses,
                  refreshTimer, windows>> /\ state = "Visible"
  BY <1>0 DEF RefreshKeeps, Visible
<1>3. evidenceTicks' \in 0 .. 3
  BY DEF RefreshKeeps, Ticks, EmptyConfirmationTicks, IInv, Rest
<1>4. Rest'
  BY <1>2, <1>3 DEF IInv, Rest, controller
<1>5. /\ WellKept(applications', n, closeButtonMode')
      /\ applications'.selected = applications.selected
      /\ \A i \in 1 .. n : applications'.tiles[i].source = applications.tiles[i].source
  BY <1>1, <1>2
<1> QED BY <1>1, <1>2, <1>4, <1>5, RedrawsOK

\* The previews are replaced by those of another list: as many as it is long,
\* none of them selected.
LEMMA ReplacesOK == ASSUME IInv, RefreshReplaces PROVE IInv' /\ StepOK
<1>0. Visible /\ refreshTimer
  BY DEF RefreshReplaces, TimerTick
<1>1. PICK found \in Found \ {<<>>} : \E row \in Accepted(found) :
        IF row = <<>> THEN Close
        ELSE /\ \E apps \in PointerHover(Built(row)) : Publish(apps, NoIndex)
             /\ candidateCount' = Len(row)
             /\ evidenceTicks' = 0
             /\ pendingCloses' = pendingCloses \cap Listed(found)
             /\ UNCHANGED <<state, refreshTimer>>
  BY DEF RefreshReplaces
<1>2. PICK row \in Accepted(found) :
        IF row = <<>> THEN Close
        ELSE /\ \E apps \in PointerHover(Built(row)) : Publish(apps, NoIndex)
             /\ candidateCount' = Len(row)
             /\ evidenceTicks' = 0
             /\ pendingCloses' = pendingCloses \cap Listed(found)
             /\ UNCHANGED <<state, refreshTimer>>
  BY <1>1
<1>3. CASE row = <<>>
  BY <1>0, <1>2, <1>3, ClosesOK DEF Visible
<1>4. CASE row # <<>>
  <2>1. RowOK(row) /\ Len(row) >= 1
    BY <1>1, <1>2, <1>4, FoundOK, AcceptedOK
  <2>2. PICK apps \in PointerHover(Built(row)) : Publish(apps, NoIndex)
    BY <1>2, <1>4
  <2>3. WellKept(apps, Len(row), closeButtonMode) /\ apps.selected = NoIndex
    <3>1. /\ WellKept(Built(row), Len(row), closeButtonMode)
          /\ Built(row).selected = NoIndex
      BY <2>1, BuiltOK DEF IInv, Rest
    <3> QED BY <2>2, <3>1, PointerHoverOK
  <2>4. /\ Len(row) \in Nat /\ candidateCount' = Len(row) /\ evidenceTicks' \in 0 .. 3
        /\ pendingCloses' \subseteq Sources /\ state' = "Visible"
        /\ refreshTimer' = TRUE
    BY <1>0, <1>2, <1>4, <2>1 DEF RowOK, IInv, Rest, Visible
  <2>5. IInv' /\ Port!Shows(Len(row), NoIndex)
    BY <1>0, <2>1, <2>2, <2>3, <2>4, PublishesOK DEF Publish, Visible
  <2>6. Len(row) \in 1 .. Cardinality(Sources)
    BY <2>1, FS_CardinalityType, SourcesAssumption DEF RowOK
  <2>7. Port!Replace
    BY <1>0, <2>5, <2>6 DEF Port!Replace, Port!NoIndex, NoIndex, Visible
  <2>8. ChoiceKept
    BY <2>2, <2>3 DEF ChoiceKept, SelectedSource, Publish
  <2> QED BY <2>5, <2>7, <2>8 DEF StepOK, PortStep, Port!Next
<1> QED BY <1>3, <1>4

\* A session is opened over the first of its previews.
LEMMA OpenOK == ASSUME IInv, Open PROVE IInv' /\ StepOK
<1>0. state = "Idle" /\ UNCHANGED <<windows, closeButtonMode>>
  BY DEF Open
<1>1. CASE Close
  BY <1>0, <1>1, ClosesOK
<1>2. ASSUME NEW found \in Found, NEW row \in Accepted(found), row # <<>>,
             NEW apps \in PointerHover(Built(row)),
             Publish(SelectByIndex(apps, 0), 0), candidateCount' = Len(row),
             state' = "Visible", refreshTimer' = TRUE, NoEvidence
      PROVE  IInv' /\ StepOK
  <2> DEFINE opened == SelectByIndex(apps, 0)
  <2>1. RowOK(row) /\ Len(row) >= 1 /\ Len(row) \in Nat
    <3>1. RowOK(found) \/ found = <<>>
      BY FoundOK, Zenon
    <3> QED BY <1>2, <3>1, AcceptedOK DEF RowOK
  <2>2. WellKept(apps, Len(row), closeButtonMode)
    <3>1. WellKept(Built(row), Len(row), closeButtonMode)
      BY <2>1, BuiltOK DEF IInv, Rest
    <3> QED BY <3>1, PointerHoverOK
  <2>3. WellKept(opened, Len(row), closeButtonMode) /\ opened.selected = 0
    <3>1. 0 \in NoIndex .. Len(row) - 1
      BY <2>1 DEF NoIndex
    <3> QED BY <2>2, <3>1, SelectOK
  <2>4. applications' = opened /\ selectedIndex' = 0
    BY <1>2 DEF Publish
  <2>5. pendingCloses' \subseteq Sources /\ evidenceTicks' \in 0 .. 3
    <3>1. pendingCloses' = {} /\ evidenceTicks' = 0
      BY <1>2 DEF NoEvidence
    <3> QED BY <3>1
  <2> HIDE DEF opened
  <2>6. IInv' /\ Port!Shows(Len(row), 0)
    BY <1>0, <1>2, <2>1, <2>3, <2>4, <2>5, PublishesOK
  <2>7. Len(row) \in 1 .. Cardinality(Sources)
    BY <2>1, FS_CardinalityType, SourcesAssumption DEF RowOK
  <2>8. Port!Open
    BY <1>0, <2>6, <2>7 DEF Port!Open
  <2>9. ChoiceKept
    BY <1>0 DEF ChoiceKept
  <2> QED BY <2>6, <2>8, <2>9 DEF StepOK, PortStep, Port!Next
<1> QED BY <1>1, <1>2 DEF Open

\* As many elements are listed as there are places.
LEMMA DistinctCount ==
  ASSUME NEW k \in Nat, NEW row, \A i, j \in 1 .. k : row[i] = row[j] => i = j
  PROVE  Cardinality({row[i] : i \in 1 .. k}) = k
<1> DEFINE S == {row[i] : i \in 1 .. k}
           f == [i \in 1 .. k |-> row[i]]
<1>1. f \in Bijection(1 .. k, S)
  BY Fun_IsBij
<1>2. ExistsBijection(1 .. k, S)
  BY <1>1, Fun_ExistsBij
<1> QED BY <1>2, FS_CountingElements

\* A list in the order of another, with the same elements, has each of them at
\* the same place: as many come before it in the one as in the other.
LEMMA SamePlaces ==
  ASSUME NEW a, RowOK(a), NEW b, RowOK(b), Listed(a) = Listed(b),
         \A i, j \in DOMAIN a : i < j =>
           \E p, q \in DOMAIN b : p < q /\ b[p] = a[i] /\ b[q] = a[j],
         NEW place \in 1 .. Len(b)
  PROVE  place \in 1 .. Len(a) /\ a[place] = b[place]
<1>1. /\ DOMAIN a = 1 .. Len(a) /\ Len(a) \in Nat
      /\ DOMAIN b = 1 .. Len(b) /\ Len(b) \in Nat
      /\ \A i, j \in 1 .. Len(a) : a[i] = a[j] => i = j
      /\ \A i, j \in 1 .. Len(b) : b[i] = b[j] => i = j
  BY DEF RowOK
<1>a. ASSUME NEW p \in 1 .. Len(b) PROVE \E i \in 1 .. Len(a) : a[i] = b[p]
  <2>1. b[p] \in Listed(b)
    BY <1>1 DEF Listed
  <2>2. b[p] \in Listed(a)
    BY <2>1
  <2> QED BY <1>1, <2>2 DEF Listed
<1>2. PICK here \in 1 .. Len(a) : a[here] = b[place]
  BY <1>a
<1> DEFINE before == {a[i] : i \in 1 .. here - 1}
           prior  == {b[i] : i \in 1 .. place - 1}
<1>3. ASSUME NEW i \in 1 .. here - 1 PROVE a[i] \in prior
  <2>1. i \in DOMAIN a /\ here \in DOMAIN a /\ i < here
    BY <1>1, <1>2
  <2>2. PICK p, q \in DOMAIN b : p < q /\ b[p] = a[i] /\ b[q] = a[here]
    BY <2>1
  <2>3. q = place /\ p \in 1 .. place - 1
    BY <1>1, <1>2, <2>2
  <2> QED BY <2>2, <2>3
<1>4. ASSUME NEW p \in 1 .. place - 1 PROVE b[p] \in before
  <2>1. p \in 1 .. Len(b) /\ p \in DOMAIN b /\ b[p] # b[place]
    BY <1>1
  <2>2. PICK j \in DOMAIN a : a[j] = b[p]
    BY <1>1, <1>a, <2>1
  <2>3. j # here
    BY <1>2, <2>1, <2>2
  <2>4. ~(here < j)
    <3> SUFFICES ASSUME here < j PROVE FALSE
      OBVIOUS
    <3>1. PICK r, t \in DOMAIN b : r < t /\ b[r] = a[here] /\ b[t] = a[j]
      BY <1>1, <1>2, <2>2
    <3>2. r = place /\ t = p
      BY <1>1, <1>2, <2>1, <2>2, <3>1
    <3> QED BY <3>1, <3>2
  <2>5. j \in 1 .. here - 1
    BY <1>1, <2>2, <2>3, <2>4
  <2> QED BY <2>2, <2>5
<1>5. before = prior
  BY <1>3, <1>4
<1>6. here - 1 \in Nat /\ Cardinality(before) = here - 1
  <2> DEFINE k == here - 1
  <2>1. k \in Nat /\ \A i, j \in 1 .. k : a[i] = a[j] => i = j
    BY <1>1
  <2> HIDE DEF k
  <2>2. Cardinality({a[i] : i \in 1 .. k}) = k
    BY <2>1, DistinctCount
  <2> QED BY <2>1, <2>2 DEF k
<1>7. place - 1 \in Nat /\ Cardinality(prior) = place - 1
  <2> DEFINE k == place - 1
  <2>1. k \in Nat /\ \A i, j \in 1 .. k : b[i] = b[j] => i = j
    BY <1>1
  <2> HIDE DEF k
  <2>2. Cardinality({b[i] : i \in 1 .. k}) = k
    BY <2>1, DistinctCount
  <2> QED BY <2>1, <2>2 DEF k
<1> HIDE DEF before, prior
<1>8. here = place
  BY <1>5, <1>6, <1>7
<1> QED BY <1>2, <1>8

\* The list in which the selected source has its old place, and that it has it.
LEMMA SwappedOK ==
  ASSUME IInv, NEW found, RowOK(found)
  PROVE  /\ RowOK(Swapped(found)) /\ Len(Swapped(found)) = Len(found)
         /\ Listed(Swapped(found)) = Listed(found)
         /\ SelectedSource(applications) \in Listed(found) =>
              /\ applications.selected # NoIndex
              /\ applications.selected + 1 \in DOMAIN found =>
                   Swapped(found)[applications.selected + 1] = SelectedSource(applications)
<1> DEFINE source == SelectedSource(applications)
           place == applications.selected + 1
           n == Len(found)
           from == CHOOSE i \in DOMAIN found : found[i] = source
           exchanged == [found EXCEPT ![place] = source, ![from] = found[place]]
<1>1. n \in Nat /\ found \in [1 .. n -> Sources] /\ DOMAIN found = 1 .. n
      /\ n <= Cardinality(Sources)
      /\ \A i, j \in 1 .. n : found[i] = found[j] => i = j
  BY DEF RowOK
<1>2. applications.selected \in Int /\ applications.selected >= NoIndex
  <2>1. PICK m \in Nat : WellKept(applications, m, closeButtonMode)
    BY DEF IInv, Kept
  <2> QED BY <2>1, Parts DEF NoIndex
<1>3. source \in Listed(found) => source \in Sources /\ applications.selected # NoIndex
  BY <1>1, SourcesAssumption DEF Listed, SelectedSource
<1>4. source \in Listed(found) => from \in 1 .. n /\ found[from] = source
  BY <1>1 DEF Listed
<1>5. CASE source \in Listed(found) /\ place <= n
  <2>1. place \in 1 .. n
    BY <1>1, <1>2, <1>3, <1>5 DEF NoIndex
  <2>2. from \in 1 .. n /\ found[from] = source /\ source \in Sources
    BY <1>3, <1>4, <1>5
  <2>3. Swapped(found) = exchanged
    BY <1>5 DEF Swapped
  <2> HIDE DEF from, source, place
  <2>4. exchanged \in [1 .. n -> Sources]
    BY <1>1, <2>1, <2>2
  <2>5. exchanged[place] = source
    BY <1>1, <2>1, <2>2
  <2>6. Len(exchanged) = n /\ DOMAIN exchanged = 1 .. n
    BY <1>1, <2>4
  <2>7. \A i \in 1 .. n : exchanged[i] = IF i = from THEN found[place]
                                        ELSE IF i = place THEN found[from]
                                        ELSE found[i]
    BY <1>1, <2>1, <2>2
  <2>8. \A i, j \in 1 .. n : exchanged[i] = exchanged[j] => i = j
    BY <1>1, <2>1, <2>2, <2>7
  <2>9. Listed(exchanged) = Listed(found)
    <3>1. \A i \in 1 .. n : \E j \in 1 .. n : exchanged[i] = found[j]
      BY <2>1, <2>2, <2>7
    <3>2. ASSUME NEW i \in 1 .. n PROVE \E j \in 1 .. n : exchanged[j] = found[i]
      <4>1. CASE i = from
        BY <2>1, <2>2, <2>7, <4>1
      <4>2. CASE i = place
        BY <2>1, <2>2, <2>7, <4>2
      <4>3. CASE i # from /\ i # place
        BY <2>7, <4>3
      <4> QED BY <4>1, <4>2, <4>3
    <3>3. /\ Listed(exchanged) = {exchanged[i] : i \in 1 .. n}
          /\ Listed(found) = {found[i] : i \in 1 .. n}
      BY <1>1, <2>6 DEF Listed
    <3> HIDE DEF exchanged
    <3> QED BY <3>1, <3>2, <3>3
  <2> QED BY <1>1, <1>3, <2>3, <2>4, <2>5, <2>6, <2>8, <2>9 DEF RowOK, source, place
<1>6. CASE ~(source \in Listed(found) /\ place <= n)
  <2>1. Swapped(found) = found
    BY <1>6 DEF Swapped
  <2> QED BY <1>1, <1>3, <1>6, <2>1
<1> QED BY <1>5, <1>6

\* The previews are laid out anew: the selection keeps its place, and its
\* source where that has the place too.
LEMMA RelayoutOK == ASSUME IInv, Relayout PROVE IInv' /\ StepOK
<1>0. Visible /\ state' = state /\ UNCHANGED watch
  BY DEF Relayout
<1>a. PICK found \in Found \ {<<>>} : \E row \in Accepted(Swapped(found)) :
        /\ row # <<>>
        /\ applications' \in
             PointerHover(SelectByIndex(Built(row),
                                        Clamped(applications.selected, Len(row))))
        /\ selectedIndex' = Clamped(selectedIndex, Len(row))
        /\ candidateCount' = Len(row)
  BY DEF Relayout
<1>1. PICK row \in Accepted(Swapped(found)) :
        /\ row # <<>>
        /\ applications' \in
             PointerHover(SelectByIndex(Built(row),
                                        Clamped(applications.selected, Len(row))))
        /\ selectedIndex' = Clamped(selectedIndex, Len(row))
        /\ candidateCount' = Len(row)
  BY <1>a
<1> DEFINE n == Len(row)
           index == Clamped(applications.selected, n)
           made == SelectByIndex(Built(row), index)
<1>2. /\ RowOK(found) /\ Listed(found) = Offered
      /\ RowOK(Swapped(found)) /\ RowOK(row) /\ n >= 1 /\ n \in Nat
  <2>1. RowOK(found) /\ Listed(found) = Offered
    BY <1>1, FoundOK
  <2>2. RowOK(Swapped(found))
    BY <2>1, SwappedOK
  <2> QED BY <1>1, <2>1, <2>2, AcceptedOK DEF RowOK
<1>3. PICK m \in Nat : WellKept(applications, m, closeButtonMode)
  BY DEF IInv, Kept
<1>4. applications.selected \in NoIndex .. m - 1 /\ selectedIndex = applications.selected
  BY <1>3, Parts DEF IInv, Agree
<1>5. index \in NoIndex .. n - 1 /\ selectedIndex' = index
  BY <1>1, <1>2, <1>4 DEF Clamped, NoIndex
<1>6. /\ WellKept(Built(row), n, closeButtonMode)
      /\ \A i \in 1 .. n : Built(row).tiles[i].source = row[i]
  BY <1>2, BuiltOK DEF IInv, Rest
<1>7. /\ WellKept(made, n, closeButtonMode) /\ made.selected = index
      /\ \A i \in 1 .. n : made.tiles[i].source = row[i]
  BY <1>5, <1>6, SelectOK, SelectSources
<1> HIDE DEF made
<1>8. applications' \in PointerHover(made)
  BY <1>1 DEF made
<1>9. /\ WellKept(applications', n, closeButtonMode)
      /\ applications'.selected = index
      /\ \A i \in 1 .. n : applications'.tiles[i].source = row[i]
  BY <1>7, <1>8, PointerHoverOK
<1>10. ChoiceKept
  <2> DEFINE chosen == SelectedSource(applications)
             place == applications.selected + 1
             kept == Swapped(found)
  <2>1. SUFFICES ASSUME chosen = Nothing \/
                          /\ chosen \in Offered
                          /\ applications.selected < Cardinality(Offered)
                          /\ Previewed(applications') = Offered
                 PROVE  SelectedSource(applications') \in {chosen, Nothing}
    <3>1. Cardinality(Offered) \in Nat
      BY FS_Subset, FS_CardinalityType, SourcesAssumption DEF Offered
    <3>2. ~(applications.selected >= Cardinality(Offered))
            <=> applications.selected < Cardinality(Offered)
      BY <1>4, <1>3, <3>1 DEF NoIndex
    <3> QED BY <3>2 DEF ChoiceKept
  <2>2. CASE applications.selected = NoIndex
    <3>1. index = NoIndex
      BY <1>2, <2>2 DEF Clamped, NoIndex
    <3> QED BY <1>9, <3>1 DEF SelectedSource
  <2>3. CASE applications.selected # NoIndex
    <3>1. chosen # Nothing
      <4>1. place \in 1 .. m
        BY <1>3, <1>4, <2>3 DEF NoIndex
      <4>2. chosen = applications.tiles[place].source
        BY <2>3 DEF SelectedSource, SourceAt
      <4>3. applications.tiles[place] \in Tiles
        BY <1>3, <4>1, Parts
      <4> QED BY <4>2, <4>3, SourcesAssumption DEF Tiles
    <3>2. /\ chosen \in Listed(found)
          /\ applications.selected < Cardinality(Offered)
          /\ Previewed(applications') = Offered
      BY <1>2, <2>1, <3>1
    <3>3. Cardinality(Offered) = Len(found) /\ Len(found) \in Nat
      <4>1. Len(found) \in Nat /\ DOMAIN found = 1 .. Len(found)
            /\ \A i, j \in 1 .. Len(found) : found[i] = found[j] => i = j
        BY <1>2 DEF RowOK
      <4>2. Cardinality({found[i] : i \in 1 .. Len(found)}) = Len(found)
        BY <4>1, DistinctCount
      <4> QED BY <1>2, <4>1, <4>2 DEF Listed
    <3>4. place \in 1 .. Len(found) /\ place \in DOMAIN found
      <4>1. place \in 1 .. Len(found)
        BY <1>3, <1>4, <2>3, <3>2, <3>3 DEF NoIndex
      <4> QED BY <1>2, <4>1 DEF RowOK
    <3>5. kept[place] = chosen /\ Len(kept) = Len(found) /\ Listed(kept) = Offered
      BY <1>2, <3>2, <3>4, SwappedOK
    <3>6. Listed(row) = Offered
      <4>1. DOMAIN applications'.tiles = 1 .. n
        BY <1>9, Parts
      <4>2. DOMAIN row = 1 .. n
        BY <1>2 DEF RowOK
      <4> QED BY <1>9, <3>2, <4>1, <4>2 DEF Previewed, Listed
    <3>7. place \in 1 .. n /\ row[place] = chosen
      <4>1. CASE ~NativeMayFail
        <5>1. row = kept
          BY <1>1, <4>1 DEF Accepted
        <5> QED BY <3>4, <3>5, <5>1
      <4>2. CASE NativeMayFail
        <5>1. \A i, j \in DOMAIN row : i < j =>
                \E p, q \in DOMAIN kept : p < q /\ kept[p] = row[i] /\ kept[q] = row[j]
          BY <1>1, <4>2 DEF Accepted
        <5>2. place \in 1 .. Len(kept)
          BY <3>4, <3>5
        <5> HIDE DEF kept, place, chosen
        <5> QED BY <1>2, <3>5, <3>6, <5>1, <5>2, SamePlaces DEF kept
      <4> QED BY <4>1, <4>2
    <3>8. index = applications.selected
      BY <1>3, <1>4, <3>7 DEF Clamped, NoIndex
    <3> QED BY <1>9, <2>3, <3>7, <3>8 DEF SelectedSource, SourceAt
  <2> QED BY <2>2, <2>3
<1>11. /\ candidateCount' = n /\ state' = "Visible" /\ refreshTimer' = TRUE
       /\ pendingCloses' \subseteq Sources /\ evidenceTicks' \in 0 .. 3
       /\ UNCHANGED <<closeButtonMode, windows>>
  BY <1>0, <1>1 DEF Visible, IInv, Rest, WatchedWhileShown, watch
<1>12. IInv' /\ Port!Shows(n, index)
  BY <1>2, <1>5, <1>9, <1>11, PublishesOK
<1>13. n \in 1 .. Cardinality(Sources)
  BY <1>2, FS_CardinalityType, SourcesAssumption DEF RowOK
<1>14. index \in {Port!NoIndex, IF selectedIndex < n THEN selectedIndex ELSE n - 1}
  BY <1>4 DEF Clamped
<1>15. Port!Replace
  BY <1>0, <1>12, <1>13, <1>14 DEF Port!Replace, Visible
<1> QED BY <1>10, <1>12, <1>15 DEF StepOK, PortStep, Port!Next

-----------------------------------------------------------------------------
(* The theorems.                                                           *)

\* The invariant holds of a new SessionWindow, as the port starts.
LEMMA InitOK == Init => IInv /\ Port!Init
<1> SUFFICES ASSUME Init PROVE IInv /\ Port!Init
  OBVIOUS
<1>1. applications = Empty /\ applications.tiles = <<>>
      /\ applications.selected = NoIndex /\ Count(applications) = 0
  BY DEF Init, Empty, Count
<1>2. Kept
  BY <1>1, EmptyOK DEF Kept
<1>3. Agree
  BY <1>1 DEF Init, Agree
<1>4. Rest
  <2>1. pendingCloses \subseteq Sources
    BY DEF Init
  <2>2. evidenceTicks \in 0 .. 3
    BY DEF Init
  <2>3. refreshTimer \in BOOLEAN /\ state \in {"Idle", "Visible"}
    BY DEF Init
  <2>4. closeButtonMode \in CloseButtonModes /\ windows \in [Sources -> Fates]
    BY DEF Init, CloseButtonModes
  <2> QED BY <2>1, <2>2, <2>3, <2>4 DEF Rest
<1>5. WatchedWhileShown
  BY <1>1 DEF Init, WatchedWhileShown
<1>6. Port!Init
  BY <1>1 DEF Init, Port!Init, Port!NoIndex, NoIndex
<1> QED BY <1>2, <1>3, <1>4, <1>5, <1>6 DEF IInv

\* The invariant is inductive, and every step is one of the port or a stutter.
LEMMA NextOK == IInv /\ [Next]_vars => IInv' /\ StepOK
<1> SUFFICES ASSUME IInv, [Next]_vars PROVE IInv' /\ StepOK
  OBVIOUS
<1>1. CASE Open
  BY <1>1, OpenOK
<1>2. CASE Pointer
  <2>1. ASSUME NEW index \in Indexes(applications),
               Select(index) \/ SelectAndCommit(index) \/ PointerMove(index)
               \/ RequestClose(index)
        PROVE  IInv' /\ StepOK
    BY <2>1, ChooseOK, SelectAndCommitOK, PointerMoveOK, RequestCloseOK DEF Select
  <2>2. CASE PointerMove(NoIndex) \/ PointerLeave \/ ClickBackground
    BY <2>2, PointerMoveOK, PointerLeaveOK, ChooseOK DEF ClickBackground
  <2> QED BY <1>2, <2>1, <2>2 DEF Pointer
<1>3. CASE Commit \/ Cancel
  BY <1>3, ClosesOK DEF Commit, Cancel, Visible
<1>4. ASSUME NEW mode \in CloseButtonModes, SetCloseButtonMode(mode)
      PROVE  IInv' /\ StepOK
  BY <1>4, ModeOK
<1>5. ASSUME NEW index \in Indexes(applications), IconChanged(index)
      PROVE  IInv' /\ StepOK
  BY <1>5, IconOK
<1>6. CASE RefreshTick
  <2>1. CASE RefreshEmpty
    BY <2>1, ClosesOK DEF RefreshEmpty, TimerTick, Visible
  <2> QED BY <1>6, <2>1, RefreshKeepsOK, ReplacesOK DEF RefreshTick
<1>7. CASE Relayout
  BY <1>7, RelayoutOK
<1>8. ASSUME NEW source \in Sources, NEW fate \in Fates, WindowChanges(source, fate)
      PROVE  IInv' /\ StepOK
  BY <1>8, WindowOK
<1>9. CASE UNCHANGED vars
  <2>1. UNCHANGED <<state, candidateCount, selectedIndex, applications,
                    closeButtonMode, pendingCloses, evidenceTicks, refreshTimer,
                    windows>>
    BY <1>9 DEF vars, controller, watch
  <2>2. IInv'
    BY <2>1 DEF IInv, Kept, Agree, Rest, WatchedWhileShown
  <2>3. PortStep /\ ChoiceKept
    BY <2>1 DEF PortStep, Port!session, Count, ChoiceKept
  <2> QED BY <2>2, <2>3 DEF StepOK
<1> QED BY <1>1, <1>2, <1>3, <1>4, <1>5, <1>6, <1>7, <1>8, <1>9 DEF Next

\* The invariant holds in every reachable state.
THEOREM Invariant == Spec => []IInv
<1>1. Init => IInv
  BY InitOK
<1>2. IInv /\ [Next]_vars => IInv'
  BY NextOK
<1> QED BY <1>1, <1>2, PTL DEF Spec

\* The session's variables and its collection are well typed, and an index of
\* the collection is that of a preview.
THEOREM Typing == Spec => []TypeOK
<1>1. ASSUME IInv PROVE TypeOK
  <2>1. PICK n \in Nat : WellKept(applications, n, closeButtonMode)
    BY <1>1 DEF IInv, Kept
  <2>a. /\ n \in Nat /\ applications.tiles \in [1 .. n -> Tiles]
        /\ Len(applications.tiles) = n /\ Indexes(applications) = 0 .. n - 1
        /\ applications.selected \in NoIndex .. n - 1
        /\ applications.hovered \in NoIndex .. n - 1
    BY <2>1, Parts
  <2>b. n \in 0 .. Cardinality(Sources)
    BY <2>1 DEF WellKept
  <2>2. /\ n \in 0 .. Cardinality(Sources) /\ applications.tiles \in [1 .. n -> Tiles]
        /\ applications.selected \in Indexes(applications) \cup {NoIndex}
        /\ applications.hovered \in Indexes(applications) \cup {NoIndex}
        /\ Count(applications) = n /\ applications.selected \in NoIndex .. n - 1
    BY <2>a, <2>b DEF NoIndex, Count
  <2>3. candidateCount = n /\ selectedIndex = applications.selected
    BY <1>1, <2>2 DEF IInv, Agree
  <2>5. /\ state \in {"Idle", "Visible"} /\ closeButtonMode \in CloseButtonModes
        /\ pendingCloses \subseteq Sources
        /\ evidenceTicks \in 0 .. EmptyConfirmationTicks
        /\ refreshTimer \in BOOLEAN /\ windows \in [Sources -> Fates]
    BY <1>1 DEF IInv, Rest, EmptyConfirmationTicks
  <2>6. candidateCount \in 0 .. Cardinality(Sources)
        /\ selectedIndex \in NoIndex .. candidateCount - 1
    BY <2>2, <2>3
  <2> QED BY <2>2, <2>5, <2>6 DEF TypeOK
<1> QED BY Invariant, <1>1, PTL

\* Each tile knows whether it is the selected and the hovered one, whichever
\* redraws failed (ApplicationWindows::select_by_index and set_hovered_index).
THEOREM FlagsStay == Spec => []FlagsAgree
<1>1. ASSUME IInv PROVE FlagsAgree
  <2>1. PICK n \in Nat : WellKept(applications, n, closeButtonMode)
    BY <1>1 DEF IInv, Kept
  <2>2. DOMAIN applications.tiles = 1 .. n
    BY <2>1, Parts
  <2>3. \A i \in 1 .. n : TileOK(applications.tiles[i], closeButtonMode,
                                 applications.selected = i - 1,
                                 applications.hovered = i - 1)
    BY <2>1 DEF WellKept
  <2>4. \A i \in DOMAIN applications.tiles :
          /\ applications.tiles[i].selected = (applications.selected = i - 1)
          /\ applications.tiles[i].hovered = (applications.hovered = i - 1)
    BY <2>2, <2>3 DEF TileOK
  <2> QED BY <2>4, Zenon DEF FlagsAgree
<1> QED BY Invariant, <1>1, PTL

\* The pictures on the screen are those of the tiles' states
\* (ApplicationWindow::set_interaction_state redraws where it must).
THEOREM PicturesStay == Spec => []PicturesCurrent
<1>1. ASSUME IInv PROVE PicturesCurrent
  <2>1. PICK n \in Nat : WellKept(applications, n, closeButtonMode)
    BY <1>1 DEF IInv, Kept
  <2>2. DOMAIN applications.tiles = 1 .. n
    BY <2>1, Parts
  <2>3. \A i \in 1 .. n : TileOK(applications.tiles[i], closeButtonMode,
                                 applications.tiles[i].selected,
                                 applications.tiles[i].hovered)
    BY <2>1, Parts
  <2> QED BY <2>2, <2>3 DEF TileOK, PicturesCurrent
<1> QED BY Invariant, <1>1, PTL

\* A replacement of the previews moves the selection to another window only if
\* the selected one cannot keep its place, and never where nothing is selected
\* (relayout_session puts the selected source back where it was).
THEOREM ChoiceStays == Spec => ReplacementsKeepChoice
<1>1. IInv /\ [Next]_vars => [ChoiceKept]_vars
  BY NextOK DEF StepOK
<1> QED BY Invariant, <1>1, PTL DEF Spec, ReplacementsKeepChoice

\* The refresh timer runs exactly while previews are shown, and a closed
\* session leaves no close request behind.
THEOREM Watched == Spec => []WatchedWhileShown
<1>1. IInv => WatchedWhileShown
  BY DEF IInv
<1> QED BY Invariant, <1>1, PTL

\* The native session and the controller that drives it implement SessionPort:
\* count and selection are those of the previews on the screen at every step.
THEOREM Implementation == Spec => ImplementsPort
<1>1. Init => Port!Init
  BY InitOK
<1>2. IInv /\ [Next]_vars => [Port!Next]_Port!session
  BY NextOK DEF StepOK, PortStep
<1> QED BY Invariant, <1>1, <1>2, PTL DEF Spec, ImplementsPort, Port!Spec
=============================================================================
