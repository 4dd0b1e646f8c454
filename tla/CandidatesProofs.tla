-------------------------- MODULE CandidatesProofs --------------------------
(***************************************************************************)
(* Proofs about Candidates, for every set of windows, every ownership of   *)
(* depth one, every look and every list EnumWindows may take: the types,   *)
(* and what an enumeration during which nothing changes has found.  The    *)
(* invariant behind the latter is that the candidates are, at every call   *)
(* back, exactly the visited windows that are eligible now.                *)
(*                                                                         *)
(* And where the tiles go, for every number of windows, every size of      *)
(* theirs and all monitors with room for a grid of that many: the tiles    *)
(* lie in the working area and share no pixel, because what rounding adds  *)
(* to a tile the margins of its cell take up.                              *)
(***************************************************************************)
EXTENDS Candidates, FiniteSetTheorems, NaturalsInduction, WellFoundedInduction, TLAPS

\* The phases in which the list of candidates is the enumeration's result.
Settled == phase \in {"found", "measured", "laid"}

\* The candidates are the eligible ones of the visited windows.
Judged == quiet => Listed = {w \in Visited : IsAppWindow(w)}

\* A finished enumeration has visited the whole of a list of its own, and
\* between enumerations there is neither a list nor a candidate.
Complete ==
    /\ phase # "idle" => order \in Orders
    /\ Settled => at = Len(order)
    /\ phase = "idle" => at = 0 /\ windows = <<>>

IInv == TypeOK /\ Judged /\ Complete

\* Lists are sequences of windows, the empty one too.
LEMMA OrderIsSeq ==
    ASSUME TypeOK
    PROVE  order \in Seq(Windows) /\ at \in Nat /\ at <= Len(order)
<1>1. order \in Seq(Windows)
    <2>1. <<>> \in Seq(Windows)
        OBVIOUS
    <2>2. Orders \subseteq Seq(Windows)
        BY OrderAssumption
    <2> QED BY <2>1, <2>2 DEF TypeOK
<1>2. Len(order) \in Nat
    BY <1>1
<1> QED BY <1>1, <1>2 DEF TypeOK

-----------------------------------------------------------------------------
\* The initial states.
LEMMA InitIInv == Init => IInv
<1> SUFFICES ASSUME Init PROVE IInv
    OBVIOUS
<1>1. TypeOK
    BY RootAssumption DEF Init, TypeOK
<1>2. Listed = {} /\ Visited = {}
    BY DEF Init, Listed, Visited
<1>3. Judged
    BY <1>2 DEF Judged
<1>4. Complete
    BY DEF Init, Complete, Settled
<1> QED BY <1>1, <1>3, <1>4 DEF IInv

\* The parts of the state a judgement depends on.
LEMMA SameJudgement ==
    ASSUME UNCHANGED <<world, enumeration, quiet>>, Judged
    PROVE  Judged'
BY DEF Judged, Listed, Visited, IsAppWindow, IsAltTabWindow, CanRepresent,
       LastActiveVisiblePopup, IsVisible, GetLastActivePopup, world, enumeration

\* A change of the world leaves nothing to be said of the enumeration.
LEMMA WorldIInv ==
    ASSUME IInv, NEW w \in Windows, LookChanges(w) \/ ActiveChanges(w)
    PROVE  IInv'
<1>1. phase \in {"idle", "enumerating"} /\ phase' = phase
      /\ quiet' = (phase = "idle") /\ UNCHANGED <<order, at, windows>>
    BY DEF LookChanges, ActiveChanges, enumeration
<1>2. TypeOK'
    <2>1. CASE LookChanges(w)
        <3>1. look' \in [Windows -> Looks] /\ active' = active
            BY <2>1 DEF LookChanges, IInv, TypeOK
        <3> QED BY <3>1, <1>1 DEF IInv, TypeOK
    <2>2. CASE ActiveChanges(w)
        <3>1. PICK x \in Group(w) : active' = [active EXCEPT ![w] = x]
            BY <2>2 DEF ActiveChanges
        <3>2. look' = look
            BY <2>2 DEF ActiveChanges
        <3>3. active' \in [Windows -> Windows]
              /\ \A v \in Windows : RootOwner[active'[v]] = RootOwner[v]
            BY <3>1, RootAssumption DEF IInv, TypeOK, Group
        <3> QED BY <3>2, <3>3, <1>1 DEF IInv, TypeOK
    <2> QED BY <2>1, <2>2
<1>3. Complete'
    BY <1>1 DEF IInv, Complete, Settled
<1>4. Judged'
    <2>1. CASE phase = "enumerating"
        BY <2>1, <1>1 DEF Judged
    <2>2. CASE phase = "idle"
        <3>1. at' = 0 /\ windows' = <<>>
            BY <2>2, <1>1 DEF IInv, Complete
        <3>2. Listed' = {} /\ Visited' = {}
            BY <3>1 DEF Listed, Visited
        <3> QED BY <3>2 DEF Judged
    <2> QED BY <2>1, <2>2, <1>1
<1> QED BY <1>2, <1>3, <1>4 DEF IInv

\* One more window is judged, by the look of this moment.
LEMMA VisitIInv == ASSUME IInv, Visit PROVE IInv'
<1> DEFINE w == order[at + 1]
<1>1. at \in Nat /\ at + 1 \in 1..Len(order) /\ order \in Seq(Windows)
    BY OrderIsSeq DEF IInv, Visit
<1>2. w \in Windows
    BY <1>1
<1>3. UNCHANGED <<look, active, phase, order, quiet>> /\ at' = at + 1
    BY DEF Visit, world
<1>4. windows \in Seq(Windows)
    BY DEF IInv, TypeOK
<1>5. windows' = IF IsAppWindow(w) THEN Append(windows, w) ELSE windows
    BY DEF Visit
<1>6. TypeOK'
    <2>1. windows' \in Seq(Windows)
        BY <1>2, <1>4, <1>5
    <2>2. at' \in 0..Len(order')
        BY <1>1, <1>3
    <2> QED BY <2>1, <2>2, <1>3 DEF IInv, TypeOK
<1>7. Complete'
    BY <1>3 DEF IInv, Complete, Visit, Settled
<1>8. Visited' = Visited \cup {w}
    BY <1>1, <1>3 DEF Visited
<1>9. Listed' = IF IsAppWindow(w) THEN Listed \cup {w} ELSE Listed
    BY <1>4, <1>5, <1>2 DEF Listed
<1>10. \A v \in Visited' : IsAppWindow(v)' = IsAppWindow(v)
    BY <1>3 DEF IsAppWindow, IsAltTabWindow, CanRepresent,
       LastActiveVisiblePopup, IsVisible, GetLastActivePopup
<1>11. Judged'
    BY <1>3, <1>8, <1>9, <1>10 DEF IInv, Judged
<1> QED BY <1>6, <1>7, <1>11 DEF IInv

\* The other steps leave the judgement alone or begin anew.
LEMMA NextIInv == IInv /\ [Next]_vars => IInv'
<1> SUFFICES ASSUME IInv, [Next]_vars PROVE IInv'
    OBVIOUS
<1>1. ASSUME NEW w \in Windows, LookChanges(w) \/ ActiveChanges(w) PROVE IInv'
    BY <1>1, WorldIInv
<1>2. CASE Visit
    BY <1>2, VisitIInv
<1>3. CASE Begin
    <2>1. order' \in Orders /\ at' = 0 /\ windows' = <<>> /\ phase' = "enumerating"
          /\ UNCHANGED <<look, active, quiet>>
        BY <1>3 DEF Begin, world
    <2>2. order' \in Seq(Windows)
        BY <2>1, OrderAssumption
    <2>3. TypeOK'
        BY <2>1, <2>2 DEF IInv, TypeOK
    <2>4. Listed' = {} /\ Visited' = {}
        BY <2>1 DEF Listed, Visited
    <2>5. Judged' /\ Complete'
        BY <2>1, <2>4 DEF Judged, Complete, Settled
    <2> QED BY <2>3, <2>5 DEF IInv
<1>4. CASE Found \/ Measure \/ Arrange
    <2>1. UNCHANGED <<world, enumeration, quiet>>
        BY <1>4 DEF Found, Measure, Arrange
    <2>2. phase # "idle" /\ at = Len(order) /\ phase' \in {"found", "measured", "laid"}
        BY <1>4 DEF IInv, Complete, Settled, Found, Measure, Arrange
    <2>3. TypeOK'
        BY <2>1, <2>2 DEF IInv, TypeOK, world, enumeration
    <2>4. Judged'
        BY <2>1, SameJudgement DEF IInv
    <2>5. Complete'
        BY <2>1, <2>2 DEF IInv, Complete, enumeration
    <2> QED BY <2>3, <2>4, <2>5 DEF IInv
<1>5. CASE Release
    <2>1. order' = <<>> /\ at' = 0 /\ windows' = <<>> /\ phase' = "idle"
          /\ quiet' = TRUE /\ UNCHANGED <<look, active>>
        BY <1>5 DEF Release, world
    <2>2. TypeOK'
        BY <2>1 DEF IInv, TypeOK
    <2>3. Listed' = {} /\ Visited' = {}
        BY <2>1 DEF Listed, Visited
    <2>4. Judged' /\ Complete'
        BY <2>1, <2>3 DEF Judged, Complete, Settled
    <2> QED BY <2>2, <2>4 DEF IInv
<1>6. CASE UNCHANGED vars
    <2>1. UNCHANGED <<look, active, phase, order, at, windows, quiet>>
        BY <1>6 DEF vars
    <2>2. Judged'
        BY <2>1, SameJudgement DEF IInv, world, enumeration
    <2> QED BY <2>1, <2>2 DEF IInv, TypeOK, Complete, Settled
<1> QED BY <1>1, <1>2, <1>3, <1>4, <1>5, <1>6 DEF Next

\* The invariant holds in every reachable state.
THEOREM Invariant == Spec => []IInv
<1>1. IInv /\ [Next]_vars => IInv'
    BY NextIInv
<1> QED BY InitIInv, <1>1, PTL DEF Spec

\* Type correctness, of window_finder.rs's Vec above all: what it holds are
\* windows, and an owner's last active popup is one of its group.
THEOREM Typing == Spec => []TypeOK
<1>1. IInv => TypeOK
    BY DEF IInv
<1> QED BY Invariant, <1>1, PTL

-----------------------------------------------------------------------------
\* What an undisturbed enumeration has found.

\* A window that can represent its application and is the popup the walk ends
\* on, or asks for a place of its own, is a candidate when it is visited.
LEMMA Representative ==
    ASSUME NEW w \in Windows, CanRepresent(w),
           "app" \in look[w] \/ IsAltTabWindow(w)
    PROVE  IsAppWindow(w)
BY DEF IsAppWindow, CanRepresent

\* An application whose root could be shown is offered (window_finder.rs:97).
LEMMA QuietRepresents == IInv => GroupRepresented
<1> SUFFICES ASSUME IInv, Settled, quiet,
                    NEW r \in Visited, RootOwner[r] = r, CanRepresent(r)
             PROVE  Group(r) \cap Listed # {}
    BY DEF GroupRepresented, Settled
<1> DEFINE popup == LastActiveVisiblePopup(r)
<1>1. Listed = {w \in Visited : IsAppWindow(w)}
    BY DEF IInv, Judged
<1>2. order \in Orders /\ order \in Seq(Windows)
      /\ Visited = {order[i] : i \in 1..Len(order)}
    <2>1. order \in Orders /\ at = Len(order)
        BY DEF IInv, Complete, Settled
    <2> QED BY <2>1, OrderAssumption DEF Visited
<1>3. r \in Windows
    BY <1>2
<1>4. CASE "app" \in look[r] \/ IsAltTabWindow(r)
    <2>1. r \in Listed
        BY <1>1, <1>3, <1>4, Representative
    <2> QED BY <2>1, <1>3 DEF Group
<1>5. CASE ~IsAltTabWindow(r)
    <2>1. popup # r /\ CanRepresent(popup)
        BY <1>5 DEF IsAltTabWindow
    <2>2. popup = active[r] /\ popup \in Windows
        BY <2>1, <1>3 DEF LastActiveVisiblePopup, GetLastActivePopup, CanRepresent,
           IInv, TypeOK
    <2>3. RootOwner[popup] = r
        BY <2>2, <1>3 DEF IInv, TypeOK
    <2>4. IsAltTabWindow(popup)
        BY <2>1, <2>3 DEF IsAltTabWindow
    <2>5. IsAppWindow(popup)
        BY <2>1, <2>2, <2>4, Representative
    <2>6. popup \in Visited
        BY <1>2, <1>3, <2>2, <2>3, OrderAssumption
    <2> QED BY <1>1, <2>2, <2>3, <2>5, <2>6 DEF Group
<1> QED BY <1>4, <1>5

\* No application is offered twice (window_finder.rs:107 to 113: the root or
\* the popup, for every window of the group alike).
LEMMA QuietIsUnique == IInv => OneTilePerGroup
<1> SUFFICES ASSUME IInv, Settled, quiet, NEW v \in Listed, NEW w \in Listed,
                    RootOwner[v] = RootOwner[w],
                    "app" \notin look[v], "app" \notin look[w]
             PROVE  v = w
    BY DEF OneTilePerGroup, Settled
<1>1. IsAppWindow(v) /\ IsAppWindow(w)
    BY DEF IInv, Judged
<1>2. IsAltTabWindow(v) /\ IsAltTabWindow(w)
    BY <1>1 DEF IsAppWindow
<1> QED BY <1>2 DEF IsAltTabWindow

\* Every application whose root could be shown is among the candidates of an
\* undisturbed enumeration, whichever popup it activated last.
THEOREM ApplicationsStay == Spec => []GroupRepresented
BY Invariant, QuietRepresents, PTL

\* An undisturbed enumeration offers no application twice.
THEOREM ApplicationsOnce == Spec => []OneTilePerGroup
BY Invariant, QuietIsUnique, PTL

-----------------------------------------------------------------------------
(* Rounding, and the fit of a source into its cell.                        *)

\* Division by a positive number.
LEMMA DivMod ==
  ASSUME NEW n \in Int, NEW d \in Nat \ {0}
  PROVE  /\ n \div d \in Int /\ n % d \in 0 .. d - 1
         /\ n = d * (n \div d) + (n % d)
OBVIOUS

\* round_to_even is off by a half at most.
LEMMA Rounded ==
  ASSUME NEW n \in Int, NEW d \in Nat \ {0}
  PROVE  /\ RoundToEven(n, d) \in Int
         /\ 2 * d * RoundToEven(n, d) <= 2 * n + d
         /\ 2 * n - d <= 2 * d * RoundToEven(n, d)
<1> DEFINE q == n \div d
           r == n % d
<1>1. /\ q \in Int /\ r \in Int /\ 0 <= r /\ r < d
      /\ n = d * q + r
  BY DivMod
<1>2. \/ RoundToEven(n, d) = q /\ 2 * r <= d
      \/ RoundToEven(n, d) = q + 1 /\ 2 * r >= d
  BY <1>1 DEF RoundToEven
<1> HIDE DEF q, r
<1>3. CASE RoundToEven(n, d) = q /\ 2 * r <= d
  BY <1>1, <1>3
<1>4. CASE RoundToEven(n, d) = q + 1 /\ 2 * r >= d
  BY <1>1, <1>4
<1> QED
  BY <1>2, <1>3, <1>4

\* A positive factor cancels.
LEMMA Cancel ==
  ASSUME NEW k \in Nat \ {0}, NEW x \in Int, NEW y \in Int, k * x <= k * y
  PROVE  x <= y
OBVIOUS

\* A factor keeps the order.
LEMMA MulMono ==
  ASSUME NEW k \in Nat, NEW x \in Int, NEW y \in Int, x <= y
  PROVE  k * x <= k * y
OBVIOUS

\* fit_inside along one axis, where a is the room, num / (U * per) the scale
\* and w the source: half a pixel early at most, a pixel late at most.
LEMMA Axis ==
  ASSUME NEW U \in Nat \ {0}, NEW per \in Nat \ {0}, NEW num \in Nat \ {0}, NEW w \in Nat \ {0},
         NEW c \in Int, NEW a \in Int, a >= U,
         w * num <= a * per, num <= U * per
  PROVE  LET den == U * per
             x == RoundToEven(2 * c * per + a * per - w * num, 2 * den)
             width == AtLeastOne(RoundToEven(w * num, den))
         IN  /\ x \in Int /\ width \in 1 .. w
             /\ 2 * c - U <= 2 * U * x
             /\ U * (x + width) <= c + a + U
<1> DEFINE den == U * per
           wn == w * num
           ap == a * per
           cp == c * per
           x == RoundToEven(2 * c * per + a * per - w * num, 2 * den)
           R == RoundToEven(w * num, den)
           width == AtLeastOne(R)
<1>1. /\ den \in Nat \ {0} /\ wn \in Nat \ {0} /\ ap \in Int /\ cp \in Int
      /\ 2 * c * per = 2 * cp
  OBVIOUS
<1>2. /\ R \in Int /\ 2 * den * R <= 2 * wn + den /\ 2 * wn - den <= 2 * den * R
  BY <1>1, Rounded
<1>3. /\ x \in Int
      /\ 2 * (2 * den) * x <= 2 * (2 * cp + ap - wn) + 2 * den
      /\ 2 * (2 * cp + ap - wn) - 2 * den <= 2 * (2 * den) * x
  <2>1. 2 * cp + ap - wn \in Int /\ 2 * den \in Nat \ {0}
    BY <1>1
  <2> HIDE DEF den, wn, ap, cp
  <2> QED
    BY <2>1, <1>1, Rounded DEF x, wn, ap
<1>4. wn <= ap /\ wn <= w * den /\ den <= ap
  <2>1. wn <= w * den
    BY MulMono
  <2>2. den <= ap
    BY MulMono
  <2> QED
    BY <2>1, <2>2
<1>5. width \in 1 .. w
  <2>1. R <= w
    <3>1. 2 * den * R <= 2 * (w * den) + den
      BY <1>1, <1>2, <1>4
    <3> HIDE DEF den, R
    <3>2. den * (2 * R) <= den * (2 * w + 1)
      BY <3>1, <1>1, <1>2
    <3> QED
      BY <3>2, <1>1, <1>2, Cancel
  <2> QED
    BY <2>1, <1>2 DEF AtLeastOne
<1>6. 2 * c - U <= 2 * U * x
  <2>1. 2 * cp - den <= 2 * den * x
    <3> HIDE DEF den, wn, ap, cp, x
    <3> QED
      BY <1>1, <1>3, <1>4
  <2>2. per * (2 * c - U) <= per * (2 * U * x)
    <3> HIDE DEF x
    <3> QED
      BY <2>1, <1>3
  <2> HIDE DEF x
  <2> QED
    BY <2>2, <1>3, Cancel
<1>7. U * (x + width) <= c + a + U
  <2>1. den * (x + width) <= cp + ap + den
    <3> HIDE DEF den, wn, ap, cp, x, R
    <3>1. CASE R < 1
      BY <3>1, <1>1, <1>2, <1>3, <1>4 DEF AtLeastOne
    <3>2. CASE R >= 1
      BY <3>2, <1>1, <1>2, <1>3, <1>4 DEF AtLeastOne
    <3> QED
      BY <3>1, <3>2, <1>2
  <2>2. per * (U * (x + width)) <= per * (c + a + U)
    <3> HIDE DEF x, width
    <3> QED
      BY <2>1, <1>3, <1>5
  <2> HIDE DEF x, width
  <2> QED
    BY <2>2, <1>3, <1>5, Cancel
<1> QED
  BY <1>3, <1>5, <1>6, <1>7

\* A multiple divides exactly.
LEMMA DivExact ==
  ASSUME NEW U \in Nat \ {0}, NEW k \in Int
  PROVE  (U * k) \div U = k
<1> DEFINE p == U * k
           q == p \div U
<1>1. p \in Int /\ q \in Int /\ p = U * q + (p % U) /\ p % U \in 0 .. U - 1
  <2>1. p \in Int
    OBVIOUS
  <2> HIDE DEF p
  <2> QED
    BY <2>1, DivMod
<1>2. U * q <= U * k /\ U * k < U * (q + 1)
  BY <1>1
<1> HIDE DEF p, q
<1>3. q <= k
  BY <1>1, <1>2, Cancel
<1>4. ~(q + 1 <= k)
  BY <1>1, <1>2, MulMono
<1> QED
  BY <1>1, <1>3, <1>4 DEF p, q

\* The scale of fit_inside is 1, or the tighter of the two ratios.
IsScale(U, w, h, aw, ah, num, den) ==
  LET whole == w * U <= aw /\ h * U <= ah
      wide == aw * h <= ah * w
  IN  /\ num = IF whole THEN U ELSE IF wide THEN aw ELSE ah
      /\ den = IF whole THEN U ELSE IF wide THEN w * U ELSE h * U

\* Scaled, a source is no larger than it was, nor than its room.
LEMMA Scale ==
  ASSUME NEW U \in Nat \ {0}, NEW w \in Nat \ {0}, NEW h \in Nat \ {0},
         NEW aw \in Nat \ {0}, NEW ah \in Nat \ {0}, NEW num, NEW den,
         IsScale(U, w, h, aw, ah, num, den)
  PROVE  \E per \in Nat \ {0} :
               /\ den = U * per /\ den \div U = per
               /\ num \in Nat \ {0} /\ num <= U * per
               /\ w * num <= aw * per /\ h * num <= ah * per
<1> USE DEF IsScale
<1> DEFINE Good(per) ==
               /\ den = U * per /\ den \div U = per
               /\ num \in Nat \ {0} /\ num <= U * per
               /\ w * num <= aw * per /\ h * num <= ah * per
<1> SUFFICES \E per \in Nat \ {0} : Good(per)
  OBVIOUS
<1>1. CASE w * U <= aw /\ h * U <= ah
  <2>1. U = U * 1 /\ U \div U = 1
    <3>1. (U * 1) \div U = 1
      BY DivExact
    <3> QED
      BY <3>1
  <2>4. Good(1)
    BY <1>1, <2>1
  <2> HIDE DEF Good
  <2> QED
    BY <2>4
<1>2. CASE ~(w * U <= aw /\ h * U <= ah) /\ aw * h <= ah * w
  <2>1. w * U = U * w /\ (w * U) \div U = w
    BY DivExact
  <2>2. aw <= U * w
    <3>1. CASE w * U > aw
      BY <3>1
    <3>2. CASE h * U > ah
      <4>1. SUFFICES ASSUME aw > w * U PROVE FALSE
        BY <2>1
      <4>2. h * (w * U) < h * aw
        BY <4>1
      <4>3. w * ah < w * (h * U)
        BY <3>2
      <4> QED
        BY <4>2, <4>3, <1>2
    <3> QED
      BY <1>2, <3>1, <3>2
  <2>3. w * aw <= aw * w /\ h * aw <= ah * w
    BY <1>2
  <2>4. Good(w)
    BY <1>2, <2>1, <2>2, <2>3
  <2> HIDE DEF Good
  <2> QED
    BY <2>4
<1>3. CASE ~(w * U <= aw /\ h * U <= ah) /\ ~(aw * h <= ah * w)
  <2>1. h * U = U * h /\ (h * U) \div U = h
    BY DivExact
  <2>2. ah <= U * h
    <3>1. CASE h * U > ah
      BY <3>1
    <3>2. CASE w * U > aw
      <4>1. SUFFICES ASSUME ah > h * U PROVE FALSE
        BY <2>1
      <4>2. w * (h * U) < w * ah
        BY <4>1
      <4>3. h * aw < h * (w * U)
        BY <3>2
      <4> QED
        BY <4>2, <4>3, <1>3
    <3> QED
      BY <1>3, <3>1, <3>2
  <2>3. w * ah <= aw * h /\ h * ah <= ah * h
    BY <1>3
  <2>4. Good(h)
    BY <1>3, <2>1, <2>2, <2>3
  <2> HIDE DEF Good
  <2> QED
    BY <2>4
<1> QED
  BY <1>1, <1>2, <1>3

\* fit_inside keeps to its room, up to the rounding.
LEMMA Fits ==
  ASSUME NEW U \in Nat \ {0}, NEW s,
         s.width \in Nat \ {0}, s.height \in Nat \ {0},
         NEW cx \in Int, NEW cy \in Int, NEW aw \in Int, NEW ah \in Int, aw >= U, ah >= U
  PROVE  LET r == FitInside(s, U, cx, cy, aw, ah)
         IN  /\ r.x \in Int /\ r.width \in 1 .. s.width
             /\ r.y \in Int /\ r.height \in 1 .. s.height
             /\ 2 * cx - U <= 2 * U * r.x /\ U * (r.x + r.width) <= cx + aw + U
             /\ 2 * cy - U <= 2 * U * r.y /\ U * (r.y + r.height) <= cy + ah + U
<1> DEFINE w == s.width
           h == s.height
           whole == w * U <= aw /\ h * U <= ah
           wide == aw * h <= ah * w
           num == IF whole THEN U ELSE IF wide THEN aw ELSE ah
           den == IF whole THEN U ELSE IF wide THEN w * U ELSE h * U
           x(p) == RoundToEven(2 * cx * p + aw * p - w * num, 2 * den)
           y(p) == RoundToEven(2 * cy * p + ah * p - h * num, 2 * den)
           wd == AtLeastOne(RoundToEven(w * num, den))
           hg == AtLeastOne(RoundToEven(h * num, den))
<1>1. aw \in Nat \ {0} /\ ah \in Nat \ {0} /\ w \in Nat \ {0} /\ h \in Nat \ {0}
  OBVIOUS
<1>2. PICK per \in Nat \ {0} :
               /\ den = U * per /\ den \div U = per
               /\ num \in Nat \ {0} /\ num <= U * per
               /\ w * num <= aw * per /\ h * num <= ah * per
  <2>1. IsScale(U, w, h, aw, ah, num, den)
    BY DEF IsScale
  <2> HIDE DEF w, h, num, den
  <2> QED
    BY <1>1, <2>1, Scale
<1>3. FitInside(s, U, cx, cy, aw, ah) =
        [x |-> x(den \div U), y |-> y(den \div U), width |-> wd, height |-> hg]
  BY <1>1 DEF FitInside, IsEmpty
<1> HIDE DEF num, den, w, h
<1>4. /\ x(per) \in Int /\ wd \in 1 .. w
      /\ 2 * cx - U <= 2 * U * x(per)
      /\ U * (x(per) + wd) <= cx + aw + U
  BY <1>1, <1>2, Axis
<1>5. /\ y(per) \in Int /\ hg \in 1 .. h
      /\ 2 * cy - U <= 2 * U * y(per)
      /\ U * (y(per) + hg) <= cy + ah + U
  BY <1>1, <1>2, Axis
<1> DEFINE r == FitInside(s, U, cx, cy, aw, ah)
<1>6. r.x = x(per) /\ r.y = y(per) /\ r.width = wd /\ r.height = hg
  <2> HIDE DEF x, y, wd, hg
  <2> QED
    BY <1>2, <1>3
<1> HIDE DEF r, x, y, wd, hg
<1>7. /\ r.x \in Int /\ r.width \in 1 .. w
      /\ r.y \in Int /\ r.height \in 1 .. h
      /\ 2 * cx - U <= 2 * U * r.x /\ U * (r.x + r.width) <= cx + aw + U
      /\ 2 * cy - U <= 2 * U * r.y /\ U * (r.y + r.height) <= cy + ah + U
  BY <1>4, <1>5, <1>6
<1> QED
  BY <1>7 DEF r, w, h

-----------------------------------------------------------------------------
(* The grid.                                                               *)

\* A grid of at least one window has a column for each at most.
LEMMA Columns ==
  ASSUME NEW n \in Nat \ {0}
  PROVE  ColumnsFor(n) \in 1 .. n
<1> DEFINE T == {c \in 0 .. n : c * c >= n}
<1>1. n \in T
  <2>1. n * n >= n * 1
    BY MulMono
  <2> QED
    BY <2>1
<1>2. PICK c \in T : \A b \in T : ~(<<b, c>> \in OpToRel(<, Nat))
  <2>1. T \subseteq Nat
    OBVIOUS
  <2> HIDE DEF T
  <2> QED
    BY <1>1, <2>1, NatLessThanWellFounded, WFMin
<1>3. \A b \in 0 .. (c - 1) : b * b < n
  <2> SUFFICES ASSUME NEW b \in 0 .. (c - 1), b * b >= n PROVE FALSE
    OBVIOUS
  <2>1. b \in T /\ b < c /\ b \in Nat /\ c \in Nat
    OBVIOUS
  <2> QED
    BY <2>1, <1>2 DEF OpToRel
<1>4. /\ ColumnsFor(n) \in 0 .. n
      /\ ColumnsFor(n) * ColumnsFor(n) >= n
  <2>1. \E b \in 0 .. n : b * b >= n /\ \A a \in 0 .. (b - 1) : a * a < n
    BY <1>3
  <2> QED
    BY <2>1 DEF ColumnsFor
<1>5. ColumnsFor(n) # 0
  BY <1>4
<1> QED
  BY <1>4, <1>5

\* Its rows hold all of them.
LEMMA Rows ==
  ASSUME NEW n \in Nat \ {0}
  PROVE  RowsFor(n) \in Nat \ {0} /\ n <= ColumnsFor(n) * RowsFor(n)
<1> DEFINE c == ColumnsFor(n)
           k == n + c - 1
           q == k \div c
<1>1. c \in Nat \ {0} /\ k \in Nat /\ k >= c
  BY Columns
<1>2. q \in Int /\ k = c * q + (k % c) /\ k % c \in 0 .. c - 1
  <2> HIDE DEF c, k
  <2> QED
    BY <1>1, DivMod
<1>3. c * 0 < c * q /\ n <= c * q
  <2>1. k = n + c - 1
    OBVIOUS
  <2> HIDE DEF c, k, q
  <2> QED
    BY <1>1, <1>2, <2>1
<1>4. q > 0
  <2> HIDE DEF c, k, q
  <2> SUFFICES ASSUME q <= 0 PROVE FALSE
    BY <1>2
  <2> QED
    BY <1>1, <1>2, <1>3, MulMono
<1>5. RowsFor(n) = q
  BY DEF RowsFor
<1> HIDE DEF c, q
<1> QED
  BY <1>2, <1>3, <1>4, <1>5 DEF c

\* Each place is in a cell of the grid.
LEMMA Cell ==
  ASSUME NEW n \in Nat \ {0}, NEW i \in 1 .. n
  PROVE  /\ (i - 1) % ColumnsFor(n) \in 0 .. ColumnsFor(n) - 1
         /\ (i - 1) \div ColumnsFor(n) \in 0 .. RowsFor(n) - 1
<1> DEFINE c == ColumnsFor(n)
           k == i - 1
           rows == RowsFor(n)
<1>1. c \in Nat \ {0} /\ k \in Nat /\ rows \in Nat \ {0} /\ k < c * rows
  BY Columns, Rows
<1>2. k \div c \in Int /\ k = c * (k \div c) + (k % c) /\ k % c \in 0 .. c - 1
  <2> HIDE DEF c, k, rows
  <2>1. k \in Int /\ c \in Nat \ {0}
    BY <1>1
  <2> QED
    BY <2>1, DivMod
<1> HIDE DEF c, k, rows
<1>3. k \div c < rows
  <2> SUFFICES ASSUME rows <= k \div c PROVE FALSE
    BY <1>1, <1>2
  <2>1. c * rows <= c * (k \div c)
    BY <1>1, <1>2, MulMono
  <2> QED
    BY <1>1, <1>2, <2>1
<1>4. k \div c >= 0
  <2> SUFFICES ASSUME k \div c + 1 <= 0 PROVE FALSE
    BY <1>1, <1>2
  <2>1. c * (k \div c + 1) <= c * 0
    BY <1>1, <1>2, MulMono
  <2> QED
    BY <1>1, <1>2, <2>1
<1> QED
  BY <1>1, <1>2, <1>3, <1>4 DEF c, k, rows

\* Two places are not in one cell.
LEMMA OtherCell ==
  ASSUME NEW c \in Nat \ {0}, NEW i \in Int, NEW j \in Int,
         (i - 1) % c = (j - 1) % c, (i - 1) \div c = (j - 1) \div c
  PROVE  i = j
<1>1. \A k \in Int : k = c * (k \div c) + (k % c)
  BY DivMod
<1> QED
  BY <1>1

\* A length is divided into count cells, each with a margin m on both sides,
\* all in units of 1/U: at least a pixel lies between the margins, and they are
\* more than a quarter of one.
Divided(U, cell, m, count, len) ==
  /\ U \in Nat \ {0} /\ cell \in Nat /\ m \in Nat
  /\ 4 * m > U /\ cell - 2 * m >= U
  /\ count * cell = len * U

\* From x on, w pixels lie in the k-th cell within its margins, up to rounding:
\* they begin half a pixel early at most and end one pixel late at most.
KeepsTo(U, o, cell, m, k, x, w) ==
  /\ 2 * (o * U + k * cell + m) - U <= 2 * U * x
  /\ U * (x + w) <= (o * U + k * cell + m) + (cell - 2 * m) + U

\* The margins take up the rounding at the ends of the length.
LEMMA Within ==
  ASSUME NEW U, NEW cell, NEW m, NEW count \in Nat, NEW len \in Int,
         Divided(U, cell, m, count, len),
         NEW o \in Int, NEW k \in 0 .. count - 1, NEW x \in Int, NEW w \in Int,
         KeepsTo(U, o, cell, m, k, x, w)
  PROVE  o <= x /\ x + w <= o + len
<1> USE DEF Divided, KeepsTo
<1>1. k * cell >= 0 /\ (k + 1) * cell <= len * U
  <2>1. cell * (k + 1) <= cell * count
    BY MulMono
  <2> QED
    BY <2>1
<1>2. o <= x
  <2> SUFFICES ASSUME x <= o - 1 PROVE FALSE
    OBVIOUS
  <2>1. U * x <= U * (o - 1)
    BY MulMono
  <2> QED
    BY <1>1, <2>1
<1>3. x + w <= o + len
  <2> SUFFICES ASSUME o + len + 1 <= x + w PROVE FALSE
    OBVIOUS
  <2>1. U * (o + len + 1) <= U * (x + w)
    BY MulMono
  <2> QED
    BY <1>1, <2>1
<1> QED
  BY <1>2, <1>3

\* And that between a cell and a later one.
LEMMA Beside ==
  ASSUME NEW U, NEW cell, NEW m, NEW count, NEW len, Divided(U, cell, m, count, len),
         NEW o \in Int, NEW k \in Nat, NEW l \in Nat, k < l,
         NEW x \in Int, NEW w \in Int, NEW y \in Int, NEW v \in Int,
         KeepsTo(U, o, cell, m, k, x, w), KeepsTo(U, o, cell, m, l, y, v)
  PROVE  x + w <= y
<1> USE DEF Divided, KeepsTo
<1>1. (k + 1) * cell <= l * cell
  <2>1. cell * (k + 1) <= cell * l
    BY MulMono
  <2> QED
    BY <2>1
<1>2. SUFFICES ASSUME y + 1 <= x + w PROVE FALSE
  OBVIOUS
<1>3. U * (y + 1) <= U * (x + w)
  BY <1>2, MulMono
<1> QED
  BY <1>1, <1>3

\* A cell keeps at least a pixel within its margins, n windows on the monitor,
\* and the margins are more than a quarter of one.
HasRoom(monitor, n) ==
  /\ monitor.bounds.width > 50 /\ monitor.bounds.height > 50
  /\ ColumnsFor(n) * (monitor.bounds.width + 100) <= 100 * monitor.workingArea.width
  /\ RowsFor(n) * (monitor.bounds.height + 100) <= 100 * monitor.workingArea.height

\* Room for count cells along an axis, r of them along the other.
LEMMA Lengths ==
  ASSUME NEW c \in Nat \ {0}, NEW r \in Nat \ {0}, NEW b \in Int, NEW len \in Int,
         b > 50, c * (b + 100) <= 100 * len
  PROVE  Divided(200 * c * r, len * 200 * r, b * c * r, c, len)
<1> DEFINE p == c * r
           U == 200 * c * r
           cell == len * 200 * r
           m == b * c * r
<1>1. p \in Nat \ {0} /\ U = 200 * p /\ m = b * p
  OBVIOUS
<1>2. 4 * m > U
  <2>1. p * 51 <= p * b
    BY <1>1, MulMono
  <2> HIDE DEF p, U, m
  <2> QED
    BY <1>1, <2>1
<1>3. cell - 2 * m >= U
  <2>1. r * (c * (b + 100)) <= r * (100 * len)
    BY MulMono
  <2>2. r * (c * (b + 100)) = m + 100 * p
    OBVIOUS
  <2>3. cell = 2 * (r * (100 * len))
    OBVIOUS
  <2> HIDE DEF p, U, m, cell
  <2> QED
    BY <1>1, <2>1, <2>2, <2>3
<1>4. U \in Nat \ {0} /\ m \in Nat /\ cell \in Int
  <2>1. p * 51 <= p * b
    BY <1>1, MulMono
  <2> QED
    BY <1>1, <2>1
<1>5. c * cell = len * U
  OBVIOUS
<1>6. cell \in Nat
  <2> HIDE DEF U, m, cell
  <2> QED
    BY <1>3, <1>4
<1> HIDE DEF U, cell, m
<1>7. Divided(U, cell, m, c, len)
  BY <1>2, <1>3, <1>4, <1>5, <1>6 DEF Divided
<1> QED
  BY <1>7 DEF U, cell, m

\* The measures of TileOf.
Unit(n)       == 200 * ColumnsFor(n) * RowsFor(n)
CellWidth(M, n)  == M.workingArea.width * 200 * RowsFor(n)
CellHeight(M, n) == M.workingArea.height * 200 * ColumnsFor(n)
XMargin(M, n) == M.bounds.width * ColumnsFor(n) * RowsFor(n)
YMargin(M, n) == M.bounds.height * ColumnsFor(n) * RowsFor(n)
Column(n, i)  == (i - 1) % ColumnsFor(n)
Row(n, i)     == (i - 1) \div ColumnsFor(n)

\* A monitor with room is divided.
LEMMA MonitorDivided ==
  ASSUME NEW M, M.bounds \in Rectangle, M.workingArea \in Rectangle,
         NEW n \in Nat \ {0}, HasRoom(M, n)
  PROVE  /\ Divided(Unit(n), CellWidth(M, n), XMargin(M, n),
                    ColumnsFor(n), M.workingArea.width)
         /\ Divided(Unit(n), CellHeight(M, n), YMargin(M, n),
                    RowsFor(n), M.workingArea.height)
<1> DEFINE c == ColumnsFor(n)
           r == RowsFor(n)
           b == M.bounds.width
           d == M.bounds.height
           w == M.workingArea.width
           h == M.workingArea.height
<1>1. /\ c \in Nat \ {0} /\ r \in Nat \ {0}
      /\ w \in Int /\ h \in Int /\ b \in Int /\ d \in Int
  BY Columns, Rows DEF Rectangle
<1>2. /\ c * (b + 100) <= 100 * w /\ b > 50
      /\ r * (d + 100) <= 100 * h /\ d > 50
  BY DEF HasRoom
<1> HIDE DEF c, r, b, d, w, h
<1>3. Divided(200 * c * r, w * 200 * r, b * c * r, c, w)
  BY <1>1, <1>2, Lengths
<1>4. Divided(200 * r * c, h * 200 * c, d * r * c, r, h)
  BY <1>1, <1>2, Lengths
<1>5. 200 * r * c = 200 * c * r /\ d * r * c = d * c * r
  BY <1>1
<1>6. Divided(200 * c * r, h * 200 * c, d * c * r, r, h)
  BY <1>4, <1>5
<1> QED
  BY <1>3, <1>6 DEF c, r, b, d, w, h, Unit, CellWidth, CellHeight, XMargin, YMargin

\* Where the tile of a source lies.
LEMMA TileLies ==
  ASSUME NEW M, M.bounds \in Rectangle, M.workingArea \in Rectangle,
         NEW s, s.width \in Nat \ {0}, s.height \in Nat \ {0},
         NEW n \in Nat \ {0}, NEW i \in 1 .. n, HasRoom(M, n)
  PROVE  LET t == TileOf(M, s, n, i)
         IN  /\ t.x \in Int /\ t.width \in 1 .. s.width
             /\ t.y \in Int /\ t.height \in 1 .. s.height
             /\ KeepsTo(Unit(n), M.workingArea.x, CellWidth(M, n), XMargin(M, n),
                        Column(n, i), t.x, t.width)
             /\ KeepsTo(Unit(n), M.workingArea.y, CellHeight(M, n), YMargin(M, n),
                        Row(n, i), t.y, t.height)
<1> DEFINE U == Unit(n)
           W == CellWidth(M, n)
           H == CellHeight(M, n)
           mx == XMargin(M, n)
           my == YMargin(M, n)
           k == Column(n, i)
           l == Row(n, i)
           cx == M.workingArea.x * U + k * W + mx
           cy == M.workingArea.y * U + l * H + my
           t == TileOf(M, s, n, i)
<1>1. /\ k \in Int /\ l \in Int
      /\ M.workingArea.x \in Int /\ M.workingArea.y \in Int
  BY Columns, Rows, Cell DEF Rectangle, Column, Row
<1>2. /\ U \in Nat \ {0} /\ W \in Nat /\ mx \in Nat /\ W - 2 * mx >= U
      /\ H \in Nat /\ my \in Nat /\ H - 2 * my >= U
  BY MonitorDivided DEF Divided
<1>3. t = FitInside(s, U, cx, cy, W - 2 * mx, H - 2 * my)
  BY DEF TileOf, Unit, CellWidth, CellHeight, XMargin, YMargin, Column, Row
<1> HIDE DEF U, W, H, mx, my, k, l, t
<1>4. cx \in Int /\ cy \in Int /\ W - 2 * mx \in Int /\ H - 2 * my \in Int
  BY <1>1, <1>2
<1> HIDE DEF cx, cy
<1>5. /\ t.x \in Int /\ t.width \in 1 .. s.width
      /\ t.y \in Int /\ t.height \in 1 .. s.height
      /\ 2 * cx - U <= 2 * U * t.x /\ U * (t.x + t.width) <= cx + (W - 2 * mx) + U
      /\ 2 * cy - U <= 2 * U * t.y /\ U * (t.y + t.height) <= cy + (H - 2 * my) + U
  BY <1>2, <1>3, <1>4, Fits
<1>6. /\ KeepsTo(U, M.workingArea.x, W, mx, k, t.x, t.width)
      /\ KeepsTo(U, M.workingArea.y, H, my, l, t.y, t.height)
  BY <1>5 DEF KeepsTo, cx, cy
<1> QED
  BY <1>5, <1>6 DEF U, W, H, mx, my, k, l, t

\* A tile lies in the working area and is no larger than its window.
LEMMA TileInside ==
  ASSUME NEW M, M.bounds \in Rectangle, M.workingArea \in Rectangle,
         NEW s, s.width \in Nat \ {0}, s.height \in Nat \ {0},
         NEW n \in Nat \ {0}, NEW i \in 1 .. n, HasRoom(M, n)
  PROVE  LET t == TileOf(M, s, n, i)
         IN  /\ t.width \in 1 .. s.width /\ t.height \in 1 .. s.height
             /\ Inside(t, M.workingArea)
<1> DEFINE t == TileOf(M, s, n, i)
           area == M.workingArea
<1>1. /\ area.x \in Int /\ area.y \in Int /\ area.width \in Int /\ area.height \in Int
      /\ ColumnsFor(n) \in Nat /\ RowsFor(n) \in Nat
      /\ Column(n, i) \in 0 .. ColumnsFor(n) - 1 /\ Row(n, i) \in 0 .. RowsFor(n) - 1
  BY Columns, Rows, Cell DEF Rectangle, Column, Row
<1>2. /\ t.x \in Int /\ t.width \in 1 .. s.width
      /\ t.y \in Int /\ t.height \in 1 .. s.height
      /\ KeepsTo(Unit(n), area.x, CellWidth(M, n), XMargin(M, n), Column(n, i), t.x, t.width)
      /\ KeepsTo(Unit(n), area.y, CellHeight(M, n), YMargin(M, n), Row(n, i), t.y, t.height)
  BY TileLies
<1>3. /\ Divided(Unit(n), CellWidth(M, n), XMargin(M, n), ColumnsFor(n), area.width)
      /\ Divided(Unit(n), CellHeight(M, n), YMargin(M, n), RowsFor(n), area.height)
  BY MonitorDivided
<1> HIDE DEF t, area
<1>4. t.width \in Int /\ t.height \in Int
  BY <1>2
<1>5. area.x <= t.x /\ t.x + t.width <= area.x + area.width
  BY <1>1, <1>2, <1>3, <1>4, Within
<1>6. area.y <= t.y /\ t.y + t.height <= area.y + area.height
  BY <1>1, <1>2, <1>3, <1>4, Within
<1> QED
  BY <1>2, <1>5, <1>6 DEF t, area, Inside

\* Two tiles of one monitor share no pixel.
LEMMA TilesBeside ==
  ASSUME NEW M, M.bounds \in Rectangle, M.workingArea \in Rectangle,
         NEW s, s.width \in Nat \ {0}, s.height \in Nat \ {0},
         NEW u, u.width \in Nat \ {0}, u.height \in Nat \ {0},
         NEW n \in Nat \ {0}, NEW i \in 1 .. n, NEW j \in 1 .. n, i # j, HasRoom(M, n)
  PROVE  Apart(TileOf(M, s, n, i), TileOf(M, u, n, j))
<1> DEFINE t == TileOf(M, s, n, i)
           v == TileOf(M, u, n, j)
           area == M.workingArea
<1>1. /\ area.x \in Int /\ area.y \in Int
      /\ Column(n, i) \in Nat /\ Row(n, i) \in Nat
      /\ Column(n, j) \in Nat /\ Row(n, j) \in Nat
      /\ Column(n, i) # Column(n, j) \/ Row(n, i) # Row(n, j)
  <2>1. area.x \in Int /\ area.y \in Int
    BY DEF Rectangle
  <2>2. /\ Column(n, i) \in Nat /\ Row(n, i) \in Nat
        /\ Column(n, j) \in Nat /\ Row(n, j) \in Nat
    BY Columns, Rows, Cell DEF Column, Row
  <2>3. ColumnsFor(n) \in Nat \ {0} /\ i \in Int /\ j \in Int
    BY Columns
  <2>4. Column(n, i) # Column(n, j) \/ Row(n, i) # Row(n, j)
    BY <2>3, OtherCell DEF Column, Row
  <2> QED
    BY <2>1, <2>2, <2>4
<1>2. /\ t.x \in Int /\ t.width \in Int /\ t.y \in Int /\ t.height \in Int
      /\ KeepsTo(Unit(n), area.x, CellWidth(M, n), XMargin(M, n), Column(n, i), t.x, t.width)
      /\ KeepsTo(Unit(n), area.y, CellHeight(M, n), YMargin(M, n), Row(n, i), t.y, t.height)
  BY TileLies
<1>3. /\ v.x \in Int /\ v.width \in Int /\ v.y \in Int /\ v.height \in Int
      /\ KeepsTo(Unit(n), area.x, CellWidth(M, n), XMargin(M, n), Column(n, j), v.x, v.width)
      /\ KeepsTo(Unit(n), area.y, CellHeight(M, n), YMargin(M, n), Row(n, j), v.y, v.height)
  BY TileLies
<1>4. /\ Divided(Unit(n), CellWidth(M, n), XMargin(M, n), ColumnsFor(n), area.width)
      /\ Divided(Unit(n), CellHeight(M, n), YMargin(M, n), RowsFor(n), area.height)
  BY MonitorDivided
<1> HIDE DEF t, v, area
<1>5. /\ Column(n, i) < Column(n, j) => t.x + t.width <= v.x
      /\ Column(n, j) < Column(n, i) => v.x + v.width <= t.x
  BY <1>1, <1>2, <1>3, <1>4, Beside
<1>6. /\ Row(n, i) < Row(n, j) => t.y + t.height <= v.y
      /\ Row(n, j) < Row(n, i) => v.y + v.height <= t.y
  BY <1>1, <1>2, <1>3, <1>4, Beside
<1> QED
  BY <1>1, <1>5, <1>6 DEF t, v, Apart

-----------------------------------------------------------------------------
(* The layout of a session.                                                *)

\* The ranks of some places are 1 to their number, in their order.
LEMMA Ranks ==
    ASSUME NEW k \in Nat, NEW S, S \subseteq 1..k, NEW i \in S
    PROVE  /\ Cardinality(S) \in 1..k
           /\ Rank(S, i) \in 1..Cardinality(S)
           /\ \A j \in S : i < j => Rank(S, i) < Rank(S, j)
<1> DEFINE Upto(j) == {l \in S : l <= j}
<1>1. IsFiniteSet(1..k) /\ Cardinality(1..k) = k
    BY FS_Interval
<1>2. IsFiniteSet(S) /\ Cardinality(S) \in Nat /\ Cardinality(S) <= k
    BY <1>1, FS_Subset, FS_CardinalityType
<1>0. \A j \in S : j \in Int
    OBVIOUS
<1>3. \A j \in S : /\ IsFiniteSet(Upto(j)) /\ Cardinality(Upto(j)) \in Nat
                   /\ Cardinality(Upto(j)) <= Cardinality(S)
    <2> TAKE j \in S
    <2>1. Upto(j) \in SUBSET S
        OBVIOUS
    <2> HIDE DEF Upto
    <2> QED BY <1>2, <2>1, FS_Subset, FS_CardinalityType
<1>4. Cardinality(Upto(i)) # 0
    <2>1. i \in Upto(i)
        OBVIOUS
    <2> HIDE DEF Upto
    <2> QED BY <1>3, <2>1, FS_EmptySet
<1>5. ASSUME NEW j \in S, i < j PROVE Cardinality(Upto(i)) < Cardinality(Upto(j))
    <2>1. /\ \A l \in S : l <= i => l <= j
          /\ ~(j <= i) /\ j <= j
        BY <1>0, <1>5
    <2>2. Upto(i) \subseteq Upto(j) /\ j \in Upto(j) /\ j \notin Upto(i)
        BY <2>1
    <2> HIDE DEF Upto
    <2>3. /\ Cardinality(Upto(i)) <= Cardinality(Upto(j))
          /\ Cardinality(Upto(i)) # Cardinality(Upto(j))
        BY <1>3, <2>2, FS_Subset
    <2> QED BY <1>3, <2>3
<1>6. \A j : Rank(S, j) = Cardinality(Upto(j))
    BY DEF Rank
<1> HIDE DEF Upto
<1> QED BY <1>2, <1>3, <1>4, <1>5, <1>6

\* What Layout::new has measured, and where it has placed the candidates.
Measured ==
    phase \in {"measured", "laid"} =>
        /\ known \subseteq DOMAIN Monitors
        /\ \A w \in Listed : measured[w].width \in Int /\ measured[w].height \in Int

Placed == phase = "laid" => bounds = Placement

LayoutInv == Measured /\ Placed /\ Len(windows) <= at

\* No layout without measures.
LEMMA InitLayout == Init => LayoutInv
BY DEF Init, LayoutInv, Measured, Placed

\* A layout is arranged once and then left alone.
LEMMA NextLayout == IInv /\ LayoutInv /\ [Next]_vars => LayoutInv'
<1> SUFFICES ASSUME IInv, LayoutInv, [Next]_vars PROVE LayoutInv'
    OBVIOUS
<1>1. windows \in Seq(Windows) /\ Len(windows) \in Nat /\ at \in Nat
    BY OrderIsSeq DEF IInv, TypeOK
<1>2. CASE UNCHANGED <<phase, windows, measured, known, bounds, at>>
    <2>1. Placement' = Placement /\ Listed' = Listed
        BY <1>2 DEF Placement, Listed, Usable, Tiles, OnMonitor
    <2> QED BY <1>2, <2>1 DEF LayoutInv, Measured, Placed
<1>3. ASSUME NEW w \in Windows, LookChanges(w) \/ ActiveChanges(w) PROVE LayoutInv'
    BY <1>2, <1>3 DEF LookChanges, ActiveChanges, enumeration, layout
<1>4. CASE Begin
    <2>1. Len(windows') = 0 /\ at' = 0 /\ phase' = "enumerating"
        BY <1>4 DEF Begin
    <2> QED BY <2>1 DEF LayoutInv, Measured, Placed
<1>5. CASE Visit
    <2>1. order[at + 1] \in Windows
        BY <1>5, OrderIsSeq DEF Visit, IInv
    <2>2. Len(windows') <= Len(windows) + 1 /\ at' = at + 1 /\ phase' = "enumerating"
        BY <1>1, <1>5, <2>1 DEF Visit
    <2>3. Len(windows') \in Nat
        BY <1>1, <1>5, <2>1 DEF Visit
    <2> QED BY <1>1, <2>2, <2>3 DEF LayoutInv, Measured, Placed
<1>6. CASE Found
    BY <1>6 DEF Found, enumeration, LayoutInv, Measured, Placed
<1>7. CASE Measure
    <2>1. PICK f \in Measures : measured' = [w \in Listed |-> f[w]]
        BY <1>7 DEF Measure
    <2>2. UNCHANGED <<windows, at>> /\ phase' = "measured"
        BY <1>7 DEF Measure, enumeration
    <2>3. Listed' = Listed /\ Listed \subseteq Windows
        BY <1>1, <2>2 DEF Listed
    <2>4. known' \subseteq DOMAIN Monitors
        BY <1>7 DEF Measure
    <2>5. \A w \in Listed' : measured'[w].width \in Int /\ measured'[w].height \in Int
        BY <2>1, <2>3, MeasureAssumption
    <2> QED BY <2>2, <2>4, <2>5 DEF LayoutInv, Measured, Placed
<1>8. CASE Arrange
    <2>1. UNCHANGED <<windows, at, measured, known>> /\ bounds' = Placement
          /\ phase = "measured" /\ phase' = "laid"
        BY <1>8 DEF Arrange, enumeration
    <2>2. Placement' = Placement /\ Listed' = Listed
        BY <2>1 DEF Placement, Listed, Usable, Tiles, OnMonitor
    <2> QED BY <2>1, <2>2 DEF LayoutInv, Measured, Placed
<1>9. CASE Release
    <2>1. Len(windows') = 0 /\ at' = 0 /\ phase' = "idle"
        BY <1>9 DEF Release
    <2> QED BY <2>1 DEF LayoutInv, Measured, Placed
<1>10. CASE UNCHANGED vars
    BY <1>2, <1>10 DEF vars
<1> QED BY <1>3, <1>4, <1>5, <1>6, <1>7, <1>8, <1>9, <1>10 DEF Next

\* Every monitor has room for a grid of all the windows of a list.
Roomy ==
    \A m \in DOMAIN Monitors : \A o \in Orders : \A n \in 1..Len(o) : HasRoom(Monitors[m], n)

\* Where a candidate stands among those of its monitor.
PlaceOf(m, w) ==
    LET on == OnMonitor(m) IN Rank(on, CHOOSE i \in on : windows[i] = w)

\* Each candidate of a monitor has a place of its own there.
LEMMA Places ==
    ASSUME IInv, NEW m, NEW w \in Listed, measured[w].monitor = m, ~IsEmpty(measured[w])
    PROVE  /\ Cardinality(OnMonitor(m)) \in 1..Len(windows)
           /\ PlaceOf(m, w) \in 1..Cardinality(OnMonitor(m))
           /\ Tiles(m)[w] = TileOf(Monitors[m], measured[w],
                                  Cardinality(OnMonitor(m)), PlaceOf(m, w))
           /\ \A v \in Listed : /\ measured[v].monitor = m /\ ~IsEmpty(measured[v])
                                /\ v # w
                               => PlaceOf(m, v) # PlaceOf(m, w)
<1> DEFINE on == OnMonitor(m)
           At(v) == CHOOSE i \in on : windows[i] = v
<1>1. /\ Len(windows) \in Nat /\ on \subseteq 1..Len(windows)
      /\ \A i \in on : i \in Int
    BY DEF IInv, TypeOK, OnMonitor
<1>2. \A v \in Listed : measured[v].monitor = m /\ ~IsEmpty(measured[v]) =>
        At(v) \in on /\ windows[At(v)] = v
    <2> SUFFICES ASSUME NEW v \in Listed, measured[v].monitor = m, ~IsEmpty(measured[v])
                 PROVE  \E i \in on : windows[i] = v
        OBVIOUS
    <2> QED BY DEF Listed, OnMonitor
<1>3. \A v : PlaceOf(m, v) = Rank(on, At(v))
    BY DEF PlaceOf
<1>4. w \in {windows[i] : i \in on}
    BY <1>2
<1>5. Tiles(m)[w] = TileOf(Monitors[m], measured[w], Cardinality(on), Rank(on, At(w)))
    BY <1>4 DEF Tiles
<1> HIDE DEF on, At
<1>6. Cardinality(on) \in 1..Len(windows) /\ Rank(on, At(w)) \in 1..Cardinality(on)
    BY <1>1, <1>2, Ranks
<1>7. ASSUME NEW v \in Listed, measured[v].monitor = m, ~IsEmpty(measured[v]), v # w
      PROVE  PlaceOf(m, v) # PlaceOf(m, w)
    <2>1. At(v) \in on /\ At(w) \in on /\ At(v) # At(w)
        BY <1>2, <1>7
    <2>2. At(v) \in Int /\ At(w) \in Int
        BY <1>1, <2>1
    <2>3. Rank(on, At(v)) \in Int /\ Rank(on, At(w)) \in Int
        <3>1. \A i \in on : Rank(on, i) \in 1..Cardinality(on)
            BY <1>1, Ranks
        <3> QED BY <2>1, <3>1
    <2>4. Rank(on, At(v)) < Rank(on, At(w)) \/ Rank(on, At(w)) < Rank(on, At(v))
        <3>1. \A i, j \in on : i < j => Rank(on, i) < Rank(on, j)
            BY <1>1, Ranks
        <3> QED BY <2>1, <2>2, <3>1
    <2> QED BY <1>3, <2>3, <2>4
<1> QED BY <1>3, <1>5, <1>6, <1>7 DEF on

\* Placed, the tiles of a monitor with room are apart.
LEMMA PlacedApart == IInv /\ LayoutInv /\ Roomy => TilesApart
<1> SUFFICES ASSUME IInv, LayoutInv, Roomy, phase = "laid", NEW w \in Listed,
                    Usable(measured[w].monitor), ~IsEmpty(measured[w])
             PROVE  /\ w \in DOMAIN bounds
                    /\ ~IsEmpty(bounds[w])
                    /\ bounds[w].width <= measured[w].width
                    /\ bounds[w].height <= measured[w].height
                    /\ Inside(bounds[w], Monitors[measured[w].monitor].workingArea)
                    /\ \A v \in DOMAIN bounds \ {w} :
                          measured[v].monitor = measured[w].monitor =>
                              Apart(bounds[v], bounds[w])
    BY DEF TilesApart
<1> DEFINE m == measured[w].monitor
           M == Monitors[m]
           n == Cardinality(OnMonitor(m))
           Shown == {v \in Listed : Usable(measured[v].monitor) /\ ~IsEmpty(measured[v])}
<1>1. bounds = Placement
    BY DEF LayoutInv, Placed
<1>2. /\ DOMAIN bounds = Shown
      /\ \A v \in Shown : bounds[v] = Tiles(measured[v].monitor)[v]
    BY <1>1 DEF Placement
<1>3. m \in DOMAIN Monitors /\ M.bounds \in Rectangle /\ M.workingArea \in Rectangle
    BY MeasureAssumption DEF Usable, LayoutInv, Measured
<1>4. n \in Nat \ {0} /\ HasRoom(M, n)
    <2>1. n \in 1..Len(windows) /\ Len(windows) \in Nat
        BY Places DEF IInv, TypeOK
    <2>2. order \in Orders /\ Len(windows) <= Len(order) /\ Len(order) \in Nat
        BY OrderIsSeq DEF IInv, Complete, Settled, LayoutInv
    <2>3. n \in 1..Len(order)
        BY <2>1, <2>2
    <2> QED BY <1>3, <2>2, <2>3 DEF Roomy
<1>5. \A v \in Shown : measured[v].monitor = m =>
        /\ measured[v].width \in Nat \ {0} /\ measured[v].height \in Nat \ {0}
        /\ PlaceOf(m, v) \in 1..n
        /\ bounds[v] = TileOf(M, measured[v], n, PlaceOf(m, v))
        /\ v # w => PlaceOf(m, v) # PlaceOf(m, w)
    <2> SUFFICES ASSUME NEW v \in Shown, measured[v].monitor = m
                 PROVE  /\ measured[v].width \in Nat \ {0} /\ measured[v].height \in Nat \ {0}
                        /\ PlaceOf(m, v) \in 1..n
                        /\ bounds[v] = TileOf(M, measured[v], n, PlaceOf(m, v))
                        /\ v # w => PlaceOf(m, v) # PlaceOf(m, w)
        OBVIOUS
    <2>1. measured[v].width \in Nat \ {0} /\ measured[v].height \in Nat \ {0}
        BY DEF LayoutInv, Measured, IsEmpty
    <2>2. PlaceOf(m, v) \in 1..n /\ Tiles(m)[v] = TileOf(M, measured[v], n, PlaceOf(m, v))
        BY Places
    <2>3. v # w => PlaceOf(m, v) # PlaceOf(m, w)
        BY Places
    <2>4. bounds[v] = Tiles(m)[v]
        BY <1>2
    <2> HIDE DEF M, n
    <2> QED BY <2>1, <2>2, <2>3, <2>4
<1>6. w \in Shown
    OBVIOUS
<1> HIDE DEF m, M, n, Shown
<1>7. /\ bounds[w].width \in 1..measured[w].width
      /\ bounds[w].height \in 1..measured[w].height
      /\ Inside(bounds[w], M.workingArea)
    <2>1. measured[w].monitor = m
        BY DEF m
    <2> QED BY <1>3, <1>4, <1>5, <1>6, <2>1, TileInside
<1>8. ASSUME NEW v \in DOMAIN bounds \ {w}, measured[v].monitor = m
      PROVE  Apart(bounds[v], bounds[w])
    <2> DEFINE i == PlaceOf(m, v)
               j == PlaceOf(m, w)
    <2>1. measured[w].monitor = m
        BY DEF m
    <2>2. /\ measured[v].width \in Nat \ {0} /\ measured[v].height \in Nat \ {0}
          /\ i \in 1..n /\ bounds[v] = TileOf(M, measured[v], n, i) /\ i # j
        BY <1>2, <1>5, <1>8
    <2>3. /\ measured[w].width \in Nat \ {0} /\ measured[w].height \in Nat \ {0}
          /\ j \in 1..n /\ bounds[w] = TileOf(M, measured[w], n, j)
        BY <1>5, <1>6, <2>1
    <2> HIDE DEF i, j
    <2>4. Apart(TileOf(M, measured[v], n, i), TileOf(M, measured[w], n, j))
        BY <1>3, <1>4, <2>2, <2>3, TilesBeside
    <2> QED BY <2>2, <2>3, <2>4
<1>9. /\ ~IsEmpty(bounds[w])
      /\ bounds[w].width <= measured[w].width /\ bounds[w].height <= measured[w].height
    <2>1. measured[w].width \in Nat /\ measured[w].height \in Nat
        BY <1>5, <1>6 DEF m
    <2> QED BY <1>7, <2>1 DEF IsEmpty
<1>10. w \in DOMAIN bounds
    BY <1>2, <1>6
<1>11. /\ Inside(bounds[w], Monitors[measured[w].monitor].workingArea)
       /\ \A v \in DOMAIN bounds \ {w} :
             measured[v].monitor = measured[w].monitor => Apart(bounds[v], bounds[w])
    BY <1>7, <1>8 DEF m, M
<1> QED BY <1>9, <1>10, <1>11

\* The layout invariant holds in every reachable state.
LEMMA LayoutHolds == Spec => [](IInv /\ LayoutInv)
<1>1. IInv /\ LayoutInv /\ [Next]_vars => (IInv /\ LayoutInv)'
    BY NextIInv, NextLayout
<1>2. Init => IInv /\ LayoutInv
    BY InitIInv, InitLayout
<1> QED BY <1>1, <1>2, PTL DEF Spec

\* Whatever the windows' sizes and however many they are, the tiles of a
\* session lie in the working area and no two share a pixel (grid_layout.rs:
\* fit_inside rounds position and size each on its own).
THEOREM TilesStayApart ==
    ASSUME Roomy
    PROVE  Spec => []TilesApart
<1>1. IInv /\ LayoutInv => TilesApart
    BY PlacedApart
<1> QED BY <1>1, LayoutHolds, PTL
=============================================================================
