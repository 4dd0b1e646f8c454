----------------------------- MODULE GridLayout -----------------------------
(***************************************************************************)
(* The near-square grid of geometry/grid_layout.rs: how the candidates of  *)
(* one monitor are divided into cells and fitted into them.                *)
(*                                                                         *)
(* The code computes in single precision and rounds to even.  Here a       *)
(* quantity is the exact fraction n/d it stands for, so that the rounding  *)
(* is the only approximation.  Every length is counted in units of 1/U of  *)
(* a pixel, U = 200 * columns * rows, in which the cells and the margins   *)
(* of 0.005 of the monitor are whole.                                      *)
(***************************************************************************)
EXTENDS Integers, Sequences

Rectangle == [x : Int, y : Int, width : Int, height : Int]

IsEmpty(r) == r.width <= 0 \/ r.height <= 0

\* value.round_ties_even() of the fraction n/d, d > 0.
RoundToEven(n, d) ==
    LET q == n \div d
        r == n % d
    IN  IF 2 * r < d \/ (2 * r = d /\ q % 2 = 0) THEN q ELSE q + 1

AtLeastOne(k) == IF k < 1 THEN 1 ELSE k

\* sqrt(n).ceil() and (n / columns).ceil()
ColumnsFor(n) == CHOOSE c \in 0..n : c * c >= n /\ \A b \in 0..(c - 1) : b * b < n

\* A row count that loses the last, incomplete row.
RowsForWhole(n) == n \div ColumnsFor(n)

RowsFor(n) == (n + ColumnsFor(n) - 1) \div ColumnsFor(n)

(***************************************************************************)
(* fit_inside: the source scaled down, never up, until it fits a room of   *)
(* width aw/U and height ah/U whose corner is at (cx/U, cy/U), and centred *)
(* there.  The scale is the fraction num/den: 1, or the tighter of         *)
(* aw/(U*width) and ah/(U*height).                                         *)
(***************************************************************************)
FitInside(source, U, cx, cy, aw, ah) ==
    LET w == source.width
        h == source.height
        whole == w * U <= aw /\ h * U <= ah
        wide == aw * h <= ah * w
        num == IF whole THEN U ELSE IF wide THEN aw ELSE ah
        den == IF whole THEN U ELSE IF wide THEN w * U ELSE h * U
        \* x = cx/U + (aw/U - w*num/den)/2, and den is a multiple of U
        per == den \div U
    IN  IF IsEmpty(source) \/ aw <= 0 \/ ah <= 0
        THEN [x |-> 0, y |-> 0, width |-> 0, height |-> 0]
        ELSE [x |-> RoundToEven(2 * cx * per + aw * per - w * num, 2 * den),
              y |-> RoundToEven(2 * cy * per + ah * per - h * num, 2 * den),
              width |-> AtLeastOne(RoundToEven(w * num, den)),
              height |-> AtLeastOne(RoundToEven(h * num, den))]

\* layout_monitor_windows: the rectangle of the i-th (from 1) of n sources of
\* a monitor, whose bounds set the margins and whose working area is divided.
TileOf(monitor, source, n, i) ==
    LET columns == ColumnsFor(n)
        rows == RowsFor(n)
        U == 200 * columns * rows
        area == monitor.workingArea
        cellWidth == area.width * 200 * rows
        cellHeight == area.height * 200 * columns
        xMargin == monitor.bounds.width * columns * rows
        yMargin == monitor.bounds.height * columns * rows
        column == (i - 1) % columns
        row == (i - 1) \div columns
    IN  FitInside(source, U,
                  area.x * U + column * cellWidth + xMargin,
                  area.y * U + row * cellHeight + yMargin,
                  cellWidth - 2 * xMargin,
                  cellHeight - 2 * yMargin)

\* Whether r lies within s, and whether two rectangles share no pixel.
Inside(r, s) ==
    /\ s.x <= r.x /\ r.x + r.width <= s.x + s.width
    /\ s.y <= r.y /\ r.y + r.height <= s.y + s.height

Apart(r, s) ==
    \/ r.x + r.width <= s.x \/ s.x + s.width <= r.x
    \/ r.y + r.height <= s.y \/ s.y + s.height <= r.y
=============================================================================
