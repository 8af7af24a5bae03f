----------------------------- MODULE Rects -----------------------------
(***************************************************************************)
(* Regions of the canvas (internal/ui/canvas.go, text.go) and how they are *)
(* cut up.  Texts are their widths in cells.  A mark is the region a       *)
(* widget writes to: [X, Y, W, H], and what a widget draws is a set of     *)
(* them.  The canvas drops what is written outside of it; here it is kept, *)
(* so that what holds of marks holds of canvases of any size.              *)
(***************************************************************************)
EXTENDS Integers, Sequences, FiniteSets, Functions

Lesser(a, b)  == IF a <= b THEN a ELSE b
Greater(a, b) == IF a >= b THEN a ELSE b

Rect(x, y, w, h) == [X |-> x, Y |-> y, W |-> w, H |-> h]
Right(r)  == r.X + r.W
Bottom(r) == r.Y + r.H
Empty(r)  == r.W <= 0 \/ r.H <= 0
Nowhere   == Rect(0, 0, 0, 0)

Inset2(r, x, y) ==
  Rect(r.X + x, r.Y + y, Greater(r.W - 2 * x, 0), Greater(r.H - 2 * y, 0))

(* What is asked of a mark.                                                *)
Within(m, r) == m.X >= r.X /\ m.Y >= r.Y /\ Right(m) <= Right(r) /\ Bottom(m) <= Bottom(r)
Apart(m, n)  == Right(m) <= n.X \/ Right(n) <= m.X \/ Bottom(m) <= n.Y \/ Bottom(n) <= m.Y

-----------------------------------------------------------------------------
(* Sum of the elements before the k-th of a sequence, and of all.          *)
Before(s, k) == LET sum[i \in 0 .. k - 1] == IF i = 0 THEN 0 ELSE sum[i - 1] + s[i] IN sum[k - 1]
Total(s)     == Before(s, Len(s) + 1)

(* What is at the places I of a sequence, in order.                        *)
Picked(s, I) ==
  LET from[i \in 0 .. Len(s)] ==
        IF i = 0 THEN <<>> ELSE IF i \in I THEN Append(from[i - 1], s[i]) ELSE from[i - 1]
  IN  from[Len(s)]

(* Horizontal strips of the heights asked for, -1 for what is left, cut    *)
(* off at the bottom.                                                      *)
Rows(r, heights) ==
  LET fixed == Total([i \in DOMAIN heights |-> Greater(heights[i], 0)])
      want  == [i \in DOMAIN heights |->
                 IF heights[i] < 0 THEN Greater(r.H - fixed, 0) ELSE heights[i]]
      top(i) == Lesser(Before(want, i), r.H)
  IN  [i \in DOMAIN heights |-> Rect(r.X, r.Y + top(i), r.W, Lesser(want[i], r.H - top(i)))]

(* Slip: the remainder is left over. *)
Ragged(total, widths) == widths

(* Slip: every column is given the remainder rounded up. *)
RoundedUp(total, widths) ==
  LET n == Len(widths)
  IN  [i \in 1 .. n |-> widths[i] + ((Greater(total - Total(widths), 0) + n - 1) \div n)]

(* The cells that are over, one at a time from the left, and round again.  *)
Spread(total, widths) ==
  LET n == Len(widths)  over == Greater(total - Total(widths), 0)
  IN  [i \in 1 .. n |-> widths[i] + (over \div n) + (IF i <= over % n THEN 1 ELSE 0)]

(* Slip: as if all columns were equally wide. *)
Evenly(r, widths) ==
  [i \in DOMAIN widths |-> Rect(r.X + (i - 1) * (r.W \div Len(widths)), r.Y, widths[i], r.H)]

(* Columns of the widths given, next to each other.                        *)
SideBySide(r, widths) ==
  [i \in DOMAIN widths |-> Rect(r.X + Before(widths, i), r.Y, widths[i], r.H)]

Cols(r, weights) ==
  SideBySide(r, Spread(r.W, [i \in DOMAIN weights |-> (r.W * weights[i]) \div Total(weights)]))

-----------------------------------------------------------------------------
(* Writing.  Clip takes a text of n cells to at most w.                    *)
Clip(n, w) == Greater(Lesser(n, w), 0)

Mark(x, y, w, h) == IF w <= 0 \/ h <= 0 THEN {} ELSE {Rect(x, y, w, h)}
Text(x, y, n)            == Mark(x, y, n, 1)
TextIn(x, y, max, n)     == Text(x, y, Clip(n, max))
TextRight(right, y, n)   == Text(right - Clip(n, right), y, Clip(n, right))
TextCenter(x, y, w, n)   == Text(x + ((w - Clip(n, w)) \div 2), y, Clip(n, w))
=============================================================================
