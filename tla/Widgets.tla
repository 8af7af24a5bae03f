---------------------------- MODULE Widgets ----------------------------
(***************************************************************************)
(* The widgets of internal/ui (panel.go, gauge.go, chart.go, art.go): what *)
(* each writes to, from the region it is handed and the widths of its      *)
(* texts.                                                                  *)
(***************************************************************************)
EXTENDS Rects

NA == 2         \* "--"
MinLabel == 6

(* The interior of a bordered panel: nothing when it is too small for one. *)
Interior(r) == IF r.W < 4 \/ r.H < 3 THEN Nowhere ELSE Inset2(r, 2, 1)

(* The title and the label at the right, on the top rule.                  *)
PanelTitle(r, title, right) ==
  LET x     == r.X + 2 + (IF r.W > 12 THEN 2 ELSE 0)
      avail == Right(r) - 2 - x - (IF right > 0 THEN right + 3 ELSE 0)
      shown == IF avail > 3 THEN Clip(title, avail) ELSE 0
      rx    == Right(r) - 2 - right
  IN  IF r.W < 4 \/ r.H < 3 THEN {} ELSE
      (IF r.W > 12 THEN Text(r.X + 2, r.Y, 1) ELSE {})
      \cup Text(x, r.Y, shown)
      \cup (IF r.W > 24 /\ rx > x + shown + 1 THEN Text(rx, r.Y, right) ELSE {})

(* Slip: the label is trimmed, whatever is left of it, and never dropped. *)
TrimmedLabel(lw) == TRUE

WorthALabel(lw) == lw >= MinLabel

(* A label and a value against the right edge; the label gives way.        *)
Row(r, y, label, value) ==
  LET lw == r.W - value - 1
  IN  IF y < r.Y \/ y >= Bottom(r) THEN {}
      ELSE IF WorthALabel(lw) THEN TextIn(r.X, y, lw, label) \cup TextRight(Right(r), y, value)
      ELSE TextRight(Right(r), y, Clip(value, r.W))

kvRows(r, y, rows) ==
  UNION {IF y + i - 1 < Bottom(r) THEN Row(r, y + i - 1, rows[i][1], rows[i][2]) ELSE {} :
           i \in DOMAIN rows}

(* Lines of text from y down, as many as the region has rows for.          *)
Lines(r, y, widths) ==
  UNION {IF y + i - 1 < Bottom(r) THEN TextIn(r.X, y + i - 1, r.W, widths[i]) ELSE {} :
           i \in DOMAIN widths}

-----------------------------------------------------------------------------
(* What a gauge or a picture fills: its whole region, or nothing when that *)
(* is too small.                                                           *)
Picture(r, minW, minH) == IF r.W < minW \/ r.H < minH THEN {} ELSE {r}

DrawBar(x, y, w)     == Text(x, y, w)
Globe(r)             == Picture(r, 6, 3)
WireCube(r)          == Picture(r, 6, 4)
SignalBars(x, y)     == Text(x, y, 5)

(* A ring and the lines of text in its hole, of which there may be more    *)
(* than it has rows.                                                       *)
Ring(r, lines) ==
  LET n == Len(lines)
      top == IF r.H >= n THEN r.Y + ((r.H - n) \div 2) ELSE r.Y - ((n - r.H) \div 2)
  IN  IF r.W < 5 \/ r.H < 3 THEN {} ELSE
      {r} \cup UNION {TextCenter(r.X, top + i - 1, r.W, Clip(lines[i], r.W - 2)) : i \in 1 .. n}

(* The newest samples, against the right edge.                             *)
Spectrum(r, n) ==
  LET w == Lesser(n, r.W) IN IF Empty(r) THEN {} ELSE Mark(Right(r) - w, r.Y, w, r.H)

(* A line chart takes the whole region: a gutter for the labels of the     *)
(* scale, unless they are more than a quarter of it; one row or two for    *)
(* the labels of the axis; and the plot.                                   *)
XAxisRows(h) == IF h >= 8 THEN 2 ELSE IF h >= 6 THEN 1 ELSE 0

Plot(r, labelW) ==
  LET gutter == IF labelW > r.W \div 4 THEN 0 ELSE labelW + 1
  IN  Rect(r.X + gutter, r.Y, r.W - gutter, r.H - XAxisRows(r.H))

(* The most steps the scale may have, and the row of the i-th label.       *)
MaxTicks(plot)       == Lesser(Greater((plot.H - 1) \div 2, 2), 6)
TickRow(plot, i, n)  == plot.Y + ((i * (plot.H - 1)) \div n)

(* Slip: the labels in between are centred on their share of the width and *)
(* the ones at the ends too. *)
AllCentred(r, i, n, w) == r.X + (((i - 1) * (r.W - 1)) \div (n - 1)) - (w \div 2)

XLabelAt(r, i, n, w) ==
  LET x == IF i = 1 THEN r.X ELSE IF i = n THEN Right(r) - w
           ELSE r.X + (((i - 1) * (r.W - 1)) \div (n - 1)) - (w \div 2)
  IN  Lesser(Greater(x, r.X), Right(r) - w)

Chart(r, labelW, xLabels, empty) ==
  LET p == Plot(r, labelW)  ticks == MaxTicks(p)  n == Len(xLabels)
      scale == IF p.X = r.X THEN {}
               ELSE Mark(p.X - 1, p.Y, 1, p.H)
                    \cup UNION {TextRight(p.X - 2, TickRow(p, i, ticks), labelW) : i \in 0 .. ticks}
      axis  == IF XAxisRows(r.H) = 0 THEN {}
               ELSE Text(p.X, Bottom(p), p.W)
                    \cup (IF p.W < 6 THEN {} ELSE
                          UNION {Text(XLabelAt(p, i, n, xLabels[i]), Bottom(r) - 1, xLabels[i]) : i \in 1 .. n})
      trace == IF empty = 0 THEN {p} ELSE TextCenter(p.X, p.Y + (p.H \div 2), p.W, empty)
  IN  IF r.W < 10 \/ r.H < 4 \/ p.W < 4 THEN {} ELSE scale \cup axis \cup trace

(* Four rows whatever it is given.                                         *)
Thermometer(x, y, h) == Mark(x, y, 4, Greater(h, 4))
Tank(x, y, w, h)     == IF w < 3 \/ h < 3 THEN {} ELSE Mark(x, y, w, h)

(* A column of glyphs three rows tall for each character of a rate.        *)
BigText(x, y, w)     == Mark(x, y, w, 3)

MastRows == 4
Mast(r) ==
  LET arcs == Clip(r.H - MastRows, 3)
      top  == r.Y + ((r.H - MastRows - arcs) \div 2)
  IN  IF r.W < 8 \/ r.H < MastRows + 1 THEN {}
      ELSE Mark(r.X + ((r.W - 6) \div 2), top + arcs, 6, MastRows)
           \cup UNION {Text(r.X + ((r.W - (2 * i + 1)) \div 2), top + arcs - i, 2 * i + 1) : i \in 1 .. arcs}

SignalRamp(r) ==
  LET pitch == IF r.W >= 14 THEN 3 ELSE 2
      gap   == IF r.W >= 14 THEN 1 ELSE IF r.W >= 10 THEN 0 ELSE 1
      w     == 5 * pitch - gap
  IN  IF r.W < 5 \/ r.H < 2 THEN {} ELSE Mark(r.X + ((r.W - w) \div 2), r.Y, w, r.H)

ringWidth(h, max) == Lesser(2 * h, max)
=============================================================================
