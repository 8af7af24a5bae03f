---------------------------- MODULE Layout ----------------------------
(***************************************************************************)
(* The header, the grid of the dashboard and the block banner              *)
(* (cmd/derostorm/tui_layout.go).  A band is a row of panels with a height *)
(* it would like and a share of the rows left over; a panel has the        *)
(* narrowest width it is worth drawing at and a share of its row.          *)
(***************************************************************************)
EXTENDS Screens

headerHeight(w, h) ==
  IF h >= 36 /\ w >= 96 THEN 8 ELSE IF h >= 24 /\ w >= 72 THEN 6 ELSE IF h >= 18 THEN 3 ELSE 2

(* The name at the largest size that fits: its width and its rows.         *)
Wordmark(r) ==
  IF r.H >= 5 /\ r.W >= 77 THEN <<77, 5>> ELSE IF r.H >= 3 /\ r.W >= 27 THEN <<27, 3>> ELSE <<9, 1>>

drawWordmark(r) ==
  LET m == Wordmark(r) IN Mark(r.X + ((r.W - m[1]) \div 2), r.Y, m[1], m[2])

Tagline(x, y, widths) == UNION {Text(x, y + i - 1, widths[i]) : i \in DOMAIN widths}
RightTagline(right, y, widths) == UNION {TextRight(right, y + i - 1, widths[i]) : i \in DOMAIN widths}

(* Slip: the caption starts on the row of the version. *)
FirstRow(r) == r.Y

CaptionRow(r) == r.Y + 1

versionW == 6

(* The badge and what DERO is at the left; the version, the moon and a     *)
(* caption at the right; the name and a line below it in what is left.     *)
drawHeaderCrest(r) ==
  LET full   == r.W >= 108 /\ r.H >= 5
      leftW  == IF full THEN 33 ELSE 0
      tagX   == Right(r) - 18
      mx     == tagX - 12
      moon   == full /\ mx > r.X + leftW
      rightW == IF moon THEN Right(r) - mx + 2 ELSE IF full THEN Right(r) - tagX + 2
                ELSE IF r.W >= 92 THEN versionW + 6 ELSE 0
      left   == Rect(r.X + leftW, r.Y, r.W - leftW - rightW, r.H)
      name   == IF left.W < 30 THEN r ELSE left
      used   == Wordmark(name)[2]
      line   == IF name.W >= 60 THEN 37 ELSE 19
  IN  (IF full
       THEN (IF r.H >= 6 THEN Mark(r.X + 1, r.Y + ((r.H - 6) \div 2), 11, 6)
             ELSE Mark(r.X + 1, r.Y + ((r.H - 3) \div 2), 9, 3))
            \cup Tagline(r.X + 14, r.Y, <<4, 7, 7, 16>>)
            \cup RightTagline(tagX + 16, CaptionRow(r), <<10, 10, 16>>)
       ELSE {})
      \cup (IF moon THEN Mark(mx, r.Y + ((r.H - 6) \div 2), 9, 6) ELSE {})
      \cup (IF r.W >= 92 THEN TextRight(Right(r) - 1, r.Y, versionW + 4) ELSE {})
      \cup drawWordmark(name)
      \cup (IF used < r.H THEN TextCenter(name.X, name.Y + used, name.W, Clip(line, name.W)) ELSE {})

(* The status strip: fields, each a mark, a name and a value, as many as   *)
(* fit before the tag at the right.                                        *)
tagText == 26
drawRunHeader(r, s) ==
  LET tagW   == IF r.W >= 118 THEN tagText + 15 ELSE IF r.W >= 90 THEN tagText + 2 ELSE 0
      fields == <<4 + s.node, 14, 6 + s.time, 15, 10>>
      need   == [i \in DOMAIN fields |-> fields[i] + 6]
      x(i)   == r.X + 1 + Before(need, i)
      fits(i) == \A j \in 1 .. i : x(j) + need[j] <= Right(r) - tagW
  IN  IF r.W < 20 THEN {} ELSE
      (IF r.W >= 118 THEN Text(Right(r) - tagW + 1, r.Y, tagText) \cup Text(Right(r) - tagW + 1 + tagText + 2, r.Y, 6)
       ELSE IF r.W >= 90 THEN TextRight(Right(r), r.Y, tagText) ELSE {})
      \cup UNION {IF fits(i) THEN Text(x(i), r.Y, fields[i] + 3) ELSE {} : i \in DOMAIN fields}

drawHeader(r, s) ==
  IF Empty(r) THEN {} ELSE
  Text(r.X, Bottom(r) - 1, r.W)
  \cup (IF r.H < 2 THEN {} ELSE drawRunHeader(Rect(r.X + 1, Bottom(r) - 2, r.W - 2, 1), s))
  \cup (IF r.H < 3 THEN {} ELSE drawHeaderCrest(Rect(r.X, r.Y, r.W, r.H - 2)))

-----------------------------------------------------------------------------
bandFloorH == 5

panelDef(name, minW, weight)  == [name |-> name, minW |-> minW, weight |-> weight]
bandDef(minH, grow, panels)   == [minH |-> minH, grow |-> grow, panels |-> panels]

dashboardBands ==
  <<bandDef(8, 3, <<panelDef("mining", 32, 30), panelDef("history", 30, 34), panelDef("network", 32, 36)>>),
    bandDef(8, 4, <<panelDef("cpu", 28, 30), panelDef("gpu", 28, 34), panelDef("shares", 30, 36)>>),
    bandDef(8, 3, <<panelDef("blockchain", 26, 26), panelDef("system", 26, 27), panelDef("log", 36, 47)>>),
    bandDef(8, 2, <<panelDef("threads", 24, 28), panelDef("status", 26, 33), panelDef("quick", 22, 24),
                    panelDef("connection", 16, 15)>>)>>

WidthOf(panels) == Total([i \in DOMAIN panels |-> panels[i].minW])

(* A band's panels in as many rows as their widths take.                   *)
WithPanel(rows, p, w) ==
  IF rows # <<>> /\ WidthOf(rows[Len(rows)]) + p.minW <= w
  THEN [rows EXCEPT ![Len(rows)] = Append(@, p)]
  ELSE Append(rows, <<p>>)

Pack(panels, w) ==
  LET rows[k \in 0 .. Len(panels)] == IF k = 0 THEN <<>> ELSE WithPanel(rows[k - 1], panels[k], w)
  IN  rows[Len(panels)]

PackedRows(w, bands) ==
  FlattenSeq([b \in DOMAIN bands |->
    LET rows == Pack(bands[b].panels, w)
    IN  [i \in DOMAIN rows |-> [band |-> b, ord |-> i, panels |-> rows[i]]]])

(* Slip: straight down the list. *)
StraightDown(rows, i) == i - 1

(* How many rows are taken before the i-th: every band's first, then every *)
(* band's second, and so on.                                               *)
TakenBefore(rows, i) ==
  Cardinality({j \in DOMAIN rows : \/ rows[j].ord < rows[i].ord
                                   \/ rows[j].ord = rows[i].ord /\ j < i})

Kept(rows, h) == Picked(rows, {i \in DOMAIN rows : TakenBefore(rows, i) < h \div bandFloorH})

(* From the floor up to the height each row would like, one row at a time  *)
(* round the list as long as there are any to give.                        *)
Visited(heights, i, h, minH) ==
  IF Total(heights) < h /\ heights[i] < minH THEN [heights EXCEPT ![i] = @ + 1] ELSE heights

Round(heights, rows, h, bands) ==
  LET hs[i \in 0 .. Len(rows)] ==
        IF i = 0 THEN heights ELSE Visited(hs[i - 1], i, h, bands[rows[i].band].minH)
  IN  hs[Len(rows)]

(* After as many rounds as the neediest row is short of, none moves.       *)
Shortfall(bands) ==
  LET short == {Greater(bands[b].minH - bandFloorH, 0) : b \in DOMAIN bands}
  IN  CHOOSE n \in short : \A m \in short : m <= n

Raised(rows, h, bands) ==
  LET hs[k \in 0 .. Shortfall(bands)] ==
        IF k = 0 THEN [i \in DOMAIN rows |-> bandFloorH] ELSE Round(hs[k - 1], rows, h, bands)
  IN  hs[Shortfall(bands)]

(* What is left after that by grow, and the rest of the division one at a  *)
(* time again.                                                             *)
RowHeights(rows, h, bands) ==
  LET up   == Raised(rows, h, bands)
      rest == h - Total(up)
      grow == [i \in DOMAIN rows |-> bands[rows[i].band].grow]
  IN  Spread(h, [i \in DOMAIN rows |-> up[i] + ((rest * grow[i]) \div Total(grow))])

(* Slip: by weight alone. *)
ByWeight(w, panels) ==
  [i \in DOMAIN panels |-> (w * panels[i].weight) \div Total([j \in DOMAIN panels |-> panels[j].weight])]

(* What each panel needs and a share of the rest, or a share of what there *)
(* is when that is not enough.                                             *)
RowWidths(w, panels) ==
  LET base == WidthOf(panels)  grow == Total([i \in DOMAIN panels |-> panels[i].weight])
  IN  [i \in DOMAIN panels |->
         IF base > w THEN (w * panels[i].minW) \div base
         ELSE panels[i].minW + (((w - base) * panels[i].weight) \div grow)]

splitRow(strip, panels) == SideBySide(strip, Spread(strip.W, RowWidths(strip.W, panels)))

planBands(body, bands) ==
  LET rows == Kept(PackedRows(body.W, bands), body.H)
      hs   == RowHeights(rows, body.H, bands)
      row(i) ==
        LET at == splitRow(Rect(body.X, body.Y + Before(hs, i), body.W, hs[i]), rows[i].panels)
        IN  [j \in DOMAIN at |-> [p |-> rows[i].panels[j], r |-> at[j]]]
      cells == FlattenSeq([i \in DOMAIN rows |-> row(i)])
  IN  IF rows = <<>> THEN <<>> ELSE Picked(cells, {k \in DOMAIN cells : ~ Empty(cells[k].r)})

DrawPanel(c, s) ==
  CASE c.p.name = "mining"     -> panelMining(c.r, s)
    [] c.p.name = "history"    -> panelHistory(c.r, s)
    [] c.p.name = "network"    -> panelNetwork(c.r, s)
    [] c.p.name = "cpu"        -> panelCPU(c.r, s)
    [] c.p.name = "gpu"        -> panelGPU(c.r, s)
    [] c.p.name = "shares"     -> panelShares(c.r, s)
    [] c.p.name = "blockchain" -> panelBlockchain(c.r, s)
    [] c.p.name = "system"     -> panelSystem(c.r, s)
    [] c.p.name = "log"        -> panelLog(c.r, s)
    [] c.p.name = "threads"    -> panelThreads(c.r, s)
    [] c.p.name = "status"     -> panelStatus(c.r, s)
    [] c.p.name = "quick"      -> panelQuick(c.r, s)
    [] c.p.name = "connection" -> panelConnection(c.r, s)

drawDashboard(body, s) ==
  LET cells == planBands(Inset2(body, 1, 0), dashboardBands)
  IN  IF Empty(body) THEN <<>> ELSE [i \in DOMAIN cells |-> DrawPanel(cells[i], s)]

-----------------------------------------------------------------------------
(* Slip: a third of the way down. *)
UpperThird(full, h) == full.Y + ((full.H - h) \div 3)

Middle(full, h) == full.Y + ((full.H - h) \div 2)

(* A box of four lines over whatever is showing, in the middle of it.      *)
drawBlockBanner(full, s) ==
  LET h == 8  w == Lesser(7 + s.count + 12, full.W - 4)
  IN  IF w < 20 \/ h > full.H - 2 THEN {}
      ELSE Mark(full.X + ((full.W - w) \div 2), Middle(full, h), w, h)
=============================================================================
