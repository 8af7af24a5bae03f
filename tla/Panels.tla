---------------------------- MODULE Panels ----------------------------
(***************************************************************************)
(* The dashboard's panels (cmd/derostorm/tui_panels.go): what each draws   *)
(* in the rectangle it is handed.  A snapshot s is what decides the form   *)
(* and the width of what is shown:                                         *)
(*   rate, big, unit   a hashrate, its number in big digits, its unit      *)
(*   label, conn       the run state and the connection state              *)
(*   active, bars      mining, and the strength of the connection          *)
(*   gpuOn, gpus       cards asked for, rows of cards                      *)
(*   detail, sensed    the chosen card's detail; its sensor answers        *)
(*   threads, rates    threads, and threads whose rate is known            *)
(*   count, node, time a number with commas, the node's name, a duration   *)
(*   info, sys, judged the node, the system and a share were heard of      *)
(*   temp, note        a temperature with its mark, a card's note          *)
(*   log, tag, msg     entries the view shows, longest tag, their texts    *)
(*   held              what the log's header says, 0 when it follows       *)
(*   hist, range, axis samples of each window, the one shown, and the       *)
(*                     longest label of its scale                          *)
(***************************************************************************)
EXTENDS Widgets

Val(known, w) == IF known THEN w ELSE NA

Panel(r, title, right, Ink(_)) ==
  [at |-> r, top |-> PanelTitle(r, title, right),
   ink |-> IF Empty(Interior(r)) THEN {} ELSE Ink(Interior(r))]

(* What is left of a region from row y down.                               *)
Below(r, y) == Rect(r.X, y, r.W, Bottom(r) - y)

(* What is left beside w cells and two blank ones at its left.             *)
RightOf(r, w) == Rect(r.X + w + 2, r.Y, r.W - w - 2, r.H)

-----------------------------------------------------------------------------
nSources(s) == IF s.gpuOn THEN 2 ELSE 1

(* Big numerals where there is room for them and a row for every source.   *)
Headlined(in, s) == in.H >= 4 + nSources(s) /\ in.W >= 30

Headline(in, s) ==
  LET lw == s.label + 2
      sw == LET w == Greater(in.W - s.big - lw - 3, 8) IN IF w > in.W - 2 THEN 12 ELSE w
  IN  BigText(in.X, in.Y, s.big)
      \cup Text(in.X + s.big + 2, in.Y + 2, s.unit)
      \cup (IF in.W > s.big + lw + 8
            THEN Text(Right(in) - lw, in.Y, 1) \cup Text(Right(in) - lw + 2, in.Y, s.label)
                 \cup (IF in.H >= 6 THEN Text(Right(in) - sw, in.Y + 2, sw) ELSE {})
            ELSE {})
      \cup Text(in.X, in.Y + 3, 14)

PlainHeadline(in, s) == Text(in.X, in.Y, s.rate) \cup TextRight(Right(in), in.Y, s.label)

HeadlineRows(in, s) ==
  IF Headlined(in, s) THEN (IF in.H > 6 THEN 5 ELSE 4) ELSE 2

(* The split between the sources, from row y: one bar for both, and a line *)
(* for each with its bar below or beside it.  Whether the bars get rows of *)
(* their own is decided before the common bar takes one.                   *)
OwnRow(in, s, y)    == in.W >= 16 /\ Bottom(in) - y >= 2 * nSources(s)
CommonBar(in, s, y) == in.W >= 16 /\ Bottom(in) - y > nSources(s) + 1 /\ s.gpuOn
SplitTop(in, s, y)  == IF CommonBar(in, s, y) THEN y + 1 ELSE y
SplitEnd(in, s, y) ==
  LET each == IF OwnRow(in, s, y) THEN 2 ELSE 1
      drawn == Cardinality({i \in 1 .. nSources(s) : SplitTop(in, s, y) + each * (i - 1) < Bottom(in)})
  IN  SplitTop(in, s, y) + each * drawn

Source(in, s, y, own) ==
  LET head == 4 + s.rate  shareW == 6  inline == in.W - head - shareW - 4
  IN  TextIn(in.X, y, in.W - shareW - 1, head) \cup Text(Right(in) - shareW, y, shareW)
      \cup (IF own THEN DrawBar(in.X, y + 1, in.W)
            ELSE IF inline > 6 THEN DrawBar(in.X + head + 2, y, inline) ELSE {})

Split(in, s, y) ==
  LET own == OwnRow(in, s, y)  each == IF own THEN 2 ELSE 1  top == SplitTop(in, s, y)
  IN  (IF CommonBar(in, s, y) THEN DrawBar(in.X, y, in.W) ELSE {})
      \cup UNION {IF top + each * (i - 1) < Bottom(in)
                  THEN Source(in, s, top + each * (i - 1), own) ELSE {} : i \in 1 .. nSources(s)}

Averages(in, s, y) ==
  LET three(a, b, c) == <<<<a, s.rate>>, <<b, s.rate>>, <<c, s.rate>>>>
      half == Cols(Below(in, y), <<1, 1>>)
  IN  IF in.W >= 42
      THEN kvRows(half[1], y, three(6, 6, 7))
           \cup kvRows(Rect(half[2].X + 2, y, half[2].W - 2, half[2].H), y,
                       <<<<4, s.rate>>, <<7, s.rate>>, <<4, 10>>>>)
      ELSE kvRows(Below(in, y), y, three(6, 6, 7) \o <<<<4, s.rate>>, <<7, s.rate>>, <<4, 10>>>>)

MiningInk(in, s) ==
  LET y   == in.Y + HeadlineRows(in, s)
      end == SplitEnd(in, s, y)
  IN  (IF Headlined(in, s) THEN Headline(in, s) ELSE PlainHeadline(in, s))
      \cup Split(in, s, y)
      \cup Averages(in, s, IF Bottom(in) - end > 4 THEN end + 1 ELSE end)

panelMining(r, s) == Panel(r, 18, 0, LAMBDA in : MiningInk(in, s))

-----------------------------------------------------------------------------
histRangeDef(label, xaxis) == [label |-> label, xaxis |-> xaxis]
histRanges ==
  <<histRangeDef(2, <<2, 2, 2, 2, 2, 3>>), histRangeDef(3, <<3, 3, 2, 3>>), histRangeDef(2, <<2, 3, 3, 3, 3>>),
    histRangeDef(2, <<2, 2, 2, 3>>), histRangeDef(3, <<3, 3, 3, 2, 3>>)>>

tabsW == Total([i \in DOMAIN histRanges |-> histRanges[i].label + 2])

WindowChart(in, s, i, empty) ==
  Chart(in, s.axis, histRanges[i].xaxis, IF s.hist[i] < 2 THEN empty ELSE 0)

(* The tabs of the windows on the top rule, or the window's name there; a  *)
(* chart, or below its height a line of text and a spectrum.               *)
panelHistory(r, s) ==
  LET tabs  == r.W >= tabsW + 26
      label == histRanges[s.range].label
      low(in) ==
        LET y == IF in.W >= 24 THEN in.Y + 1 ELSE in.Y
        IN  (IF in.W >= 24 THEN Text(in.X, in.Y, s.rate) \cup TextRight(Right(in), in.Y, 5 + s.rate)
             ELSE {})
            \cup (IF y < Bottom(in) THEN Spectrum(Below(in, y), s.hist[s.range]) ELSE {})
      p == Panel(r, 16, IF tabs THEN 0 ELSE label, LAMBDA in :
             IF in.H < 4 \/ in.W < 10 THEN low(in) ELSE WindowChart(in, s, s.range, label + 20))
  IN  IF tabs /\ ~ Empty(Interior(r))
      THEN [p EXCEPT !.top = @ \cup Text(Right(r) - 2 - tabsW, r.Y, tabsW)] ELSE p

(* A globe with a caption at the right where it fits.                      *)
NetworkInk(in, s) ==
  LET globe == in.W >= 52 /\ in.H >= 6
      gw    == ringWidth(in.H, 20)
      cap   == IF in.H >= 11 /\ gw >= 14 THEN <<4, 6, 7, 13>>
               ELSE IF in.H >= 8 /\ gw >= 14 THEN <<14>> ELSE <<>>
      ball  == Rect(Right(in) - gw, in.Y, gw, in.H - Len(cap))
      text  == IF globe THEN Rect(in.X, in.Y, in.W - gw - 2, in.H) ELSE in
      dot   == 2 + s.conn
  IN  (IF globe
       THEN Globe(ball) \cup UNION {TextCenter(ball.X, Bottom(ball) + i - 1, gw, Clip(cap[i], gw)) : i \in DOMAIN cap}
       ELSE {})
      \cup (IF WorthALabel(text.W - dot - 1) THEN TextIn(text.X, text.Y, text.W - dot - 1, 6) ELSE {})
      \cup TextRight(Right(text), text.Y, Clip(dot, text.W))
      \cup kvRows(Below(text, text.Y + 1), text.Y + 1,
             <<<<16, Val(s.info, s.rate)>>, <<10, Val(s.info, s.count)>>, <<6, s.count>>,
               <<5, Val(s.info, 7)>>, <<7, Val(s.info, 6)>>, <<4, s.node>>, <<10, s.count>>,
               <<14, s.count>>, <<15, Val(s.judged, 6)>>, <<8, s.time>>>>)

panelNetwork(r, s) == Panel(r, 14, 0, LAMBDA in : NetworkInk(in, s))

-----------------------------------------------------------------------------
(* Slip: the headline is written however narrow it is beside the ring. *)
AnyWidth(text) == TRUE

Named(text) == text.W >= 20

(* The CPU and a single card are drawn alike: a ring, a rate, rows and a   *)
(* spectrum at the foot.                                                   *)
Dial(in, s, Rws(_, _)) ==
  LET specH == IF in.H >= 7 THEN 2 ELSE 0
      body  == IF specH > 0 THEN Rect(in.X, in.Y, in.W, in.H - 3) ELSE in
      gw    == ringWidth(body.H, 15)
      round == body.W >= 30 /\ body.H >= 4
      text  == IF round THEN RightOf(body, gw) ELSE body
      y     == IF Named(text) THEN text.Y + 2 ELSE text.Y
  IN  (IF round THEN Ring(Rect(body.X, body.Y, gw, body.H), <<4, 4>>) ELSE {})
      \cup (IF Named(text) THEN Text(text.X, text.Y, s.rate) \cup TextRight(Right(text), text.Y, 8) ELSE {})
      \cup kvRows(Below(text, y), y, Rws(text, y))
      \cup (IF specH > 0 THEN Spectrum(Rect(in.X, Bottom(in) - specH, in.W, specH), s.hist[1]) ELSE {})

panelCPU(r, s) ==
  Panel(r, 15, s.rate, LAMBDA in : Dial(in, s, LAMBDA text, y :
    <<<<7, 2>>, <<4, s.temp>>, <<4, Val(s.sys, 8)>>, <<5, NA>>>>))

GPURows(text, y, s) ==
  <<<<4, s.temp>>, <<4, Val(s.sensed, 13)>>, <<5, Val(s.sensed, 8)>>, <<5, Val(s.sensed, 5)>>>>
  \o (IF s.sensed /\ text.W >= 30 /\ Bottom(text) - y > 4 THEN <<<<6, 24>>>> ELSE <<>>)

(* A row for each of several cards, in columns from the right edge, and a  *)
(* column for the caret beside the chosen one, left of their labels.       *)
GPUList(in, s) ==
  LET rateAt == Right(in) - 23  barW == rateAt - in.X - 8
      shown  == Lesser(s.gpus, in.H)
      line(y) == TextIn(in.X, y, 6, 5)
                 \cup (IF barW > 4 THEN DrawBar(in.X + 7, y, barW) ELSE {})
                 \cup TextRight(rateAt + 10, y, s.rate)
                 \cup TextRight(rateAt + 16, y, s.temp)
                 \cup TextRight(Right(in), y, s.note)
  IN  Mark(in.X - 1, in.Y, 1, shown)
      \cup (UNION {line(in.Y + i - 1) : i \in 1 .. shown})
      \cup (IF s.gpus > in.H THEN TextRight(Right(in), Bottom(in) - 1, 7) ELSE {})
      \cup (IF shown + 1 < in.H THEN Row(in, Bottom(in) - 1, 5, s.rate) ELSE {})

NoGPU(in) ==
  TextCenter(in.X, in.Y + (in.H \div 2) - 1, in.W, 13)
  \cup (IF in.H >= 4 THEN TextCenter(in.X, in.Y + (in.H \div 2) + 1, in.W, 20) ELSE {})

panelGPU(r, s) ==
  Panel(r, 15, IF s.gpus > 1 THEN 12 + s.rate + s.detail ELSE s.rate, LAMBDA in :
    IF s.gpus = 0 THEN NoGPU(in)
    ELSE IF s.gpus > 1 THEN GPUList(in, s)
    ELSE Dial(in, s, LAMBDA text, y : GPURows(text, y, s)))

(* Counts with a swatch and a share of the total where there is room, next *)
(* to a ring.                                                              *)
SharesInk(in, s) ==
  LET round == in.W >= 34 /\ in.H >= 5
      gw    == ringWidth(in.H, 19)
      text  == IF round THEN RightOf(in, gw) ELSE in
      pct   == IF ~ s.judged \/ text.W < 26 THEN 0 ELSE 9
      value == <<s.count + pct, s.count + pct, NA, NA>>
      sw    == IF text.W >= 22 THEN 3 ELSE 0
      line(i) ==
        LET y == text.Y + i - 1  lw == text.W - sw - value[i] - 1
        IN  (IF sw > 0 THEN Text(text.X, y, 2) ELSE {})
            \cup (IF WorthALabel(lw) THEN TextIn(text.X + sw, y, lw, 8) ELSE {})
            \cup TextRight(Right(text), y, Clip(value[i], text.W))
      y == LET e == text.Y + Lesser(4, text.H) IN IF e < Bottom(text) THEN e + 1 ELSE e
  IN  (IF round THEN Ring(Rect(in.X, in.Y, gw, in.H), <<6, 8>>) ELSE {})
      \cup (UNION {line(i) : i \in 1 .. Lesser(4, text.H)})
      \cup kvRows(Below(text, y), y,
             <<<<9, s.count>>, <<10, Val(s.judged, 6)>>, <<12, Val(s.judged, 5)>>, <<10, s.time>>>>)

panelShares(r, s) == Panel(r, 11, 8, LAMBDA in : SharesInk(in, s))

-----------------------------------------------------------------------------
panelBlockchain(r, s) ==
  Panel(r, 17, 0, LAMBDA in :
    LET cube == in.W >= 37 /\ in.H >= 5
        text == IF cube THEN RightOf(in, 13) ELSE in
    IN  (IF cube THEN WireCube(Rect(in.X, in.Y, 13, in.H)) ELSE {})
        \cup kvRows(text, text.Y,
               <<<<6, s.count>>, <<11, s.count>>, <<12, 2>>, <<8, NA>>, <<10, s.count>>,
                 <<8, Val(s.info, s.count)>>, <<10, s.time>>, <<8, Val(s.info, 5)>>>>))

(* A tile: a title, a gauge where it fits and a reading, which moves up    *)
(* when there is no gauge.                                                 *)
Tile(r, title, value, high, gauge, bar) ==
  IF r.W < 6 \/ r.H < 2 THEN {}
  ELSE TextCenter(r.X, r.Y, r.W, Clip(title, r.W))
       \cup (IF high THEN gauge ELSE IF bar /\ r.H >= 3 /\ r.W >= 8
             THEN DrawBar(r.X + 1, Bottom(r) - 1, r.W - 2) ELSE {})
       \cup TextCenter(r.X, IF high THEN Bottom(r) - 1 ELSE r.Y + 1, r.W, Clip(value, r.W))

tileTemp(r, s) ==
  Tile(r, 8, Clip(s.temp, 4), r.H - 2 >= 4,
       Thermometer(r.X + ((r.W - 4) \div 2), r.Y + 1, r.H - 2), s.sensed)
tileLoad(r, s) ==
  LET w == Lesser(2 * (r.H - 2), r.W - 2)
  IN  Tile(r, 8, Val(s.sys, 4), r.H - 2 >= 3 /\ w >= 5,
           Ring(Rect(r.X + ((r.W - w) \div 2), r.Y + 1, w, r.H - 2), <<>>), s.sys)
tileMemory(r, s) ==
  LET w == Lesser(6, r.W - 2)
  IN  Tile(r, 6, Val(s.sys, 9), r.H - 2 >= 3 /\ w >= 3,
           Tank(r.X + ((r.W - w) \div 2), r.Y + 1, w, r.H - 2), s.sys)

(* Four tiles in one row or two, or a list.                                *)
SystemInk(in, s) ==
  LET cols   == IF in.W >= 36 /\ in.H >= 4 THEN 4 ELSE IF in.W >= 20 /\ in.H >= 6 THEN 2 ELSE 0
      nRows  == 4 \div cols
      strips == Rows(in, [i \in 1 .. nRows |-> in.H \div nRows])
      cell(i) == Cols(strips[((i - 1) \div cols) + 1], [j \in 1 .. cols |-> 1])[((i - 1) % cols) + 1]
      tile(i) == CASE i <= 2 -> tileTemp(cell(i), s) [] i = 3 -> tileLoad(cell(i), s)
                   [] i = 4 -> tileMemory(cell(i), s)
  IN  IF cols = 0
      THEN kvRows(in, in.Y, <<<<8, Clip(s.temp, 4)>>, <<8, Clip(s.temp, 4)>>, <<8, Val(s.sys, 4)>>, <<6, Val(s.sys, 14)>>>>)
      ELSE UNION {IF strips[((i - 1) \div cols) + 1].H < 3 THEN {} ELSE tile(i) : i \in 1 .. 4}

panelSystem(r, s) == Panel(r, 15, 0, LAMBDA in : SystemInk(in, s))

-----------------------------------------------------------------------------
(* The newest entries that fit: a time, a tag in a column as wide as the   *)
(* longest, and a text.                                                    *)
drawLogLines(in, s) ==
  LET timeW == IF in.W > 22 THEN 9 ELSE 0
      tagW  == Lesser(Greater(s.tag + 3, 6), 13)
      x     == in.X + timeW + tagW
  IN  IF in.H <= 0 THEN {}
      ELSE IF s.log = 0 THEN TextCenter(in.X, in.Y + (in.H \div 2), in.W, 13)
      ELSE UNION {(IF timeW > 0 THEN Text(in.X, y, 8) ELSE {})
                  \cup TextIn(in.X + timeW, y, tagW, Clip(s.tag + 2, tagW))
                  \cup (IF x < Right(in) THEN TextIn(x, y, Right(in) - x, s.msg) ELSE {}) :
                    y \in in.Y .. in.Y + Lesser(in.H, s.log) - 1}

panelLog(r, s) == Panel(r, 15, s.held, LAMBDA in : drawLogLines(in, s))

(* Threads in columns; when they are more than the cells, the last cell    *)
(* says how many are not shown.                                            *)
ThreadCols(in) == Greater(in.W \div 18, 1)
ThreadsKnown(s) == Lesser(s.threads, s.rates)
ThreadRows(in, s) ==
  LET cols == ThreadCols(in) IN Lesser((ThreadsKnown(s) + cols - 1) \div cols, in.H)

(* Slip: the last cell is given to a thread as well. *)
EveryCell(n, cells) == IF n > cells THEN cells ELSE n

ThreadsShown(n, cells) == IF n > cells THEN cells - 1 ELSE n

Digits(n) == IF n < 10 THEN 1 ELSE IF n < 100 THEN 2 ELSE 3

(* The threads are numbered from 1, with two digits at least.              *)
ThreadLabel(i) == 1 + Greater(Digits(i + 1), 2)

drawThreadGrid(in, s) ==
  LET n     == ThreadsKnown(s)
      rows  == ThreadRows(in, s)
      cellW == in.W \div ThreadCols(in)
      shown == ThreadsShown(n, ThreadCols(in) * rows)
      x(i)  == in.X + (i \div rows) * cellW
      y(i)  == in.Y + (i % rows)
      thread(i) == LET lw == ThreadLabel(i)  barW == cellW - lw - 7
                   IN  Text(x(i), y(i), lw)
                       \cup (IF barW > 2 THEN DrawBar(x(i) + lw + 1, y(i), barW) ELSE {})
                       \cup TextRight(x(i) + cellW - 1, y(i), 4)
  IN  IF n <= 0 THEN TextCenter(in.X, in.Y + (in.H \div 2), in.W, 22)
      ELSE IF rows < 1 THEN {}
      ELSE (UNION {thread(i) : i \in 0 .. shown - 1})
           \cup (IF shown < n THEN Text(x(shown), y(shown), 6 + Digits(n - shown)) ELSE {})

panelThreads(r, s) == Panel(r, 14, 6, LAMBDA in : drawThreadGrid(in, s))

(* Words over a ridgeline and the mark, each clearing its row.             *)
panelStatus(r, s) ==
  Panel(r, 13, 0, LAMBDA in :
    LET wire == in.W >= 24 /\ in.H >= 4
        mark == in.W >= 40 /\ in.H >= 6
        say(y, n) == LET w == Clip(n, in.W) + 8
                     IN  IF y < in.Y \/ y >= Bottom(in) THEN {}
                         ELSE IF w > in.W THEN Text(in.X, y, in.W)
                         ELSE Text(in.X + ((in.W - w) \div 2), y, w)
        mid == IF in.H >= 5 THEN in.Y + ((in.H - 2) \div 2) ELSE in.Y + (in.H \div 2)
    IN  (IF wire THEN {in} ELSE {})
        \cup (IF mark THEN Mark(in.X + ((in.W - 9) \div 2), in.Y, 9, 3) ELSE {})
        \cup say(mid, 2 * s.label - 1)
        \cup (IF in.H >= 4 THEN say(mid + 1, IF s.active THEN 12 ELSE s.node) ELSE {})
        \cup (IF in.H >= 6 THEN say(Bottom(in) - 1, 25) ELSE {}))

panelQuick(r, s) ==
  Panel(r, 11, 0, LAMBDA in : kvRows(in, in.Y,
    <<<<6, s.time>>, <<12, s.count>>, <<8, s.count>>, <<8, s.count>>, <<5, NA>>, <<7, NA>>,
      <<10, Val(s.judged, 6)>>, <<14, s.count>>>>))

(* A mast with its words, or the words and figures alone.                  *)
ConnectionInk(in, s) ==
  LET artH  == Lesser(in.H - 2, MastRows + 3)
      wide  == in.W >= 22
      artW  == IF wide THEN in.W \div 2 ELSE in.W
      word  == 9
      side  == in.H >= 3 /\ in.W >= 14
      y     == in.Y + 2 + (IF side THEN 1 ELSE 0)
      rows  == Rect(in.X, y, in.W, Bottom(in) - y - (IF in.H >= 5 THEN 1 ELSE 0))
  IN  IF in.W >= 10 /\ in.H >= MastRows + 3
      THEN (IF wide THEN SignalRamp(Rect(in.X + artW, in.Y, in.W - artW, artH)) ELSE {})
           \cup Mast(Rect(in.X, in.Y, artW, artH))
           \cup (IF wide
                 THEN TextCenter(in.X, Bottom(in) - 2, artW, 6)
                      \cup TextCenter(in.X + artW, Bottom(in) - 2, in.W - artW, word)
                      \cup Row(in, Bottom(in) - 1, 4, Val(s.info, 6))
                 ELSE Text(in.X, Bottom(in) - 2, 6) \cup SignalBars(Right(in) - 5, Bottom(in) - 2)
                      \cup TextCenter(in.X, Bottom(in) - 1, in.W, word))
      ELSE TextCenter(in.X, in.Y, in.W, Clip(2 + s.conn, in.W))
           \cup (IF side THEN Text(in.X, in.Y + 2, 6) \cup SignalBars(Right(in) - 5, in.Y + 2) ELSE {})
           \cup (IF in.H >= 5 THEN TextCenter(in.X, Bottom(in) - 1, in.W, word) ELSE {})
           \cup kvRows(rows, y, <<<<4, Val(s.info, 6)>>, <<5, Val(s.info, 2)>>, <<8, s.time>>>>)

panelConnection(r, s) == Panel(r, 10, 0, LAMBDA in : ConnectionInk(in, s))
=============================================================================
