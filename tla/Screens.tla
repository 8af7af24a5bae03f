---------------------------- MODULE Screens ----------------------------
(***************************************************************************)
(* The screens behind the function keys (cmd/derostorm/tui_screens.go):    *)
(* how each cuts its body into panels, and the panels only they have.  A   *)
(* screen is the sequence of the panels it draws.  s is a snapshot, as in  *)
(* Panels, with                                                            *)
(*   path              the config file                                     *)
(*   notes             the start-up notes, each as the widths of its words *)
(*   all, filter       entries held, and the name of the filter             *)
(***************************************************************************)
EXTENDS Panels, SequencesExt

(* Slip: the blank before the word is not counted. *)
NoBlank(line, word, w) == line + word <= w

WordFits(line, word, w) == line + 1 + word <= w

(* A paragraph, given as the widths of its words, broken at word           *)
(* boundaries: the widths of its lines.                                    *)
WithWord(lines, word, w) ==
  IF lines # <<>> /\ WordFits(lines[Len(lines)], word, w)
  THEN [lines EXCEPT ![Len(lines)] = @ + 1 + word]
  ELSE Append(lines, word)

wrapText(words, w) ==
  LET lines[k \in 0 .. Len(words)] == IF k = 0 THEN <<>> ELSE WithWord(lines[k - 1], words[k], w)
  IN  IF w < 8 THEN <<>> ELSE lines[Len(words)]

(* The line above a screen's content, and what is left below it.           *)
Titled(r)   == IF r.H < 3 THEN r ELSE Rect(r.X, r.Y + 2, r.W, r.H - 2)
Body(r) == Titled(Inset2(r, 1, 0))

-----------------------------------------------------------------------------
(* A row for each source: label, bar, rate, share, temperature and note.   *)
DevicesInk(in, s) ==
  LET tempAt == Right(in) - 13  shareAt == tempAt - 6  rateAt == shareAt - 11
      barW == rateAt - in.X - 9
      head == in.W > 44
      cells(y, rate, share, temp, note) ==
        TextRight(rateAt + 10, y, rate) \cup TextRight(shareAt + 5, y, share)
        \cup TextRight(tempAt + 5, y, temp) \cup TextRight(Right(in), y, note)
      line(y, label, note) ==
        TextIn(in.X, y, 7, label) \cup (IF barW > 4 THEN DrawBar(in.X + 8, y, barW) ELSE {})
        \cup cells(y, s.rate, 4, Lesser(s.temp, 4), note)
      top == IF head THEN in.Y + 1 ELSE in.Y
  IN  (IF head THEN cells(in.Y, 4, 5, 4, 5) ELSE {})
      \cup UNION {IF top + i < Bottom(in)
                  THEN line(top + i, IF i = 0 THEN 3 ELSE 5, IF i = 0 THEN NA ELSE s.note) ELSE {} : i \in 0 .. s.gpus}

panelDevices(r, s) == Panel(r, 15, 0, LAMBDA in : DevicesInk(in, s))

drawMiningScreen(b, s) ==
  LET rows == Rows(b, <<b.H \div 2, -1>>)
      top == Cols(rows[1], <<38, 34, 28>>)  low == Cols(rows[2], <<50, 50>>)
  IN  IF b.H < 6 THEN <<>>
      ELSE <<panelMining(top[1], s), panelHistory(top[2], s), panelStatus(top[3], s),
             panelDevices(low[1], s), panelThreads(low[2], s)>>

-----------------------------------------------------------------------------
panelSessionTotals(r, s) ==
  Panel(r, 7, 0, LAMBDA in : kvRows(in, in.Y,
    <<<<6, s.time>>, <<12, s.count>>, <<16, s.count>>, <<10, s.count>>, <<6, s.count>>, <<8, s.count>>,
      <<10, Val(s.judged, 6)>>, <<10, s.time>>>>))

panelRateSummary(r, s) ==
  Panel(r, 8, 0, LAMBDA in : kvRows(in, in.Y,
    [i \in 1 .. 9 |-> <<<<7, 8, 8, 9, 11, 4, 3, 3, 14>>[i], IF i = 9 THEN Val(s.sensed, 7) ELSE s.rate>>]))

(* A chart for every window with something in it, in one column or two, as *)
(* long as the strips are tall enough.                                     *)
Live(s) ==
  LET seen == Picked(<<1, 2, 3, 4, 5>>, {i \in 1 .. 5 : s.hist[i] >= 2})
  IN  IF seen = <<>> THEN <<1>> ELSE seen

Charts(r, s) ==
  LET live   == Live(s)
      perRow == IF r.W < 90 THEN 1 ELSE 2
      nRows  == (Len(live) + perRow - 1) \div perRow
      strips == Rows(r, [i \in 1 .. nRows |-> r.H \div nRows])
      strip(i) == strips[((i - 1) \div perRow) + 1]
      cell(i)  == Cols(strip(i), [j \in 1 .. perRow |-> 1])[((i - 1) % perRow) + 1]
  IN  IF strips[1].H < 5 THEN <<>>
      ELSE [i \in DOMAIN live |-> Panel(cell(i), 8, histRanges[live[i]].label, LAMBDA in :
                                        WindowChart(in, s, live[i], 19))]

drawStatsScreen(b, s) ==
  LET rows == Rows(b, <<(b.H * 2) \div 3, -1>>)
      cols == Cols(rows[2], <<34, 33, 33>>)
  IN  IF b.H < 6 THEN <<>>
      ELSE Charts(rows[1], s)
           \o <<panelSessionTotals(cols[1], s), panelShares(cols[2], s), panelRateSummary(cols[3], s)>>

-----------------------------------------------------------------------------
(* Slip: the hint is written whatever the text came to. *)
AnyLine(y, in) == y < Bottom(in)

HintFits(y, in) == y < Bottom(in) - 1

NodeWords == <<5, 6, 7, 3, 8, 2, 9, 6, 3, 4, 4, 8, 2, 7, 2, 3, 9, 6, 4, 6, 7, 8, 3, 5, 8, 4, 4, 9>>

NodeDetailInk(in, s) ==
  LET lines == wrapText(NodeWords, in.W)
      y     == Lesser(in.Y + 2 + Len(lines), Greater(in.Y + 2, Bottom(in)))
  IN  IF s.info
      THEN kvRows(in, in.Y, <<<<7, 9>>, <<7, 7>>, <<6, s.count>>, <<11, s.count>>, <<8, 2>>, <<9, 2>>,
                              <<6, 3>>, <<15, 3>>, <<7, s.count>>, <<3, s.node>>>>)
      ELSE TextIn(in.X, in.Y, in.W, 24) \cup Lines(in, in.Y + 2, lines)
           \cup (IF HintFits(y, in) THEN TextIn(in.X, Bottom(in) - 1, in.W, 34) ELSE {})

panelNodeDetail(r, s) == Panel(r, 4, 0, LAMBDA in : NodeDetailInk(in, s))

panelJob(r, s) ==
  Panel(r, 11, 0, LAMBDA in : kvRows(in, in.Y,
    <<<<10, s.count>>, <<14, s.count>>, <<7, s.time>>, <<13, s.time>>, <<14, Val(s.active, s.time)>>,
      <<16, Val(s.info, 7)>>, <<16, Val(s.judged, 6)>>>>))

drawNetworkScreen(b, s) ==
  LET rows == Rows(b, <<b.H \div 2, -1>>)
      top == Cols(rows[1], <<40, 30, 30>>)  low == Cols(rows[2], <<45, 55>>)
  IN  IF b.H < 6 THEN <<>>
      ELSE <<panelNetwork(top[1], s), panelNodeDetail(top[2], s), panelConnection(top[3], s),
             panelBlockchain(low[1], s), panelJob(low[2], s)>>

-----------------------------------------------------------------------------
panelHint(r, widths) == Panel(r, 8, 0, LAMBDA in : Lines(in, in.Y, widths))

panelThreadSummary(r, s) ==
  Panel(r, 14, 0, LAMBDA in : kvRows(in, in.Y,
    <<<<7, 2>>, <<12, 2>>, <<7, s.rate>>, <<7, s.rate>>, <<4, s.rate>>, <<6, Val(s.active, 3)>>>>))

drawThreadsScreen(b, s) ==
  LET rows == Rows(b, <<-1, 7>>)
      cols == Cols(rows[2], <<34, 33, 33>>)
  IN  IF b.H < 5 THEN <<>>
      ELSE <<Panel(rows[1], 22, 27, LAMBDA in : drawThreadGrid(in, s)),
             panelThreadSummary(cols[1], s), panelCPU(cols[2], s), panelHint(cols[3], <<32, 33, 28, 26>>)>>

configCommandHelp == <<45, 36, 45, 38, 42, 37, 50, 53, 37, 0, 64>>

(* The start-up notes, each wrapped, with a mark before every line.        *)
NotesInk(in, s) ==
  LET lines == FlattenSeq([i \in DOMAIN s.notes |-> wrapText(s.notes[i], in.W - 2)])
      n     == Lesser(Len(lines), in.H)
  IN  IF n = 0 THEN TextIn(in.X, in.Y, in.W, 17)
      ELSE UNION {Text(in.X, in.Y + i - 1, 1) \cup TextIn(in.X + 2, in.Y + i - 1, in.W - 2, lines[i]) : i \in 1 .. n}

drawConfigScreen(b, s) ==
  LET rows == Rows(b, <<b.H \div 2, -1>>)
      top  == Cols(rows[1], <<50, 50>>)
  IN  IF b.H < 5 THEN <<>>
      ELSE <<Panel(top[1], 8, 0, LAMBDA in : kvRows(in, in.Y,
               <<<<4, s.node>>, <<7, 7>>, <<11, 2>>, <<11, 4>>, <<9, s.count>>, <<10, 8>>, <<5, 5>>, <<6, 9>>,
                 <<7, s.path>>, <<11, s.path>>, <<8, s.path>>>>)),
             panelHint(top[2], <<32, 0>> \o configCommandHelp),
             Panel(rows[2], 14, 0, LAMBDA in : NotesInk(in, s))>>

-----------------------------------------------------------------------------
drawLogScreen(b, s) ==
  IF b.H < 3 THEN <<>>
  ELSE <<Panel(b, 9, IF s.log = s.all THEN 14 ELSE 18 + s.filter, LAMBDA in : drawLogLines(in, s))>>

SoloWords ==
  <<4, 5, 5, 7, 2, 1, 4, 5, 4, 5, 4, 4, 4, 3, 1, 5, 2, 5, 7, 2, 3, 7, 3, 4, 3, 6, 5, 2, 2, 4, 7, 3, 4, 2, 5,
    2, 2, 4, 4, 2, 4, 5, 10, 3, 2, 4, 6, 8, 2, 4, 5>>

WorkSourceInk(in, s) ==
  Text(in.X, in.Y, 6) \cup TextRight(Right(in), in.Y, 2 + s.conn)
  \cup kvRows(Below(in, in.Y + 2), in.Y + 2,
         <<<<4, 20>>, <<7, s.node + 10>>, <<3, Val(s.info, s.node)>>, <<13, s.time>>, <<8, s.time>>,
           <<7, Val(s.info, 6)>>, <<11, s.count>>, <<8, s.count>>>>)

SoloInk(in) ==
  LET lines == wrapText(SoloWords, in.W)
      y     == in.Y + Lesser(Len(lines), in.H)
  IN  Lines(in, in.Y, lines) \cup (IF HintFits(y, in) THEN TextIn(in.X, y + 1, in.W, 43) ELSE {})

drawPoolsScreen(b, s) ==
  LET rows == Rows(b, <<b.H \div 2, -1>>)
      cols == Cols(rows[1], <<55, 45>>)
  IN  IF b.H < 5 THEN <<>>
      ELSE <<Panel(cols[1], 11, 0, LAMBDA in : WorkSourceInk(in, s)),
             Panel(cols[2], 17, 0, SoloInk),
             panelLog(rows[2], [s EXCEPT !.log = s.all, !.held = 0])>>

drawHelpScreen(b) ==
  LET cols == Cols(b, <<30, 34, 36>>)
      flags(in) == LET y == in.Y + Lesser(Len(configCommandHelp), in.H)
                   IN  IF y < Bottom(in) THEN y + 1 ELSE y
  IN  IF b.H < 5 THEN <<>>
      ELSE <<Panel(cols[1], 7, 0, LAMBDA in : kvRows(in, in.Y,
               <<<<10, 9>>, <<1, 6>>, <<1, 10>>, <<1, 7>>, <<1, 7>>, <<1, 6>>, <<1, 4>>, <<1, 5>>, <<1, 4>>,
                 <<3, 11>>, <<9, 15>>, <<13, 4>>>>)),
             Panel(cols[2], 4, 0, LAMBDA in : kvRows(in, in.Y,
               <<<<12, 14>>, <<9, 13>>, <<10, 21>>, <<5, 13>>, <<1, 20>>, <<1, 18>>, <<12, 12>>, <<1, 8>>,
                 <<1, 18>>, <<7, 12>>, <<6, 17>>>>)),
             Panel(cols[3], 8, 0, LAMBDA in :
               Lines(in, in.Y, configCommandHelp) \cup Lines(in, flags(in), <<40, 43, 33, 42>>))>>
=============================================================================
