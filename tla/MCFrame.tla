---- MODULE MCFrame ----
(* A dozen keys; windows around every width and height the layout decides  *)
(* at, the ones with a few of the others; and snapshots of a rig that has  *)
(* just started, one with a card, one with six and more threads than       *)
(* cells, and one that has lost its node.                                  *)
EXTENDS Frame
MCWidths  == {40, 55, 56, 57, 60, 69, 70, 71, 72, 80, 91, 92, 96, 99, 107, 108, 118, 120, 131, 142, 143, 170, 240}
MCHeights == {5, 13, 14, 17, 18, 23, 24, 29, 35, 36, 43, 64}
MCWindow  == {Rect(0, 0, w, h) : w \in MCWidths, h \in {14, 24, 36, 64}}
             \cup {Rect(0, 0, w, h) : w \in {57, 80, 108, 143}, h \in MCHeights}
Base ==
  [rate |-> 2, big |-> 7, unit |-> 0, label |-> 10, conn |-> 10, active |-> FALSE, bars |-> 0,
   gpuOn |-> FALSE, gpus |-> 0, detail |-> 0, sensed |-> FALSE, threads |-> 0, rates |-> 0,
   count |-> 1, node |-> 16, time |-> 8, info |-> FALSE, sys |-> FALSE, judged |-> FALSE,
   temp |-> 2, note |-> 2, log |-> 0, all |-> 0, filter |-> 0, tag |-> 4, msg |-> 30, held |-> 0,
   hist |-> [i \in 1 .. 5 |-> 0], range |-> 1, axis |-> 4, path |-> 20, notes |-> <<>>, testnet |-> FALSE]
Mining == [Base EXCEPT !.rate = 10, !.big = 19, !.unit = 4, !.label = 6, !.conn = 9, !.active = TRUE,
            !.threads = 16, !.rates = 16, !.count = 9, !.info = TRUE, !.sys = TRUE, !.judged = TRUE,
            !.temp = 5, !.log = 40, !.all = 40, !.hist = [i \in 1 .. 5 |-> 300], !.axis = 5, !.notes = <<<<7, 9, 3, 12>>, <<5, 5>>>>]
OneCard == [Mining EXCEPT !.gpuOn = TRUE, !.gpus = 1, !.sensed = TRUE, !.note = 4, !.held = 14, !.log = 3, !.range = 3]
SixCards == [OneCard EXCEPT !.gpus = 6, !.detail = 17, !.threads = 128, !.rates = 128, !.testnet = TRUE, !.range = 5]
Lost == [Mining EXCEPT !.rate = 12, !.big = 21, !.label = 12, !.conn = 12, !.info = FALSE, !.node = 250, !.path = 60]
MCSnapshot == {Base, Mining, OneCard, SixCards, Lost}
MCSends ==
  [k \in {":", "q", " ", "f", "x", "s", "a", "]", "["} |-> <<k>>]
  @@ [Esc |-> <<"ESC">>, Enter |-> <<"CR">>, Tab |-> <<"HT">>,
      PgUp |-> <<"ESC", "[", "5", "~">>, F5 |-> <<"ESC", "[", "1", "5", "~">>,
      FocusOut |-> <<"ESC", "[", "O">>]
MCMeans    == [k \in DOMAIN MCSends |-> IF k = "F5" THEN <<>> ELSE <<k>>]
(* One press or two, and three of those that touch on a sequence.          *)
MCChunk ==
  (BoundedSeq(DOMAIN MCSends, 2) \ {<<>>})
  \cup [1 .. 3 -> {"Esc", "[", "a", "F5"}]
MCLogEntry == {[level |-> 2, hit |-> FALSE]}
====
