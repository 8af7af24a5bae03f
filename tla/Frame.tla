----------------------------- MODULE Frame -----------------------------
(***************************************************************************)
(* One frame of the full-screen console (renderFrame and its callers in    *)
(* cmd/derostorm/tui.go): the header, the screen that is open, the key bar *)
(* and the banner of a found block, in a window of any size, for whatever  *)
(* the run loop hands it.                                                  *)
(***************************************************************************)
EXTENDS Layout, Keys

CONSTANTS
  Window,       \* the sizes a window may have, as rectangles from (0, 0)
  Snapshot      \* the snapshots, as in Panels

ASSUME FrameAssumption == Window \subseteq [X : {0}, Y : {0}, W : Nat \ {0}, H : Nat \ {0}]
(* What the formatting code makes of a rate below 10^15 H/s ("1000.00      *)
(* KH/s"), a run state ("RECONNECTING"), a temperature and the watts of a  *)
(* card bounds their widths; the rest may be anything.                     *)
SnapshotType ==
  [rate : 0 .. 12, big : 0 .. 25, unit : 0 .. 4, label : 0 .. 12, conn : 0 .. 12, active : BOOLEAN, bars : Nat,
   gpuOn : BOOLEAN, gpus : Nat, detail : Nat, sensed : BOOLEAN, threads : Nat, rates : Nat,
   count : Nat, node : Nat, time : Nat, info : BOOLEAN, sys : BOOLEAN, judged : BOOLEAN,
   temp : 0 .. 6, note : 0 .. 8, log : Nat, all : Nat, filter : Nat, tag : Nat, msg : Nat, held : Nat,
   hist : [1 .. 5 -> Nat], range : 1 .. 5, axis : Nat, path : Nat, notes : Seq(Seq(Nat)), testnet : BOOLEAN]

ASSUME SnapshotAssumption == Snapshot \subseteq SnapshotType

minCols == 56
minRows == 14

TooSmall(full) == full.W < minCols \/ full.H < minRows

drawTooSmall(r) ==
  UNION {TextCenter(0, ((r.H - 6) \div 2) + i - 1, r.W, <<9, 0, 19, 34, 0, 36>>[i]) : i \in 1 .. 6}

-----------------------------------------------------------------------------
(* The key bar: what it would like is measured first, and the longest      *)
(* signature that leaves it whole stands at the right.                     *)
navLabels == <<6, 10, 7, 7, 6, 4, 5, 4>>
footerBrands == <<59, 20, 7, 0>>

keysW == 1 + Total([i \in DOMAIN navLabels |-> navLabels[i] + 7]) + 8

(* Slip: the blanks before the signature are not counted. *)
Abutting(w, text) == keysW + text <= w

LeavesKeys(w, text) == keysW + text + 3 <= w

Signature(w, s) ==
  LET base == IF s.testnet THEN 26 ELSE 16
      fit  == Picked(footerBrands, {i \in DOMAIN footerBrands : LeavesKeys(w, base + footerBrands[i])})
  IN  IF fit = <<>> THEN 0 ELSE base + fit[1]

(* [K] LABEL, as many as end before the signature, and QUIT if it does.    *)
KeyBar(r, s) ==
  LET brand == Signature(r.W, s)
      limit == Right(r) - 1 - (IF brand > 0 THEN brand + 2 ELSE 0)
      x(i)  == r.X + 1 + Total([j \in 1 .. i - 1 |-> navLabels[j] + 7])
      shown == {i \in DOMAIN navLabels : \A j \in 1 .. i : x(j) + navLabels[j] + 4 <= limit}
      qx    == x(Cardinality(shown) + 1)
  IN  [keys  |-> {Rect(x(i), Bottom(r) - 1, navLabels[i] + 4, 1) : i \in shown}
                 \cup (IF qx + 8 <= limit THEN Text(qx, Bottom(r) - 1, 8) ELSE {}),
       brand |-> IF brand > 0 THEN Text(Right(r) - 1 - brand, Bottom(r) - 1, brand) ELSE {},
       line  |-> Text(r.X + 3, r.Y, r.W - 4)]

-----------------------------------------------------------------------------
(* Where a frame's parts go, and its screen's panels.                      *)
Regions(full, open) == Rows(full, <<headerHeight(full.W, full.H), -1, IF open THEN 2 ELSE 1>>)

ScreenPanels(id, body, s) ==
  LET b == Body(body) IN
  CASE id = "dashboard"  -> drawDashboard(body, s)
    [] id = "mining"     -> drawMiningScreen(b, s)
    [] id = "statistics" -> drawStatsScreen(b, s)
    [] id = "network"    -> drawNetworkScreen(b, s)
    [] id = "threads"    -> drawThreadsScreen(b, s)
    [] id = "config"     -> drawConfigScreen(b, s)
    [] id = "logs"       -> drawLogScreen(b, s)
    [] id = "pools"      -> drawPoolsScreen(b, s)
    [] id = "help"       -> drawHelpScreen(b)

renderFrame(full, s, id, open) ==
  LET parts == Regions(full, open)
  IN  IF TooSmall(full)
      THEN [parts |-> <<>>, header |-> {}, panels |-> <<>>, bar |-> {}, note |-> drawTooSmall(full)]
      ELSE [parts |-> parts, header |-> drawHeader(parts[1], s), panels |-> ScreenPanels(id, parts[2], s),
            bar |-> KeyBar(parts[3], s), note |-> {}]

-----------------------------------------------------------------------------
VARIABLES
  part,       \* "keys" or "frames": what is followed
  window,     \* the window and the snapshot of the last frame
  shown,
  frame       \* what it drew, NoFrame before the first since a key

frameVars == <<part, keyVars, window, shown, frame>>

NoFrame == [parts |-> <<>>, header |-> {}, panels |-> <<>>, bar |-> {}, note |-> {}]

FrameInit ==
  /\ part \in {"keys", "frames"} /\ KeysInit
  /\ window = Nowhere /\ shown = {} /\ frame = NoFrame

(* A frame depends on two things the keys decide, the screen and whether   *)
(* the command line is open, and changes nothing of them.  So the keys are *)
(* followed without frames, and frames from a start on any screen, with    *)
(* the command line open or not.                                           *)
Typing  == part = "keys" /\ KeysNext
Opening ==
  /\ part = "frames" /\ frame = NoFrame
  /\ \/ \E id \in Range(screens) : StartConsole(id, FALSE)
     \/ ~ cmdOpen /\ ReadKeys(<<":">>)
     \/ keys # <<>> /\ Key(Head(keys))

(* The next frame, in the window as it is now.                             *)
Render(win, s) ==
  /\ part = "frames" /\ up /\ keys = <<>> /\ frame = NoFrame
  /\ window' = win /\ shown' = {s}
  /\ frame' = renderFrame(win, s, screen, cmdOpen)
  /\ UNCHANGED <<part, keyVars>>

(* The window or the snapshot changes, or a key is pressed: what was drawn *)
(* is of no more interest.                                                 *)
MoveOn ==
  /\ frame # NoFrame
  /\ window' = Nowhere /\ shown' = {} /\ frame' = NoFrame
  /\ UNCHANGED <<part, keyVars>>

FrameNext ==
  \/ (Typing \/ Opening) /\ UNCHANGED <<part, window, shown, frame>>
  \/ \E win \in Window, s \in Snapshot : Render(win, s)
  \/ MoveOn

FrameSpec == FrameInit /\ [][FrameNext]_frameVars

-----------------------------------------------------------------------------
Drawn == frame.parts # <<>>
Panels == frame.panels
OnDashboard == Drawn /\ screen = "dashboard"
BodyOf == frame.parts[2]

FrameTypeOK ==
  /\ window \in Window \cup {Nowhere} /\ shown \subseteq Snapshot
  /\ \A i \in DOMAIN Panels : Within(Panels[i].at, BodyOf)

(* No two panels of a screen share a cell, on any screen and in a window   *)
(* of any size (planBands, splitRow, Rect.Rows and Rect.Cols).             *)
PanelsApart ==
  \A i, j \in DOMAIN Panels : i < j => Apart(Panels[i].at, Panels[j].at)

(* What a panel draws stays in its rectangle, the border included: no      *)
(* gauge, no label and no row of figures reaches another panel, however    *)
(* small its own is.  Ink on the panel's own border is not told from ink   *)
(* inside of it.  Left out is the mining screen's list of sources in a     *)
(* window below 70 columns, the business of the next property.             *)
InkInside(i)  == \A m \in Panels[i].ink \cup Panels[i].top : Within(m, Panels[i].at)
NarrowList(i) == screen = "mining" /\ i = 4 /\ window.W < 70
InsideItsPanel == \A i \in DOMAIN Panels : NarrowList(i) \/ InkInside(i)

(* In every window the console draws in, no panel writes over its border   *)
(* and beyond: half of what minCols and minRows are for, that no borders   *)
(* overlap values (tui.go:416-419).  It does not hold: panelDevices gives  *)
(* the columns of its list without asking for room (tui_screens.go:128),   *)
(* and in a window of 56 columns, say, it writes a rate over the label     *)
(* before it, over the border and past it.  The other half, ink that ends  *)
(* on the border as at tui_panels.go:209, would pass here.                 *)
NoBorderOverlaps == \A i \in DOMAIN Panels : InkInside(i)

(* The dashboard fills its body to the last row and the last column: no    *)
(* strip is left over, and none that moves as the window is resized.       *)
Grid == Inset2(BodyOf, 1, 0)
BodyCovered ==
  OnDashboard =>
    \A x \in Grid.X .. Right(Grid) - 1, y \in Grid.Y .. Bottom(Grid) - 1 :
      \E i \in DOMAIN Panels : Within(Rect(x, y, 1, 1), Panels[i].at)

CellList == planBands(Grid, dashboardBands)
Cells    == LET cs == CellList IN {cs[i] : i \in DOMAIN cs}

(* Every panel of the dashboard gets the width it was packed for and a     *)
(* band's floor of rows.                                                   *)
EnoughRoom ==
  OnDashboard => \A c \in Cells : c.r.W >= c.p.minW /\ c.r.H >= bandFloorH

(* A short window spends its rows on the first row of every band before it *)
(* spends any on the second of one.                                        *)
Names(b) == {dashboardBands[b].panels[i].name : i \in DOMAIN dashboardBands[b].panels}
First(b) == dashboardBands[b].panels[1].name
EveryBandFirst ==
  OnDashboard =>
    \A rows \in {{<<c.p.name, c.r.Y>> : c \in Cells}} :
    LET Overflowing(b) == \E c, d \in rows : c[1] \in Names(b) /\ d[1] = First(b) /\ c[2] > d[2]
    IN  (\E b \in DOMAIN dashboardBands : Overflowing(b)) =>
          \A b \in DOMAIN dashboardBands : \E d \in rows : d[1] = First(b)

(* The pieces of the header never touch: not the badge, the captions, the  *)
(* moon, the version, the name, nor the fields of the status strip.        *)
HeaderApart == \A m, n \in frame.header : m # n => Apart(m, n)

(* A signature never costs a key: when there is one, the bar is whole, and *)
(* clear of it.                                                            *)
KeyBarWhole ==
  Drawn /\ frame.bar.brand # {} =>
    /\ Cardinality(frame.bar.keys) = Len(navLabels) + 1
    /\ \A m \in frame.bar.keys, n \in frame.bar.brand : Apart(m, n)

(* The banner of a block never takes the header's status or the keys away. *)
BannerInBody ==
  Drawn => \A m \in drawBlockBanner(window, CHOOSE s \in shown : TRUE) : Within(m, BodyOf)

(* On the dashboard no text of a panel is written over another: a label    *)
(* gives way before the value beside it is reached, a word before a gauge. *)
(* Left out are the chart, whose axis and labels share a row when it is    *)
(* low, and the list of cards, where they do not always give way.          *)
Texts(panel) == {m \in panel.ink : m.H = 1}
Columns(m)   == m.X .. Right(m) - 1
NoOverprint ==
  OnDashboard =>
    LET cells == CellList IN
    \A i \in DOMAIN Panels : cells[i].p.name \notin {"history", "gpu"} =>
      LET texts == Texts(Panels[i])
      IN  Cardinality(UNION {{<<x, m.Y>> : x \in Columns(m)} : m \in texts})
            = Cardinality(UNION {{<<x, m>> : x \in Columns(m)} : m \in texts})

(* In a window of any size the dashboard's panels tile its body, with room *)
(* for what each holds, and no screen's panels overlap.                    *)
TilesTheBody == FrameTypeOK /\ PanelsApart /\ BodyCovered /\ EnoughRoom /\ EveryBandFirst

(* In a window of any size the header's pieces, the keys, the signature    *)
(* and the banner of a block keep clear of each other.                     *)
EdgesAreClear == HeaderApart /\ KeyBarWhole /\ BannerInBody

(* In a window of any size all that is drawn stays where it belongs: what  *)
(* a panel draws in its rectangle, border and all, the rest clear of each  *)
(* other.                                                                  *)
StaysInPlace == InsideItsPanel /\ EdgesAreClear
=============================================================================
