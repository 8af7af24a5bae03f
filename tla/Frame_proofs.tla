--------------------------- MODULE Frame_proofs ---------------------------
(***************************************************************************)
(* Proofs about the full-screen console, for a window of any size and any  *)
(* snapshot: its keys (Keys) first, what they decode to, the view and the  *)
(* preferences; then its frames (Frame): the panels, where they are and    *)
(* what they draw, the key bar and, from the lemmas of Layout_proofs, the  *)
(* header and the banner.                                                  *)
(***************************************************************************)
EXTENDS Layout_proofs

LogLine == [level : 1 .. 4, hit : BOOLEAN, old : BOOLEAN]
Prefs   == [screen : Range(screens), range : ranges, anim : BOOLEAN]

IsList(s) == Len(s) \in Nat /\ s = [i \in 1 .. Len(s) |-> s[i]]

(* The two kinds of state the keys reach: what is shown of the log, and    *)
(* what is remembered between runs.                                        *)
ViewInv ==
  /\ ViewIsTrue /\ IsList(cmd) /\ log \in Seq(LogLine)

PrefsInv ==
  /\ anim \in BOOLEAN /\ ui \in Prefs /\ uiFile \in Prefs
  /\ left = <<uiFile.screen, uiFile.range, uiFile.anim>>

KeysInv == ViewInv /\ PrefsInv

-----------------------------------------------------------------------------
LEMMA Bounds ==
  /\ ViewRows \in Nat /\ LogRoom \in Nat /\ LogKeep \in Nat /\ CmdRoom \in Nat /\ Page \in Nat /\ FarBack \in Nat
  /\ LogKeep < LogRoom /\ Page > 0 /\ ViewRows > 0
  /\ \A e \in LogEntry : e.level \in 1 .. 4 /\ e.hit \in BOOLEAN
  BY KeysAssumption

LEMMA SeqIsList == ASSUME NEW S, NEW t \in Seq(S) PROVE IsList(t)
<1>1. Len(t) \in Nat /\ t \in [1 .. Len(t) -> S]
  OBVIOUS
<1> QED BY <1>1 DEF IsList

LEMMA ListsGrow ==
  ASSUME NEW s, IsList(s), NEW e
  PROVE  IsList(Append(s, e)) /\ Len(Append(s, e)) = Len(s) + 1
<1> DEFINE S == {s[i] : i \in 1 .. Len(s)} \cup {e}
<1>1. s \in Seq(S) /\ e \in S
  BY DEF IsList
<1> HIDE DEF S
<1>2. Append(s, e) \in Seq(S) /\ Len(Append(s, e)) = Len(s) + 1
  BY <1>1
<1> QED BY <1>2, SeqIsList

LEMMA FrontIs ==
  ASSUME NEW S, NEW t \in Seq(S), NEW n \in 1 .. Len(t)
  PROVE  SubSeq(t, 1, n) \in Seq(S) /\ Len(SubSeq(t, 1, n)) = n
  OBVIOUS

LEMMA ListsShrink ==
  ASSUME NEW s, IsList(s)
  PROVE  /\ IsList(SubSeq(s, 1, Len(s) - 1)) /\ Len(SubSeq(s, 1, Len(s) - 1)) <= Len(s)
         /\ s = <<>> => SubSeq(s, 1, Len(s) - 1) = <<>>
<1> DEFINE S == {s[i] : i \in 1 .. Len(s)}
<1>1. s \in Seq(S) /\ Len(s) \in Nat
  BY DEF IsList
<1>2. CASE Len(s) = 0
  <2>1. SubSeq(s, 1, Len(s) - 1) = <<>>
    BY <1>2
  <2> QED BY <1>2, <2>1 DEF IsList
<1>3. CASE Len(s) = 1
  <2>1. SubSeq(s, 1, Len(s) - 1) = <<>>
    BY <1>3
  <2> QED BY <1>3, <2>1 DEF IsList
<1>4. CASE Len(s) > 1
  <2> HIDE DEF S
  <2>1. Len(s) - 1 \in 1 .. Len(s)
    BY <1>1, <1>4
  <2>2. SubSeq(s, 1, Len(s) - 1) \in Seq(S) /\ Len(SubSeq(s, 1, Len(s) - 1)) = Len(s) - 1
    BY <1>1, <2>1, FrontIs
  <2> DEFINE f == SubSeq(s, 1, Len(s) - 1)
  <2> HIDE DEF f
  <2>3. f \in Seq(S) /\ Len(f) <= Len(s)
    BY <1>1, <2>2 DEF f
  <2>4. IsList(f)
    BY <2>3, SeqIsList
  <2>5. s # <<>>
    BY <1>4
  <2> QED BY <2>3, <2>4, <2>5 DEF f
<1>5. Len(s) = 0 \/ Len(s) = 1 \/ Len(s) > 1
  <2>1. Len(s) \in Nat
    BY DEF IsList
  <2>2. \A n \in Nat : n = 0 \/ n = 1 \/ n > 1
    OBVIOUS
  <2> QED BY <2>1, <2>2, Zenon
<1> HIDE DEF S
<1> QED BY <1>2, <1>3, <1>4, <1>5

LEMMA EmptyIsList == IsList(<<>>) /\ Len(<<>>) = 0 /\ <<>> \in Seq(LogLine)
  BY DEF IsList

(* A log that is full makes room before it takes an entry.                 *)
LEMMA LogHasRoom ==
  ASSUME NEW l \in Seq(LogLine), Len(l) <= LogRoom, NEW e \in LogLine
  PROVE  Added(l, e) \in Seq(LogLine) /\ Len(Added(l, e)) <= LogRoom
<1>1. CASE Len(l) >= LogRoom
  <2> DEFINE kept == SubSeq(l, Len(l) - LogKeep + 1, Len(l))
  <2>1. kept \in Seq(LogLine) /\ Len(kept) = LogKeep
    BY <1>1, Bounds
  <2>2. Added(l, e) = Append(kept, e)
    BY <1>1 DEF Added
  <2> HIDE DEF kept
  <2> QED BY <2>1, <2>2, Bounds
<1>2. CASE Len(l) < LogRoom
  <2>1. Added(l, e) = Append(l, e)
    BY <1>2, Bounds DEF Added
  <2> QED BY <1>2, <2>1, Bounds
<1> QED BY <1>1, <1>2, Bounds

LEMMA LineIsLine == ASSUME NEW level \in LogInfo .. LogError PROVE Line(level) \in LogLine
  BY DEF Line, LogLine, LogInfo, LogError

LEMMA SaidHasRoom ==
  ASSUME NEW l \in Seq(LogLine), Len(l) <= LogRoom, NEW level \in LogInfo .. LogError
  PROVE  Said(l, level) \in Seq(LogLine) /\ Len(Said(l, level)) <= LogRoom
  BY LogHasRoom, LineIsLine DEF Said

LEMMA ScreensAre ==
  Range(screens) = {"dashboard", "mining", "statistics", "network", "threads", "config", "logs", "pools", "help"}
  BY DEF Range, screens

LEMMA DestinationIsScreen ==
  ASSUME screen \in Range(screens), NEW k \in GoKeys PROVE Destination(k) \in Range(screens)
<1>1. ASSUME NEW n \in Nat PROVE Turned(n) \in Range(screens)
  <2>1. PlaceOf(screen) \in 1 .. 9
    BY DEF PlaceOf, Range, screens
  <2>2. ((PlaceOf(screen) - 1 + n) % 9) + 1 \in 1 .. 9
    BY <2>1
  <2>3. Len(screens) = 9 /\ DOMAIN screens = 1 .. 9
    BY DEF screens
  <2> QED BY <2>2, <2>3 DEF Turned, Range
<1>2. Len(screens) - 1 \in Nat
  BY DEF screens
<1>3. k \in DOMAIN navKeys => navKeys[k] \in Range(screens)
  BY ScreensAre DEF navKeys
<1>9. DOMAIN navKeys = {"m", "s", "n", "t", "c", "l", "p", "h"}
  BY DEF navKeys
<1>4. CASE k \in {"Esc", "d"}
  <2>1. Destination(k) = "dashboard"
    BY <1>9, <1>4 DEF Destination
  <2> QED BY <2>1, ScreensAre
<1>5. CASE k = "Tab"
  <2>1. Destination(k) = Turned(1)
    BY <1>9, <1>5 DEF Destination
  <2> QED BY <1>1, <2>1
<1>6. CASE k = "BackTab"
  <2>1. Destination(k) = Turned(Len(screens) - 1)
    BY <1>9, <1>6 DEF Destination
  <2> QED BY <1>1, <1>2, <2>1
<1>7. CASE k = "?"
  <2>1. Destination(k) = "help"
    BY <1>9, <1>7 DEF Destination
  <2> QED BY <2>1, ScreensAre
<1>8. CASE k \in DOMAIN navKeys
  <2>1. k \notin {"Esc", "d", "Tab", "BackTab", "?"}
    BY <1>8 DEF navKeys
  <2>2. Destination(k) = IF screen = navKeys[k] THEN "dashboard" ELSE navKeys[k]
    BY <1>8, <2>1 DEF Destination
  <2> QED BY <1>3, <1>8, <2>2, ScreensAre
<1> QED BY <1>4, <1>5, <1>6, <1>7, <1>8 DEF GoKeys

-----------------------------------------------------------------------------
LEMMA KeysInvInit == KeysInit => KeysInv
<1> SUFFICES ASSUME KeysInit PROVE KeysInv
  OBVIOUS
<1>1. screen \in Range(screens) /\ histRange \in ranges /\ ui \in Prefs /\ uiFile \in Prefs
  BY ScreensAre DEF KeysInit, UI, Prefs, ranges
<1>2. up \in BOOLEAN /\ cmdOpen \in BOOLEAN /\ anim \in BOOLEAN
  BY Zenon DEF KeysInit
<1>3. view \in [scroll : Nat, paused : BOOLEAN, min : LogInfo .. LogError, text : BOOLEAN] /\ view.scroll = 0
  BY DEF KeysInit, Pinned, LogInfo, LogError
<1>4. left = <<uiFile.screen, uiFile.range, uiFile.anim>>
  BY DEF KeysInit, UI
<1>5. log \in Seq(LogLine) /\ Len(log) <= LogRoom /\ IsList(cmd) /\ cmd = <<>> /\ Len(cmd) <= CmdRoom
  BY EmptyIsList, Bounds DEF KeysInit
<1> QED BY <1>1, <1>2, <1>3, <1>4, <1>5 DEF KeysInv, ViewInv, PrefsInv, ViewIsTrue, KeysTypeOK, ScrolledIsPaused

View == [scroll : Nat, paused : BOOLEAN, min : LogInfo .. LogError, text : BOOLEAN]

LEMMA PinnedIsView == Pinned \in View /\ Pinned.scroll = 0 /\ ~ Pinned.paused
  BY DEF Pinned, View, LogInfo, LogError

LEMMA StartKeysKeeps ==
  ASSUME KeysInv, NEW flag, NEW still, StartConsole(flag, still)
  PROVE  KeysInv' /\ (flag = "" /\ ~ still => <<screen', histRange', anim'>> = left)
<1>1. uiFile \in Prefs /\ uiFile.screen \in Range(screens) /\ uiFile.range \in ranges /\ uiFile.anim \in BOOLEAN
  BY DEF KeysInv, PrefsInv, Prefs
<1>2. screen' \in Range(screens) /\ histRange' = uiFile.range
  BY <1>1, ScreensAre DEF StartConsole, screenByName
<1>3. up' \in BOOLEAN /\ cmdOpen' \in BOOLEAN
  BY Zenon DEF StartConsole
<1>4. anim' \in BOOLEAN
  BY Zenon DEF StartConsole
<1>5. view' = Pinned /\ log' = <<>> /\ cmd' = <<>>
  BY DEF StartConsole
<1>6. log' \in Seq(LogLine) /\ Len(log') <= LogRoom /\ IsList(cmd') /\ Len(cmd') <= CmdRoom
  <2>1. IsList(cmd')
    BY <1>5, EmptyIsList, Zenon
  <2>2. log' \in Seq(LogLine) /\ Len(log') = 0 /\ Len(cmd') = 0
    BY <1>5, EmptyIsList, Zenon
  <2> QED BY <2>1, <2>2, Bounds
<1>7. ui' = uiFile /\ uiFile' = uiFile /\ left' = left
  BY DEF StartConsole
<1>8. KeysInv'
  <2>1. ViewInv'
    <3>1. view' \in View /\ view'.scroll = 0
      BY <1>5, PinnedIsView
    <3>2. histRange' \in ranges /\ (cmd' # <<>> => cmdOpen')
      BY <1>1, <1>2, <1>5
    <3> QED BY <1>2, <1>3, <1>6, <3>1, <3>2 DEF ViewInv, ViewIsTrue, KeysTypeOK, ScrolledIsPaused, View
  <2>2. PrefsInv'
    BY <1>1, <1>4, <1>7 DEF KeysInv, PrefsInv
  <2> QED BY <2>1, <2>2 DEF KeysInv
<1>9. ASSUME flag = "", ~ still PROVE <<screen', histRange', anim'>> = left
  <2>1. screen' = uiFile.screen
    BY <1>1, <1>9 DEF StartConsole, screenByName
  <2>2. anim' = uiFile.anim
    BY <1>1, <1>9, Zenon DEF StartConsole
  <2> QED BY <1>2, <2>1, <2>2 DEF KeysInv, PrefsInv
<1> QED BY <1>8, <1>9

LEMMA InputsKeep ==
  ASSUME KeysInv, (\E e \in LogEntry : Arrive(e)) \/ Interrupted
                  \/ (\E presses \in Chunk : ReadKeys(presses))
  PROVE  KeysInv'
<1>1. UNCHANGED <<tuiVars, ui, uiFile, left>>
  BY DEF Arrive, Interrupted, Leave, ReadKeys
<1>2. log' \in Seq(LogLine) /\ Len(log') <= LogRoom
  <2>1. ASSUME NEW e \in LogEntry, Arrive(e) PROVE log' \in Seq(LogLine) /\ Len(log') <= LogRoom
    <3>1. [level |-> e.level, hit |-> e.hit, old |-> FALSE] \in LogLine
      BY Bounds DEF LogLine
    <3> QED BY <2>1, <3>1, LogHasRoom DEF Arrive, KeysInv, ViewInv, ViewIsTrue, KeysTypeOK
  <2> QED BY <2>1 DEF KeysInv, ViewInv, ViewIsTrue, KeysTypeOK, Interrupted, Leave, ReadKeys
<1>3. up' \in BOOLEAN
  BY Zenon DEF Arrive, Interrupted, Leave, ReadKeys, KeysInv, ViewInv, ViewIsTrue, KeysTypeOK
<1> QED BY <1>1, <1>2, <1>3 DEF tuiVars, KeysInv, ViewInv, PrefsInv, ViewIsTrue, KeysTypeOK, ScrolledIsPaused

(* A key that leaves the world alone: the fields of TUI are what it may    *)
(* spoil.                                                                  *)
LEMMA TuiKeeps ==
  ASSUME KeysInv, UNCHANGED World, cmdOpen' \in BOOLEAN, IsList(cmd'), Len(cmd') <= CmdRoom,
         cmd' # <<>> => cmdOpen', screen' \in Range(screens), histRange' \in ranges, anim' \in BOOLEAN,
         view' \in View, view'.scroll > 0 => view'.paused
  PROVE  KeysInv'
  BY DEF World, KeysInv, ViewInv, PrefsInv, ViewIsTrue, KeysTypeOK, ScrolledIsPaused, View

LEMMA TuiIs ==
  ASSUME KeysInv
  PROVE  /\ cmdOpen \in BOOLEAN /\ IsList(cmd) /\ Len(cmd) \in Nat /\ Len(cmd) <= CmdRoom /\ (cmd # <<>> => cmdOpen)
         /\ screen \in Range(screens) /\ histRange \in ranges /\ anim \in BOOLEAN
         /\ view \in View /\ (view.scroll > 0 => view.paused)
  BY DEF KeysInv, ViewInv, PrefsInv, ViewIsTrue, KeysTypeOK, ScrolledIsPaused, View, IsList

LEMMA EditingKeeps == ASSUME KeysInv, NEW k, Editing(k) PROVE KeysInv'
<1>1. UNCHANGED <<World, screen, histRange, anim, view>> /\ cmdOpen
  BY DEF Editing
<1>2. cmdOpen' \in BOOLEAN /\ (cmdOpen' <=> k # "Esc")
  BY Zenon DEF Editing
<1>3. IsList(cmd') /\ Len(cmd') <= CmdRoom /\ (k = "Esc" => cmd' = <<>>)
  <2>1. CASE k \in {"Esc", "NAK"}
    <3>1. cmd' = <<>>
      BY <2>1 DEF Editing, Moves
    <3> QED BY <3>1, EmptyIsList, Bounds
  <2>2. CASE k = "Backspace"
    <3>1. cmd' = SubSeq(cmd, 1, Len(cmd) - 1)
      BY <2>2 DEF Editing, Moves
    <3> QED BY <2>2, <3>1, TuiIs, ListsShrink, Bounds
  <2>3. CASE k \in Moves
    BY <2>3, TuiIs DEF Editing, Moves
  <2>4. CASE k \notin {"Esc", "NAK", "Backspace"} \cup Moves
    <3>1. cmd' = IF CmdFits(cmd) THEN Append(cmd, k) ELSE cmd
      BY <2>4 DEF Editing
    <3> QED BY <2>4, <3>1, TuiIs, ListsGrow, Bounds DEF CmdFits
  <2> QED BY <2>1, <2>2, <2>3, <2>4
<1> QED BY <1>1, <1>2, <1>3, TuiIs, TuiKeeps

LEMMA ScrollIs ==
  ASSUME KeysInv, NEW n \in Int, scrollBy(n)
  PROVE  view' \in View /\ (view'.scroll > 0 => view'.paused)
<1> DEFINE to == IF view.scroll + n < 0 THEN 0 ELSE view.scroll + n
<1>1. view \in View /\ to \in Nat
  BY TuiIs DEF View
<1>2. view' = [view EXCEPT !.scroll = to, !.paused = to > 0]
  BY DEF scrollBy
<1> HIDE DEF to
<1>3. (to > 0) \in BOOLEAN
  OBVIOUS
<1> QED BY <1>1, <1>2, <1>3 DEF View

LEMMA ScrollingKeeps == ASSUME KeysInv, NEW k, Scrolling(k) PROVE KeysInv'
<1>1. UNCHANGED <<World, screen, cmdOpen, cmd, histRange, anim>>
  BY DEF Scrolling
<1>2. view' \in View /\ (view'.scroll > 0 => view'.paused)
  <2>1. CASE k \in DOMAIN ScrollKeys /\ scrollBy(ScrollKeys[k])
    <3>1. ScrollKeys[k] \in Int
      BY <2>1, Bounds DEF ScrollKeys
    <3> QED BY <2>1, <3>1, ScrollIs
  <2>2. ASSUME NEW v \in View, v.scroll > 0 => v.paused
        PROVE  Toggled(v) \in View /\ (Toggled(v).scroll > 0 => Toggled(v).paused)
    <3>1. v.scroll \in Nat /\ v.paused \in BOOLEAN
      BY DEF View
    <3>2. /\ [v EXCEPT !.paused = FALSE, !.scroll = 0] \in View
          /\ ~ ([v EXCEPT !.paused = FALSE, !.scroll = 0].scroll > 0)
      <4>1. [v EXCEPT !.paused = FALSE, !.scroll = 0] \in View /\ [v EXCEPT !.paused = FALSE, !.scroll = 0].scroll = 0
        BY DEF View
      <4> QED BY <4>1
    <3>3. [v EXCEPT !.paused = TRUE] \in View /\ [v EXCEPT !.paused = TRUE].paused
      BY DEF View
    <3>4. Toggled(v) = [v EXCEPT !.paused = FALSE, !.scroll = 0] \/ Toggled(v) = [v EXCEPT !.paused = TRUE]
      BY Zenon DEF Toggled
    <3> QED BY <3>2, <3>3, <3>4, Zenon
  <2>3. CASE view' = Toggled(view)
    BY <2>2, <2>3, TuiIs
  <2>4. CASE view' = Toggled([view EXCEPT !.paused = TRUE])
    <3>1. [view EXCEPT !.paused = TRUE] \in View /\ [view EXCEPT !.paused = TRUE].paused
      BY TuiIs DEF View
    <3> QED BY <2>2, <2>4, <3>1
  <2> QED BY <2>1, <2>3, <2>4 DEF Scrolling
<1> QED BY <1>1, <1>2, TuiIs, TuiKeeps

LEMMA GoingKeeps ==
  ASSUME KeysInv, NEW k, Going(k)
  PROVE  KeysInv' /\ view'.scroll = 0 /\ ~ view'.paused /\ view'.min = view.min /\ view'.text = view.text
<1>1. UNCHANGED <<World, cmdOpen, cmd, histRange, anim>> /\ k \in GoKeys /\ screen' = Destination(k)
  BY DEF Going, goTo
<1>2. view' = [view EXCEPT !.scroll = 0, !.paused = FALSE]
  BY DEF Going, goTo
<1>3. view' \in View /\ view'.scroll = 0 /\ ~ view'.paused /\ view'.min = view.min /\ view'.text = view.text
  BY <1>2, TuiIs DEF View
<1>4. screen' \in Range(screens)
  BY <1>1, TuiIs, DestinationIsScreen
<1> QED BY <1>1, <1>3, <1>4, TuiIs, TuiKeeps

LEMMA FilteringKeeps == ASSUME KeysInv, NEW k, Filtering(k) PROVE KeysInv'
<1>1. UNCHANGED <<up, ui, uiFile, left, screen, cmdOpen, cmd, histRange, anim>>
  BY DEF Filtering
<1>2. view' \in View /\ view'.scroll = 0
  <2>1. CASE view' = [view EXCEPT !.text = FALSE, !.min = (@ % LogError) + 1, !.scroll = 0]
    <3>1. (view.min % LogError) + 1 \in LogInfo .. LogError
      BY TuiIs DEF View, LogInfo, LogError
    <3> QED BY <2>1, <3>1, TuiIs DEF View
  <2>2. CASE view' = [view EXCEPT !.scroll = 0]
    BY <2>2, TuiIs DEF View
  <2> QED BY <2>1, <2>2 DEF Filtering
<1>3. log' \in Seq(LogLine) /\ Len(log') <= LogRoom
  <2>1. log \in Seq(LogLine) /\ Len(log) <= LogRoom
    BY DEF KeysInv, ViewInv, ViewIsTrue, KeysTypeOK
  <2>2. CASE log' = [i \in DOMAIN log |-> [log[i] EXCEPT !.old = TRUE]]
    <3>1. ASSUME NEW r \in LogLine PROVE [r EXCEPT !.old = TRUE] \in LogLine
      BY DEF LogLine
    <3> DEFINE aged(r) == [r EXCEPT !.old = TRUE]
    <3>2. \A r \in LogLine : aged(r) \in LogLine
      BY <3>1
    <3>3. log' = [i \in 1 .. Len(log) |-> aged(log[i])]
      BY <2>1, <2>2
    <3> HIDE DEF aged
    <3>4. \A i \in 1 .. Len(log) : log[i] \in LogLine
      BY <2>1
    <3>5. Len(log) \in Nat
      BY <2>1
    <3>6. log' \in Seq(LogLine) /\ Len(log') = Len(log)
      BY <3>2, <3>3, <3>4, <3>5
    <3> QED BY <2>1, <3>6
  <2> QED BY <2>1, <2>2 DEF Filtering
<1> QED BY <1>1, <1>2, <1>3 DEF KeysInv, ViewInv, PrefsInv, ViewIsTrue, KeysTypeOK, ScrolledIsPaused, View

LEMMA OtherKeysKeep ==
  ASSUME KeysInv, NEW k, Focus(k) \/ (Quits(k) /\ Leave) \/ Choosing(k) \/ (Ignored(k) /\ UNCHANGED <<World, tuiVars>>)
  PROVE  KeysInv'
<1>1. CASE Focus(k)
  BY <1>1, TuiIs, TuiKeeps DEF Focus
<1>2. CASE Leave
  <2>1. up' \in BOOLEAN
    BY <1>2, Zenon DEF Leave
  <2> QED BY <1>2, <2>1 DEF Leave, tuiVars, KeysInv, ViewInv, PrefsInv, ViewIsTrue, KeysTypeOK, ScrolledIsPaused
<1>3. CASE Choosing(k)
  <2>1. UNCHANGED <<World, screen, view>>
    BY <1>3 DEF Choosing
  <2>2. CASE k \in Earlier \cup Later /\ UNCHANGED <<anim, cmdOpen, cmd>>
             /\ histRange' = clampRange(IF k \in Later THEN histRange + 1 ELSE histRange + 4)
    <3>1. histRange' \in ranges
      BY <2>2, TuiIs DEF clampRange, ranges
    <3> QED BY <2>1, <2>2, <3>1, TuiIs, TuiKeeps
  <2>3. CASE k = "a" /\ anim' = ~ anim /\ UNCHANGED <<histRange, cmdOpen, cmd>>
    <3>1. anim' \in BOOLEAN
      BY <2>3, Zenon
    <3> QED BY <2>1, <2>3, <3>1, TuiIs, TuiKeeps
  <2>4. CASE k = ":" /\ cmdOpen' = TRUE /\ cmd' = <<>> /\ UNCHANGED <<histRange, anim>>
    <3>1. cmdOpen' \in BOOLEAN
      BY <2>4, Zenon
    <3> QED BY <2>1, <2>4, <3>1, EmptyIsList, Bounds, TuiIs, TuiKeeps
  <2> QED BY <1>3, <2>2, <2>3, <2>4 DEF Choosing
<1>4. CASE UNCHANGED <<World, tuiVars>>
  BY <1>4, TuiIs, TuiKeeps DEF tuiVars
<1> QED BY <1>1, <1>2, <1>3, <1>4

LEMMA CommandKeeps ==
  ASSUME KeysInv, RunCommand, screen' = screen, cmdOpen' = FALSE, cmd' = <<>> PROVE KeysInv'
<1>1. log \in Seq(LogLine) /\ Len(log) <= LogRoom
  BY DEF KeysInv, ViewInv, ViewIsTrue, KeysTypeOK
<1>2. log' \in Seq(LogLine) /\ Len(log') <= LogRoom
  <2>1. ASSUME NEW on \in BOOLEAN, log' = Added(log, [level |-> LogGood, hit |-> on, old |-> FALSE])
        PROVE  log' \in Seq(LogLine) /\ Len(log') <= LogRoom
    <3>1. [level |-> LogGood, hit |-> on, old |-> FALSE] \in LogLine
      BY DEF LogLine, LogGood
    <3> QED BY <1>1, <2>1, <3>1, LogHasRoom
  <2>2. ASSUME NEW level \in LogInfo .. LogError, log' = Said(log, level)
        PROVE  log' \in Seq(LogLine) /\ Len(log') <= LogRoom
    BY <1>1, <2>2, SaidHasRoom
  <2>3. LogInfo \in LogInfo .. LogError /\ LogGood \in LogInfo .. LogError /\ LogError \in LogInfo .. LogError
    BY DEF LogInfo, LogGood, LogError
  <2>4. CASE LET twice == Said(Said(log, LogInfo), LogInfo) IN log' \in {twice, Said(twice, LogInfo)}
    <3>1. Said(log, LogInfo) \in Seq(LogLine) /\ Len(Said(log, LogInfo)) <= LogRoom
      BY <1>1, <2>3, SaidHasRoom
    <3> DEFINE twice == Said(Said(log, LogInfo), LogInfo)
    <3>2. twice \in Seq(LogLine) /\ Len(twice) <= LogRoom
      BY <2>3, <3>1, SaidHasRoom
    <3>3. log' = twice \/ log' = Said(twice, LogInfo)
      BY <2>4
    <3> HIDE DEF twice
    <3> QED BY <2>3, <3>2, <3>3, SaidHasRoom
  <2> QED BY <2>1, <2>2, <2>3, <2>4 DEF RunCommand
<1>3. /\ histRange' \in ranges /\ anim' \in BOOLEAN /\ up' \in BOOLEAN
  BY TuiIs, Zenon DEF RunCommand, KeysInv, ViewInv, ViewIsTrue, KeysTypeOK
<1>4. view \in View /\ (view.scroll > 0 => view.paused)
  BY TuiIs
<1>0. LogInfo \in LogInfo .. LogError
  BY DEF LogInfo, LogError
<1>5. view' \in View /\ (view'.scroll > 0 => view'.paused)
  <2>1. view \in View
    BY TuiIs
  <2>2. CASE view' = [view EXCEPT !.text = TRUE, !.min = LogInfo, !.scroll = 0]
    <3>1. view' \in View /\ view'.scroll = 0
      BY <1>0, <2>1, <2>2 DEF View
    <3> QED BY <3>1
  <2>3. CASE view' = [view EXCEPT !.text = FALSE, !.min = LogInfo, !.scroll = 0]
    <3>1. view' \in View /\ view'.scroll = 0
      BY <1>0, <2>1, <2>3 DEF View
    <3> QED BY <3>1
  <2>4. view' = view \/ (\E on \in BOOLEAN : view' = [view EXCEPT !.text = on, !.min = LogInfo, !.scroll = 0])
    BY Zenon DEF RunCommand
  <2> QED BY <1>4, <2>2, <2>3, <2>4, Zenon
<1>6. PrefsInv'
  <2>1. ui \in Prefs /\ uiFile \in Prefs /\ left = <<uiFile.screen, uiFile.range, uiFile.anim>>
    BY DEF KeysInv, PrefsInv
  <2>2. UI(name(screen), histRange, anim) \in Prefs
    BY TuiIs DEF UI, name, Prefs
  <2>3. ASSUME NEW r \in ranges PROVE [ui EXCEPT !.range = r] \in Prefs
    BY <2>1 DEF Prefs
  <2>4. ASSUME NEW on \in BOOLEAN PROVE [ui EXCEPT !.anim = on] \in Prefs
    BY <2>1 DEF Prefs
  <2>5. ui' \in Prefs
    BY <2>1, <2>2, <2>3, <2>4 DEF RunCommand
  <2>6. (UNCHANGED <<uiFile, left>>) \/ (uiFile' = UI(name(screen), histRange, anim) /\ left' = <<screen, histRange, anim>>)
    BY DEF RunCommand
  <2>7. uiFile' \in Prefs /\ left' = <<uiFile'.screen, uiFile'.range, uiFile'.anim>>
    BY <2>1, <2>2, <2>6 DEF UI, name
  <2> QED BY <1>3, <2>5, <2>7 DEF PrefsInv
<1>7. ViewInv'
  <2>1. IsList(cmd') /\ Len(cmd') <= CmdRoom /\ screen' \in Range(screens)
    BY TuiIs, EmptyIsList, Bounds
  <2>2. cmdOpen' \in BOOLEAN
    BY Zenon
  <2> QED BY <1>2, <1>3, <1>5, <2>1, <2>2 DEF ViewInv, ViewIsTrue, KeysTypeOK, ScrolledIsPaused, View
<1> QED BY <1>6, <1>7 DEF KeysInv

LEMMA EnterKeeps == ASSUME KeysInv, Enter PROVE KeysInv'
<1>1. cmdOpen' = FALSE /\ cmd' = <<>> /\ screen' = screen
  BY DEF Enter
<1>2. CASE RunCommand
  BY <1>1, <1>2, CommandKeeps
<1>3. CASE UNCHANGED <<up, log, ui, uiFile, left, histRange, anim, view>>
  <2>1. IsList(cmd') /\ Len(cmd') <= CmdRoom
    BY <1>1, EmptyIsList, Bounds
  <2>2. cmdOpen' \in BOOLEAN
    BY <1>1, Zenon
  <2> QED BY <1>1, <1>3, <2>1, <2>2 DEF KeysInv, ViewInv, PrefsInv, ViewIsTrue, KeysTypeOK, ScrolledIsPaused
<1> QED BY <1>2, <1>3 DEF Enter

LEMMA KeyKeeps == ASSUME KeysInv, NEW k, Key(k) PROVE KeysInv'
  BY EditingKeeps, GoingKeeps, ScrollingKeeps, FilteringKeeps, OtherKeysKeep DEF Key

LEMMA KeysInductive == KeysInv /\ [KeysNext]_keyVars => KeysInv'
<1> SUFFICES ASSUME KeysInv, [KeysNext]_keyVars PROVE KeysInv'
  OBVIOUS
<1>2. CASE KeysNext
  BY KeyKeeps, <1>2, StartKeysKeeps, InputsKeep, EnterKeeps DEF KeysNext
<1>3. CASE UNCHANGED keyVars
  BY <1>3 DEF keyVars, tuiVars, KeysInv, ViewInv, PrefsInv, ViewIsTrue, KeysTypeOK, ScrolledIsPaused
<1> QED BY <1>2, <1>3

(* After any keys and commands, whatever the terminal sends for them and   *)
(* however much the log holds: the command line, the log and the view keep *)
(* to their limits, and no view that stands still is labelled as one that  *)
(* follows (tui.go, Key; runloop.go, addLog).                              *)
THEOREM ViewHolds == KeysSpec => []ViewIsTrue
<1>1. KeysInv => ViewIsTrue
  BY DEF KeysInv, ViewInv
<1> QED BY <1>1, KeysInvInit, KeysInductive, PTL DEF KeysSpec

(* Only a key goes to another screen in a run, and it lets the log follow. *)
LEMMA OnlyGoingLeaves ==
  ASSUME KeysInv, [KeysNext]_keyVars, up, up', screen' # screen
  PROVE  view'.scroll = 0 /\ ~ view'.paused /\ view'.min = view.min /\ view'.text = view.text
<1>1. ~ (UNCHANGED keyVars)
  BY DEF keyVars, tuiVars
<1>2. \E k : Going(k)
  <2>1. ASSUME NEW k, Key(k) PROVE Going(k)
    BY <2>1 DEF Key, Focus, Editing, Quits, Leave, Scrolling, Filtering, Choosing, Ignored, tuiVars
  <2> QED BY <1>1, <2>1 DEF KeysNext, StartConsole, Arrive, ReadKeys, Enter, Interrupted, Leave, tuiVars
<1> QED BY <1>2, GoingKeeps

(* The log is left following by every way to another screen (tui.go, goTo).*)
THEOREM LogFollows == KeysSpec => LeavesTheLogFollowing
<1>1. KeysInv /\ [KeysNext]_keyVars
        => [up /\ up' /\ screen' # screen =>
             view'.scroll = 0 /\ ~ view'.paused /\ view'.min = view.min /\ view'.text = view.text]_keyVars
  BY OnlyGoingLeaves
<1> QED BY <1>1, KeysInvInit, KeysInductive, PTL DEF KeysSpec, LeavesTheLogFollowing

(* What was saved is what a run without flags opens with, over any number  *)
(* of runs (commands.go, save; tui.go, NewTUI).                            *)
THEOREM PrefsKept == KeysSpec => PrefsSurvive
<1>1. KeysInv /\ [KeysNext]_keyVars
        => [StartConsole("", FALSE) => <<screen', histRange', anim'>> = left]_keyVars
  <2> SUFFICES ASSUME KeysInv, StartConsole("", FALSE) PROVE <<screen', histRange', anim'>> = left
    OBVIOUS
  <2> QED BY StartKeysKeeps
<1> QED BY <1>1, KeysInvInit, KeysInductive, PTL DEF KeysSpec, PrefsSurvive

-----------------------------------------------------------------------------
(* Decoding, from a place on, given what comes of the places after it.     *)
FromHere(b, f, i) ==
  IF i > Len(b) THEN <<>>
  ELSE IF b[i] = "ESC" /\ i + 2 <= Len(b) /\ b[i + 1] \in {"[", "O"}
  THEN IF b[i + 2] \in Digit
       THEN LET j == DigitsEnd(b, i + 2)
            IN  IF j > Len(b) THEN <<>> ELSE CSIKey(SubSeq(b, i + 2, j - 1)) \o f[j + 1]
       ELSE FinalKey(b[i + 2]) \o f[i + 3]
  ELSE SingleKey(b[i]) \o f[i + 1]

Decodes(f, b) == f = [i \in 1 .. Len(b) + 1 |-> FromHere(b, f, i)]

EndsDigits(b, i, j) ==
  /\ j \in i .. Len(b) + 1
  /\ j = Len(b) + 1 \/ b[j] \notin Digit
  /\ \A k \in i .. j - 1 : b[k] \in Digit

LEMMA DigitsEndIs ==
  ASSUME NEW b, Len(b) \in Nat, NEW i \in 1 .. Len(b) + 1
  PROVE  EndsDigits(b, i, DigitsEnd(b, i)) /\ \A j : EndsDigits(b, i, j) => DigitsEnd(b, i) = j
<1> DEFINE Ends == {j \in i .. Len(b) + 1 : j = Len(b) + 1 \/ b[j] \notin Digit}
<1>1. Ends \subseteq Nat /\ Len(b) + 1 \in Ends
  OBVIOUS
<1>2. PICK n \in Ends : \A m \in Ends : n <= m
  BY <1>1, Least
<1>3. EndsDigits(b, i, n)
  <2>1. ASSUME NEW k \in i .. n - 1 PROVE b[k] \in Digit
    <3>1. k \in i .. Len(b) + 1 /\ k # Len(b) + 1 /\ ~ (n <= k)
      BY <2>1
    <3> QED BY <1>2, <3>1
  <2> QED BY <1>2, <2>1 DEF EndsDigits
<1>4. EndsDigits(b, i, DigitsEnd(b, i))
  BY <1>3 DEF DigitsEnd, EndsDigits
<1>5. ASSUME NEW j, NEW k, EndsDigits(b, i, j), EndsDigits(b, i, k), j < k PROVE FALSE
  BY <1>5 DEF EndsDigits
<1>6. ASSUME NEW j, EndsDigits(b, i, j) PROVE DigitsEnd(b, i) = j
  <2>1. j \in Int /\ DigitsEnd(b, i) \in Int
    BY <1>4, <1>6 DEF EndsDigits
  <2>2. ~ (j < DigitsEnd(b, i)) /\ ~ (DigitsEnd(b, i) < j)
    BY <1>4, <1>5, <1>6
  <2> QED BY <2>1, <2>2
<1> QED BY <1>4, <1>6

LEMMA OnlyLaterCount ==
  ASSUME NEW b, Len(b) \in Nat, NEW f, NEW g, NEW i \in 1 .. Len(b) + 1,
         \A j \in i + 1 .. Len(b) + 1 : f[j] = g[j]
  PROVE  FromHere(b, f, i) = FromHere(b, g, i)
<1>1. CASE i > Len(b)
  BY <1>1 DEF FromHere
<1>2. CASE i <= Len(b) /\ i + 2 <= Len(b)
  <2>1. i + 1 \in i + 1 .. Len(b) + 1 /\ i + 3 \in i + 1 .. Len(b) + 1
    BY <1>2
  <2>2. f[i + 1] = g[i + 1] /\ f[i + 3] = g[i + 3]
    BY <2>1
  <2> DEFINE j == DigitsEnd(b, i + 2)
  <2>3. j <= Len(b) => j + 1 \in i + 1 .. Len(b) + 1
    <3>1. i + 2 \in 1 .. Len(b) + 1
      BY <1>2
    <3>2. j \in i + 2 .. Len(b) + 1
      BY <3>1, DigitsEndIs DEF EndsDigits
    <3> HIDE DEF j
    <3> QED BY <3>2
  <2>4. j <= Len(b) => f[j + 1] = g[j + 1]
    BY <2>3
  <2>5. j \in Int
    <3>1. i + 2 \in 1 .. Len(b) + 1
      BY <1>2
    <3>2. j \in i + 2 .. Len(b) + 1
      BY <3>1, DigitsEndIs DEF EndsDigits
    <3> HIDE DEF j
    <3> QED BY <3>2
  <2>6. ~ (j > Len(b)) => j <= Len(b)
    <3> HIDE DEF j
    <3> QED BY <2>5
  <2> QED BY <2>2, <2>4, <2>6, Zenon DEF FromHere
<1>3. CASE i <= Len(b) /\ ~ (i + 2 <= Len(b))
  <2>1. f[i + 1] = g[i + 1]
    BY <1>3
  <2> QED BY <1>3, <2>1 DEF FromHere
<1> QED BY <1>1, <1>2, <1>3

LEMMA DecodingIs ==
  ASSUME NEW b, Len(b) \in Nat
  PROVE  \E f : decodeKeys(b) = f[1] /\ Decodes(f, b)
<1> DEFINE L == Len(b)
           Solves(f, m) == \A i \in 1 .. L + 1 : i > L - m => f[i] = FromHere(b, f, i)
           T == {m \in Nat : \E f : Solves(f, m)}
<1>1. 0 \in T
  <2> DEFINE f == [i \in 1 .. L + 1 |-> <<>>]
  <2>1. Solves(f, 0)
    BY DEF FromHere
  <2> QED BY <2>1
<1>2. ASSUME NEW m \in Nat, m \in T PROVE m + 1 \in T
  <2>1. PICK f : Solves(f, m)
    BY <1>2
  <2> DEFINE g == [i \in 1 .. L + 1 |-> IF i = L - m THEN FromHere(b, f, i) ELSE f[i]]
  <2>2. Solves(g, m + 1)
    <3> SUFFICES ASSUME NEW i \in 1 .. L + 1, i > L - (m + 1) PROVE g[i] = FromHere(b, g, i)
      OBVIOUS
    <3>1. \A j \in i + 1 .. L + 1 : g[j] = f[j]
      OBVIOUS
    <3>2. FromHere(b, g, i) = FromHere(b, f, i)
      <4> HIDE DEF g
      <4> QED BY <3>1, OnlyLaterCount
    <3>3. g[i] = FromHere(b, f, i)
      <4>1. CASE i = L - m
        BY <4>1
      <4>2. CASE i > L - m
        BY <2>1, <4>2
      <4> QED BY <4>1, <4>2
    <3> QED BY <3>2, <3>3
  <2> HIDE DEF g
  <2> QED BY <2>2
<1>3. L \in T
  <2> HIDE DEF T
  <2> QED BY <1>1, <1>2, Induction
<1>4. PICK f : Solves(f, L)
  BY <1>3
<1> DEFINE g == [i \in 1 .. L + 1 |-> f[i]]
<1>5. Decodes(g, b)
  <2>1. \A i \in 1 .. L + 1 : g[i] = FromHere(b, g, i)
    <3> TAKE i \in 1 .. L + 1
    <3>1. \A j \in i + 1 .. L + 1 : g[j] = f[j]
      OBVIOUS
    <3>2. g[i] = f[i] /\ f[i] = FromHere(b, f, i)
      BY <1>4
    <3> HIDE DEF g
    <3> QED BY <3>1, <3>2, OnlyLaterCount
  <2>2. g = [i \in 1 .. L + 1 |-> g[i]]
    OBVIOUS
  <2> HIDE DEF g
  <2> QED BY <2>1, <2>2, Zenon DEF Decodes
<1> HIDE DEF g
<1>6. Decodes(CHOOSE h : Decodes(h, b), b)
  BY <1>5
<1>7. decodeKeys(b) = (CHOOSE h : Decodes(h, b))[1]
  BY DEF decodeKeys, Decodes, FromHere
<1> QED BY <1>6, <1>7

(* A press that is at a place of a chunk, and taken there as it is alone.  *)
At(b, i, s) ==
  /\ i \in 1 .. Len(b) /\ i + Len(s) - 1 <= Len(b)
  /\ \A k \in 1 .. Len(s) : b[i + k - 1] = s[k]

IsPress(s) == s \in Seq(STRING) /\ (Len(s) = 1 \/ Sequence(s))

NotJoined(b, i) == i + 2 <= Len(b) => b[i + 1] \notin {"[", "O"}

LEMMA PressDecodes ==
  ASSUME NEW b \in Seq(STRING), NEW f, Decodes(f, b), NEW s, IsPress(s), NEW i, At(b, i, s),
         Len(s) = 1 => s[1] # "ESC" \/ NotJoined(b, i)
  PROVE  f[i] = KeyOf(s) \o f[i + Len(s)]
<1> DEFINE n == Len(s)
<1>1. n \in Nat /\ Len(b) \in Nat /\ i \in 1 .. Len(b) /\ i + n - 1 <= Len(b)
  BY DEF IsPress, At
<1>2. f[i] = FromHere(b, f, i)
  BY <1>1 DEF Decodes
<1>3. CASE n = 1
  <2>1. b[i] = s[1]
    BY <1>1, <1>3 DEF At
  <2>2. ~ (i > Len(b)) /\ ~ (b[i] = "ESC" /\ i + 2 <= Len(b) /\ b[i + 1] \in {"[", "O"})
    BY <1>1, <1>3, <2>1 DEF NotJoined
  <2>3. FromHere(b, f, i) = SingleKey(b[i]) \o f[i + 1]
    BY <2>2, Zenon DEF FromHere
  <2> QED BY <1>2, <1>3, <2>1, <2>3 DEF KeyOf
<1>4. CASE Sequence(s)
  <2>1. n >= 3 /\ s[1] = "ESC" /\ s[2] \in {"[", "O"} /\ s[n] \notin Digit /\ \A k \in 3 .. n - 1 : s[k] \in Digit
    BY <1>4 DEF Sequence
  <2>2. \A k \in 1 .. n : b[i + k - 1] = s[k]
    BY DEF At
  <2>3. b[i] = "ESC" /\ b[i + 1] \in {"[", "O"} /\ b[i + 2] = s[3] /\ i + 2 <= Len(b) /\ ~ (i > Len(b))
    <3>1. b[i + 1 - 1] = s[1] /\ b[i + 2 - 1] = s[2] /\ b[i + 3 - 1] = s[3]
      BY <1>1, <2>1, <2>2, SMTT(40)
    <3>2. i + 1 - 1 = i /\ i + 2 - 1 = i + 1 /\ i + 3 - 1 = i + 2
      BY <1>1
    <3> QED BY <1>1, <2>1, <3>1, <3>2
  <2>4. CASE n = 3
    <3>1. b[i + 2] \notin Digit
      BY <2>1, <2>3, <2>4
    <3>2. FromHere(b, f, i) = FinalKey(b[i + 2]) \o f[i + 3]
      BY <2>3, <3>1, Zenon DEF FromHere
    <3> QED BY <1>2, <2>3, <2>4, <3>2 DEF KeyOf
  <2>5. CASE n > 3
    <3>1. b[i + 2] \in Digit
      BY <2>1, <2>3, <2>5
    <3> DEFINE j == i + n - 1
    <3>2. EndsDigits(b, i + 2, j)
      <4>1. j \in i + 2 .. Len(b) + 1
        BY <1>1, <2>5
      <4>2. b[j] \notin Digit
        BY <1>1, <2>1, <2>2
      <4>3. ASSUME NEW k \in i + 2 .. j - 1 PROVE b[k] \in Digit
        <5>1. k - i + 1 \in 3 .. n - 1 /\ k - i + 1 \in 1 .. n /\ i + (k - i + 1) - 1 = k
          BY <1>1, <2>5
        <5> QED BY <2>1, <2>2, <5>1
      <4> QED BY <4>1, <4>2, <4>3 DEF EndsDigits
    <3>3. DigitsEnd(b, i + 2) = j
      BY <1>1, <2>3, <3>2, DigitsEndIs
    <3>4. j \in Int /\ ~ (j > Len(b)) /\ j + 1 = i + n
      BY <1>1
    <3>5. FromHere(b, f, i) = CSIKey(SubSeq(b, i + 2, j - 1)) \o f[j + 1]
      <4> HIDE DEF j
      <4> QED BY <2>3, <3>1, <3>3, <3>4, Zenon DEF FromHere
    <3>6. SubSeq(b, i + 2, j - 1) = SubSeq(s, 3, n - 1)
      <4>1. s \in Seq(STRING)
        BY DEF IsPress
      <4>2. SubSeq(s, 3, n - 1) = [k \in 1 .. n - 3 |-> s[3 + k - 1]]
        BY <1>1, <2>5, <4>1
      <4>3. SubSeq(b, i + 2, j - 1) = [k \in 1 .. n - 3 |-> b[i + 2 + k - 1]]
        BY <1>1, <2>5
      <4>4. \A k \in 1 .. n - 3 : s[3 + k - 1] = b[i + 2 + k - 1]
        <5> TAKE k \in 1 .. n - 3
        <5>1. k + 2 \in 1 .. n /\ i + (k + 2) - 1 = i + 2 + k - 1 /\ 3 + k - 1 = k + 2
          BY <1>1
        <5> QED BY <2>2, <5>1
      <4>5. [k \in 1 .. n - 3 |-> s[3 + k - 1]] = [k \in 1 .. n - 3 |-> b[i + 2 + k - 1]]
        BY <4>4, Zenon
      <4> HIDE DEF j
      <4> QED BY <4>2, <4>3, <4>5, Zenon
    <3>7. KeyOf(s) = CSIKey(SubSeq(s, 3, n - 1))
      <4>1. n # 1 /\ n # 3
        <5>1. \A m \in Nat : m > 3 => m # 1 /\ m # 3
          OBVIOUS
        <5> QED BY <1>1, <2>5, <5>1, Zenon
      <4> QED BY <4>1, Zenon DEF KeyOf
    <3> HIDE DEF j
    <3>8. f[i] = CSIKey(SubSeq(s, 3, n - 1)) \o f[j + 1]
      BY <1>2, <3>5, <3>6, Zenon
    <3>9. f[j + 1] = f[i + n]
      BY <3>4
    <3> QED BY <3>7, <3>8, <3>9, Zenon
  <2>6. \A m \in Nat : m >= 3 => m = 3 \/ m > 3
    OBVIOUS
  <2> QED BY <1>1, <2>1, <2>4, <2>5, <2>6, Zenon
<1> QED BY <1>3, <1>4 DEF IsPress

NamedKeys == {"PgUp", "PgDn", "Home", "End", "FocusIn", "FocusOut", "BackTab", "Up", "Down", "Right",
              "Left", "Esc", "Enter", "Backspace", "Tab", "CtrlC"}

LEMMA KeysAre ==
  ASSUME NEW S, NamedKeys \subseteq S, NEW s, s[1] \in S
  PROVE  KeyOf(s) \in Seq(S)
<1>1. \A c \in S : <<c>> \in Seq(S)
  OBVIOUS
<1>2. <<>> \in Seq(S)
  OBVIOUS
<1>3. SingleKey(s[1]) \in Seq(S)
  BY <1>1, <1>2 DEF SingleKey, NamedKeys
<1>4. FinalKey(s[3]) \in Seq(S)
  BY <1>1, <1>2 DEF FinalKey, NamedKeys
<1>5. CSIKey(SubSeq(s, 3, Len(s) - 1)) \in Seq(S)
  BY <1>1, <1>2 DEF CSIKey, NamedKeys
<1> QED BY <1>3, <1>4, <1>5, Zenon DEF KeyOf

LEMMA PressIs ==
  ASSUME NEW s, IsPress(s)
  PROVE  s \in Seq(STRING) /\ Len(s) \in Nat \ {0} /\ (Len(s) # 1 => s[1] = "ESC")
<1>1. s \in Seq(STRING) /\ Len(s) \in Nat
  BY DEF IsPress
<1>2. Len(s) = 1 \/ (Len(s) >= 3 /\ s[1] = "ESC")
  BY Zenon DEF IsPress, Sequence
<1> QED BY <1>1, <1>2

(* The presses of a chunk, laid end to end: each is decoded to its key and *)
(* what follows, but for Esc and a bracket with more behind them.          *)
Joined(ss, i) == i + 2 <= Len(ss) /\ ss[i] = <<"ESC">> /\ ss[i + 1] \in {<<"[">>, <<"O">>}

Presses(ss) == Len(ss) \in Nat \ {0} /\ \A i \in 1 .. Len(ss) : IsPress(ss[i])

Starts(ss, i) == Before(Lens(ss), i)

Chained(ss) ==
  /\ FlattenSeq(ss) \in Seq(STRING) /\ Len(FlattenSeq(ss)) = Starts(ss, Len(ss) + 1)
  /\ \A i \in 1 .. Len(ss) : \A j \in 1 .. Len(ss[i]) :
       Starts(ss, i) + j \in 1 .. Len(FlattenSeq(ss)) /\ FlattenSeq(ss)[Starts(ss, i) + j] = ss[i][j]

LEMMA PressesLaid == ASSUME NEW ss, Presses(ss) PROVE Chained(ss)
<1> DEFINE E == STRING
<1>1. Len(ss) \in Nat \ {0} /\ \A i \in 1 .. Len(ss) : ss[i] \in Seq(E)
  BY DEF Presses, IsPress
<1> HIDE DEF E
<1>2. /\ FlattenSeq(ss) \in Seq(E)
      /\ Len(FlattenSeq(ss)) = Before(Lens(ss), Len(ss) + 1)
      /\ \A i \in 1 .. Len(ss) : \A j \in 1 .. Len(ss[i]) :
           Place(ss, i, j) \in 1 .. Len(FlattenSeq(ss)) /\ FlattenSeq(ss)[Place(ss, i, j)] = ss[i][j]
      /\ \A k \in 1 .. Len(FlattenSeq(ss)) :
           \E i \in 1 .. Len(ss) : \E j \in 1 .. Len(ss[i]) : k = Place(ss, i, j)
  BY <1>1, FlattenPlaces
<1> QED BY <1>2, Zenon DEF Chained, Place, Starts, E

(* The press at a place leads to the place after it.                       *)
Leads(ss, f, i) == f[Starts(ss, i) + 1] = KeyOf(ss[i]) \o f[Starts(ss, i + 1) + 1]

LEMMA NextOfChunk ==
  ASSUME NEW ss, Presses(ss), NEW f, Decodes(f, FlattenSeq(ss)), NEW i \in 1 .. Len(ss), ~ Joined(ss, i)
  PROVE  Leads(ss, f, i)
<1> DEFINE n == Len(ss)
           b == FlattenSeq(ss)
           E == STRING
           lens == Lens(ss)
           o(k) == Starts(ss, k)
<1>0. n \in Nat \ {0} /\ (\A k \in 1 .. n : IsPress(ss[k])) /\ i \in 1 .. n /\ Decodes(f, b)
  BY DEF Presses
<1>1. \A k \in 1 .. n : ss[k] \in Seq(E) /\ Len(ss[k]) \in Nat \ {0} /\ (Len(ss[k]) # 1 => ss[k][1] = "ESC")
  BY <1>0, PressIs
<1>2. /\ b \in Seq(E) /\ Len(b) = o(n + 1)
      /\ \A k \in 1 .. n : \A j \in 1 .. Len(ss[k]) : o(k) + j \in 1 .. Len(b) /\ b[o(k) + j] = ss[k][j]
  BY PressesLaid, Zenon DEF Chained
<1> HIDE DEF E, n, b
<1>3. ASSUME NEW k \in 1 .. n PROVE lens[k] = Len(ss[k]) /\ lens[k] \in Nat
  BY <1>1 DEF Lens, n
<1> HIDE DEF lens
<1>31. ASSUME NEW k \in 1 .. n PROVE o(k + 1) = o(k) + Len(ss[k])
  <2>1. k \in Nat \ {0}
    BY <1>0
  <2>2. Before(lens, k + 1) = Before(lens, k) + lens[k]
    BY <2>1, BeforeStep
  <2> QED BY <1>3, <2>2 DEF Starts, lens
<1>4. ASSUME NEW k \in 1 .. n + 1 PROVE o(k) \in Int
  <2>1. Ints(lens, n) /\ n \in Nat
    BY <1>0, <1>3 DEF Ints
  <2> QED BY <2>1, BeforeInt DEF Starts, lens
<1> HIDE DEF o
<1>5. At(b, o(i) + 1, ss[i])
  <2>1. i \in 1 .. n + 1 /\ Len(ss[i]) \in Nat \ {0} /\ 1 \in 1 .. Len(ss[i]) /\ Len(ss[i]) \in 1 .. Len(ss[i])
    BY <1>0, <1>1
  <2>2. o(i) \in Int /\ Len(b) \in Nat
    BY <1>2, <1>4, <2>1
  <2>3. o(i) + 1 \in 1 .. Len(b) /\ o(i) + Len(ss[i]) \in 1 .. Len(b)
    BY <1>0, <1>2, <2>1
  <2>4. ASSUME NEW k \in 1 .. Len(ss[i]) PROVE b[(o(i) + 1) + k - 1] = ss[i][k]
    <3>1. (o(i) + 1) + k - 1 = o(i) + k
      BY <2>1, <2>2
    <3> QED BY <1>0, <1>2, <3>1
  <2>5. (o(i) + 1) + Len(ss[i]) - 1 = o(i) + Len(ss[i])
    BY <2>1, <2>2
  <2> QED BY <2>2, <2>3, <2>4, <2>5 DEF At
<1>6. ASSUME Len(ss[i]) = 1, ss[i][1] = "ESC" PROVE NotJoined(b, o(i) + 1)
  <2>1. SUFFICES ASSUME (o(i) + 1) + 2 <= Len(b) PROVE b[(o(i) + 1) + 1] \notin {"[", "O"}
    BY DEF NotJoined
  <2>2. i \in 1 .. n + 1 /\ o(i) \in Int /\ o(i + 1) = o(i) + 1
    <3>1. i \in 1 .. n + 1
      BY <1>0
    <3>2. o(i + 1) = o(i) + Len(ss[i])
      BY <1>0, <1>31
    <3> QED BY <1>4, <1>6, <3>1, <3>2
  <2>3. i + 1 \in 1 .. n
    <3>1. CASE i = n
      BY <1>2, <2>1, <2>2, <3>1
    <3>2. CASE i # n
      BY <1>0, <3>2
    <3> QED BY <3>1, <3>2
  <2>4. /\ ss[i + 1] \in Seq(E) /\ Len(ss[i + 1]) \in Nat \ {0} /\ 1 \in 1 .. Len(ss[i + 1])
        /\ (Len(ss[i + 1]) # 1 => ss[i + 1][1] = "ESC")
    BY <1>1, <2>3
  <2>5. b[(o(i) + 1) + 1] = ss[i + 1][1]
    BY <1>2, <2>2, <2>3, <2>4
  <2>6. CASE Len(ss[i + 1]) # 1
    BY <2>4, <2>5, <2>6
  <2>7. CASE Len(ss[i + 1]) = 1
    <3>1. o((i + 1) + 1) = o(i) + 2
      <4>1. o((i + 1) + 1) = o(i + 1) + Len(ss[i + 1])
        BY <1>31, <2>3
      <4> QED BY <2>2, <2>7, <4>1
    <3>2. i + 2 <= n
      <4>1. CASE i + 1 = n
        BY <1>2, <2>1, <2>2, <3>1, <4>1
      <4>2. CASE i + 1 # n
        BY <1>0, <2>3, <4>2
      <4> QED BY <4>1, <4>2
    <3>3. ss[i + 1] = <<ss[i + 1][1]>>
      BY <2>4, <2>7
    <3>4. ss[i] = <<"ESC">>
      <4>1. ss[i] = <<ss[i][1]>>
        BY <1>0, <1>1, <1>6
      <4> QED BY <1>6, <4>1
    <3>5. ss[i + 1] \notin {<<"[">>, <<"O">>}
      BY <3>2, <3>4 DEF Joined, n
    <3>6. ss[i + 1][1] # "[" /\ ss[i + 1][1] # "O"
      BY <3>3, <3>5, Zenon
    <3> QED BY <2>5, <3>6
  <2> QED BY <2>6, <2>7
<1>7. f[o(i) + 1] = KeyOf(ss[i]) \o f[(o(i) + 1) + Len(ss[i])]
  <2>1. \A s, k : IsPress(s) /\ At(b, k, s) /\ (Len(s) = 1 => s[1] # "ESC" \/ NotJoined(b, k))
                   => f[k] = KeyOf(s) \o f[k + Len(s)]
    BY <1>0, <1>2, PressDecodes DEF E
  <2>2. Len(ss[i]) = 1 => ss[i][1] # "ESC" \/ NotJoined(b, o(i) + 1)
    BY <1>6
  <2> QED BY <1>0, <1>5, <2>1, <2>2
<1>8. (o(i) + 1) + Len(ss[i]) = o(i + 1) + 1
  <2>1. i \in 1 .. n + 1 /\ o(i) \in Int /\ Len(ss[i]) \in Nat
    BY <1>0, <1>1, <1>4
  <2>2. o(i + 1) = o(i) + Len(ss[i])
    BY <1>0, <1>31
  <2> QED BY <2>1, <2>2
<1> QED BY <1>7, <1>8 DEF Leads, o

LEMMA JoinedTwice ==
  ASSUME NEW S, NEW x \in Seq(S), NEW y \in Seq(S), NEW z \in Seq(S)
  PROVE  x \o y \in Seq(S) /\ x \o (y \o z) = (x \o y) \o z
<1>1. Len(x) \in Nat /\ Len(y) \in Nat /\ Len(z) \in Nat
  OBVIOUS
<1>2. x \o (y \o z) \in Seq(S) /\ (x \o y) \o z \in Seq(S)
  OBVIOUS
<1>3. Len(x \o (y \o z)) = Len((x \o y) \o z)
  OBVIOUS
<1>4. \A i \in 1 .. Len(x \o (y \o z)) : (x \o (y \o z))[i] = ((x \o y) \o z)[i]
  OBVIOUS
<1>5. x \o y \in Seq(S)
  OBVIOUS
<1> QED BY <1>2, <1>3, <1>4, <1>5

LEMMA ChunkDecodes ==
  ASSUME NEW ss, Presses(ss), \A i \in 1 .. Len(ss) : ~ Joined(ss, i),
         NEW ks, Len(ks) = Len(ss), \A i \in 1 .. Len(ss) : ks[i] = KeyOf(ss[i])
  PROVE  decodeKeys(FlattenSeq(ss)) = FlattenSeq(ks)
<1> DEFINE n == Len(ss)
           b == FlattenSeq(ss)
           o(k) == Starts(ss, k)
           S == NamedKeys \cup {ss[i][1] : i \in 1 .. n}
<1>1. Chained(ss) /\ n \in Nat \ {0} /\ Len(ks) = n
  BY PressesLaid DEF Presses
<1>0. b \in Seq(STRING) /\ Len(b) = o(n + 1)
  BY <1>1, Zenon DEF Chained
<1>2. PICK f : decodeKeys(b) = f[1] /\ Decodes(f, b)
  <2>1. Len(b) \in Nat
    <3> HIDE DEF b
    <3> QED BY <1>0
  <2> QED BY <2>1, DecodingIs, Zenon
<1>3. ASSUME NEW i \in 1 .. n PROVE f[o(i) + 1] = ks[i] \o f[o(i + 1) + 1]
  <2>1. Leads(ss, f, i)
    BY <1>2, NextOfChunk, Zenon
  <2> QED BY <2>1, Zenon DEF Leads
<1>4. f[o(n + 1) + 1] = <<>>
  <2> HIDE DEF b
  <2>1. Len(b) \in Nat /\ o(n + 1) = Len(b)
    BY <1>0
  <2> QED BY <1>2, <2>1 DEF Decodes, FromHere
<1>5. ASSUME NEW i \in 1 .. n PROVE ks[i] \in Seq(S)
  <2>1. NamedKeys \subseteq S /\ ss[i][1] \in S
    OBVIOUS
  <2> HIDE DEF S
  <2> QED BY <2>1, KeysAre
<1>6. o(1) + 1 = 1
  BY BeforeFirst DEF Starts
<1>61. \A i \in 1 .. n : ~ Joined(ss, i)
  OBVIOUS
<1>62. n \in Nat \ {0} /\ Len(ks) = n
  BY <1>1
<1> HIDE DEF b, o, S, n
<1> USE <1>62
(* What is left to decode at each place.                                   *)
<1> DEFINE Rest(m) == f[o((n + 1) - m) + 1] \in Seq(S)
           T == {m \in Nat : m <= n => Rest(m)}
<1>7. 0 \in T
  <2>1. (n + 1) - 0 = n + 1 /\ <<>> \in Seq(S)
    OBVIOUS
  <2> QED BY <1>4, <2>1
<1>8. ASSUME NEW m \in Nat, m \in T PROVE m + 1 \in T
  <2>1. SUFFICES ASSUME m + 1 <= n PROVE Rest(m + 1)
    OBVIOUS
  <2> DEFINE i == (n + 1) - (m + 1)
  <2>2. i \in 1 .. n /\ i + 1 = (n + 1) - m /\ m <= n
    BY <2>1
  <2>3. f[o(i + 1) + 1] \in Seq(S)
    BY <1>8, <2>2
  <2> HIDE DEF i
  <2>4. f[o(i) + 1] \in Seq(S)
    <3>1. ks[i] \in Seq(S) /\ f[o(i) + 1] = ks[i] \o f[o(i + 1) + 1]
      BY <1>3, <1>5, <2>2
    <3> QED BY <2>3, <3>1
  <2> QED BY <2>4 DEF i
<1>9. ASSUME NEW i \in 1 .. n + 1 PROVE f[o(i) + 1] \in Seq(S)
  <2>1. Nat \subseteq T
    <3> HIDE DEF T
    <3> QED BY <1>7, <1>8, Induction
  <2>2. (n + 1) - i \in Nat /\ (n + 1) - i <= n /\ (n + 1) - ((n + 1) - i) = i
    OBVIOUS
  <2>3. Rest((n + 1) - i)
    <3> HIDE DEF Rest
    <3> QED BY <2>1, <2>2
  <2> QED BY <2>2, <2>3
<1> HIDE DEF T
(* What was decoded so far, and what is left.                              *)
<1>10. PICK g : FlattenSeq(ks) = g[n] /\ Flattens(g, ks)
  BY FlattenIs
<1> DEFINE Parted(m) == g[m] \in Seq(S) /\ f[1] = g[m] \o f[o(m + 1) + 1]
           U == {m \in Nat : m + 1 <= n => Parted(m + 1)}
<1>11. g[1] = ks[1] /\ \A m \in 1 .. n - 1 : g[m + 1] = g[m] \o ks[m + 1]
  <2>0. \A i \in 1 .. n : g[i] = IF i = 1 THEN ks[i] ELSE g[i - 1] \o ks[i]
    BY <1>10, Zenon DEF Flattens
  <2>1. ASSUME NEW m \in 1 .. n - 1 PROVE g[m + 1] = g[m] \o ks[m + 1]
    <3>1. m + 1 \in 1 .. n /\ m + 1 # 1 /\ (m + 1) - 1 = m
      OBVIOUS
    <3> QED BY <2>0, <3>1
  <2>2. 1 \in 1 .. n
    OBVIOUS
  <2> QED BY <2>0, <2>1, <2>2
<1>12. 0 \in U
  <2>1. 1 \in 1 .. n /\ 0 + 1 = 1
    OBVIOUS
  <2>2. f[o(1) + 1] = ks[1] \o f[o(1 + 1) + 1] /\ ks[1] \in Seq(S)
    BY <1>3, <1>5, <2>1
  <2>3. Parted(1)
    BY <1>6, <1>11, <2>2
  <2> HIDE DEF Parted
  <2> QED BY <2>1, <2>3
<1>13. ASSUME NEW m \in Nat, m \in U PROVE m + 1 \in U
  <2>1. SUFFICES ASSUME (m + 1) + 1 <= n PROVE Parted((m + 1) + 1)
    <3>1. m + 1 \in Nat
      OBVIOUS
    <3> HIDE DEF Parted
    <3> QED BY <3>1, Zenon DEF U
  <2> DEFINE k == m + 1
  <2>2. k \in 1 .. n - 1 /\ k + 1 \in 1 .. n /\ (k + 1) + 1 \in 1 .. n + 1
    BY <2>1
  <2>3. Parted(k)
    <3>1. m + 1 <= n
      BY <2>1
    <3> HIDE DEF Parted
    <3> QED BY <1>13, <3>1
  <2> HIDE DEF k
  <2>4. /\ g[k + 1] = g[k] \o ks[k + 1] /\ ks[k + 1] \in Seq(S) /\ g[k] \in Seq(S)
        /\ f[o(k + 1) + 1] = ks[k + 1] \o f[o((k + 1) + 1) + 1] /\ f[o((k + 1) + 1) + 1] \in Seq(S)
        /\ f[1] = g[k] \o f[o(k + 1) + 1]
    BY <1>3, <1>5, <1>9, <1>11, <2>2, <2>3
  <2> DEFINE x == g[k]  y == ks[k + 1]  z == f[o((k + 1) + 1) + 1]
  <2>5. x \o y \in Seq(S) /\ x \o (y \o z) = (x \o y) \o z
    <3>1. x \in Seq(S) /\ y \in Seq(S) /\ z \in Seq(S)
      BY <2>4
    <3> HIDE DEF x, y, z
    <3> QED BY <3>1, JoinedTwice
  <2>6. g[k + 1] \in Seq(S) /\ f[1] = g[k + 1] \o f[o((k + 1) + 1) + 1]
    BY <2>4, <2>5, Zenon
  <2> QED BY <2>6 DEF k
<1>14. Parted(n)
  <2>1. n - 1 \in Nat /\ (n - 1) + 1 = n
    OBVIOUS
  <2>2. n - 1 \in U
    <3> HIDE DEF U
    <3> QED BY <1>12, <1>13, <2>1, Induction
  <2> HIDE DEF Parted
  <2> QED BY <2>1, <2>2
<1>15. f[1] = g[n]
  BY <1>4, <1>14
<1> QED BY <1>2, <1>10, <1>15 DEF b

LEMMA ReadIsMeant ==
  ASSUME NEW presses \in Chunk, ~ Tangled(presses)
  PROVE  decodeKeys(FlattenSeq([i \in DOMAIN presses |-> Sends[presses[i]]]))
           = FlattenSeq([i \in DOMAIN presses |-> Means[presses[i]]])
<1> DEFINE n == Len(presses)
           sent == [i \in DOMAIN presses |-> Sends[presses[i]]]
           stand == [i \in DOMAIN presses |-> Means[presses[i]]]
<1>1. presses \in Seq(DOMAIN Sends) /\ presses # <<>>
  BY KeysAssumption
<1>2. n \in Nat \ {0} /\ DOMAIN presses = 1 .. n /\ \A i \in 1 .. n : presses[i] \in DOMAIN Sends
  BY <1>1
<1>3. Len(sent) = n /\ Len(stand) = n
  <2> HIDE DEF n
  <2> QED BY <1>2
<1>4. \A i \in 1 .. n : sent[i] = Sends[presses[i]] /\ stand[i] = Means[presses[i]]
  BY <1>2
<1>5. \A p \in DOMAIN Sends : IsPress(Sends[p]) /\ Means[p] = KeyOf(Sends[p])
  BY SendsAssumption DEF IsPress
<1>6. ASSUME NEW i \in 1 .. n PROVE ~ Joined(sent, i)
  <2>1. SUFFICES ASSUME Joined(sent, i) PROVE FALSE
    OBVIOUS
  <2>2. i \in 1 .. n - 2 /\ i + 1 \in 1 .. n
    BY <1>2, <1>3, <2>1 DEF Joined
  <2>3. Sends[presses[i]] = <<"ESC">> /\ Sends[presses[i + 1]] \in {<<"[">>, <<"O">>}
    BY <1>4, <2>1, <2>2 DEF Joined
  <2> QED BY <2>2, <2>3 DEF Tangled
<1> HIDE DEF n, sent, stand
<1>7. decodeKeys(FlattenSeq(sent)) = FlattenSeq(stand)
  <2>1. Presses(sent) /\ Len(stand) = Len(sent)
    BY <1>2, <1>3, <1>4, <1>5 DEF Presses
  <2>2. \A i \in 1 .. Len(sent) : ~ Joined(sent, i)
    BY <1>3, <1>6
  <2>3. \A i \in 1 .. Len(sent) : stand[i] = KeyOf(sent[i])
    BY <1>2, <1>3, <1>4, <1>5
  <2> QED BY <2>1, <2>2, <2>3, ChunkDecodes
<1> QED BY <1>7 DEF sent, stand

(* What is still to be handled is what was meant, until it is handled.     *)
LEMMA MeantInit == KeysInit => DecodedAsMeant
  BY DEF KeysInit, DecodedAsMeant

LEMMA MeantInductive == DecodedAsMeant /\ [KeysNext]_keyVars => DecodedAsMeant'
<1> SUFFICES ASSUME DecodedAsMeant, [KeysNext]_keyVars PROVE DecodedAsMeant'
  OBVIOUS
<1>1. CASE UNCHANGED keyVars
  BY <1>1 DEF keyVars, DecodedAsMeant
<1>2. ASSUME NEW flag, NEW still, StartConsole(flag, still) PROVE DecodedAsMeant'
  BY <1>2 DEF StartConsole, DecodedAsMeant
<1>3. ASSUME NEW e, Arrive(e) PROVE DecodedAsMeant'
  BY <1>3 DEF Arrive, DecodedAsMeant
<1>4. ASSUME NEW presses \in Chunk, ReadKeys(presses) PROVE DecodedAsMeant'
  BY <1>4, ReadIsMeant DEF ReadKeys, DecodedAsMeant
<1>5. CASE Interrupted
  BY <1>5 DEF Interrupted, Leave, DecodedAsMeant
<1>6. ASSUME NEW k, Pressed(k) PROVE DecodedAsMeant'
  BY <1>6 DEF Pressed, DecodedAsMeant
<1> QED BY <1>1, <1>2, <1>3, <1>4, <1>5, <1>6 DEF KeysNext, Key, Enter

(* Keys that are read together are told apart, however many they are and   *)
(* whatever the terminal sends for them, as long as each is there whole, a *)
(* byte or an escape sequence, and no Esc and bracket come before another: *)
(* those that are handled are those that were pressed, in order (tui.go,   *)
(* decodeKeys).                                                            *)
THEOREM KeysAreMeant == KeysSpec => []DecodedAsMeant
  BY MeantInit, MeantInductive, PTL DEF KeysSpec

-----------------------------------------------------------------------------
(* The three strips of a frame.                                            *)
Parts(p, full, h, k) ==
  /\ p[1] = Rect(full.X, full.Y, full.W, h)
  /\ p[2] = Rect(full.X, full.Y + h, full.W, full.H - h - k)
  /\ p[3] = Rect(full.X, full.Y + (full.H - k), full.W, k)

LEMMA HeaderIs ==
  ASSUME NEW w \in Nat, NEW h \in Nat, h >= 14
  PROVE  headerHeight(w, h) \in {2, 3, 6, 8} /\ headerHeight(w, h) + 12 <= h
  BY DEF headerHeight

LEMMA StripsOfThree ==
  ASSUME NEW r \in Region, NEW h \in Nat, NEW k \in Nat, h + k <= r.H
  PROVE  Parts(Rows(r, <<h, -1, k>>), r, h, k)
<1> DEFINE hs == <<h, -1, k>>
           some == [i \in DOMAIN hs |-> Greater(hs[i], 0)]
           fixed == Total(some)
           want == [i \in DOMAIN hs |-> IF hs[i] < 0 THEN Greater(r.H - fixed, 0) ELSE hs[i]]
           top(i) == Lesser(Before(want, i), r.H)
           cs == [i \in DOMAIN hs |-> Rect(r.X, r.Y + top(i), r.W, Lesser(want[i], r.H - top(i)))]
<1>1. Rows(r, hs) = cs
  BY DEF Rows
<1>2. DOMAIN hs = 1 .. 3 /\ Len(hs) = 3 /\ hs[1] = h /\ hs[2] = -1 /\ hs[3] = k
  OBVIOUS
<1>3. r.H \in Nat /\ r.X \in Int /\ r.Y \in Int /\ r.W \in Nat
  BY RegionIs
<1> HIDE DEF hs
<1>4. some[1] = h /\ some[2] = 0 /\ some[3] = k /\ Len(some) = 3
  BY <1>2 DEF Greater
<1> HIDE DEF some
<1>5. fixed = h + k
  <2>1. Before(some, 1) = 0 /\ Before(some, 1 + 1) = Before(some, 1) + some[1]
        /\ Before(some, 2 + 1) = Before(some, 2) + some[2] /\ Before(some, 3 + 1) = Before(some, 3) + some[3]
    BY BeforeFirst, BeforeStep
  <2>2. 1 + 1 = 2 /\ 2 + 1 = 3
    OBVIOUS
  <2> QED BY <1>4, <2>1, <2>2 DEF Total
<1> HIDE DEF fixed
<1>6. want[1] = h /\ want[2] = r.H - h - k /\ want[3] = k
  BY <1>2, <1>3, <1>5 DEF Greater
<1> HIDE DEF want
<1>7. Before(want, 1) = 0 /\ Before(want, 2) = h /\ Before(want, 3) = r.H - k
  <2>1. Before(want, 1) = 0 /\ Before(want, 1 + 1) = Before(want, 1) + want[1]
        /\ Before(want, 2 + 1) = Before(want, 2) + want[2]
    BY BeforeFirst, BeforeStep
  <2>2. 1 + 1 = 2 /\ 2 + 1 = 3
    OBVIOUS
  <2> QED BY <1>3, <1>6, <2>1, <2>2
<1>8. top(1) = 0 /\ top(2) = h /\ top(3) = r.H - k
  BY <1>3, <1>7 DEF Lesser
<1> HIDE DEF top
<1>9. /\ Lesser(want[1], r.H - top(1)) = h /\ Lesser(want[2], r.H - top(2)) = r.H - h - k
      /\ Lesser(want[3], r.H - top(3)) = k
  BY <1>3, <1>6, <1>8 DEF Lesser
<1>10. /\ cs[1] = Rect(r.X, r.Y + top(1), r.W, Lesser(want[1], r.H - top(1)))
       /\ cs[2] = Rect(r.X, r.Y + top(2), r.W, Lesser(want[2], r.H - top(2)))
       /\ cs[3] = Rect(r.X, r.Y + top(3), r.W, Lesser(want[3], r.H - top(3)))
  BY <1>2
<1> HIDE DEF cs
<1>11. r.Y + 0 = r.Y
  BY <1>3
<1> QED BY <1>1, <1>8, <1>9, <1>10, <1>11 DEF Parts, hs

LEMMA RegionsAre ==
  ASSUME NEW full \in Region, ~ TooSmall(full), NEW open
  PROVE  \E h \in {2, 3, 6, 8} : \E k \in {1, 2} : h + k + 10 <= full.H /\ Parts(Regions(full, open), full, h, k)
<1>1. full.W \in Nat /\ full.H \in Nat /\ full.H >= 14
  BY RegionIs DEF TooSmall, minRows, minCols
<1> DEFINE h == headerHeight(full.W, full.H)  k == IF open THEN 2 ELSE 1
<1>2. h \in {2, 3, 6, 8} /\ h + 12 <= full.H
  BY <1>1, HeaderIs
<1>3. k \in {1, 2}
  OBVIOUS
<1>4. Regions(full, open) = Rows(full, <<h, -1, k>>)
  BY DEF Regions
<1> HIDE DEF h, k
<1>5. h \in Nat /\ k \in Nat /\ h + k <= full.H /\ h + k + 10 <= full.H
  BY <1>1, <1>2, <1>3
<1>6. Parts(Regions(full, open), full, h, k)
  BY <1>4, <1>5, StripsOfThree
<1> QED BY <1>2, <1>3, <1>5, <1>6

-----------------------------------------------------------------------------
(* What is below a screen's title.                                         *)
LEMMA InsetIs ==
  ASSUME NEW r \in Region, r.W >= 2
  PROVE  /\ Inset2(r, 1, 0) \in Region /\ Within(Inset2(r, 1, 0), r)
         /\ Inset2(r, 1, 0).X = r.X + 1 /\ Inset2(r, 1, 0).Y = r.Y /\ Inset2(r, 1, 0).W = r.W - 2 /\ Inset2(r, 1, 0).H = r.H
<1>1. r.X \in Int /\ r.Y \in Int /\ r.W \in Nat /\ r.H \in Nat
  BY RegionIs
<1> QED BY <1>1 DEF Inset2, Rect, Greater, Within, Region, Right, Bottom

LEMMA BodyIs ==
  ASSUME NEW r \in Region, r.W >= 2
  PROVE  Body(r) \in Region /\ Within(Body(r), r)
<1> DEFINE q == Inset2(r, 1, 0)
<1>1. q \in Region /\ Within(q, r)
  BY InsetIs
<1>2. Body(r) = Titled(q)
  BY DEF Body
<1> HIDE DEF q
<1>3. q.X \in Int /\ q.Y \in Int /\ q.W \in Nat /\ q.H \in Nat
  BY <1>1, RegionIs
<1>4. Titled(q) \in Region /\ Within(Titled(q), q)
  BY <1>1, <1>3 DEF Titled, Rect, Within, Region, Right, Bottom
<1> QED BY <1>1, <1>2, <1>4, WithinTrans

LEMMA DrawnAt == ASSUME NEW c, NEW s, c.p.name \in PanelNames PROVE DrawPanel(c, s).at = c.r
<1>1. CASE c.p.name = "mining" BY <1>1, PanelAt DEF DrawPanel
<1>2. CASE c.p.name = "history" BY <1>2, PanelAt DEF DrawPanel
<1>3. CASE c.p.name = "network" BY <1>3, PanelAt DEF DrawPanel
<1>4. CASE c.p.name = "cpu" BY <1>4, PanelAt DEF DrawPanel
<1>5. CASE c.p.name = "gpu" BY <1>5, PanelAt DEF DrawPanel
<1>6. CASE c.p.name = "shares" BY <1>6, PanelAt DEF DrawPanel
<1>7. CASE c.p.name = "blockchain" BY <1>7, PanelAt DEF DrawPanel
<1>8. CASE c.p.name = "system" BY <1>8, PanelAt DEF DrawPanel
<1>9. CASE c.p.name = "log" BY <1>9, PanelAt DEF DrawPanel
<1>10. CASE c.p.name = "threads" BY <1>10, PanelAt DEF DrawPanel
<1>11. CASE c.p.name = "status" BY <1>11, PanelAt DEF DrawPanel
<1>12. CASE c.p.name = "quick" BY <1>12, PanelAt DEF DrawPanel
<1>13. CASE c.p.name = "connection" BY <1>13, PanelAt DEF DrawPanel
<1> QED BY <1>1, <1>2, <1>3, <1>4, <1>5, <1>6, <1>7, <1>8, <1>9, <1>10, <1>11, <1>12, <1>13 DEF PanelNames

LEMMA DashboardIs ==
  ASSUME NEW body \in Region, body.W >= 56, body.H >= 10, NEW s,
         NEW cs, cs = planBands(Inset2(body, 1, 0), dashboardBands), NEW ps, ps = drawDashboard(body, s)
  PROVE  /\ Tiles(cs, Inset2(body, 1, 0)) /\ DOMAIN ps = 1 .. Len(cs) /\ \A i \in 1 .. Len(cs) : ps[i].at = cs[i].r
         /\ LaidOut(ps, body)
<1> DEFINE q == Inset2(body, 1, 0)
<1>1. body.W \in Nat /\ body.H \in Nat
  BY RegionIs
<1>2. q \in Region /\ Within(q, body) /\ q.W = body.W - 2 /\ q.H = body.H
  BY <1>1, InsetIs
<1>3. Tiles(cs, q)
  <2>1. q.W >= 54 /\ q.H >= 5
    BY <1>1, <1>2
  <2> HIDE DEF q
  <2>2. Tiles(planBands(q, dashboardBands), q)
    BY <1>2, <2>1, PlanTiles
  <2> QED BY <2>2 DEF q
<1>4. ~ Empty(body)
  BY <1>1 DEF Empty
<1>5. ps = [i \in DOMAIN cs |-> DrawPanel(cs[i], s)]
  BY <1>4 DEF drawDashboard
<1> HIDE DEF q
<1>6. cs \in Seq(CellDef) /\ \A k \in 1 .. Len(cs) : Within(cs[k].r, q)
  BY <1>3 DEF Tiles
<1>7. DOMAIN cs = 1 .. Len(cs) /\ Len(cs) \in Nat /\ \A i \in 1 .. Len(cs) : cs[i] \in CellDef
  BY <1>6
<1>8. \A i \in 1 .. Len(cs) : cs[i].p \in PanelDef /\ cs[i].r \in Region
  BY <1>7 DEF CellDef
<1>9. ASSUME NEW i \in 1 .. Len(cs) PROVE ps[i] = DrawPanel(cs[i], s) /\ ps[i].at = cs[i].r
  <2>1. ps[i] = DrawPanel(cs[i], s)
    BY <1>5, <1>7
  <2>2. cs[i].p.name \in PanelNames
    BY <1>8, PanelWidth
  <2> QED BY <2>1, <2>2, DrawnAt
<1> DEFINE n == Len(cs)  E == {ps[i] : i \in 1 .. n}
<1>10. ps \in [1 .. n -> E]
  BY <1>5, <1>7
<1>11. ps \in Seq(E) /\ Len(ps) = n /\ DOMAIN ps = 1 .. n
  <2> HIDE DEF E
  <2>1. n \in Nat
    BY <1>7
  <2> QED BY <1>10, <2>1, SeqIs
<1>12. ASSUME NEW i \in 1 .. n PROVE ps[i].at \in Region /\ Within(ps[i].at, body)
  <2>1. cs[i].r \in Region /\ Within(cs[i].r, q)
    BY <1>6, <1>8
  <2>2. Within(cs[i].r, body)
    BY <1>2, <2>1, WithinTrans
  <2> QED BY <1>9, <2>1, <2>2
<1>13. ASSUME NEW i \in 1 .. n, NEW j \in 1 .. n, i < j PROVE Apart(ps[i].at, ps[j].at)
  <2>1. i # j
    BY <1>7, <1>13
  <2>2. Apart(cs[i].r, cs[j].r)
    BY <1>3, <2>1 DEF Tiles
  <2> QED BY <1>9, <2>2
<1>14. LaidOut(ps, body)
  <2> HIDE DEF E, n
  <2> QED BY <1>11, <1>12, <1>13, Zenon DEF LaidOut
<1> QED BY <1>3, <1>9, <1>11, <1>14 DEF q

LEMMA ScreenLaid ==
  ASSUME NEW body \in Region, body.W >= 56, body.H >= 10, NEW s, NEW id \in Range(screens)
  PROVE  LaidOut(ScreenPanels(id, body, s), body)
<1> DEFINE b == Body(body)
<1>0. body.W >= 2
  BY RegionIs
<1>1. b \in Region /\ Within(b, body)
  BY <1>0, BodyIs
<1>2. ScreenPanels(id, body, s) =
        CASE id = "dashboard"  -> drawDashboard(body, s)
          [] id = "mining"     -> drawMiningScreen(b, s)
          [] id = "statistics" -> drawStatsScreen(b, s)
          [] id = "network"    -> drawNetworkScreen(b, s)
          [] id = "threads"    -> drawThreadsScreen(b, s)
          [] id = "config"     -> drawConfigScreen(b, s)
          [] id = "logs"       -> drawLogScreen(b, s)
          [] id = "pools"      -> drawPoolsScreen(b, s)
          [] id = "help"       -> drawHelpScreen(b)
  BY DEF ScreenPanels
<1> HIDE DEF b
<1>3. CASE id = "dashboard" BY <1>2, <1>3, DashboardIs
<1>4. CASE id = "mining" BY <1>1, <1>2, <1>4, MiningLaid, LaidWithin
<1>5. CASE id = "statistics" BY <1>1, <1>2, <1>5, StatsLaid, LaidWithin
<1>6. CASE id = "network" BY <1>1, <1>2, <1>6, NetworkLaid, LaidWithin
<1>7. CASE id = "threads" BY <1>1, <1>2, <1>7, ThreadsLaid, LaidWithin
<1>8. CASE id = "config" BY <1>1, <1>2, <1>8, ConfigLaid, LaidWithin
<1>9. CASE id = "logs" BY <1>1, <1>2, <1>9, LogLaid, LaidWithin
<1>10. CASE id = "pools" BY <1>1, <1>2, <1>10, PoolsLaid, LaidWithin
<1>11. CASE id = "help" BY <1>1, <1>2, <1>11, HelpLaid, LaidWithin
<1> QED BY <1>3, <1>4, <1>5, <1>6, <1>7, <1>8, <1>9, <1>10, <1>11, ScreensAre

-----------------------------------------------------------------------------
(* A frame that is shown was drawn of the screen that is open, for what is *)
(* remembered of the window and the snapshot.                              *)
DrawnFrom ==
  /\ window \in Window \cup {Nowhere} /\ shown \subseteq Snapshot
  /\ frame # NoFrame =>
       /\ part = "frames" /\ window \in Window
       /\ \E s \in Snapshot : shown = {s} /\ frame = renderFrame(window, s, screen, cmdOpen)

FrameInv == KeysInv /\ DrawnFrom

LEMMA WindowIs == \A win \in Window : win \in Region /\ win.X = 0 /\ win.Y = 0 /\ win.W > 0 /\ win.H > 0
<1>1. \A win \in [X : {0}, Y : {0}, W : Nat \ {0}, H : Nat \ {0}] :
        win \in Region /\ win.X = 0 /\ win.Y = 0 /\ win.W > 0 /\ win.H > 0
  BY DEF Region
<1> QED BY <1>1, FrameAssumption

LEMMA FrameInvInit == FrameInit => FrameInv
  BY KeysInvInit DEF FrameInit, FrameInv, DrawnFrom

LEMMA OpeningKeeps == ASSUME KeysInv, Opening PROVE KeysInv'
<1>1. ASSUME NEW id, StartConsole(id, FALSE) PROVE KeysInv'
  BY <1>1, StartKeysKeeps
<1>2. ASSUME NEW presses, ReadKeys(presses) PROVE KeysInv'
  <2>1. UNCHANGED <<up, tuiVars, log, ui, uiFile, left>>
    BY <1>2 DEF ReadKeys
  <2> QED BY <2>1 DEF tuiVars, KeysInv, ViewInv, PrefsInv, ViewIsTrue, KeysTypeOK, ScrolledIsPaused
<1> QED BY <1>1, <1>2, KeyKeeps DEF Opening

LEMMA FrameInductive == FrameInv /\ [FrameNext]_frameVars => FrameInv'
<1> SUFFICES ASSUME FrameInv, [FrameNext]_frameVars PROVE FrameInv'
  OBVIOUS
<1>1. KeysInv /\ DrawnFrom
  BY DEF FrameInv
<1>2. CASE Typing /\ UNCHANGED <<part, window, shown, frame>>
  <2>1. part = "keys" /\ frame = NoFrame
    BY <1>1, <1>2 DEF Typing, DrawnFrom
  <2>2. DrawnFrom'
    BY <1>1, <1>2, <2>1 DEF DrawnFrom
  <2>3. KeysInv'
    BY <1>1, <1>2, KeysInductive DEF Typing
  <2> QED BY <2>2, <2>3 DEF FrameInv
<1>3. CASE Opening /\ UNCHANGED <<part, window, shown, frame>>
  <2>1. frame = NoFrame
    BY <1>3 DEF Opening
  <2>2. DrawnFrom'
    BY <1>1, <1>3, <2>1 DEF DrawnFrom
  <2> QED BY <1>1, <1>3, <2>2, OpeningKeeps DEF FrameInv
<1>4. ASSUME NEW win \in Window, NEW s \in Snapshot, Render(win, s) PROVE FrameInv'
  <2>1. /\ window' = win /\ shown' = {s} /\ part' = part /\ part = "frames" /\ UNCHANGED keyVars
        /\ frame' = renderFrame(win, s, screen, cmdOpen)
    BY <1>4, Zenon DEF Render
  <2>2. KeysInv'
    BY <1>1, <2>1, KeysInductive
  <2>3. screen' = screen /\ cmdOpen' = cmdOpen
    BY <2>1 DEF keyVars, tuiVars
  <2>4. DrawnFrom'
    <3>1. window' \in Window \cup {Nowhere} /\ shown' \subseteq Snapshot
      BY <2>1
    <3>2. part' = "frames" /\ window' \in Window
      BY <2>1
    <3>3. shown' = {s} /\ frame' = renderFrame(window', s, screen', cmdOpen')
      BY <2>1, <2>3
    <3> QED BY <3>1, <3>2, <3>3, Zenon DEF DrawnFrom
  <2> QED BY <2>2, <2>4 DEF FrameInv
<1>5. CASE MoveOn
  <2>1. window' = Nowhere /\ shown' = {} /\ frame' = NoFrame /\ UNCHANGED keyVars
    BY <1>5, Zenon DEF MoveOn
  <2>2. KeysInv'
    BY <1>1, <2>1, KeysInductive
  <2> QED BY <2>1, <2>2 DEF FrameInv, DrawnFrom
<1>6. CASE UNCHANGED frameVars
  <2>1. UNCHANGED <<part, keyVars, window, shown, frame>>
    BY <1>6 DEF frameVars
  <2>2. KeysInv'
    BY <1>1, <2>1, KeysInductive
  <2>3. screen' = screen /\ cmdOpen' = cmdOpen
    BY <2>1 DEF keyVars, tuiVars
  <2>4. DrawnFrom'
    BY <1>1, <2>1, <2>3, Zenon DEF DrawnFrom
  <2> QED BY <2>2, <2>4 DEF FrameInv
<1> QED BY <1>2, <1>3, <1>4, <1>5, <1>6 DEF FrameNext

-----------------------------------------------------------------------------
LEMMA NoPanelsTile ==
  ASSUME Panels = <<>>, frame.parts = <<>>, window \in Window \cup {Nowhere}, shown \subseteq Snapshot
  PROVE  TilesTheBody
<1>1. DOMAIN Panels = {} /\ ~ OnDashboard
  BY DEF OnDashboard, Drawn
<1> QED BY <1>1 DEF TilesTheBody, FrameTypeOK, PanelsApart, BodyCovered, EnoughRoom, EveryBandFirst

LEMMA BodyOfIs ==
  ASSUME NEW full \in Region, ~ TooSmall(full), NEW open, frame.parts = Regions(full, open)
  PROVE  BodyOf \in Region /\ BodyOf.W >= 56 /\ BodyOf.H >= 10
<1>1. PICK h \in {2, 3, 6, 8} : \E k \in {1, 2} : h + k + 10 <= full.H /\ Parts(Regions(full, open), full, h, k)
  BY RegionsAre
<1>2. PICK k \in {1, 2} : h + k + 10 <= full.H /\ Parts(Regions(full, open), full, h, k)
  BY <1>1
<1>3. BodyOf = Rect(full.X, full.Y + h, full.W, full.H - h - k)
  BY <1>2 DEF BodyOf, Parts
<1>4. full.X \in Int /\ full.Y \in Int /\ full.W \in Nat /\ full.H \in Nat /\ full.W >= 56
  BY RegionIs DEF TooSmall, minCols
<1> QED BY <1>2, <1>3, <1>4 DEF Rect, Region

LEMMA DashboardTiles ==
  ASSUME BodyOf \in Region, BodyOf.W >= 56, BodyOf.H >= 10, NEW s, Panels = drawDashboard(BodyOf, s)
  PROVE  BodyCovered /\ EnoughRoom /\ EveryBandFirst
<1> DEFINE cs == CellList
<1>1. cs = planBands(Inset2(BodyOf, 1, 0), dashboardBands) /\ Grid = Inset2(BodyOf, 1, 0)
  BY DEF CellList, Grid
<1> HIDE DEF cs
<1>2. Tiles(cs, Grid) /\ DOMAIN Panels = 1 .. Len(cs) /\ \A i \in 1 .. Len(cs) : Panels[i].at = cs[i].r
  BY <1>1, DashboardIs
<1>3. Grid \in Region
  <2>1. BodyOf.W >= 2
    BY RegionIs
  <2> QED BY <1>1, <2>1, InsetIs
<1>4. DOMAIN cs = 1 .. Len(cs) /\ \A i \in 1 .. Len(cs) : cs[i] \in CellDef
  BY <1>2 DEF Tiles
<1>5. \A i \in 1 .. Len(cs) : cs[i].r \in Region
  BY <1>4 DEF CellDef
<1>6. BodyCovered
  <2> SUFFICES ASSUME NEW x \in Grid.X .. Right(Grid) - 1, NEW y \in Grid.Y .. Bottom(Grid) - 1
               PROVE  \E i \in DOMAIN Panels : Within(Rect(x, y, 1, 1), Panels[i].at)
    BY DEF BodyCovered
  <2>1. Grid.X \in Int /\ Grid.Y \in Int /\ Grid.W \in Nat /\ Grid.H \in Nat
    BY <1>3, RegionIs
  <2>2. x \in Int /\ y \in Int /\ Inside(x, y, Grid)
    BY <2>1 DEF Inside, Right, Bottom
  <2>3. PICK k \in 1 .. Len(cs) : Inside(x, y, cs[k].r)
    BY <1>2, <2>2 DEF Tiles
  <2>4. cs[k].r.X \in Int /\ cs[k].r.Y \in Int /\ cs[k].r.W \in Nat /\ cs[k].r.H \in Nat
    BY <1>5, RegionIs
  <2>5. Within(Rect(x, y, 1, 1), cs[k].r)
    BY <2>2, <2>3, <2>4, SMTT(40) DEF Inside, Within, Rect, Right, Bottom
  <2> QED BY <1>2, <2>5
<1>7. EnoughRoom
  <2> SUFFICES ASSUME NEW c \in Cells PROVE c.r.W >= c.p.minW /\ c.r.H >= bandFloorH
    BY DEF EnoughRoom
  <2>1. PICK i \in 1 .. Len(cs) : c = cs[i]
    BY <1>4 DEF Cells, cs
  <2> QED BY <1>2, <2>1 DEF Tiles, bandFloorH
<1>8. EveryBandFirst
  <2> DEFINE rows == {<<c.p.name, c.r.Y>> : c \in Cells}
             Overflowing(b) == \E c, d \in rows : c[1] \in Names(b) /\ d[1] = First(b) /\ c[2] > d[2]
  <2>0. DOMAIN dashboardBands = 1 .. 4
    BY BandsAre
  <2>1. \A c : c \in rows <=> \E i \in 1 .. Len(cs) : c = <<cs[i].p.name, cs[i].r.Y>>
    BY <1>4 DEF Cells, cs
  <2> HIDE DEF rows
  <2>2. ASSUME NEW b \in 1 .. 4, Overflowing(b), NEW a \in 1 .. 4 PROVE \E d \in rows : d[1] = First(a)
    <3>1. PICK c \in rows, d \in rows : c[1] \in Names(b) /\ d[1] = First(b) /\ c[2] > d[2]
      BY <2>2
    <3>2. PICK k \in 1 .. Len(cs) : c = <<cs[k].p.name, cs[k].r.Y>>
      BY <2>1
    <3>3. PICK l \in 1 .. Len(cs) : d = <<cs[l].p.name, cs[l].r.Y>>
      BY <2>1
    <3>4. cs[k].p.name \in Names(b) /\ cs[l].p.name = First(b) /\ cs[k].r.Y > cs[l].r.Y
      BY <3>1, <3>2, <3>3
    <3>5. PICK m \in 1 .. Len(cs) : cs[m].p.name = First(a)
      BY <1>2, <3>4 DEF Tiles
    <3>6. <<cs[m].p.name, cs[m].r.Y>> \in rows /\ <<cs[m].p.name, cs[m].r.Y>>[1] = First(a)
      BY <2>1, <3>5
    <3> QED BY <3>6
  <2>3. (\E b \in DOMAIN dashboardBands : Overflowing(b)) =>
          \A b \in DOMAIN dashboardBands : \E d \in rows : d[1] = First(b)
    BY <2>0, <2>2
  <2> QED BY <2>3 DEF EveryBandFirst, rows
<1> QED BY <1>6, <1>7, <1>8

LEMMA FrameTiles == FrameInv => TilesTheBody
<1> SUFFICES ASSUME FrameInv PROVE TilesTheBody
  OBVIOUS
<1>1. /\ window \in Window \cup {Nowhere} /\ shown \subseteq Snapshot /\ screen \in Range(screens)
  BY TuiIs DEF FrameInv, DrawnFrom
<1>2. CASE frame = NoFrame
  <2>1. Panels = <<>> /\ frame.parts = <<>>
    BY <1>2 DEF NoFrame, Panels
  <2> QED BY <1>1, <2>1, NoPanelsTile
<1>3. CASE frame # NoFrame
  <2>1. window \in Window /\ window \in Region
    BY <1>3, WindowIs DEF FrameInv, DrawnFrom
  <2>2. PICK s \in Snapshot : shown = {s} /\ frame = renderFrame(window, s, screen, cmdOpen)
    BY <1>3 DEF FrameInv, DrawnFrom
  <2>3. CASE TooSmall(window)
    <3>1. Panels = <<>> /\ frame.parts = <<>>
      BY <2>2, <2>3 DEF renderFrame, Panels
    <3> QED BY <1>1, <3>1, NoPanelsTile
  <2>4. CASE ~ TooSmall(window)
    <3>1. frame.parts = Regions(window, cmdOpen) /\ Panels = ScreenPanels(screen, Regions(window, cmdOpen)[2], s)
      BY <2>2, <2>4 DEF renderFrame, Panels
    <3>2. Panels = ScreenPanels(screen, BodyOf, s)
      BY <3>1 DEF BodyOf
    <3>3. BodyOf \in Region /\ BodyOf.W >= 56 /\ BodyOf.H >= 10
      BY <2>1, <2>4, <3>1, BodyOfIs
    <3>4. LaidOut(Panels, BodyOf)
      BY <1>1, <3>2, <3>3, ScreenLaid
    <3>5. DOMAIN Panels = 1 .. Len(Panels)
      BY <3>4 DEF LaidOut
    <3>6. FrameTypeOK /\ PanelsApart
      BY <1>1, <3>4, <3>5 DEF FrameTypeOK, PanelsApart, LaidOut
    <3>7. BodyCovered /\ EnoughRoom /\ EveryBandFirst
      <4>1. CASE screen = "dashboard"
        <5>1. Panels = drawDashboard(BodyOf, s)
          BY <3>2, <4>1 DEF ScreenPanels
        <5> QED BY <3>3, <5>1, DashboardTiles
      <4>2. CASE screen # "dashboard"
        BY <4>2 DEF BodyCovered, EnoughRoom, EveryBandFirst, OnDashboard
      <4> QED BY <4>1, <4>2
    <3> QED BY <3>6, <3>7 DEF TilesTheBody
  <2> QED BY <2>3, <2>4
<1> QED BY <1>2, <1>3

(* In a window of any size, for any snapshot and on any screen: the panels *)
(* keep to the body and apart, and the dashboard's fill it to the last     *)
(* cell, each as wide and as high as it needs, with no band's second row   *)
(* before every band has its first (tui_layout.go, planBands; tui.go,      *)
(* renderFrame).                                                           *)
THEOREM PanelsTile == FrameSpec => []TilesTheBody
<1> QED BY FrameInvInit, FrameInductive, FrameTiles, PTL DEF FrameSpec

-----------------------------------------------------------------------------
(* The regions of a frame, and the room in them for the banner.            *)
LEMMA RoomForBanner ==
  ASSUME NEW full \in Region, ~ TooSmall(full), NEW open
  PROVE  \E h \in {2, 3, 6, 8} : \E k \in {1, 2} : 2 * h + 8 <= full.H /\ Parts(Regions(full, open), full, h, k)
<1>1. full.W \in Nat /\ full.H \in Nat /\ full.H >= 14
  BY RegionIs DEF TooSmall, minRows, minCols
<1> DEFINE h == headerHeight(full.W, full.H)  k == IF open THEN 2 ELSE 1
<1>2. h \in {2, 3, 6, 8} /\ h + 12 <= full.H /\ 2 * h + 8 <= full.H
  <2>1. 2 * h + 8 <= full.H
    BY <1>1 DEF headerHeight
  <2> QED BY <1>1, <2>1, HeaderIs
<1>3. k \in {1, 2}
  OBVIOUS
<1>4. Regions(full, open) = Rows(full, <<h, -1, k>>)
  BY DEF Regions
<1> HIDE DEF h, k
<1>5. h \in Nat /\ k \in Nat /\ h + k <= full.H
  BY <1>1, <1>2, <1>3
<1>6. Parts(Regions(full, open), full, h, k)
  BY <1>4, <1>5, StripsOfThree
<1> QED BY <1>2, <1>3, <1>6

-----------------------------------------------------------------------------
(* Where the keys of the bar stand.                                        *)
keyRoom == [i \in DOMAIN navLabels |-> navLabels[i] + 7]
keyAt   == <<0, 13, 30, 44, 58, 71, 82, 94, 105>>

LEMMA LabelsAre ==
  /\ DOMAIN navLabels = 1 .. 8 /\ Len(navLabels) = 8
  /\ \A i \in 1 .. 8 : navLabels[i] \in Nat /\ keyAt[i + 1] = keyAt[i] + navLabels[i] + 7
  /\ \A i \in 1 .. 9 : keyAt[i] \in Nat
  /\ keyAt[1] = 0 /\ keyAt[9] = 105
<1>1. DOMAIN navLabels = 1 .. 8 /\ Len(navLabels) = 8
  BY DEF navLabels
<1>2. ASSUME NEW i \in 1 .. 8 PROVE navLabels[i] \in Nat /\ keyAt[i + 1] = keyAt[i] + navLabels[i] + 7
  <2>1. CASE i = 1 BY <2>1 DEF navLabels, keyAt
  <2>2. CASE i = 2 BY <2>2 DEF navLabels, keyAt
  <2>3. CASE i = 3 BY <2>3 DEF navLabels, keyAt
  <2>4. CASE i = 4 BY <2>4 DEF navLabels, keyAt
  <2>5. CASE i = 5 BY <2>5 DEF navLabels, keyAt
  <2>6. CASE i = 6 BY <2>6 DEF navLabels, keyAt
  <2>7. CASE i = 7 BY <2>7 DEF navLabels, keyAt
  <2>8. CASE i = 8 BY <2>8 DEF navLabels, keyAt
  <2> QED BY <2>1, <2>2, <2>3, <2>4, <2>5, <2>6, <2>7, <2>8
<1>3. \A i \in 1 .. 9 : keyAt[i] \in Nat
  BY DEF keyAt
<1>4. keyAt[1] = 0 /\ keyAt[9] = 105
  BY DEF keyAt
<1> QED BY <1>1, <1>2, <1>3, <1>4

LEMMA RoomIs ==
  /\ Len(keyRoom) = 8 /\ DOMAIN keyRoom = 1 .. 8 /\ \A i \in 1 .. 8 : keyRoom[i] = navLabels[i] + 7
  /\ \A i \in 1 .. 9 : Before(keyRoom, i) = keyAt[i]
<1>1. DOMAIN keyRoom = 1 .. 8 /\ \A i \in 1 .. 8 : keyRoom[i] = navLabels[i] + 7
  BY LabelsAre DEF keyRoom
<1>2. Len(keyRoom) = 8
  <2>1. 8 \in Nat /\ keyRoom \in [1 .. 8 -> Nat]
    BY <1>1, LabelsAre DEF keyRoom
  <2> QED BY <2>1, SeqIs
<1> DEFINE T == {m \in Nat : m <= 8 => Before(keyRoom, m + 1) = keyAt[m + 1]}
<1>3. 0 \in T
  BY BeforeFirst, LabelsAre
<1>4. ASSUME NEW m \in Nat, m \in T PROVE m + 1 \in T
  <2>1. SUFFICES ASSUME m + 1 <= 8 PROVE Before(keyRoom, (m + 1) + 1) = keyAt[(m + 1) + 1]
    OBVIOUS
  <2>2. m + 1 \in 1 .. 8 /\ m + 1 \in Nat \ {0} /\ m + 1 \in 1 .. 9
    BY <2>1
  <2>3. Before(keyRoom, m + 1) = keyAt[m + 1]
    BY <1>4, <2>1
  <2>4. Before(keyRoom, (m + 1) + 1) = Before(keyRoom, m + 1) + keyRoom[m + 1]
    BY <2>2, BeforeStep
  <2>5. keyRoom[m + 1] = navLabels[m + 1] + 7 /\ keyAt[(m + 1) + 1] = keyAt[m + 1] + navLabels[m + 1] + 7
    BY <1>1, <2>2, LabelsAre
  <2>6. keyAt[m + 1] \in Nat /\ navLabels[m + 1] \in Nat
    BY <2>2, LabelsAre
  <2> QED BY <2>3, <2>4, <2>5, <2>6
<1>5. \A m \in Nat : m \in T
  <2> HIDE DEF T
  <2> QED BY <1>3, <1>4, Induction
<1>6. ASSUME NEW i \in 1 .. 9 PROVE Before(keyRoom, i) = keyAt[i]
  <2>1. i - 1 \in Nat /\ i - 1 <= 8 /\ (i - 1) + 1 = i
    OBVIOUS
  <2> QED BY <1>5, <2>1
<1> QED BY <1>1, <1>2, <1>6

LEMMA KeyAtIs ==
  ASSUME NEW i \in 1 .. 9
  PROVE  Total([j \in 1 .. i - 1 |-> navLabels[j] + 7]) = keyAt[i]
<1> DEFINE p == [j \in 1 .. i - 1 |-> navLabels[j] + 7]
<1>1. i - 1 \in Nat /\ i \in 1 .. (i - 1) + 1 /\ (i - 1) + 1 = i /\ \A j \in 1 .. i - 1 : j \in 1 .. 8
  OBVIOUS
<1>2. \A j \in 1 .. i - 1 : p[j] \in Int /\ p[j] = keyRoom[j]
  BY <1>1, LabelsAre, RoomIs
<1>3. Len(p) = i - 1
  <2>1. p \in [1 .. i - 1 -> Int]
    BY <1>1, LabelsAre
  <2> QED BY <1>1, <2>1, SeqIs
<1> HIDE DEF p
<1>4. Ints(p, i - 1)
  BY <1>2 DEF Ints
<1>5. Before(p, i) = Before(keyRoom, i)
  BY <1>1, <1>2, <1>4, BeforeSame
<1>6. Total(p) = Before(p, i)
  BY <1>1, <1>3 DEF Total
<1> QED BY <1>5, <1>6, RoomIs DEF p

LEMMA KeysWIs == keysW = 114
<1>1. [i \in DOMAIN navLabels |-> navLabels[i] + 7] = keyRoom
  BY DEF keyRoom
<1>2. 8 + 1 = 9 /\ 9 \in 1 .. 9
  OBVIOUS
<1>3. Total(keyRoom) = Before(keyRoom, 9)
  BY <1>2, RoomIs DEF Total
<1>4. Total(keyRoom) = 105
  BY <1>2, <1>3, RoomIs, LabelsAre
<1> QED BY <1>1, <1>4 DEF keysW

-----------------------------------------------------------------------------
(* A signature is drawn only where all the keys stand before it.           *)
LEMMA SignatureIs ==
  ASSUME NEW w \in Nat, NEW s
  PROVE  Signature(w, s) \in Nat /\ (Signature(w, s) > 0 => 117 + Signature(w, s) <= w)
<1> DEFINE base == IF s.testnet THEN 26 ELSE 16
           I == {i \in DOMAIN footerBrands : LeavesKeys(w, base + footerBrands[i])}
           fit == Picked(footerBrands, I)
<1>1. Signature(w, s) = IF fit = <<>> THEN 0 ELSE base + fit[1]
  BY DEF Signature
<1>2. base \in Nat
  OBVIOUS
<1> HIDE DEF base
<1>3. /\ footerBrands \in Seq(Nat) /\ DOMAIN footerBrands = 1 .. 4 /\ Len(footerBrands) = 4
     /\ \A i \in 1 .. 4 : footerBrands[i] \in Nat
  BY DEF footerBrands
<1> HIDE DEF I
<1>4. fit \in Seq(Nat) /\ \E at : Selects(fit, at, footerBrands, I, Len(footerBrands))
  BY <1>3, PickedIs
<1> HIDE DEF fit
<1>5. CASE fit = <<>>
  BY <1>1, <1>5
<1>6. CASE fit # <<>>
  <2>1. PICK at : Selects(fit, at, footerBrands, I, Len(footerBrands))
    BY <1>4
  <2>2. 1 \in 1 .. Len(fit)
    BY <1>4, <1>6
  <2>3. at[1] \in I /\ fit[1] = footerBrands[at[1]] /\ at[1] \in 1 .. 4
    BY <1>3, <2>1, <2>2 DEF Selects
  <2>4. LeavesKeys(w, base + fit[1])
    BY <2>3 DEF I
  <2>5. fit[1] \in Nat
    BY <1>3, <2>3
  <2>6. Signature(w, s) = base + fit[1]
    BY <1>1, <1>6
  <2>7. 114 + (base + fit[1]) + 3 <= w
    BY <2>4, KeysWIs DEF LeavesKeys
  <2> QED BY <1>2, <2>5, <2>6, <2>7
<1> QED BY <1>5, <1>6

(* The keys of a bar that shows all of them.                               *)
KeyCell(r, i) == Rect(r.X + 1 + keyAt[i], Bottom(r) - 1, IF i = 9 THEN 8 ELSE navLabels[i] + 4, 1)

LEMMA NineKeys ==
  ASSUME NEW r \in Region, NEW S, \A m : m \in S <=> \E i \in 1 .. 9 : m = KeyCell(r, i)
  PROVE  Cardinality(S) = 9
<1> DEFINE f == [i \in 1 .. 9 |-> KeyCell(r, i)]
<1>1. f \in [1 .. 9 -> S]
  OBVIOUS
<1>2. ASSUME NEW i \in 1 .. 9, NEW j \in 1 .. 9, f[i] = f[j] PROVE i = j
  <2>1. KeyCell(r, i).X = KeyCell(r, j).X
    BY <1>2
  <2>2. r.X + 1 + keyAt[i] = r.X + 1 + keyAt[j]
    BY <2>1 DEF KeyCell, Rect
  <2>3. r.X \in Int /\ keyAt[i] \in Nat /\ keyAt[j] \in Nat
    BY RegionIs, LabelsAre
  <2>4. keyAt[i] = keyAt[j]
    BY <2>2, <2>3
  <2> QED BY <2>4 DEF keyAt
<1>3. \A m \in S : \E i \in 1 .. 9 : f[i] = m
  OBVIOUS
<1> HIDE DEF f
<1>4. f \in Bijection(1 .. 9, S)
  <2>1. IsInjective(f)
    BY <1>1, <1>2, Zenon DEF IsInjective
  <2>2. f \in Injection(1 .. 9, S) /\ f \in Surjection(1 .. 9, S)
    BY <1>1, <1>3, <2>1, Zenon DEF Injection, Surjection
  <2> QED BY <2>2 DEF Bijection
<1>5. ExistsBijection(1 .. 9, S)
  BY <1>4 DEF ExistsBijection
<1>6. 1 \in Int /\ 9 \in Int
  OBVIOUS
<1>7. IsFiniteSet(1 .. 9) /\ Cardinality(1 .. 9) = 9
  <2>1. IsFiniteSet(1 .. 9) /\ Cardinality(1 .. 9) = IF 1 > 9 THEN 0 ELSE 9 - 1 + 1
    BY <1>6, FS_Interval, Zenon
  <2> QED BY <2>1
<1> QED BY <1>5, <1>7, FS_Bijection

LEMMA BarWhole ==
  ASSUME NEW r \in Region, r.X = 0, NEW s, KeyBar(r, s).brand # {}
  PROVE  /\ Cardinality(KeyBar(r, s).keys) = 9
         /\ \A m \in KeyBar(r, s).keys, n \in KeyBar(r, s).brand : Apart(m, n)
<1> DEFINE brand == Signature(r.W, s)
           limit == Right(r) - 1 - (IF brand > 0 THEN brand + 2 ELSE 0)
           at(i) == r.X + 1 + Total([j \in 1 .. i - 1 |-> navLabels[j] + 7])
           kept == {i \in DOMAIN navLabels : \A j \in 1 .. i : at(j) + navLabels[j] + 4 <= limit}
           qx == at(Cardinality(kept) + 1)
           K == {Rect(at(i), Bottom(r) - 1, navLabels[i] + 4, 1) : i \in kept}
                \cup (IF qx + 8 <= limit THEN Text(qx, Bottom(r) - 1, 8) ELSE {})
           B == IF brand > 0 THEN Text(Right(r) - 1 - brand, Bottom(r) - 1, brand) ELSE {}
<1>1. KeyBar(r, s).keys = K /\ KeyBar(r, s).brand = B
  BY DEF KeyBar
<1>2. r.X = 0 /\ r.W \in Nat /\ r.Y \in Int /\ r.H \in Nat /\ Right(r) = r.W /\ Bottom(r) - 1 \in Int
  BY RegionIs DEF Right, Bottom
<1>3. brand \in Nat /\ brand > 0 /\ 117 + brand <= r.W
  <2>1. brand > 0
    BY <1>1
  <2> QED BY <1>2, <2>1, SignatureIs
<1>4. limit = r.W - brand - 3 /\ limit \in Int /\ limit >= 114
  <2> HIDE DEF brand
  <2> QED BY <1>2, <1>3
<1>5. ASSUME NEW i \in 1 .. 9 PROVE at(i) = 1 + keyAt[i] /\ at(i) \in Nat
  <2>1. Total([j \in 1 .. i - 1 |-> navLabels[j] + 7]) = keyAt[i] /\ keyAt[i] \in Nat
    BY KeyAtIs, LabelsAre
  <2> QED BY <1>2, <2>1
<1> HIDE DEF limit, brand, at
<1>6. ASSUME NEW i \in 1 .. 8 PROVE at(i) + navLabels[i] + 4 <= 106
  <2>1. keyAt[i] + navLabels[i] + 7 <= 105
    BY DEF keyAt, navLabels
  <2>2. i \in 1 .. 9 /\ navLabels[i] \in Nat /\ keyAt[i] \in Nat
    BY LabelsAre
  <2> QED BY <1>5, <2>1, <2>2
<1>7. kept = 1 .. 8
  <2>1. ASSUME NEW i \in 1 .. 8, NEW j \in 1 .. i PROVE at(j) + navLabels[j] + 4 <= limit
    <3>1. j \in 1 .. 8 /\ j \in 1 .. 9
      OBVIOUS
    <3>2. at(j) + navLabels[j] + 4 <= 106 /\ at(j) \in Nat /\ navLabels[j] \in Nat
      BY <1>5, <1>6, <3>1, LabelsAre
    <3> QED BY <1>4, <3>2
  <2> QED BY <2>1, LabelsAre
<1> HIDE DEF kept
<1>8. qx = 106
  <2>1. 1 \in Int /\ 8 \in Int /\ 8 + 1 = 9 /\ 9 \in 1 .. 9
    OBVIOUS
  <2>4. Cardinality(1 .. 8) = IF 1 > 8 THEN 0 ELSE 8 - 1 + 1
    BY <2>1, FS_Interval, Zenon
  <2>2. Cardinality(kept) = 8
    BY <1>7, <2>4
  <2>3. qx = at(9)
    BY <2>1, <2>2
  <2> QED BY <1>5, <2>1, <2>3, LabelsAre
<1> HIDE DEF qx
<1>9. Text(qx, Bottom(r) - 1, 8) = {KeyCell(r, 9)}
  <2>1. KeyCell(r, 9) = Rect(106, Bottom(r) - 1, 8, 1)
    BY <1>2, LabelsAre DEF KeyCell
  <2> QED BY <1>8, <2>1 DEF Text, Mark
<1>10. \A i \in 1 .. 8 : Rect(at(i), Bottom(r) - 1, navLabels[i] + 4, 1) = KeyCell(r, i)
  <2> TAKE i \in 1 .. 8
  <2>1. i \in 1 .. 9 /\ i # 9
    OBVIOUS
  <2>2. at(i) = r.X + 1 + keyAt[i]
    BY <1>2, <1>5, <2>1
  <2> QED BY <2>1, <2>2 DEF KeyCell
<1>11. ASSUME NEW m PROVE m \in K <=> \E i \in 1 .. 9 : m = KeyCell(r, i)
  <2>1. qx + 8 <= limit
    BY <1>4, <1>8
  <2>2. m \in K <=> (\E i \in 1 .. 8 : m = KeyCell(r, i)) \/ m = KeyCell(r, 9)
    BY <1>7, <1>9, <1>10, <2>1
  <2> HIDE DEF K
  <2>3. \A i : i \in 1 .. 9 <=> i \in 1 .. 8 \/ i = 9
    OBVIOUS
  <2> QED BY <2>2, <2>3
<1> HIDE DEF K
<1>12. Cardinality(K) = 9
  BY <1>11, NineKeys
<1>13. ASSUME NEW m \in K, NEW n \in B PROVE Apart(m, n)
  <2>1. PICK i \in 1 .. 9 : m = KeyCell(r, i)
    BY <1>11
  <2>2. m.X = 1 + keyAt[i] /\ m.W = IF i = 9 THEN 8 ELSE navLabels[i] + 4
    BY <1>2, <2>1, LabelsAre DEF KeyCell, Rect
  <2>3. Right(m) <= 114
    BY <2>2 DEF Right, keyAt, navLabels
  <2>4. Right(m) \in Int
    BY <2>2 DEF Right, keyAt, navLabels
  <2>5. n.X = r.W - 1 - brand
    BY <1>2, <1>3 DEF Text, Mark, Rect
  <2>6. Right(m) <= n.X
    BY <1>2, <1>3, <2>3, <2>4, <2>5
  <2> QED BY <2>6 DEF Apart
<1> QED BY <1>1, <1>12, <1>13

-----------------------------------------------------------------------------
LEMMA NoFrameClear ==
  ASSUME frame.parts = <<>>, frame.header = {} PROVE EdgesAreClear
  BY DEF EdgesAreClear, HeaderApart, KeyBarWhole, BannerInBody, Drawn

LEMMA FrameClear ==
  ASSUME NEW s \in Snapshot, window \in Window, ~ TooSmall(window), shown = {s},
         frame = renderFrame(window, s, screen, cmdOpen)
  PROVE  EdgesAreClear
<1> DEFINE W == window.W  H == window.H  ps == Regions(window, cmdOpen)
<1>1. window \in Region /\ window.X = 0 /\ window.Y = 0
  BY WindowIs
<1>2. W \in Nat /\ H \in Nat /\ W >= 56 /\ H >= 14
  BY <1>1, RegionIs DEF TooSmall, minCols, minRows
<1>3. window = Rect(0, 0, W, H)
  BY <1>1 DEF Region, Rect
<1>4. /\ frame.parts = ps /\ frame.header = drawHeader(ps[1], s) /\ frame.bar = KeyBar(ps[3], s)
  BY DEF renderFrame
<1>5. PICK h \in {2, 3, 6, 8} : \E k \in {1, 2} : 2 * h + 8 <= H /\ Parts(ps, window, h, k)
  BY <1>1, RoomForBanner
<1>6. PICK k \in {1, 2} : 2 * h + 8 <= H /\ Parts(ps, window, h, k)
  BY <1>5
<1> HIDE DEF ps
<1>7. ps[1] = Rect(0, 0, W, h) /\ ps[2] = Rect(0, h, W, H - h - k) /\ ps[3] = Rect(0, H - k, W, k)
  <2>1. 0 + h = h /\ 0 + (H - k) = H - k
    BY <1>2
  <2> QED BY <1>1, <1>6, <2>1 DEF Parts
<1>8. HeaderApart
  <2>1. Clear(drawHeader(ps[1], s))
    <3> HIDE DEF W
    <3> QED BY <1>2, <1>7, HeaderKeeps
  <2> QED BY <1>4, <2>1 DEF HeaderApart, Clear
<1>9. KeyBarWhole
  <2>1. ps[3] \in Region /\ ps[3].X = 0
    BY <1>2, <1>7 DEF Rect, Region
  <2>2. frame.bar.brand # {} =>
          /\ Cardinality(frame.bar.keys) = 9
          /\ \A m \in frame.bar.keys, n \in frame.bar.brand : Apart(m, n)
    BY <1>4, <2>1, BarWhole
  <2>3. Len(navLabels) + 1 = 9
    BY LabelsAre
  <2> QED BY <2>2, <2>3 DEF KeyBarWhole
<1>10. BannerInBody
  <2>1. (CHOOSE t \in shown : TRUE) = s
    OBVIOUS
  <2>2. BodyOf = Rect(0, h, W, H - h - k)
    BY <1>4, <1>7 DEF BodyOf
  <2>3. s.count \in Nat /\ h \in Nat
    <3>1. s \in SnapshotType
      BY SnapshotAssumption
    <3> QED BY <3>1, SnapIs
  <2> HIDE DEF W, H
  <2>4. \A m \in drawBlockBanner(window, s) : Within(m, BodyOf)
    BY <1>2, <1>3, <1>6, <2>2, <2>3, BannerKeeps
  <2> QED BY <2>1, <2>4 DEF BannerInBody
<1> QED BY <1>8, <1>9, <1>10 DEF EdgesAreClear

LEMMA FrameEdges == FrameInv => EdgesAreClear
<1> SUFFICES ASSUME FrameInv PROVE EdgesAreClear
  OBVIOUS
<1>1. CASE frame = NoFrame
  BY <1>1, NoFrameClear DEF NoFrame
<1>2. CASE frame # NoFrame
  <2>1. window \in Window
    BY <1>2 DEF FrameInv, DrawnFrom
  <2>2. PICK s \in Snapshot : shown = {s} /\ frame = renderFrame(window, s, screen, cmdOpen)
    BY <1>2 DEF FrameInv, DrawnFrom
  <2>3. CASE TooSmall(window)
    BY <2>2, <2>3, NoFrameClear DEF renderFrame
  <2>4. CASE ~ TooSmall(window)
    BY <2>1, <2>2, <2>4, FrameClear
  <2> QED BY <2>3, <2>4
<1> QED BY <1>1, <1>2

-----------------------------------------------------------------------------
(* The lists made of what a snapshot says.                                 *)
LEMMA ValIs == ASSUME NEW k, NEW w \in Nat PROVE Val(k, w) \in Nat
  BY DEF Val, NA

LEMMA SeqIsFun == ASSUME NEW S, NEW t \in Seq(S) PROVE t \in [1 .. Len(t) -> S]
  OBVIOUS

(* A panel that is a list.                                                 *)
LEMMA KvKeeps == ASSUME NEW in, NEW b, Framed(in, b), NEW kvs \in Pairs PROVE Keeps(kvRows(in, in.Y, kvs), b)
<1>1. b \in Region /\ b.X >= 0 /\ Columned(in, b) /\ in.Y \in Int
  BY FramedIs
<1> QED BY <1>1, KvRowsKeep

ListPanel(r, title, kvs) == Panel(r, title, 0, LAMBDA in : kvRows(in, in.Y, kvs))

LEMMA ListFine ==
  ASSUME NEW r \in Region, r.X >= 0, NEW title \in Int, NEW kvs \in Pairs PROVE Fine(ListPanel(r, title, kvs))
<1> DEFINE ink == kvRows(Interior(r), Interior(r).Y, kvs)
<1>1. ListPanel(r, title, kvs) = Plain(r, title, 0, ink)
  BY DEF ListPanel, Panel, Plain
<1>2. Framed(Interior(r), r) => Keeps(ink, r)
  BY KvKeeps
<1> HIDE DEF ink
<1>3. Fine(Plain(r, title, 0, ink))
  BY <1>2, PanelFine
<1> QED BY <1>1, <1>3

LEMMA ListsFine ==
  ASSUME NEW r \in Region, r.X >= 0, NEW s \in SnapshotType
  PROVE  /\ Fine(panelSessionTotals(r, s)) /\ Fine(panelRateSummary(r, s)) /\ Fine(panelJob(r, s))
         /\ Fine(panelThreadSummary(r, s)) /\ Fine(panelQuick(r, s))
<1>1. /\ s.time \in Nat /\ s.count \in Nat /\ s.rate \in Nat /\ Val(s.judged, 6) \in Nat /\ Val(s.sensed, 7) \in Nat
      /\ Val(s.active, s.time) \in Nat /\ Val(s.active, 3) \in Nat /\ Val(s.info, 7) \in Nat /\ NA \in Nat
  <2>1. s.time \in Nat /\ s.count \in Nat /\ s.rate \in Nat
    BY SnapIs
  <2>2. 6 \in Nat /\ 7 \in Nat /\ 3 \in Nat /\ NA \in Nat
    BY DEF NA
  <2> QED BY <2>1, <2>2, ValIs
<1>2. Fine(panelSessionTotals(r, s))
  <2> DEFINE kvs == <<<<6, s.time>>, <<12, s.count>>, <<16, s.count>>, <<10, s.count>>, <<6, s.count>>, <<8, s.count>>,
                      <<10, Val(s.judged, 6)>>, <<10, s.time>>>>
  <2>1. kvs \in Pairs
    BY <1>1 DEF Pairs
  <2>2. panelSessionTotals(r, s) = ListPanel(r, 7, kvs)
    BY DEF panelSessionTotals, ListPanel, Panel
  <2> HIDE DEF kvs
  <2> QED BY <2>1, <2>2, ListFine
<1>3. Fine(panelRateSummary(r, s))
  <2> DEFINE at == <<7, 8, 8, 9, 11, 4, 3, 3, 14>>
             kvs == [i \in 1 .. 9 |-> <<at[i], IF i = 9 THEN Val(s.sensed, 7) ELSE s.rate>>]
  <2>1. at \in [1 .. 9 -> Nat]
    <3>1. at \in Seq(Nat) /\ Len(at) = 9
      OBVIOUS
    <3> HIDE DEF at
    <3>2. at \in [1 .. Len(at) -> Nat]
      BY <3>1, SeqIsFun
    <3> QED BY <3>1, <3>2, Zenon
  <2>2. panelRateSummary(r, s) = ListPanel(r, 8, kvs)
    BY DEF panelRateSummary, ListPanel, Panel
  <2> HIDE DEF at
  <2>3. kvs \in [1 .. 9 -> Nat \X Nat]
    <3>1. ASSUME NEW i \in 1 .. 9 PROVE <<at[i], IF i = 9 THEN Val(s.sensed, 7) ELSE s.rate>> \in Nat \X Nat
      <4>1. at[i] \in Nat
        BY <2>1
      <4> QED BY <1>1, <4>1
    <3> QED BY <3>1
  <2>4. kvs \in Pairs
    BY <2>3, SeqIs DEF Pairs
  <2> HIDE DEF kvs
  <2> QED BY <2>2, <2>4, ListFine
<1>4. Fine(panelJob(r, s))
  <2> DEFINE kvs == <<<<10, s.count>>, <<14, s.count>>, <<7, s.time>>, <<13, s.time>>, <<14, Val(s.active, s.time)>>,
                      <<16, Val(s.info, 7)>>, <<16, Val(s.judged, 6)>>>>
  <2>1. kvs \in Pairs
    BY <1>1 DEF Pairs
  <2>2. panelJob(r, s) = ListPanel(r, 11, kvs)
    BY DEF panelJob, ListPanel, Panel
  <2> HIDE DEF kvs
  <2> QED BY <2>1, <2>2, ListFine
<1>5. Fine(panelThreadSummary(r, s))
  <2> DEFINE kvs == <<<<7, 2>>, <<12, 2>>, <<7, s.rate>>, <<7, s.rate>>, <<4, s.rate>>, <<6, Val(s.active, 3)>>>>
  <2>1. kvs \in Pairs
    BY <1>1 DEF Pairs
  <2>2. panelThreadSummary(r, s) = ListPanel(r, 14, kvs)
    BY DEF panelThreadSummary, ListPanel, Panel
  <2> HIDE DEF kvs
  <2> QED BY <2>1, <2>2, ListFine
<1>6. Fine(panelQuick(r, s))
  <2> DEFINE kvs == <<<<6, s.time>>, <<12, s.count>>, <<8, s.count>>, <<8, s.count>>, <<5, NA>>, <<7, NA>>,
                      <<10, Val(s.judged, 6)>>, <<14, s.count>>>>
  <2>1. kvs \in Pairs
    BY <1>1 DEF Pairs
  <2>2. panelQuick(r, s) = ListPanel(r, 11, kvs)
    BY DEF panelQuick, ListPanel, Panel
  <2> HIDE DEF kvs
  <2> QED BY <2>1, <2>2, ListFine
<1> QED BY <1>2, <1>3, <1>4, <1>5, <1>6

-----------------------------------------------------------------------------
(* Parts of a panel's interior.                                            *)
LEMMA RectWithin ==
  ASSUME NEW x \in Int, NEW y \in Int, NEW w \in Nat, NEW h \in Nat, NEW b \in Region,
         x >= b.X, y >= b.Y, x + w <= b.X + b.W, y + h <= b.Y + b.H
  PROVE  Rect(x, y, w, h) \in Region /\ Within(Rect(x, y, w, h), b)
<1> DEFINE q == Rect(x, y, w, h)
<1>1. q \in Region /\ q.X = x /\ q.Y = y /\ q.W = w /\ q.H = h
  BY RectIs
<1> HIDE DEF q
<1>2. Within(q, b)
  BY <1>1 DEF Within, Right, Bottom
<1> QED BY <1>1, <1>2 DEF q

LEMMA BelowIs ==
  ASSUME NEW q, NEW b \in Region, Columned(q, b), NEW y \in Int, y >= b.Y
  PROVE  Columned(Below(q, y), b)
<1>1. q.X \in Int /\ q.Y \in Int /\ q.W \in Nat /\ q.H \in Int
      /\ q.X >= b.X /\ q.X + q.W <= b.X + b.W /\ q.Y + q.H <= b.Y + b.H
  BY DEF Columned
<1> DEFINE h == Bottom(q) - y
<1>2. Below(q, y) = Rect(q.X, y, q.W, h)
  BY DEF Below
<1>3. h \in Int /\ y + h <= b.Y + b.H
  BY <1>1 DEF Bottom
<1> HIDE DEF h
<1>4. Below(q, y).X = q.X /\ Below(q, y).Y = y /\ Below(q, y).W = q.W /\ Below(q, y).H = h
  BY <1>2, RectIs
<1> QED BY <1>1, <1>3, <1>4 DEF Columned

LEMMA RightOfIs ==
  ASSUME NEW in, NEW b, Framed(in, b), NEW w \in Nat, in.W >= w + 2
  PROVE  /\ RightOf(in, w) \in Region /\ Within(RightOf(in, w), in) /\ Within(RightOf(in, w), b)
         /\ RightOf(in, w).W = in.W - w - 2 /\ RightOf(in, w).Y = in.Y /\ RightOf(in, w).H = in.H
         /\ Right(RightOf(in, w)) = Right(in)
<1>1. in \in Region /\ b \in Region /\ in.X \in Nat /\ in.Y \in Int /\ in.W \in Nat /\ in.H \in Nat /\ Within(in, b)
      /\ Right(in) = in.X + in.W
  BY FramedIs
<1> DEFINE x == in.X + w + 2
           k == in.W - w - 2
<1>2. RightOf(in, w) = Rect(x, in.Y, k, in.H) /\ k = in.W - w - 2
  BY DEF RightOf
<1>3. x \in Int /\ k \in Nat /\ x >= in.X /\ x + k <= in.X + in.W
      /\ x + k = in.X + in.W /\ in.Y >= in.Y /\ in.Y + in.H <= in.Y + in.H
  BY <1>1
<1> HIDE DEF x, k
<1>4. RightOf(in, w) \in Region /\ Within(RightOf(in, w), in)
  <2>1. Rect(x, in.Y, k, in.H) \in Region /\ Within(Rect(x, in.Y, k, in.H), in)
    BY <1>1, <1>3, RectWithin, Zenon
  <2> QED BY <1>2, <2>1
<1>5. Within(RightOf(in, w), b)
  BY <1>1, <1>4, WithinTrans
<1>6. /\ RightOf(in, w).X = x /\ RightOf(in, w).W = k /\ RightOf(in, w).Y = in.Y
      /\ RightOf(in, w).H = in.H
  BY <1>2, RectIs
<1> QED BY <1>1, <1>2, <1>3, <1>4, <1>5, <1>6 DEF Right

LEMMA ringIs ==
  ASSUME NEW h \in Nat, NEW max \in Nat PROVE ringWidth(h, max) \in Nat /\ ringWidth(h, max) <= max
  BY DEF ringWidth, Lesser

-----------------------------------------------------------------------------
(* The panels of the dashboard, and of the screens that share them.        *)
LEMMA BlockchainFine ==
  ASSUME NEW r \in Region, r.X >= 0, NEW s \in SnapshotType PROVE Fine(panelBlockchain(r, s))
<1> DEFINE in == Interior(r)
           kvs == <<<<6, s.count>>, <<11, s.count>>, <<12, 2>>, <<8, NA>>, <<10, s.count>>,
                    <<8, Val(s.info, s.count)>>, <<10, s.time>>, <<8, Val(s.info, 5)>>>>
           cube == in.W >= 37 /\ in.H >= 5
           text == IF cube THEN RightOf(in, 13) ELSE in
           ink == (IF cube THEN WireCube(Rect(in.X, in.Y, 13, in.H)) ELSE {}) \cup kvRows(text, text.Y, kvs)
<1>1. kvs \in Pairs
  <2>1. s.count \in Nat /\ s.time \in Nat /\ NA \in Nat /\ Val(s.info, s.count) \in Nat /\ Val(s.info, 5) \in Nat
    BY SnapIs, ValIs DEF NA
  <2> QED BY <2>1 DEF Pairs
<1>2. panelBlockchain(r, s) = Plain(r, 17, 0, ink)
  BY DEF panelBlockchain, Panel, Plain
<1> HIDE DEF kvs, in
<1>3. ASSUME Framed(in, r) PROVE Keeps(ink, r)
  <2>1. /\ r \in Region /\ in \in Region /\ in.X \in Nat /\ in.Y \in Int /\ in.W \in Nat /\ in.H \in Nat /\ Within(in, r)
        /\ Columned(in, r) /\ r.X \in Nat /\ r.X >= 0
    BY <1>3, FramedIs
  <2>2. CASE cube
    <3>1. in.W >= 13 + 2 /\ in.X + 13 <= in.X + in.W /\ 13 \in Nat /\ in.X \in Int
          /\ in.X >= in.X /\ in.Y >= in.Y /\ in.Y + in.H <= in.Y + in.H
      BY <2>1, <2>2
    <3>2. RightOf(in, 13) \in Region /\ Within(RightOf(in, 13), r)
      BY <1>3, <3>1, RightOfIs
    <3>3. Columned(RightOf(in, 13), r) /\ RightOf(in, 13).Y \in Int
      BY <2>1, <3>2, InsideIs
    <3>4. Keeps(kvRows(RightOf(in, 13), RightOf(in, 13).Y, kvs), r)
      BY <1>1, <2>1, <3>3, KvRowsKeep
    <3>5. Rect(in.X, in.Y, 13, in.H) \in Region /\ Within(Rect(in.X, in.Y, 13, in.H), in)
      BY <2>1, <3>1, RectWithin
    <3>6. Keeps(WireCube(Rect(in.X, in.Y, 13, in.H)), r)
      BY <2>1, <3>5, WithinTrans, PictureKeeps DEF WireCube
    <3> QED BY <2>2, <3>4, <3>6, BothKeep
  <2>3. CASE ~ cube
    <3>1. Keeps(kvRows(in, in.Y, kvs), r)
      BY <1>1, <1>3, KvKeeps
    <3> QED BY <2>3, <3>1, NoMarks, BothKeep
  <2> QED BY <2>2, <2>3
<1> HIDE DEF ink
<1>4. Fine(Plain(r, 17, 0, ink))
  BY <1>3, PanelFine DEF in
<1> QED BY <1>2, <1>4

-----------------------------------------------------------------------------
(* The labels of a chart's axis, and the charts of the history.            *)
LEMMA ScaleIs ==
  ASSUME NEW xs \in Seq(0 .. 3), NEW n \in Nat, n >= 2, Len(xs) = n PROVE AxisLabels(xs)
<1>1. \A i \in 1 .. Len(xs) : xs[i] \in 0 .. 3
  OBVIOUS
<1>2. Len(xs) \in Nat /\ Len(xs) >= 2
  OBVIOUS
<1> QED BY <1>1, <1>2, Zenon DEF AxisLabels

LEMMA RangesAre ==
  ASSUME NEW i \in 1 .. 5 PROVE histRanges[i].label \in Nat /\ AxisLabels(histRanges[i].xaxis)
<1> DEFINE A == <<2, 2, 2, 2, 2, 3>>  B == <<3, 3, 2, 3>>  C == <<2, 3, 3, 3, 3>>  D == <<2, 2, 2, 3>>  E == <<3, 3, 3, 2, 3>>
<1>1. AxisLabels(A)
  <2>1. Len(A) = 6 /\ A \in Seq(0 .. 3) /\ 6 \in Nat /\ 6 >= 2
    OBVIOUS
  <2> HIDE DEF A
  <2> QED BY <2>1, ScaleIs
<1>2. AxisLabels(B)
  <2>1. Len(B) = 4 /\ B \in Seq(0 .. 3) /\ 4 \in Nat /\ 4 >= 2
    OBVIOUS
  <2> HIDE DEF B
  <2> QED BY <2>1, ScaleIs
<1>3. AxisLabels(C)
  <2>1. Len(C) = 5 /\ C \in Seq(0 .. 3) /\ 5 \in Nat /\ 5 >= 2
    OBVIOUS
  <2> HIDE DEF C
  <2> QED BY <2>1, ScaleIs
<1>4. AxisLabels(D)
  <2>1. Len(D) = 4 /\ D \in Seq(0 .. 3) /\ 4 \in Nat /\ 4 >= 2
    OBVIOUS
  <2> HIDE DEF D
  <2> QED BY <2>1, ScaleIs
<1>5. AxisLabels(E)
  <2>1. Len(E) = 5 /\ E \in Seq(0 .. 3) /\ 5 \in Nat /\ 5 >= 2
    OBVIOUS
  <2> HIDE DEF E
  <2> QED BY <2>1, ScaleIs
<1>6. histRanges = <<histRangeDef(2, A), histRangeDef(3, B), histRangeDef(2, C), histRangeDef(2, D), histRangeDef(3, E)>>
  BY DEF histRanges
<1> HIDE DEF A, B, C, D, E
<1>7. \A l, x : histRangeDef(l, x).label = l /\ histRangeDef(l, x).xaxis = x
  BY DEF histRangeDef
<1>8. i = 1 \/ i = 2 \/ i = 3 \/ i = 4 \/ i = 5
  OBVIOUS
<1> QED BY <1>1, <1>2, <1>3, <1>4, <1>5, <1>6, <1>7, <1>8

LEMMA tabsIs == tabsW \in Int
<1> DEFINE w == [i \in DOMAIN histRanges |-> histRanges[i].label + 2]
<1>1. DOMAIN histRanges = 1 .. 5
  BY DEF histRanges
<1>2. Ints(w, 5) /\ Len(w) = 5 /\ 5 \in Nat /\ 5 >= 2
  <2>1. ASSUME NEW i \in 1 .. 5 PROVE w[i] \in Int
    <3>1. histRanges[i].label \in Nat
      BY RangesAre
    <3> QED BY <1>1, <3>1
  <2>2. Len(w) = 5 /\ 5 \in Nat /\ 5 >= 2
    BY <1>1
  <2> HIDE DEF w
  <2> QED BY <2>1, <2>2 DEF Ints
<1>3. tabsW = Before(w, Len(w) + 1)
  BY DEF tabsW, Total
<1> HIDE DEF w
<1>4. 5 \in Nat /\ 6 \in 1 .. 6 /\ 5 + 1 = 6
  OBVIOUS
<1>5. Before(w, 5 + 1) \in Int
  BY <1>2, <1>4, BeforeInt
<1> QED BY <1>2, <1>3, <1>5

LEMMA WindowChartKeeps ==
  ASSUME NEW in, NEW b, Framed(in, b), NEW s \in SnapshotType, NEW i \in 1 .. 5, NEW empty \in Int
  PROVE  Keeps(WindowChart(in, s, i, empty), b)
<1>1. s.axis \in Nat /\ AxisLabels(histRanges[i].xaxis)
  BY SnapIs, RangesAre
<1> DEFINE words == IF s.hist[i] < 2 THEN empty ELSE 0
<1>2. words \in Int
  OBVIOUS
<1> HIDE DEF words
<1>3. Keeps(Chart(in, s.axis, histRanges[i].xaxis, words), b)
  BY <1>1, <1>2, ChartKeeps
<1> QED BY <1>3 DEF WindowChart, words

LEMMA HistoryFine ==
  ASSUME NEW r \in Region, r.X >= 0, NEW s \in SnapshotType PROVE Fine(panelHistory(r, s))
<1> DEFINE in == Interior(r)
           tabs == r.W >= tabsW + 26
           label == histRanges[s.range].label
           right == IF tabs THEN 0 ELSE label
           y == IF in.W >= 24 THEN in.Y + 1 ELSE in.Y
           words == IF in.W >= 24 THEN Text(in.X, in.Y, s.rate) \cup TextRight(Right(in), in.Y, 5 + s.rate) ELSE {}
           bars == IF y < Bottom(in) THEN Spectrum(Below(in, y), s.hist[s.range]) ELSE {}
           ink == IF in.H < 4 \/ in.W < 10 THEN words \cup bars ELSE WindowChart(in, s, s.range, label + 20)
           p == Plain(r, 16, right, ink)
           more == Text(Right(r) - 2 - tabsW, r.Y, tabsW)
<1>0. s.range \in 1 .. 5 /\ label \in Nat /\ s.rate \in Nat /\ s.rate <= 12 /\ s.hist[s.range] \in Nat
  <2>1. s.range \in 1 .. 5 /\ s.hist \in [1 .. 5 -> Nat] /\ s.rate \in Nat /\ s.rate <= 12
    BY SnapIs
  <2> QED BY <2>1, RangesAre
<1>1. panelHistory(r, s) = IF tabs /\ ~ Empty(Interior(r)) THEN [p EXCEPT !.top = @ \cup more] ELSE p
  BY DEF panelHistory, Panel, Plain
<1> HIDE DEF in, label
<1>2. ASSUME Framed(in, r) PROVE Keeps(ink, r)
  <2>1. /\ r \in Region /\ in \in Region /\ in.X \in Nat /\ in.Y \in Int /\ in.W \in Nat /\ in.H \in Nat /\ Within(in, r)
        /\ Columned(in, r) /\ r.X \in Nat /\ r.X >= 0 /\ r.Y \in Int /\ r.W \in Nat /\ r.H \in Nat
        /\ in.X = r.X + 2 /\ in.Y = r.Y + 1 /\ in.X + in.W + 2 = r.X + r.W /\ in.Y + in.H + 1 = r.Y + r.H
        /\ in.W >= 1 /\ in.H >= 1 /\ Right(in) = in.X + in.W /\ Right(in) \in Nat
    BY <1>2, FramedIs
  <2>2. Keeps(words, r)
    <3>1. CASE in.W >= 24
      <4>1. /\ in.X \in Int /\ s.rate \in Int /\ in.X >= r.X /\ in.X + s.rate <= r.X + r.W /\ in.Y >= r.Y /\ in.Y < r.Y + r.H
            /\ Right(in) \in Int /\ 5 + s.rate \in Nat /\ Right(in) - (5 + s.rate) >= r.X /\ Right(in) <= r.X + r.W
        BY <1>0, <2>1, <3>1
      <4>2. Keeps(Text(in.X, in.Y, s.rate), r)
        BY <2>1, <4>1, TextKeeps
      <4>3. Keeps(TextRight(Right(in), in.Y, 5 + s.rate), r)
        BY <2>1, <4>1, TextRightKeeps
      <4> QED BY <3>1, <4>2, <4>3, BothKeep
    <3>2. CASE ~ (in.W >= 24)
      BY <3>2, NoMarks
    <3> QED BY <3>1, <3>2
  <2>3. Keeps(bars, r)
    <3>1. y \in Int /\ y >= r.Y
      BY <2>1
    <3> HIDE DEF y
    <3>2. Columned(Below(in, y), r)
      BY <2>1, <3>1, BelowIs
    <3>3. Keeps(Spectrum(Below(in, y), s.hist[s.range]), r)
      BY <1>0, <2>1, <3>2, SpectrumKeeps
    <3> QED BY <3>3, NoMarks
  <2>4. Keeps(WindowChart(in, s, s.range, label + 20), r)
    <3>1. label + 20 \in Int
      BY <1>0
    <3> QED BY <1>0, <1>2, <3>1, WindowChartKeeps
  <2> HIDE DEF words, bars
  <2> QED BY <2>2, <2>3, <2>4, BothKeep, ChoiceKeeps
<1> HIDE DEF ink
<1>3. Fine(p)
  <2>1. right \in Int
    BY <1>0
  <2> HIDE DEF right
  <2>2. Framed(Interior(r), r) /\ Interior(r).W = r.W - 4 => Keeps(ink, r)
    BY <1>2 DEF in
  <2> QED BY <2>1, <2>2, PanelFine
<1>4. CASE tabs /\ ~ Empty(Interior(r))
  <2>1. Framed(Interior(r), r)
    BY <1>4, InteriorIs
  <2>2. r.X \in Nat /\ r.Y \in Int /\ r.W \in Nat /\ r.H \in Nat /\ r.H >= 3 /\ Right(r) = r.X + r.W /\ tabsW \in Int
    <3>1. r.X \in Nat /\ r.Y \in Int /\ r.W \in Nat /\ r.H \in Nat /\ Interior(r).H >= 1 /\ Interior(r).H \in Nat
          /\ Interior(r).Y = r.Y + 1 /\ Interior(r).Y + Interior(r).H + 1 = r.Y + r.H
      BY <2>1, FramedIs
    <3> QED BY <3>1, tabsIs DEF Right
  <2>3. Keeps(more, r)
    <3> DEFINE x == Right(r) - 2 - tabsW
    <3>1. x \in Int /\ x >= r.X /\ x + tabsW <= r.X + r.W /\ r.Y >= r.Y /\ r.Y < r.Y + r.H
      BY <1>4, <2>2
    <3> HIDE DEF x
    <3>2. Keeps(Text(x, r.Y, tabsW), r)
      BY <2>2, <3>1, TextKeeps
    <3> QED BY <3>2 DEF x
  <2> DEFINE q == [p EXCEPT !.top = @ \cup more]
  <2>4. p.at = r /\ q.at = p.at /\ q.ink = p.ink /\ q.top = p.top \cup more
    BY DEF Plain
  <2> HIDE DEF p, q, more
  <2>5. Fine(q)
    BY <1>3, <2>3, <2>4, BothKeep DEF Fine
  <2> QED BY <1>1, <1>4, <2>5 DEF q, p, more
<1>5. CASE ~ (tabs /\ ~ Empty(Interior(r)))
  BY <1>1, <1>3, <1>5
<1> QED BY <1>4, <1>5

-----------------------------------------------------------------------------
(* A picture with its caption below or beside it.                          *)
Captions(cap, n) == DOMAIN cap = 1 .. n /\ Len(cap) = n /\ n \in Nat /\ \A i \in 1 .. n : cap[i] \in Int

LEMMA CaptionsAre == ASSUME NEW cap \in Seq(Int) PROVE Captions(cap, Len(cap))
  BY DEF Captions

(* A globe over the lines of its caption.                                  *)
LEMMA BallKeeps ==
  ASSUME NEW in \in Region, NEW b \in Region, Within(in, b), NEW gw \in Nat, gw <= in.W,
         NEW cap, NEW n \in Nat, n <= in.H, Captions(cap, n)
  PROVE  LET ball == Rect(Right(in) - gw, in.Y, gw, in.H - Len(cap))
         IN  Keeps(Globe(ball) \cup UNION {TextCenter(ball.X, Bottom(ball) + i - 1, gw, Clip(cap[i], gw)) : i \in DOMAIN cap}, b)
<1> DEFINE x == Right(in) - gw  h == in.H - n
           ball == Rect(x, in.Y, gw, h)
           T(i) == TextCenter(ball.X, Bottom(ball) + i - 1, gw, Clip(cap[i], gw))
<1>1. /\ in.X \in Int /\ in.Y \in Int /\ in.W \in Nat /\ in.H \in Nat /\ Right(in) = in.X + in.W
      /\ b.X \in Int /\ b.Y \in Int /\ b.W \in Nat /\ b.H \in Nat
      /\ in.X >= b.X /\ in.Y >= b.Y /\ in.X + in.W <= b.X + b.W /\ in.Y + in.H <= b.Y + b.H
  BY InsideIs
<1>2. DOMAIN cap = 1 .. n /\ Len(cap) = n /\ \A i \in 1 .. n : cap[i] \in Int
  BY DEF Captions
<1>3. x \in Int /\ h \in Nat /\ x >= b.X /\ x + gw <= b.X + b.W /\ in.Y + h <= b.Y + b.H /\ in.Y + h + n = in.Y + in.H
  BY <1>1
<1> HIDE DEF x, h
<1>4. ball \in Region /\ Within(ball, b) /\ ball.X = x /\ Bottom(ball) = in.Y + h
  <2>1. ball \in Region /\ Within(ball, b)
    BY <1>1, <1>3, RectWithin
  <2>2. ball.X = x /\ ball.Y = in.Y /\ ball.H = h
    BY RectIs
  <2> QED BY <2>1, <2>2 DEF Bottom
<1> HIDE DEF ball
<1>5. ASSUME NEW i \in 1 .. n PROVE Keeps(T(i), b)
  <2> DEFINE y == Bottom(ball) + i - 1
  <2>1. y \in Int /\ y >= b.Y /\ y < b.Y + b.H
    BY <1>1, <1>3, <1>4
  <2>2. Clip(cap[i], gw) \in Int
    BY <1>2, ClipIs
  <2> HIDE DEF y
  <2>3. Keeps(TextCenter(x, y, gw, Clip(cap[i], gw)), b)
    BY <1>3, <2>1, <2>2, CentredKeeps
  <2> QED BY <1>4, <2>3 DEF y
<1> HIDE DEF T
<1>6. Keeps(UNION {T(i) : i \in DOMAIN cap}, b)
  BY <1>2, <1>5 DEF Keeps
<1>7. Keeps(Globe(ball), b)
  BY <1>4, PictureKeeps DEF Globe
<1>8. Keeps(Globe(ball) \cup UNION {T(i) : i \in DOMAIN cap}, b)
  BY <1>6, <1>7, BothKeep
<1> QED BY <1>2, <1>8 DEF T, ball, x, h

LEMMA NetworkKeeps ==
  ASSUME NEW in, NEW b, Framed(in, b), NEW s \in SnapshotType PROVE Keeps(NetworkInk(in, s), b)
<1> DEFINE globe == in.W >= 52 /\ in.H >= 6
           gw    == ringWidth(in.H, 20)
           cap   == IF in.H >= 11 /\ gw >= 14 THEN <<4, 6, 7, 13>> ELSE IF in.H >= 8 /\ gw >= 14 THEN <<14>> ELSE <<>>
           ball  == Rect(Right(in) - gw, in.Y, gw, in.H - Len(cap))
           text  == IF globe THEN Rect(in.X, in.Y, in.W - gw - 2, in.H) ELSE in
           dot   == 2 + s.conn
           kvs   == <<<<16, Val(s.info, s.rate)>>, <<10, Val(s.info, s.count)>>, <<6, s.count>>,
                      <<5, Val(s.info, 7)>>, <<7, Val(s.info, 6)>>, <<4, s.node>>, <<10, s.count>>,
                      <<14, s.count>>, <<15, Val(s.judged, 6)>>, <<8, s.time>>>>
           A == IF globe THEN Globe(ball) \cup UNION {TextCenter(ball.X, Bottom(ball) + i - 1, gw, Clip(cap[i], gw)) : i \in DOMAIN cap} ELSE {}
           lw == text.W - dot - 1
           B == IF WorthALabel(lw) THEN TextIn(text.X, text.Y, lw, 6) ELSE {}
           C == TextRight(Right(text), text.Y, Clip(dot, text.W))
           D == kvRows(Below(text, text.Y + 1), text.Y + 1, kvs)
<1>1. NetworkInk(in, s) = A \cup B \cup C \cup D
  BY DEF NetworkInk
<1>2. kvs \in Pairs
  <2>1. /\ s.count \in Nat /\ s.time \in Nat /\ s.node \in Nat /\ Val(s.info, s.rate) \in Nat /\ Val(s.info, s.count) \in Nat
        /\ Val(s.info, 7) \in Nat /\ Val(s.info, 6) \in Nat /\ Val(s.judged, 6) \in Nat
    BY SnapIs, ValIs
  <2> QED BY <2>1 DEF Pairs
<1>3. dot \in Nat
  <2>1. s.conn \in Nat
    BY SnapIs
  <2> QED BY <2>1
<1> HIDE DEF kvs, dot
<1>4. /\ b \in Region /\ in \in Region /\ in.X \in Nat /\ in.Y \in Int /\ in.W \in Nat /\ in.H \in Nat /\ Within(in, b)
      /\ b.X >= 0 /\ in.W >= 1 /\ in.H >= 1
  BY FramedIs
<1>5. gw \in Nat /\ gw <= 20
  BY <1>4, ringIs
<1> HIDE DEF gw
<1>6. Keeps(A, b)
  <2>1. CASE globe
    <3>1. cap \in Seq(Int) /\ Len(cap) <= in.H
      <4>1. CASE in.H >= 11 /\ gw >= 14
        <5>1. cap = <<4, 6, 7, 13>>
          BY <4>1
        <5> QED BY <1>4, <4>1, <5>1
      <4>2. CASE ~ (in.H >= 11 /\ gw >= 14) /\ in.H >= 8 /\ gw >= 14
        <5>1. cap = <<14>>
          BY <4>2
        <5> QED BY <1>4, <4>2, <5>1
      <4>3. CASE ~ (in.H >= 11 /\ gw >= 14) /\ ~ (in.H >= 8 /\ gw >= 14)
        <5>1. cap = <<>>
          BY <4>3
        <5> QED BY <1>4, <5>1
      <4> QED BY <4>1, <4>2, <4>3
    <3>2. gw <= in.W
      BY <1>4, <1>5, <2>1
    <3> HIDE DEF cap
    <3>3. Captions(cap, Len(cap)) /\ Len(cap) \in Nat
      BY <3>1, CaptionsAre
    <3> QED BY <1>4, <1>5, <2>1, <3>1, <3>2, <3>3, BallKeeps
  <2>2. CASE ~ globe
    BY <2>2, NoMarks
  <2> QED BY <2>1, <2>2
<1>7. text \in Region /\ Within(text, b) /\ text.W >= 1 /\ text.H >= 1 /\ text.X >= 0
  <2>1. CASE globe
    <3> DEFINE w == in.W - gw - 2
    <3>1. w \in Nat /\ w >= 1 /\ in.X + w <= in.X + in.W /\ in.X \in Int /\ in.X >= in.X /\ in.Y >= in.Y /\ in.Y + in.H <= in.Y + in.H
      BY <1>4, <1>5, <2>1
    <3>2. text = Rect(in.X, in.Y, w, in.H)
      BY <2>1
    <3> HIDE DEF w
    <3>3. Rect(in.X, in.Y, w, in.H) \in Region /\ Within(Rect(in.X, in.Y, w, in.H), in)
      BY <1>4, <3>1, RectWithin
    <3>4. text.W = w /\ text.H = in.H /\ text.X = in.X
      BY <3>2, RectIs
    <3> QED BY <1>4, <3>1, <3>2, <3>3, <3>4, WithinTrans
  <2>2. CASE ~ globe
    <3>1. text = in
      BY <2>2
    <3> HIDE DEF text
    <3> QED BY <1>4, <3>1
  <2> QED BY <2>1, <2>2
<1> HIDE DEF globe, cap, text
<1>8. /\ text.X \in Int /\ text.Y \in Int /\ text.W \in Nat /\ text.H \in Nat /\ Right(text) = text.X + text.W
      /\ b.X \in Int /\ b.Y \in Int /\ b.W \in Nat /\ b.H \in Nat
      /\ text.X >= b.X /\ text.Y >= b.Y /\ text.X + text.W <= b.X + b.W /\ text.Y + text.H <= b.Y + b.H
      /\ Columned(text, b)
  BY <1>4, <1>7, InsideIs
<1>9. text.Y < b.Y + b.H
  BY <1>7, <1>8
<1>10. Keeps(B, b)
  <2>1. CASE WorthALabel(lw)
    <3>1. lw \in Int /\ text.X + lw <= b.X + b.W
      BY <1>3, <1>8
    <3> HIDE DEF lw
    <3>2. Keeps(TextIn(text.X, text.Y, lw, 6), b)
      <4>1. 6 \in Int
        OBVIOUS
      <4> QED BY <1>4, <1>8, <1>9, <3>1, <4>1, TextInKeeps
    <3> QED BY <2>1, <3>2
  <2>2. CASE ~ WorthALabel(lw)
    BY <2>2, NoMarks
  <2> QED BY <2>1, <2>2
<1>11. Keeps(C, b)
  <2> DEFINE c == Clip(dot, text.W)
  <2>1. c \in Nat /\ c <= text.W
    <3>1. dot \in Int
      BY <1>3
    <3> QED BY <1>8, <3>1, ClipIs
  <2> HIDE DEF c
  <2>2. Right(text) \in Int /\ Right(text) - c >= b.X /\ Right(text) <= b.X + b.W
    BY <1>8, <2>1
  <2>3. Keeps(TextRight(Right(text), text.Y, c), b)
    BY <1>4, <1>8, <1>9, <2>1, <2>2, TextRightKeeps
  <2> QED BY <2>3 DEF c
<1>12. Keeps(D, b)
  <2>1. text.Y + 1 \in Int /\ text.Y + 1 >= b.Y
    BY <1>8
  <2>2. Columned(Below(text, text.Y + 1), b)
    BY <1>4, <1>8, <2>1, BelowIs
  <2> QED BY <1>2, <1>4, <2>1, <2>2, KvRowsKeep
<1> HIDE DEF A, B, C, D
<1> QED BY <1>1, <1>6, <1>10, <1>11, <1>12, FourKeep

-----------------------------------------------------------------------------
(* What is left beside a dial, and the panels that have one.               *)
LEMMA BesideIs ==
  ASSUME NEW q \in Region, NEW b \in Region, Within(q, b), NEW w \in Nat, q.W >= w + 2
  PROVE  /\ RightOf(q, w) \in Region /\ Within(RightOf(q, w), b) /\ RightOf(q, w).H = q.H
         /\ Rect(q.X, q.Y, w, q.H) \in Region /\ Within(Rect(q.X, q.Y, w, q.H), b)
<1> DEFINE x == q.X + w + 2
           k == q.W - w - 2
<1>1. /\ q.X \in Int /\ q.Y \in Int /\ q.W \in Nat /\ q.H \in Nat
      /\ q.X >= b.X /\ q.Y >= b.Y /\ q.X + q.W <= b.X + b.W /\ q.Y + q.H <= b.Y + b.H
      /\ b.X \in Int /\ b.Y \in Int /\ b.W \in Nat /\ b.H \in Nat
  BY InsideIs
<1>2. RightOf(q, w) = Rect(x, q.Y, k, q.H)
  BY DEF RightOf
<1>3. x \in Int /\ k \in Nat /\ x >= b.X /\ x + k <= b.X + b.W /\ q.X + w <= b.X + b.W
  BY <1>1
<1> HIDE DEF x, k
<1>4. Rect(x, q.Y, k, q.H) \in Region /\ Within(Rect(x, q.Y, k, q.H), b)
  BY <1>1, <1>3, RectWithin
<1>5. Rect(q.X, q.Y, w, q.H) \in Region /\ Within(Rect(q.X, q.Y, w, q.H), b)
  BY <1>1, <1>3, RectWithin
<1>6. Rect(x, q.Y, k, q.H).H = q.H
  BY RectIs
<1> QED BY <1>2, <1>4, <1>5, <1>6

DialBody(in) == IF in.H >= 7 THEN Rect(in.X, in.Y, in.W, in.H - 3) ELSE in
DialText(in) ==
  LET body == DialBody(in)
  IN  IF body.W >= 30 /\ body.H >= 4 THEN RightOf(body, ringWidth(body.H, 15)) ELSE body
DialTop(in) == IF Named(DialText(in)) THEN DialText(in).Y + 2 ELSE DialText(in).Y

DialInk(in, s, kvs) ==
  LET body == DialBody(in)  text == DialText(in)
  IN  (IF body.W >= 30 /\ body.H >= 4
       THEN Ring(Rect(body.X, body.Y, ringWidth(body.H, 15), body.H), <<4, 4>>) ELSE {})
      \cup (IF Named(text) THEN Text(text.X, text.Y, s.rate) \cup TextRight(Right(text), text.Y, 8) ELSE {})
      \cup kvRows(Below(text, DialTop(in)), DialTop(in), kvs)
      \cup (IF in.H >= 7 THEN Spectrum(Rect(in.X, Bottom(in) - 2, in.W, 2), s.hist[1]) ELSE {})

LEMMA DialBodyIs ==
  ASSUME NEW in, NEW b, Framed(in, b)
  PROVE  DialBody(in) \in Region /\ Within(DialBody(in), b) /\ DialBody(in).H >= 1 /\ DialBody(in).W >= 1
<1>1. /\ b \in Region /\ in \in Region /\ in.X \in Nat /\ in.Y \in Int /\ in.W \in Nat /\ in.H \in Nat /\ Within(in, b)
      /\ in.W >= 1 /\ in.H >= 1
  BY FramedIs
<1>2. CASE in.H >= 7
  <2> DEFINE h == in.H - 3
  <2>1. h \in Nat /\ h >= 1 /\ in.Y + h <= in.Y + in.H /\ in.X \in Int /\ in.X >= in.X /\ in.Y >= in.Y
        /\ in.X + in.W <= in.X + in.W
    BY <1>1, <1>2
  <2>2. DialBody(in) = Rect(in.X, in.Y, in.W, h)
    BY <1>2 DEF DialBody
  <2> HIDE DEF h
  <2>3. Rect(in.X, in.Y, in.W, h) \in Region /\ Within(Rect(in.X, in.Y, in.W, h), in)
    BY <1>1, <2>1, RectWithin
  <2>4. DialBody(in).H = h /\ DialBody(in).W = in.W
    BY <2>2, RectIs
  <2> QED BY <1>1, <2>1, <2>2, <2>3, <2>4, WithinTrans
<1>3. CASE ~ (in.H >= 7)
  <2>1. DialBody(in) = in
    BY <1>3 DEF DialBody
  <2> QED BY <1>1, <2>1
<1> QED BY <1>2, <1>3

LEMMA DialTextIs ==
  ASSUME NEW in, NEW b, Framed(in, b)
  PROVE  DialText(in) \in Region /\ Within(DialText(in), b) /\ DialText(in).H >= 1
<1> DEFINE body == DialBody(in)  gw == ringWidth(body.H, 15)
<1>1. body \in Region /\ Within(body, b) /\ body.H >= 1 /\ b \in Region
  BY DialBodyIs, FramedIs
<1>2. body.W \in Nat /\ body.H \in Nat
  BY <1>1, RegionIs
<1>3. DialText(in) = IF body.W >= 30 /\ body.H >= 4 THEN RightOf(body, gw) ELSE body
  BY DEF DialText
<1> HIDE DEF body
<1>4. gw \in Nat /\ gw <= 15
  <2>1. 15 \in Nat
    OBVIOUS
  <2> QED BY <1>2, <2>1, ringIs
<1> HIDE DEF gw
<1>5. CASE body.W >= 30 /\ body.H >= 4
  <2>1. body.W >= gw + 2
    BY <1>2, <1>4, <1>5
  <2>2. RightOf(body, gw) \in Region /\ Within(RightOf(body, gw), b) /\ RightOf(body, gw).H = body.H
    BY <1>1, <1>4, <2>1, BesideIs
  <2> QED BY <1>1, <1>3, <1>5, <2>2
<1>6. CASE ~ (body.W >= 30 /\ body.H >= 4)
  BY <1>1, <1>3, <1>6
<1> QED BY <1>5, <1>6

LEMMA DialKeeps ==
  ASSUME NEW in, NEW b, Framed(in, b), NEW s \in SnapshotType, NEW kvs \in Pairs PROVE Keeps(DialInk(in, s, kvs), b)
<1> DEFINE body == DialBody(in)  gw == ringWidth(body.H, 15)  text == DialText(in)  y == DialTop(in)
           A == IF body.W >= 30 /\ body.H >= 4 THEN Ring(Rect(body.X, body.Y, gw, body.H), <<4, 4>>) ELSE {}
           B == IF Named(text) THEN Text(text.X, text.Y, s.rate) \cup TextRight(Right(text), text.Y, 8) ELSE {}
           C == kvRows(Below(text, y), y, kvs)
           D == IF in.H >= 7 THEN Spectrum(Rect(in.X, Bottom(in) - 2, in.W, 2), s.hist[1]) ELSE {}
<1>1. DialInk(in, s, kvs) = A \cup B \cup C \cup D
  BY DEF DialInk
<1>2. body \in Region /\ Within(body, b) /\ b \in Region /\ b.X >= 0
  BY DialBodyIs, FramedIs
<1>3. text \in Region /\ Within(text, b) /\ text.H >= 1
  BY DialTextIs
<1>4. y = IF Named(text) THEN text.Y + 2 ELSE text.Y
  BY DEF DialTop
<1> HIDE DEF body, text, y
<1>5. /\ text.X \in Int /\ text.Y \in Int /\ text.W \in Nat /\ text.H \in Nat /\ Right(text) = text.X + text.W
      /\ b.X \in Int /\ b.Y \in Int /\ b.W \in Nat /\ b.H \in Nat
      /\ text.X >= b.X /\ text.Y >= b.Y /\ text.X + text.W <= b.X + b.W /\ text.Y + text.H <= b.Y + b.H
      /\ Columned(text, b)
  BY <1>2, <1>3, InsideIs
<1>6. Keeps(A, b)
  <2>1. CASE body.W >= 30 /\ body.H >= 4
    <3>1. body.W \in Nat /\ body.H \in Nat /\ 15 \in Nat
      BY <1>2, RegionIs
    <3>2. gw \in Nat /\ gw <= 15
      BY <3>1, ringIs
    <3> HIDE DEF gw
    <3>3. body.W >= gw + 2
      BY <2>1, <3>1, <3>2
    <3>4. Rect(body.X, body.Y, gw, body.H) \in Region /\ Within(Rect(body.X, body.Y, gw, body.H), b)
      BY <1>2, <3>2, <3>3, BesideIs
    <3>5. <<4, 4>> \in Seq(Int) /\ Len(<<4, 4>>) <= 3
      OBVIOUS
    <3>6. Keeps(Ring(Rect(body.X, body.Y, gw, body.H), <<4, 4>>), b)
      BY <1>2, <3>4, <3>5, RingKeeps
    <3> QED BY <2>1, <3>6
  <2>2. CASE ~ (body.W >= 30 /\ body.H >= 4)
    BY <2>2, NoMarks
  <2> QED BY <2>1, <2>2
<1>7. Keeps(B, b)
  <2>1. CASE Named(text)
    <3>1. text.W >= 20 /\ s.rate \in Nat /\ s.rate <= 12
      BY <2>1, SnapIs DEF Named
    <3>2. /\ s.rate \in Int /\ text.X + s.rate <= b.X + b.W /\ text.Y < b.Y + b.H
          /\ Right(text) \in Int /\ 8 \in Nat /\ Right(text) - 8 >= b.X /\ Right(text) <= b.X + b.W
      BY <1>3, <1>5, <3>1
    <3>3. Keeps(Text(text.X, text.Y, s.rate), b)
      BY <1>2, <1>5, <3>2, TextKeeps
    <3>4. Keeps(TextRight(Right(text), text.Y, 8), b)
      BY <1>2, <1>5, <3>2, TextRightKeeps
    <3> QED BY <2>1, <3>3, <3>4, BothKeep
  <2>2. CASE ~ Named(text)
    BY <2>2, NoMarks
  <2> QED BY <2>1, <2>2
<1>8. Keeps(C, b)
  <2>1. y \in Int /\ y >= b.Y
    BY <1>4, <1>5
  <2>2. Columned(Below(text, y), b)
    BY <1>2, <1>5, <2>1, BelowIs
  <2> QED BY <1>2, <2>1, <2>2, KvRowsKeep
<1>9. Keeps(D, b)
  <2>1. CASE in.H >= 7
    <3>1. /\ in \in Region /\ in.X \in Nat /\ in.Y \in Int /\ in.W \in Nat /\ in.H \in Nat /\ Within(in, b)
          /\ Bottom(in) = in.Y + in.H
      BY FramedIs
    <3> DEFINE z == Bottom(in) - 2
    <3>2. z \in Int /\ z >= in.Y /\ z + 2 <= in.Y + in.H /\ 2 \in Nat /\ in.X \in Int /\ in.X >= in.X /\ in.X + in.W <= in.X + in.W
      BY <2>1, <3>1
    <3> HIDE DEF z
    <3> DEFINE q == Rect(in.X, z, in.W, 2)
    <3>3. q \in Region /\ Within(q, in)
      BY <3>1, <3>2, RectWithin
    <3> HIDE DEF q
    <3>4. Columned(q, b)
      BY <1>2, <3>1, <3>3, WithinTrans, InsideIs
    <3>5. s.hist[1] \in Nat
      <4>1. s.hist \in [1 .. 5 -> Nat]
        BY SnapIs
      <4> QED BY <4>1
    <3>6. Keeps(Spectrum(q, s.hist[1]), b)
      BY <1>2, <3>4, <3>5, SpectrumKeeps
    <3> QED BY <2>1, <3>6 DEF q, z
  <2>2. CASE ~ (in.H >= 7)
    BY <2>2, NoMarks
  <2> QED BY <2>1, <2>2
<1> HIDE DEF A, B, C, D
<1> QED BY <1>1, <1>6, <1>7, <1>8, <1>9, FourKeep

LEMMA DialIs ==
  ASSUME NEW in, NEW s, NEW kvs
  PROVE  /\ Dial(in, s, LAMBDA text, y : kvs) = DialInk(in, s, kvs)
         /\ Dial(in, s, LAMBDA text, y : GPURows(text, y, s)) = DialInk(in, s, GPURows(DialText(in), DialTop(in), s))
<1> DEFINE specH == IF in.H >= 7 THEN 2 ELSE 0
           body  == IF specH > 0 THEN Rect(in.X, in.Y, in.W, in.H - 3) ELSE in
           gw    == ringWidth(body.H, 15)
           round == body.W >= 30 /\ body.H >= 4
           text  == IF round THEN RightOf(body, gw) ELSE body
           y     == IF Named(text) THEN text.Y + 2 ELSE text.Y
           A(q, g) == IF q.W >= 30 /\ q.H >= 4 THEN Ring(Rect(q.X, q.Y, g, q.H), <<4, 4>>) ELSE {}
           B(t) == IF Named(t) THEN Text(t.X, t.Y, s.rate) \cup TextRight(Right(t), t.Y, 8) ELSE {}
           C(t, z, k) == kvRows(Below(t, z), z, k)
           D(h) == Spectrum(Rect(in.X, Bottom(in) - h, in.W, h), s.hist[1])
           foot == IF specH > 0 THEN D(specH) ELSE {}
<1>1. /\ Dial(in, s, LAMBDA t, z : kvs) = A(body, gw) \cup B(text) \cup C(text, y, kvs) \cup foot
      /\ Dial(in, s, LAMBDA t, z : GPURows(t, z, s)) = A(body, gw) \cup B(text) \cup C(text, y, GPURows(text, y, s)) \cup foot
  BY Zenon DEF Dial
<1>2. \A k : DialInk(in, s, k) = A(DialBody(in), ringWidth(DialBody(in).H, 15)) \cup B(DialText(in))
                                 \cup C(DialText(in), DialTop(in), k) \cup (IF in.H >= 7 THEN D(2) ELSE {})
  BY Zenon DEF DialInk
<1> HIDE DEF A, B, C, D
<1>3. (specH > 0) = (in.H >= 7) /\ (in.H >= 7 => specH = 2)
  OBVIOUS
<1>4. body = DialBody(in)
  BY <1>3 DEF DialBody
<1> HIDE DEF body
<1>5. text = DialText(in)
  BY <1>4 DEF DialText
<1> HIDE DEF text
<1>6. y = DialTop(in)
  BY <1>5 DEF DialTop
<1> HIDE DEF y, specH
<1>7. foot = (IF in.H >= 7 THEN D(2) ELSE {})
  BY <1>3
<1> HIDE DEF foot
<1> QED BY <1>1, <1>2, <1>4, <1>5, <1>6, <1>7, Zenon

LEMMA CPUFine ==
  ASSUME NEW r \in Region, r.X >= 0, NEW s \in SnapshotType PROVE Fine(panelCPU(r, s))
<1> DEFINE kvs == <<<<7, 2>>, <<4, s.temp>>, <<4, Val(s.sys, 8)>>, <<5, NA>>>>
           in == Interior(r)
<1>1. panelCPU(r, s) = Plain(r, 15, s.rate, DialInk(in, s, kvs))
  BY DialIs, Zenon DEF panelCPU, Panel, Plain
<1>2. kvs \in Pairs
  <2>1. s.temp \in Nat /\ Val(s.sys, 8) \in Nat /\ NA \in Nat
    BY SnapIs, ValIs DEF NA
  <2> QED BY <2>1 DEF Pairs
<1> HIDE DEF kvs
<1>3. Framed(in, r) => Keeps(DialInk(in, s, kvs), r)
  BY <1>2, DialKeeps
<1>4. s.rate \in Int
  BY SnapIs
<1> QED BY <1>1, <1>3, <1>4, PanelFine

-----------------------------------------------------------------------------
(* A text in a row of a panel's interior, or in one next to it.            *)
LEMMA InRow ==
  ASSUME NEW in, NEW b, Framed(in, b), NEW i \in Int, i >= 1, i <= in.H
  PROVE  /\ in.Y + i - 1 \in Int /\ in.Y + i - 1 >= b.Y /\ in.Y + i - 1 < b.Y + b.H
         /\ in.Y + i - 1 >= in.Y /\ in.Y + i - 1 < Bottom(in)
<1>1. /\ b.Y \in Int /\ b.H \in Nat /\ in.Y \in Int /\ in.H \in Nat /\ in.Y = b.Y + 1 /\ in.Y + in.H + 1 = b.Y + b.H
      /\ Bottom(in) = in.Y + in.H
  BY FramedIs
<1> QED BY <1>1

GPULine(in, s, y) ==
  LET rateAt == Right(in) - 23  barW == rateAt - in.X - 8
  IN  TextIn(in.X, y, 6, 5)
      \cup (IF barW > 4 THEN DrawBar(in.X + 7, y, barW) ELSE {})
      \cup TextRight(rateAt + 10, y, s.rate)
      \cup TextRight(rateAt + 16, y, s.temp)
      \cup TextRight(Right(in), y, s.note)

LEMMA GPULineKeeps ==
  ASSUME NEW in, NEW b, Framed(in, b), NEW s \in SnapshotType, in.W >= 23, NEW y \in Int, y >= b.Y, y < b.Y + b.H
  PROVE  Keeps(GPULine(in, s, y), b)
<1> DEFINE rateAt == Right(in) - 23  barW == rateAt - in.X - 8
           A == TextIn(in.X, y, 6, 5)
           B == IF barW > 4 THEN DrawBar(in.X + 7, y, barW) ELSE {}
           C == TextRight(rateAt + 10, y, s.rate)
           D == TextRight(rateAt + 16, y, s.temp)
           E == TextRight(Right(in), y, s.note)
<1>1. GPULine(in, s, y) = A \cup B \cup C \cup D \cup E
  BY DEF GPULine
<1>2. /\ b \in Region /\ b.X \in Nat /\ b.X >= 0 /\ b.W \in Nat /\ in.X \in Nat /\ in.W \in Nat /\ in.X = b.X + 2
      /\ in.X + in.W + 2 = b.X + b.W /\ Right(in) = in.X + in.W /\ Right(in) \in Nat
  BY FramedIs
<1>3. s.rate \in Nat /\ s.rate <= 12 /\ s.temp \in Nat /\ s.temp <= 6 /\ s.note \in Nat /\ s.note <= 8
  BY SnapIs
<1>4. rateAt \in Int /\ rateAt >= in.X /\ rateAt + 23 = in.X + in.W /\ barW \in Int /\ barW = rateAt - in.X - 8
  BY <1>2
<1> HIDE DEF rateAt, barW
<1>5. Keeps(A, b)
  <2>1. in.X \in Int /\ 6 \in Int /\ 5 \in Int /\ in.X >= b.X /\ in.X + 6 <= b.X + b.W
    BY <1>2
  <2> QED BY <1>2, <2>1, TextInKeeps
<1>6. Keeps(B, b)
  <2>1. in.X + 7 \in Int /\ in.X + 7 >= b.X /\ (in.X + 7) + barW <= b.X + b.W
    BY <1>2, <1>4
  <2>2. Keeps(DrawBar(in.X + 7, y, barW), b)
    BY <1>2, <1>4, <2>1, TextKeeps DEF DrawBar
  <2> QED BY <2>2, NoMarks
<1>7. Keeps(C, b)
  <2>1. rateAt + 10 \in Int /\ (rateAt + 10) - s.rate >= b.X /\ rateAt + 10 <= b.X + b.W
    BY <1>2, <1>3, <1>4
  <2> QED BY <1>2, <1>3, <2>1, TextRightKeeps
<1>8. Keeps(D, b)
  <2>1. rateAt + 16 \in Int /\ (rateAt + 16) - s.temp >= b.X /\ rateAt + 16 <= b.X + b.W
    BY <1>2, <1>3, <1>4
  <2> QED BY <1>2, <1>3, <2>1, TextRightKeeps
<1>9. Keeps(E, b)
  <2>1. Right(in) \in Int /\ Right(in) - s.note >= b.X /\ Right(in) <= b.X + b.W
    BY <1>2, <1>3
  <2> QED BY <1>2, <1>3, <2>1, TextRightKeeps
<1> HIDE DEF A, B, C, D, E
<1> QED BY <1>1, <1>5, <1>6, <1>7, <1>8, <1>9, FourKeep, BothKeep, ZenonT(60)

LEMMA GPUListKeeps ==
  ASSUME NEW in, NEW b, Framed(in, b), NEW s \in SnapshotType, in.W >= 23 PROVE Keeps(GPUList(in, s), b)
<1> DEFINE n == Lesser(s.gpus, in.H)
           T(i) == GPULine(in, s, in.Y + i - 1)
           A == UNION {T(i) : i \in 1 .. n}
           B == IF s.gpus > in.H THEN TextRight(Right(in), Bottom(in) - 1, 7) ELSE {}
           C == IF n + 1 < in.H THEN Row(in, Bottom(in) - 1, 5, s.rate) ELSE {}
           D == Mark(in.X - 1, in.Y, 1, n)
<1>1. GPUList(in, s) = D \cup A \cup B \cup C
  BY Zenon DEF GPUList, GPULine
<1>2. /\ b \in Region /\ b.X \in Nat /\ b.X >= 0 /\ b.Y \in Int /\ b.W \in Nat /\ b.H \in Nat
      /\ in.X \in Nat /\ in.Y \in Int /\ in.W \in Nat /\ in.H \in Nat /\ in.X = b.X + 2 /\ in.Y = b.Y + 1 /\ in.H >= 1
      /\ in.X + in.W + 2 = b.X + b.W /\ in.Y + in.H + 1 = b.Y + b.H /\ Right(in) = in.X + in.W
      /\ Bottom(in) = in.Y + in.H /\ Columned(in, b)
  BY FramedIs
<1>3. n \in Int /\ n <= in.H /\ s.gpus \in Nat /\ s.rate \in Nat
  <2>1. s.gpus \in Nat /\ s.rate \in Nat
    BY SnapIs
  <2> QED BY <1>2, <2>1 DEF Lesser
<1> HIDE DEF n
<1>4. Keeps(A, b)
  <2>1. ASSUME NEW i \in 1 .. n PROVE Keeps(T(i), b)
    <3>1. i \in Int /\ i >= 1 /\ i <= in.H
      BY <1>2, <1>3
    <3>2. in.Y + i - 1 \in Int /\ in.Y + i - 1 >= b.Y /\ in.Y + i - 1 < b.Y + b.H
      BY <3>1, InRow
    <3> QED BY <3>2, GPULineKeeps
  <2> HIDE DEF T
  <2> QED BY <2>1 DEF Keeps
<1>5. Keeps(B, b)
  <2>1. /\ Right(in) \in Int /\ Bottom(in) - 1 \in Int /\ 7 \in Nat /\ Right(in) - 7 >= b.X /\ Right(in) <= b.X + b.W
        /\ Bottom(in) - 1 >= b.Y /\ Bottom(in) - 1 < b.Y + b.H
    BY <1>2
  <2>2. Keeps(TextRight(Right(in), Bottom(in) - 1, 7), b)
    BY <1>2, <2>1, TextRightKeeps
  <2> QED BY <2>2, NoMarks
<1>6. Keeps(C, b)
  <2>1. Bottom(in) - 1 \in Int /\ 5 \in Nat
    BY <1>2
  <2>2. Keeps(Row(in, Bottom(in) - 1, 5, s.rate), b)
    BY <1>2, <1>3, <2>1, RowKeeps
  <2> QED BY <2>2, NoMarks
<1>7. Keeps(D, b)
  <2>1. in.X - 1 \in Int /\ in.X - 1 >= b.X /\ (in.X - 1) + 1 <= b.X + b.W /\ in.Y >= b.Y /\ in.Y + n <= b.Y + b.H
    BY <1>2, <1>3
  <2>2. 1 \in Int
    OBVIOUS
  <2> QED BY <1>2, <1>3, <2>1, <2>2, MarkKeeps
<1> HIDE DEF A, B, C, D
<1> QED BY <1>1, <1>4, <1>5, <1>6, <1>7, FourKeep

LEMMA NoGPUKeeps == ASSUME NEW in, NEW b, Framed(in, b) PROVE Keeps(NoGPU(in), b)
<1> DEFINE d == in.H \div 2
           A == TextCenter(in.X, in.Y + d - 1, in.W, 13)
           B == TextCenter(in.X, in.Y + d + 1, in.W, 20)
<1>1. NoGPU(in) = A \cup (IF in.H >= 4 THEN B ELSE {})
  BY DEF NoGPU
<1>2. /\ b \in Region /\ b.X \in Nat /\ b.X >= 0 /\ b.Y \in Int /\ b.W \in Nat /\ b.H \in Nat
      /\ in.X \in Nat /\ in.Y \in Int /\ in.W \in Nat /\ in.H \in Nat /\ in.X = b.X + 2 /\ in.Y = b.Y + 1 /\ in.H >= 1
      /\ in.X + in.W + 2 = b.X + b.W /\ in.Y + in.H + 1 = b.Y + b.H
  BY FramedIs
<1>3. d \in Nat /\ d <= in.H /\ (in.H >= 4 => d + 1 < in.H)
  BY <1>2
<1> HIDE DEF d
<1>4. /\ in.X \in Int /\ in.X >= b.X /\ in.X + in.W <= b.X + b.W
      /\ in.Y + d - 1 \in Int /\ in.Y + d - 1 >= b.Y /\ in.Y + d - 1 < b.Y + b.H
      /\ in.Y + d + 1 \in Int /\ in.Y + d + 1 >= b.Y /\ (in.H >= 4 => in.Y + d + 1 < b.Y + b.H)
      /\ 13 \in Int /\ 20 \in Int
  BY <1>2, <1>3
<1>5. Keeps(A, b)
  BY <1>2, <1>4, CentredKeeps
<1>6. in.H >= 4 => Keeps(B, b)
  BY <1>2, <1>4, CentredKeeps
<1> HIDE DEF A, B
<1> QED BY <1>1, <1>5, <1>6, NoMarks, BothKeep

LEMMA GPUFine ==
  ASSUME NEW r \in Region, r.X >= 0, r.W >= 27, NEW s \in SnapshotType PROVE Fine(panelGPU(r, s))
<1> DEFINE in == Interior(r)
           right == IF s.gpus > 1 THEN 12 + s.rate + s.detail ELSE s.rate
           kvs == GPURows(DialText(in), DialTop(in), s)
           ink == IF s.gpus = 0 THEN NoGPU(in) ELSE IF s.gpus > 1 THEN GPUList(in, s) ELSE DialInk(in, s, kvs)
<1>1. panelGPU(r, s) = Plain(r, 15, right, ink)
  <2>1. Dial(in, s, LAMBDA text, y : GPURows(text, y, s)) = DialInk(in, s, kvs)
    BY DialIs
  <2> QED BY <2>1, Zenon DEF panelGPU, Panel, Plain
<1>2. s.gpus \in Nat /\ s.rate \in Nat /\ s.detail \in Nat /\ s.temp \in Nat
  BY SnapIs
<1>3. kvs \in Pairs
  <2> DEFINE u == <<<<4, s.temp>>, <<4, Val(s.sensed, 13)>>, <<5, Val(s.sensed, 8)>>, <<5, Val(s.sensed, 5)>>>>
             c == s.sensed /\ DialText(in).W >= 30 /\ Bottom(DialText(in)) - DialTop(in) > 4
             v == IF c THEN <<<<6, 24>>>> ELSE <<>>
  <2>1. kvs = u \o v
    BY DEF GPURows
  <2>2. Val(s.sensed, 13) \in Nat /\ Val(s.sensed, 8) \in Nat /\ Val(s.sensed, 5) \in Nat
    BY ValIs
  <2>3. u \in Seq(Nat \X Nat)
    BY <1>2, <2>2
  <2>4. v \in Seq(Nat \X Nat)
    <3>1. <<<<6, 24>>>> \in Seq(Nat \X Nat) /\ <<>> \in Seq(Nat \X Nat)
      OBVIOUS
    <3> HIDE DEF c
    <3> QED BY <3>1
  <2> HIDE DEF u, v, kvs
  <2>5. u \o v \in Seq(Nat \X Nat)
    BY <2>3, <2>4
  <2> QED BY <2>1, <2>5 DEF Pairs
<1> HIDE DEF kvs
<1>4. ASSUME Framed(in, r), in.W = r.W - 4 PROVE Keeps(ink, r)
  <2>1. in.W >= 23
    <3>1. r.W \in Int
      BY RegionIs
    <3> HIDE DEF in
    <3> QED BY <1>4, <3>1
  <2> HIDE DEF in
  <2>2. Keeps(NoGPU(in), r) /\ Keeps(GPUList(in, s), r) /\ Keeps(DialInk(in, s, kvs), r)
    BY <1>3, <1>4, <2>1, NoGPUKeeps, GPUListKeeps, DialKeeps
  <2> QED BY <2>2
<1>5. right \in Int
  BY <1>2
<1> HIDE DEF ink, right
<1>6. Fine(Plain(r, 15, right, ink))
  BY <1>4, <1>5, PanelFine
<1> QED BY <1>1, <1>6

-----------------------------------------------------------------------------
(* The cells of a grid.                                                    *)
LEMMA AllOnes == ASSUME NEW k \in Nat \ {0} PROVE Before([j \in 1 .. k |-> 1], k + 1) > 0
<1> DEFINE o == [j \in 1 .. k |-> 1]
<1>1. o[1] = 1 /\ Nats(o, k)
  BY DEF Nats
<1> HIDE DEF o
<1>2. Before(o, 1) = 0 /\ Before(o, 1 + 1) = Before(o, 1) + o[1]
  BY BeforeFirst, BeforeStep
<1>3. 2 \in 1 .. k + 1 /\ k + 1 \in 2 .. k + 1 /\ 1 + 1 = 2
  OBVIOUS
<1>4. Before(o, 2) <= Before(o, k + 1) /\ Before(o, 2) = 1
  BY <1>1, <1>2, <1>3, BeforeGrows
<1>5. Ints(o, k) /\ k + 1 \in 1 .. k + 1
  BY <1>1 DEF Ints, Nats
<1>6. Before(o, k + 1) \in Int
  BY <1>5, BeforeInt
<1> QED BY <1>4, <1>6 DEF o

GridRow(q, n, h, i)        == Rows(q, [x \in 1 .. n |-> h])[i]
GridCell(q, n, k, h, i, j) == Cols(GridRow(q, n, h, i), [x \in 1 .. k |-> 1])[j]

LEMMA GridIs ==
  ASSUME NEW q \in Region, NEW n \in Nat \ {0}, NEW k \in Nat \ {0}, NEW h \in Int, NEW i \in 1 .. n, NEW j \in 1 .. k
  PROVE  /\ GridRow(q, n, h, i) \in Region /\ Within(GridRow(q, n, h, i), q)
         /\ GridCell(q, n, k, h, i, j) \in Region /\ Within(GridCell(q, n, k, h, i, j), q)
<1> DEFINE hs == [x \in 1 .. n |-> h]  ones == [x \in 1 .. k |-> 1]
           strips == Rows(q, hs)  cell == Cols(strips[i], ones)[j]
<1>1. DOMAIN hs = 1 .. n /\ Len(hs) = n /\ Ints(hs, n) /\ n \in Nat
  BY DEF Ints
<1> HIDE DEF hs
<1>2. Down(strips, n, q)
  BY <1>1, RowsIs
<1> HIDE DEF strips
<1>3. strips[i] \in Region /\ Within(strips[i], q)
  BY <1>1, <1>2, DownApart
<1>4. DOMAIN ones = 1 .. k /\ Len(ones) = k /\ Nats(ones, k)
  BY DEF Nats
<1>5. Before(ones, k + 1) > 0
  BY AllOnes
<1> HIDE DEF ones
<1>6. Across(Cols(strips[i], ones), k, strips[i])
  BY <1>3, <1>4, <1>5, ColsIs
<1>7. k \in Nat
  OBVIOUS
<1>8. cell \in Region /\ Within(cell, strips[i])
  BY <1>3, <1>6, <1>7, AcrossApart
<1>9. GridRow(q, n, h, i) = strips[i] /\ GridCell(q, n, k, h, i, j) = cell
  BY DEF GridRow, GridCell, cell, strips, ones, hs
<1> HIDE DEF cell
<1> QED BY <1>3, <1>8, <1>9, WithinTrans

-----------------------------------------------------------------------------
(* The system's tiles.                                                     *)
LEMMA TempKeeps ==
  ASSUME NEW q \in Region, NEW b \in Region, Within(q, b), NEW s \in SnapshotType PROVE Keeps(tileTemp(q, s), b)
<1> DEFINE d == (q.W - 4) \div 2
           h == q.H - 2
           gauge == Thermometer(q.X + d, q.Y + 1, h)
<1>1. /\ q.X \in Int /\ q.Y \in Int /\ q.W \in Nat /\ q.H \in Nat
      /\ b.X \in Int /\ b.Y \in Int /\ b.W \in Nat /\ b.H \in Nat
      /\ q.X >= b.X /\ q.Y >= b.Y /\ q.X + q.W <= b.X + b.W /\ q.Y + q.H <= b.Y + b.H
  BY InsideIs
<1>2. tileTemp(q, s) = Tile(q, 8, Clip(s.temp, 4), h >= 4, gauge, s.sensed)
  BY Zenon DEF tileTemp
<1>3. ASSUME q.W >= 6 /\ q.H >= 2 /\ h >= 4 PROVE Keeps(gauge, b)
  <2>1. d \in Nat /\ d + 4 <= q.W
    BY <1>1, <1>3, MiddleIs
  <2> HIDE DEF d
  <2>2. h \in Int /\ h >= 4 /\ Greater(h, 4) = h /\ h + 2 = q.H
    BY <1>1, <1>3 DEF Greater
  <2> HIDE DEF h
  <2>3. /\ q.X + d \in Int /\ q.X + d >= b.X /\ (q.X + d) + 4 <= b.X + b.W
        /\ q.Y + 1 \in Int /\ q.Y + 1 >= b.Y /\ (q.Y + 1) + h <= b.Y + b.H /\ 4 \in Int
    BY <1>1, <2>1, <2>2
  <2> QED BY <2>2, <2>3, MarkKeeps DEF Thermometer
<1>4. 8 \in Int /\ Clip(s.temp, 4) \in Int
  <2>1. s.temp \in Int /\ 4 \in Nat
    BY SnapIs
  <2> QED BY <2>1, ClipIs
<1> HIDE DEF gauge, h
<1>5. Keeps(Tile(q, 8, Clip(s.temp, 4), h >= 4, gauge, s.sensed), b)
  BY <1>3, <1>4, TileKeeps
<1> QED BY <1>2, <1>5

LEMMA LoadKeeps ==
  ASSUME NEW q \in Region, NEW b \in Region, Within(q, b), NEW s \in SnapshotType PROVE Keeps(tileLoad(q, s), b)
<1> DEFINE h == q.H - 2
           w == Lesser(2 * h, q.W - 2)
           d == (q.W - w) \div 2
           ring == Rect(q.X + d, q.Y + 1, w, h)
           gauge == Ring(ring, <<>>)
           high == h >= 3 /\ w >= 5
<1>1. /\ q.X \in Int /\ q.Y \in Int /\ q.W \in Nat /\ q.H \in Nat
      /\ b.X \in Int /\ b.Y \in Int /\ b.W \in Nat /\ b.H \in Nat
      /\ q.X >= b.X /\ q.Y >= b.Y /\ q.X + q.W <= b.X + b.W /\ q.Y + q.H <= b.Y + b.H
  BY InsideIs
<1>2. tileLoad(q, s) = Tile(q, 8, Val(s.sys, 4), high, gauge, s.sys)
  BY Zenon DEF tileLoad
<1>3. ASSUME q.W >= 6 /\ q.H >= 2 /\ high PROVE Keeps(gauge, b)
  <2>1. h \in Nat /\ h + 2 = q.H
    BY <1>1, <1>3
  <2> HIDE DEF h
  <2>2. w \in Nat /\ w <= q.W
    BY <1>1, <1>3, <2>1 DEF Lesser
  <2> HIDE DEF w
  <2>3. d \in Nat /\ d + w <= q.W
    BY <1>1, <2>2, MiddleIs
  <2> HIDE DEF d
  <2>4. /\ q.X + d \in Int /\ q.X + d >= b.X /\ (q.X + d) + w <= b.X + b.W
        /\ q.Y + 1 \in Int /\ q.Y + 1 >= b.Y /\ (q.Y + 1) + h <= b.Y + b.H
    BY <1>1, <2>1, <2>2, <2>3
  <2>5. ring \in Region /\ Within(ring, b)
    BY <2>1, <2>2, <2>4, RectWithin
  <2>6. <<>> \in Seq(Int) /\ Len(<<>>) <= 3
    OBVIOUS
  <2> HIDE DEF ring
  <2> QED BY <2>5, <2>6, RingKeeps
<1>4. 8 \in Int /\ Val(s.sys, 4) \in Int
  BY ValIs
<1> HIDE DEF gauge, high
<1>5. Keeps(Tile(q, 8, Val(s.sys, 4), high, gauge, s.sys), b)
  BY <1>3, <1>4, TileKeeps
<1> QED BY <1>2, <1>5

LEMMA MemoryKeeps ==
  ASSUME NEW q \in Region, NEW b \in Region, Within(q, b), NEW s \in SnapshotType PROVE Keeps(tileMemory(q, s), b)
<1> DEFINE h == q.H - 2
           w == Lesser(6, q.W - 2)
           d == (q.W - w) \div 2
           gauge == Tank(q.X + d, q.Y + 1, w, h)
           high == h >= 3 /\ w >= 3
<1>1. /\ q.X \in Int /\ q.Y \in Int /\ q.W \in Nat /\ q.H \in Nat
      /\ b.X \in Int /\ b.Y \in Int /\ b.W \in Nat /\ b.H \in Nat
      /\ q.X >= b.X /\ q.Y >= b.Y /\ q.X + q.W <= b.X + b.W /\ q.Y + q.H <= b.Y + b.H
  BY InsideIs
<1>2. tileMemory(q, s) = Tile(q, 6, Val(s.sys, 9), high, gauge, s.sys)
  BY Zenon DEF tileMemory
<1>3. ASSUME q.W >= 6 /\ q.H >= 2 /\ high PROVE Keeps(gauge, b)
  <2>1. h \in Int /\ h + 2 = q.H
    BY <1>1, <1>3
  <2> HIDE DEF h
  <2>2. w \in Int /\ w <= q.W
    BY <1>1, <1>3, <2>1 DEF Lesser
  <2> HIDE DEF w
  <2>3. d \in Nat /\ d + w <= q.W
    BY <1>1, <2>2, MiddleIs
  <2> HIDE DEF d
  <2>4. /\ q.X + d \in Int /\ q.X + d >= b.X /\ (q.X + d) + w <= b.X + b.W
        /\ q.Y + 1 \in Int /\ q.Y + 1 >= b.Y /\ (q.Y + 1) + h <= b.Y + b.H
    BY <1>1, <2>1, <2>2, <2>3
  <2>5. Keeps(Mark(q.X + d, q.Y + 1, w, h), b)
    BY <2>1, <2>2, <2>4, MarkKeeps
  <2> QED BY <2>5, NoMarks DEF Tank
<1>4. 6 \in Int /\ Val(s.sys, 9) \in Int
  BY ValIs
<1> HIDE DEF gauge, high
<1>5. Keeps(Tile(q, 6, Val(s.sys, 9), high, gauge, s.sys), b)
  BY <1>3, <1>4, TileKeeps
<1> QED BY <1>2, <1>5

Tiled(in, s, cols, n) ==
  LET strips == Rows(in, [i \in 1 .. n |-> in.H \div n])
      cell(i) == Cols(strips[((i - 1) \div cols) + 1], [j \in 1 .. cols |-> 1])[((i - 1) % cols) + 1]
      tile(i) == CASE i <= 2 -> tileTemp(cell(i), s) [] i = 3 -> tileLoad(cell(i), s)
                   [] i = 4 -> tileMemory(cell(i), s)
  IN  UNION {IF strips[((i - 1) \div cols) + 1].H < 3 THEN {} ELSE tile(i) : i \in 1 .. 4}

LEMMA TilesKeep ==
  ASSUME NEW in, NEW b, Framed(in, b), NEW s \in SnapshotType, NEW cols \in {2, 4}, NEW n \in {1, 2}, cols * n = 4
  PROVE  Keeps(Tiled(in, s, cols, n), b)
<1> DEFINE h == in.H \div n
           row(i) == ((i - 1) \div cols) + 1
           col(i) == ((i - 1) % cols) + 1
           cell(i) == GridCell(in, n, cols, h, row(i), col(i))
           tile(i) == CASE i <= 2 -> tileTemp(cell(i), s) [] i = 3 -> tileLoad(cell(i), s)
                        [] i = 4 -> tileMemory(cell(i), s)
           T(i) == IF GridRow(in, n, h, row(i)).H < 3 THEN {} ELSE tile(i)
<1>0. Tiled(in, s, cols, n) = UNION {T(i) : i \in 1 .. 4}
  BY Zenon DEF Tiled, GridRow, GridCell
<1>1. in \in Region /\ Within(in, b) /\ b \in Region
  BY FramedIs
<1>2. h \in Int
  <2>1. in.H \in Nat
    BY FramedIs
  <2> QED BY <2>1
<1> HIDE DEF h
<1>3. ASSUME NEW i \in 1 .. 4 PROVE row(i) \in 1 .. n /\ col(i) \in 1 .. cols
  <2>1. i = 1 \/ i = 2 \/ i = 3 \/ i = 4
    OBVIOUS
  <2>2. (cols = 4 /\ n = 1) \/ (cols = 2 /\ n = 2)
    OBVIOUS
  <2> QED BY <2>1, <2>2
<1> HIDE DEF row, col
<1>4. ASSUME NEW i \in 1 .. 4 PROVE Keeps(T(i), b)
  <2>1. n \in Nat \ {0} /\ cols \in Nat \ {0}
    OBVIOUS
  <2>2. row(i) \in 1 .. n /\ col(i) \in 1 .. cols
    BY <1>3
  <2>3. cell(i) \in Region /\ Within(cell(i), b)
    <3>1. cell(i) \in Region /\ Within(cell(i), in)
      BY <1>1, <1>2, <2>1, <2>2, GridIs
    <3> QED BY <1>1, <3>1, WithinTrans
  <2> HIDE DEF cell
  <2>4. Keeps(tileTemp(cell(i), s), b) /\ Keeps(tileLoad(cell(i), s), b) /\ Keeps(tileMemory(cell(i), s), b)
    BY <1>1, <2>3, TempKeeps, LoadKeeps, MemoryKeeps
  <2>5. (i <= 2 \/ i = 3 \/ i = 4) /\ ~ (i <= 2 /\ i = 3) /\ ~ (i <= 2 /\ i = 4)
    OBVIOUS
  <2>6. tile(i) \in {tileTemp(cell(i), s), tileLoad(cell(i), s), tileMemory(cell(i), s)}
    BY <2>5
  <2>7. Keeps(tile(i), b)
    BY <2>4, <2>6
  <2> HIDE DEF tile
  <2> QED BY <2>7, NoMarks
<1> HIDE DEF T
<1>5. Keeps(UNION {T(i) : i \in 1 .. 4}, b)
  BY <1>4 DEF Keeps
<1> QED BY <1>0, <1>5

LEMMA SystemFine ==
  ASSUME NEW r \in Region, r.X >= 0, NEW s \in SnapshotType PROVE Fine(panelSystem(r, s))
<1> DEFINE in == Interior(r)
           ink == SystemInk(in, s)
           kvs == <<<<8, Clip(s.temp, 4)>>, <<8, Clip(s.temp, 4)>>, <<8, Val(s.sys, 4)>>, <<6, Val(s.sys, 14)>>>>
<1>1. panelSystem(r, s) = Plain(r, 15, 0, ink)
  BY DEF panelSystem, Panel, Plain
<1>2. kvs \in Pairs
  <2>1. s.temp \in Int /\ 4 \in Nat
    BY SnapIs
  <2>2. Clip(s.temp, 4) \in Nat /\ Val(s.sys, 4) \in Nat /\ Val(s.sys, 14) \in Nat
    BY <2>1, ClipIs, ValIs
  <2> QED BY <2>2 DEF Pairs
<1> HIDE DEF in
<1>3. ASSUME Framed(in, r) PROVE Keeps(ink, r)
  <2> DEFINE cols == IF in.W >= 36 /\ in.H >= 4 THEN 4 ELSE IF in.W >= 20 /\ in.H >= 6 THEN 2 ELSE 0
  <2>1. ink = IF cols = 0 THEN kvRows(in, in.Y, kvs) ELSE Tiled(in, s, cols, 4 \div cols)
    BY Zenon DEF SystemInk, Tiled
  <2>2. cols = 4 \/ cols = 2 \/ cols = 0
    OBVIOUS
  <2> HIDE DEF cols
  <2>3. 4 \div 4 = 1 /\ 4 \div 2 = 2 /\ 4 # 0 /\ 2 # 0 /\ 4 * 1 = 4 /\ 2 * 2 = 4
    OBVIOUS
  <2>4. Keeps(Tiled(in, s, 4, 1), r) /\ Keeps(Tiled(in, s, 2, 2), r)
    <3>1. 4 \in {2, 4} /\ 2 \in {2, 4} /\ 1 \in {1, 2} /\ 2 \in {1, 2}
      OBVIOUS
    <3> QED BY <1>3, <2>3, <3>1, TilesKeep, Zenon
  <2>5. Keeps(kvRows(in, in.Y, kvs), r)
    BY <1>2, <1>3, KvKeeps
  <2> HIDE DEF kvs, ink
  <2>6. CASE cols = 4
    <3>1. ink = Tiled(in, s, 4, 1)
      BY <2>1, <2>3, <2>6
    <3> QED BY <2>4, <3>1
  <2>7. CASE cols = 2
    <3>1. ink = Tiled(in, s, 2, 2)
      BY <2>1, <2>3, <2>7
    <3> QED BY <2>4, <3>1
  <2>8. CASE cols = 0
    BY <2>1, <2>5, <2>8
  <2> QED BY <2>2, <2>6, <2>7, <2>8
<1> HIDE DEF ink
<1>4. Fine(Plain(r, 15, 0, ink))
  BY <1>3, PanelFine DEF in
<1> QED BY <1>1, <1>4

-----------------------------------------------------------------------------
(* Columns get their share of the width.                                   *)
LEMMA ColsRoom ==
  ASSUME NEW r \in Region, NEW n \in Nat \ {0}, NEW wt, DOMAIN wt = 1 .. n, Len(wt) = n, Nats(wt, n),
         Before(wt, n + 1) > 0, NEW i \in 1 .. n
  PROVE  Cols(r, wt)[i].W >= (r.W * wt[i]) \div Before(wt, n + 1)
<1> DEFINE g == Before(wt, n + 1)
           s == [j \in 1 .. n |-> (r.W * wt[j]) \div g]
           c == Spread(r.W, s)
<1>0. Ints(wt, n) /\ n \in Nat /\ n + 1 \in 1 .. n + 1 /\ r.W \in Nat
  BY DEF Ints, Nats, Region
<1>1. g \in Nat \ {0} /\ Total(wt) = g
  <2>1. g \in Int
    BY <1>0, BeforeInt
  <2> QED BY <2>1 DEF Total
<1>2. Cols(r, wt) = SideBySide(r, c)
  BY <1>1 DEF Cols
<1>3. Len(s) = n /\ \A j \in 1 .. n : s[j] = (r.W * wt[j]) \div g
  OBVIOUS
<1> HIDE DEF s, g
<1>4. Nats(s, n) /\ Before(s, n + 1) <= r.W
  BY <1>0, <1>1, <1>3, SharesFit DEF g
<1>5. Total(s) <= r.W
  BY <1>3, <1>4 DEF Total
<1>6. DOMAIN c = 1 .. n /\ Nats(c, n) /\ Before(c, n + 1) = r.W /\ c[i] >= s[i]
  BY <1>0, <1>3, <1>4, <1>5, SpreadIs
<1> HIDE DEF c
<1>7. SideBySide(r, c)[i].W = c[i]
  BY <1>0, <1>6, SideBySideIs
<1> QED BY <1>2, <1>3, <1>6, <1>7 DEF g

LEMMA TwoWide ==
  ASSUME NEW r \in Region, NEW v \in Nat \ {0}, NEW w \in Nat \ {0}
  PROVE  /\ Cols(r, <<v, w>>)[1].W >= (r.W * v) \div (v + w)
         /\ Cols(r, <<v, w>>)[2].W >= (r.W * w) \div (v + w)
<1> DEFINE wt == <<v, w>>
<1>1. DOMAIN wt = 1 .. 2 /\ Len(wt) = 2 /\ wt[1] = v /\ wt[2] = w
  OBVIOUS
<1> HIDE DEF wt
<1>2. Nats(wt, 2)
  <2>1. \A i \in 1 .. 2 : i = 1 \/ i = 2
    OBVIOUS
  <2> QED BY <1>1, <2>1 DEF Nats
<1>3. Before(wt, 1) = 0 /\ Before(wt, 1 + 1) = Before(wt, 1) + wt[1] /\ Before(wt, 2 + 1) = Before(wt, 2) + wt[2]
  BY BeforeFirst, BeforeStep
<1>4. Before(wt, 2 + 1) = v + w /\ Before(wt, 2 + 1) > 0
  BY <1>1, <1>3
<1>5. 2 \in Nat \ {0} /\ 1 \in 1 .. 2 /\ 2 \in 1 .. 2
  OBVIOUS
<1>6. /\ Cols(r, wt)[1].W >= (r.W * wt[1]) \div Before(wt, 2 + 1)
      /\ Cols(r, wt)[2].W >= (r.W * wt[2]) \div Before(wt, 2 + 1)
  BY <1>1, <1>2, <1>4, <1>5, ColsRoom
<1> QED BY <1>1, <1>4, <1>6 DEF wt

LEMMA ThreeWide ==
  ASSUME NEW r \in Region, NEW u \in Nat \ {0}, NEW v \in Nat \ {0}, NEW w \in Nat \ {0}
  PROVE  /\ Cols(r, <<u, v, w>>)[1].W >= (r.W * u) \div (u + v + w)
         /\ Cols(r, <<u, v, w>>)[2].W >= (r.W * v) \div (u + v + w)
         /\ Cols(r, <<u, v, w>>)[3].W >= (r.W * w) \div (u + v + w)
<1> DEFINE wt == <<u, v, w>>
<1>1. DOMAIN wt = 1 .. 3 /\ Len(wt) = 3 /\ wt[1] = u /\ wt[2] = v /\ wt[3] = w
  OBVIOUS
<1> HIDE DEF wt
<1>2. Nats(wt, 3)
  <2>1. \A i \in 1 .. 3 : i = 1 \/ i = 2 \/ i = 3
    OBVIOUS
  <2> QED BY <1>1, <2>1 DEF Nats
<1>3. Before(wt, 1) = 0 /\ Before(wt, 1 + 1) = Before(wt, 1) + wt[1] /\ Before(wt, 2 + 1) = Before(wt, 2) + wt[2]
      /\ Before(wt, 3 + 1) = Before(wt, 3) + wt[3]
  BY BeforeFirst, BeforeStep
<1>4. Before(wt, 3 + 1) = u + v + w /\ Before(wt, 3 + 1) > 0
  BY <1>1, <1>3
<1>5. 3 \in Nat \ {0} /\ 1 \in 1 .. 3 /\ 2 \in 1 .. 3 /\ 3 \in 1 .. 3
  OBVIOUS
<1>6. /\ Cols(r, wt)[1].W >= (r.W * wt[1]) \div Before(wt, 3 + 1)
      /\ Cols(r, wt)[2].W >= (r.W * wt[2]) \div Before(wt, 3 + 1)
      /\ Cols(r, wt)[3].W >= (r.W * wt[3]) \div Before(wt, 3 + 1)
  BY <1>1, <1>2, <1>4, <1>5, ColsRoom
<1> QED BY <1>1, <1>4, <1>6 DEF wt

(* Two columns of what may have no rows left.                              *)
LEMMA HalvesAre ==
  ASSUME NEW q, NEW b \in Region, Columned(q, b)
  PROVE  LET half == Cols(q, <<1, 1>>)
         IN  Columned(half[1], b) /\ Columned(half[2], b) /\ half[2].W >= q.W \div 2
             /\ half[1].Y = q.Y /\ half[2].Y = q.Y
<1> DEFINE flat == Rect(q.X, q.Y, q.W, 0)
           wt == <<1, 1>>
           w(k) == Spread(k, [i \in DOMAIN wt |-> (k * wt[i]) \div Total(wt)])
           c == w(q.W)
<1>1. q.X \in Int /\ q.Y \in Int /\ q.W \in Nat /\ q.H \in Int
      /\ q.X >= b.X /\ q.X + q.W <= b.X + b.W /\ q.Y >= b.Y /\ q.Y + q.H <= b.Y + b.H
  BY DEF Columned
<1>2. flat \in Region /\ flat.X = q.X /\ flat.Y = q.Y /\ flat.W = q.W
  BY <1>1, RectIs
<1> HIDE DEF flat
<1>3. Cols(q, wt) = SideBySide(q, c) /\ Cols(flat, wt) = SideBySide(flat, c)
  BY <1>2 DEF Cols
<1>4. DOMAIN c = 1 .. 2
  <2>1. Len([i \in DOMAIN wt |-> (q.W * wt[i]) \div Total(wt)]) = 2
    OBVIOUS
  <2> QED BY <2>1 DEF Spread
<1> HIDE DEF w, c
<1>5. 1 \in Nat \ {0} /\ 1 \in 1 .. 2 /\ 2 \in 1 .. 2
  OBVIOUS
<1>6. Across(Cols(flat, wt), 2, flat)
  BY <1>2, <1>5, ColsOfTwo
<1>7. Cols(flat, wt)[2].W >= (q.W * 1) \div (1 + 1)
  BY <1>2, <1>5, TwoWide
<1>8. ASSUME NEW i \in 1 .. 2
      PROVE  /\ Cols(q, wt)[i].X = Cols(flat, wt)[i].X /\ Cols(q, wt)[i].W = Cols(flat, wt)[i].W
             /\ Cols(q, wt)[i].Y = q.Y /\ Cols(q, wt)[i].H = q.H
  BY <1>2, <1>3, <1>4, RectIs DEF SideBySide
<1> HIDE DEF wt
<1>9. ASSUME NEW i \in 1 .. 2 PROVE Columned(Cols(q, wt)[i], b)
  <2> DEFINE f == Cols(flat, wt)[i]  h == Cols(q, wt)[i]
  <2>1. f \in Region /\ f.X >= flat.X /\ Right(f) <= Right(flat)
    BY <1>6 DEF Across
  <2>2. h.X = f.X /\ h.W = f.W /\ h.Y = q.Y /\ h.H = q.H
    BY <1>8
  <2> HIDE DEF f, h
  <2>3. f.X \in Int /\ f.W \in Nat /\ f.X >= q.X /\ f.X + f.W <= q.X + q.W
    BY <1>2, <2>1, RegionIs DEF Right
  <2>4. b.X \in Int /\ b.W \in Nat
    BY RegionIs
  <2>5. f.X >= b.X /\ f.X + f.W <= b.X + b.W
    BY <1>1, <2>3, <2>4
  <2>6. Columned(h, b)
    BY <1>1, <2>2, <2>3, <2>5 DEF Columned
  <2> QED BY <2>6 DEF h
<1>10. q.W * 1 = q.W /\ 1 + 1 = 2
  BY <1>1
<1> QED BY <1>5, <1>7, <1>8, <1>9, <1>10 DEF wt

-----------------------------------------------------------------------------
(* The mining panel.                                                       *)
LEMMA SourcesAre == ASSUME NEW s PROVE nSources(s) \in {1, 2}
  BY DEF nSources

LEMMA HeadlineKeeps ==
  ASSUME NEW in, NEW b, Framed(in, b), NEW s \in SnapshotType, in.W >= 30, in.H >= 5 PROVE Keeps(Headline(in, s), b)
<1> DEFINE lw == s.label + 2
           w  == Greater(in.W - s.big - lw - 3, 8)
           sw == IF w > in.W - 2 THEN 12 ELSE w
           A == BigText(in.X, in.Y, s.big)
           B == Text(in.X + s.big + 2, in.Y + 2, s.unit)
           C1 == Text(Right(in) - lw, in.Y, 1)
           C2 == Text(Right(in) - lw + 2, in.Y, s.label)
           C3 == Text(Right(in) - sw, in.Y + 2, sw)
           C == IF in.W > s.big + lw + 8 THEN C1 \cup C2 \cup (IF in.H >= 6 THEN C3 ELSE {}) ELSE {}
           D == Text(in.X, in.Y + 3, 14)
<1>1. Headline(in, s) = A \cup B \cup C \cup D
  BY DEF Headline
<1>2. /\ b \in Region /\ b.X \in Nat /\ b.Y \in Int /\ b.W \in Nat /\ b.H \in Nat
      /\ in.X \in Nat /\ in.Y \in Int /\ in.W \in Nat /\ in.H \in Nat /\ in.X = b.X + 2 /\ in.Y = b.Y + 1
      /\ in.X + in.W + 2 = b.X + b.W /\ in.Y + in.H + 1 = b.Y + b.H /\ Right(in) = in.X + in.W
  BY FramedIs
<1>3. s.big \in Nat /\ s.big <= 25 /\ s.unit \in Nat /\ s.unit <= 4 /\ s.label \in Nat /\ s.label <= 12
  BY SnapIs
<1>4. lw \in Nat /\ lw = s.label + 2 /\ lw <= 14
  BY <1>3
<1> HIDE DEF lw
<1>5. w \in Int /\ w >= 8
  BY <1>2, <1>3, <1>4 DEF Greater
<1> HIDE DEF w
<1>6. sw \in Int /\ sw >= 0 /\ sw <= in.W
  BY <1>2, <1>5
<1> HIDE DEF sw
<1>7. Keeps(A, b)
  <2>1. in.X \in Int /\ s.big \in Int /\ 3 \in Int /\ in.X >= b.X /\ in.Y >= b.Y /\ in.X + s.big <= b.X + b.W /\ in.Y + 3 <= b.Y + b.H
    BY <1>2, <1>3
  <2> QED BY <1>2, <2>1, MarkKeeps DEF BigText
<1>8. Keeps(B, b)
  <2> DEFINE x == in.X + s.big + 2
  <2>1. /\ x \in Int /\ in.Y + 2 \in Int /\ s.unit \in Int /\ x >= b.X /\ x + s.unit <= b.X + b.W
        /\ in.Y + 2 >= b.Y /\ in.Y + 2 < b.Y + b.H
    BY <1>2, <1>3
  <2> HIDE DEF x
  <2>2. Keeps(Text(x, in.Y + 2, s.unit), b)
    BY <1>2, <2>1, TextKeeps
  <2> QED BY <2>2 DEF x
<1>9. Keeps(C1, b)
  <2> DEFINE x == Right(in) - lw
  <2>1. x \in Int /\ x >= b.X /\ x + 1 <= b.X + b.W /\ in.Y >= b.Y /\ in.Y < b.Y + b.H /\ 1 \in Int
    BY <1>2, <1>3, <1>4
  <2> HIDE DEF x
  <2>2. Keeps(Text(x, in.Y, 1), b)
    BY <1>2, <2>1, TextKeeps
  <2> QED BY <2>2 DEF x
<1>10. Keeps(C2, b)
  <2> DEFINE x == Right(in) - lw + 2
  <2>1. x \in Int /\ x >= b.X /\ x + s.label <= b.X + b.W /\ in.Y >= b.Y /\ in.Y < b.Y + b.H /\ s.label \in Int
    BY <1>2, <1>3, <1>4
  <2> HIDE DEF x
  <2>2. Keeps(Text(x, in.Y, s.label), b)
    BY <1>2, <2>1, TextKeeps
  <2> QED BY <2>2 DEF x
<1>11. Keeps(C3, b)
  <2> DEFINE x == Right(in) - sw
  <2>1. x \in Int /\ x >= b.X /\ x + sw <= b.X + b.W /\ in.Y + 2 \in Int /\ in.Y + 2 >= b.Y /\ in.Y + 2 < b.Y + b.H
    BY <1>2, <1>6
  <2> HIDE DEF x
  <2>2. Keeps(Text(x, in.Y + 2, sw), b)
    BY <1>2, <1>6, <2>1, TextKeeps
  <2> QED BY <2>2 DEF x
<1>12. Keeps(D, b)
  <2>1. in.X \in Int /\ in.X >= b.X /\ in.X + 14 <= b.X + b.W /\ in.Y + 3 \in Int /\ in.Y + 3 >= b.Y /\ in.Y + 3 < b.Y + b.H /\ 14 \in Int
    BY <1>2
  <2> QED BY <1>2, <2>1, TextKeeps
<1> HIDE DEF C1, C2, C3
<1>13. Keeps(C, b)
  BY <1>9, <1>10, <1>11, NoMarks, BothKeep
<1> HIDE DEF A, B, C, D
<1> QED BY <1>1, <1>7, <1>8, <1>12, <1>13, FourKeep

LEMMA PlainKeeps ==
  ASSUME NEW in, NEW b, Framed(in, b), NEW s \in SnapshotType, in.W >= 10 PROVE Keeps(PlainHeadline(in, s), b)
<1>1. /\ b \in Region /\ b.X \in Nat /\ b.Y \in Int /\ b.W \in Nat /\ b.H \in Nat
      /\ in.X \in Nat /\ in.Y \in Int /\ in.W \in Nat /\ in.H \in Nat /\ in.X = b.X + 2 /\ in.Y = b.Y + 1 /\ in.H >= 1
      /\ in.X + in.W + 2 = b.X + b.W /\ in.Y + in.H + 1 = b.Y + b.H /\ Right(in) = in.X + in.W
  BY FramedIs
<1>2. s.rate \in Nat /\ s.rate <= 12 /\ s.label \in Nat /\ s.label <= 12
  BY SnapIs
<1>3. /\ in.X \in Int /\ s.rate \in Int /\ in.X >= b.X /\ in.X + s.rate <= b.X + b.W /\ in.Y >= b.Y /\ in.Y < b.Y + b.H
      /\ Right(in) \in Int /\ Right(in) - s.label >= b.X /\ Right(in) <= b.X + b.W /\ b.X >= 0
  BY <1>1, <1>2
<1>4. Keeps(Text(in.X, in.Y, s.rate), b)
  BY <1>1, <1>3, TextKeeps
<1>5. Keeps(TextRight(Right(in), in.Y, s.label), b)
  BY <1>1, <1>2, <1>3, TextRightKeeps
<1> QED BY <1>4, <1>5, BothKeep DEF PlainHeadline

LEMMA SourceKeeps ==
  ASSUME NEW in, NEW b, Framed(in, b), NEW s \in SnapshotType, in.W >= 10, NEW y \in Int, y >= in.Y, y < Bottom(in), NEW own
  PROVE  Keeps(Source(in, s, y, own), b)
<1> DEFINE head == 4 + s.rate  inline == in.W - head - 6 - 4
           A == TextIn(in.X, y, in.W - 6 - 1, head)
           B == Text(Right(in) - 6, y, 6)
           C1 == DrawBar(in.X, y + 1, in.W)
           C2 == DrawBar(in.X + head + 2, y, inline)
           C == IF own THEN C1 ELSE IF inline > 6 THEN C2 ELSE {}
<1>1. Source(in, s, y, own) = A \cup B \cup C
  BY DEF Source
<1>2. /\ b \in Region /\ b.X \in Nat /\ b.Y \in Int /\ b.W \in Nat /\ b.H \in Nat
      /\ in.X \in Nat /\ in.Y \in Int /\ in.W \in Nat /\ in.H \in Nat /\ in.X = b.X + 2 /\ in.Y = b.Y + 1 /\ in.H >= 1
      /\ in.X + in.W + 2 = b.X + b.W /\ in.Y + in.H + 1 = b.Y + b.H /\ Right(in) = in.X + in.W /\ Bottom(in) = in.Y + in.H
  BY FramedIs
<1>3. head \in Nat
  <2>1. s.rate \in Nat
    BY SnapIs
  <2> QED BY <2>1
<1> HIDE DEF head
<1>4. y >= b.Y /\ y < b.Y + b.H /\ y + 1 \in Int /\ y + 1 >= b.Y /\ y + 1 < b.Y + b.H
  BY <1>2
<1>5. Keeps(A, b)
  <2> DEFINE w == in.W - 6 - 1
  <2>1. in.X \in Int /\ w \in Int /\ head \in Int /\ in.X >= b.X /\ in.X + w <= b.X + b.W
    BY <1>2, <1>3
  <2> HIDE DEF w
  <2>2. Keeps(TextIn(in.X, y, w, head), b)
    BY <1>2, <1>4, <2>1, TextInKeeps
  <2> QED BY <2>2 DEF w
<1>6. Keeps(B, b)
  <2>1. Right(in) - 6 \in Int /\ 6 \in Int /\ Right(in) - 6 >= b.X /\ (Right(in) - 6) + 6 <= b.X + b.W
    BY <1>2
  <2> QED BY <1>2, <1>4, <2>1, TextKeeps
<1>7. Keeps(C1, b)
  <2>1. in.X \in Int /\ in.W \in Int /\ in.X >= b.X /\ in.X + in.W <= b.X + b.W
    BY <1>2
  <2> QED BY <1>2, <1>4, <2>1, TextKeeps DEF DrawBar
<1>8. Keeps(C2, b)
  <2> DEFINE x == in.X + head + 2
  <2>1. x \in Int /\ inline \in Int /\ x >= b.X /\ x + inline <= b.X + b.W
    BY <1>2, <1>3
  <2> HIDE DEF x, inline
  <2>2. Keeps(DrawBar(x, y, inline), b)
    BY <1>2, <1>4, <2>1, TextKeeps DEF DrawBar
  <2> QED BY <2>2 DEF x
<1> HIDE DEF A, B, C1, C2
<1> QED BY <1>1, <1>5, <1>6, <1>7, <1>8, ThreeKeep, NoMarks

LEMMA SplitKeeps ==
  ASSUME NEW in, NEW b, Framed(in, b), NEW s \in SnapshotType, in.W >= 10, NEW y \in Int, y >= in.Y
  PROVE  /\ Keeps(Split(in, s, y), b)
         /\ SplitEnd(in, s, y) \in Int /\ SplitEnd(in, s, y) >= in.Y
<1> DEFINE own == OwnRow(in, s, y)  each == IF own THEN 2 ELSE 1  top == SplitTop(in, s, y)  n == nSources(s)
           T(i) == IF top + each * (i - 1) < Bottom(in) THEN Source(in, s, top + each * (i - 1), own) ELSE {}
           bar == IF CommonBar(in, s, y) THEN DrawBar(in.X, y, in.W) ELSE {}
<1>1. /\ b \in Region /\ b.X \in Nat /\ b.Y \in Int /\ b.W \in Nat /\ b.H \in Nat
      /\ in.X \in Nat /\ in.Y \in Int /\ in.W \in Nat /\ in.H \in Nat /\ in.X = b.X + 2 /\ in.Y = b.Y + 1
      /\ in.X + in.W + 2 = b.X + b.W /\ in.Y + in.H + 1 = b.Y + b.H /\ Bottom(in) = in.Y + in.H
  BY FramedIs
<1>2. n \in {1, 2} /\ each \in {1, 2} /\ top \in Int /\ top >= in.Y
  <2>1. n \in {1, 2}
    BY SourcesAre
  <2>2. top = IF CommonBar(in, s, y) THEN y + 1 ELSE y
    BY DEF SplitTop
  <2> QED BY <1>1, <2>1, <2>2
<1>3. Split(in, s, y) = bar \cup UNION {T(i) : i \in 1 .. n}
  BY Zenon DEF Split
<1>4. SplitEnd(in, s, y) = top + each * Cardinality({i \in 1 .. n : top + each * (i - 1) < Bottom(in)})
  BY Zenon DEF SplitEnd
<1>5. CommonBar(in, s, y) => y < Bottom(in)
  <2>1. CommonBar(in, s, y) => Bottom(in) - y > n + 1
    BY DEF CommonBar
  <2> HIDE DEF n
  <2> QED BY <1>1, <1>2, <2>1
<1> HIDE DEF own, each, top, n
<1>6. Keeps(bar, b)
  <2>1. CASE CommonBar(in, s, y)
    <3>1. in.X \in Int /\ in.W \in Int /\ in.X >= b.X /\ in.X + in.W <= b.X + b.W /\ y >= b.Y /\ y < b.Y + b.H
      BY <1>1, <1>5, <2>1
    <3>2. Keeps(DrawBar(in.X, y, in.W), b)
      BY <1>1, <3>1, TextKeeps DEF DrawBar
    <3> QED BY <2>1, <3>2
  <2>2. CASE ~ CommonBar(in, s, y)
    BY <2>2, NoMarks
  <2> QED BY <2>1, <2>2
<1>7. ASSUME NEW i \in 1 .. n PROVE Keeps(T(i), b)
  <2> DEFINE z == top + each * (i - 1)
  <2>1. i = 1 \/ i = 2
    BY <1>2
  <2>2. z \in Int /\ z >= in.Y
    BY <1>1, <1>2, <2>1
  <2> HIDE DEF z
  <2>3. z < Bottom(in) => Keeps(Source(in, s, z, own), b)
    BY <2>2, SourceKeeps
  <2> QED BY <2>3, NoMarks DEF z
<1> HIDE DEF T
<1>8. Keeps(UNION {T(i) : i \in 1 .. n}, b)
  BY <1>7 DEF Keeps
<1>9. Keeps(Split(in, s, y), b)
  BY <1>3, <1>6, <1>8, BothKeep
<1>10. SplitEnd(in, s, y) \in Int /\ SplitEnd(in, s, y) >= in.Y
  <2> DEFINE S == {i \in 1 .. n : top + each * (i - 1) < Bottom(in)}
  <2>1. IsFiniteSet(1 .. n)
    <3>1. 1 \in Int /\ n \in Int
      BY <1>2
    <3> QED BY <3>1, FS_Interval, Zenon
  <2>2. S \subseteq 1 .. n
    OBVIOUS
  <2> HIDE DEF S
  <2>3. Cardinality(S) \in Nat
    BY <2>1, <2>2, FS_Subset, FS_CardinalityType, Zenon
  <2> DEFINE k == Cardinality(S)
  <2> HIDE DEF k
  <2>4. k \in Nat
    BY <2>3 DEF k
  <2>5. each * k \in Nat
    BY <1>2, <2>4
  <2>6. SplitEnd(in, s, y) = top + each * k
    BY <1>4 DEF k, S
  <2> DEFINE m == each * k
  <2> HIDE DEF m
  <2>7. m \in Nat /\ SplitEnd(in, s, y) = top + m
    BY <2>5, <2>6 DEF m
  <2> QED BY <1>1, <1>2, <2>7
<1> QED BY <1>9, <1>10

LEMMA AveragesKeep ==
  ASSUME NEW in, NEW b, Framed(in, b), NEW s \in SnapshotType, NEW y \in Int, y >= in.Y PROVE Keeps(Averages(in, s, y), b)
<1> DEFINE three == <<<<6, s.rate>>, <<6, s.rate>>, <<7, s.rate>>>>
           more == <<<<4, s.rate>>, <<7, s.rate>>, <<4, 10>>>>
           half == Cols(Below(in, y), <<1, 1>>)
           side == Rect(half[2].X + 2, y, half[2].W - 2, half[2].H)
<1>1. Averages(in, s, y) =
        IF in.W >= 42 THEN kvRows(half[1], y, three) \cup kvRows(side, y, more) ELSE kvRows(Below(in, y), y, three \o more)
  BY DEF Averages
<1>2. three \in Pairs /\ more \in Pairs /\ three \o more \in Pairs
  <2>1. s.rate \in Nat
    BY SnapIs
  <2>2. three \in Seq(Nat \X Nat) /\ more \in Seq(Nat \X Nat)
    BY <2>1
  <2> HIDE DEF three, more
  <2>3. three \o more \in Seq(Nat \X Nat)
    BY <2>2
  <2> QED BY <2>2, <2>3 DEF Pairs
<1> HIDE DEF three, more
<1>3. b \in Region /\ b.X >= 0 /\ b.Y \in Int /\ b.X \in Int /\ in.W \in Nat /\ in.Y \in Int /\ in.Y >= b.Y /\ Columned(in, b)
  <2>1. b \in Region /\ b.X \in Nat /\ b.Y \in Int /\ in.W \in Nat /\ in.Y \in Int /\ in.Y = b.Y + 1 /\ Columned(in, b)
    BY FramedIs
  <2> QED BY <2>1
<1> DEFINE q == Below(in, y)
<1>4. Columned(q, b) /\ q.W = in.W /\ q.Y = y
  <2>1. y >= b.Y
    BY <1>3
  <2>2. Columned(q, b)
    BY <1>3, <2>1, BelowIs
  <2>3. q.W = in.W /\ q.Y = y
    BY RectIs DEF Below
  <2> QED BY <2>2, <2>3
<1>5. half = Cols(q, <<1, 1>>)
  OBVIOUS
<1> HIDE DEF q
<1>6. Columned(half[1], b) /\ Columned(half[2], b) /\ half[2].W >= in.W \div 2 /\ half[2].Y = y
  <2>1. /\ Columned(Cols(q, <<1, 1>>)[1], b) /\ Columned(Cols(q, <<1, 1>>)[2], b)
        /\ Cols(q, <<1, 1>>)[2].W >= q.W \div 2 /\ Cols(q, <<1, 1>>)[2].Y = q.Y
    BY <1>3, <1>4, HalvesAre
  <2> QED BY <1>4, <1>5, <2>1
<1> HIDE DEF half
<1>7. CASE in.W >= 42
  <2> DEFINE h == half[2]  x == h.X + 2  w == h.W - 2
  <2>1. h.X \in Int /\ h.Y \in Int /\ h.W \in Nat /\ h.H \in Int /\ h.W >= 21
        /\ h.X >= b.X /\ h.X + h.W <= b.X + b.W /\ h.Y >= b.Y /\ h.Y + h.H <= b.Y + b.H
    <3>1. in.W \div 2 >= 21 /\ in.W \div 2 \in Int
      BY <1>3, <1>7
    <3> QED BY <1>6, <3>1 DEF Columned
  <2>2. side = Rect(x, h.Y, w, h.H)
    BY <1>6
  <2> HIDE DEF h
  <2>3. x \in Int /\ w \in Nat /\ x >= b.X /\ x + w <= b.X + b.W
    BY <1>3, <2>1
  <2> HIDE DEF x, w
  <2>4. side.X = x /\ side.Y = h.Y /\ side.W = w /\ side.H = h.H
    BY <2>2, RectIs
  <2>5. Columned(side, b)
    BY <2>1, <2>3, <2>4 DEF Columned
  <2> HIDE DEF side
  <2>6. Keeps(kvRows(half[1], y, three), b) /\ Keeps(kvRows(side, y, more), b)
    BY <1>2, <1>3, <1>6, <2>5, KvRowsKeep
  <2> QED BY <1>1, <1>7, <2>6, BothKeep
<1>8. CASE ~ (in.W >= 42)
  <2>1. Keeps(kvRows(q, y, three \o more), b)
    BY <1>2, <1>3, <1>4, KvRowsKeep
  <2> QED BY <1>1, <1>8, <2>1 DEF q
<1> QED BY <1>7, <1>8

LEMMA MiningFine ==
  ASSUME NEW r \in Region, r.X >= 0, r.W >= 14, NEW s \in SnapshotType PROVE Fine(panelMining(r, s))
<1> DEFINE in == Interior(r)
           ink == MiningInk(in, s)
<1>1. panelMining(r, s) = Plain(r, 18, 0, ink)
  BY DEF panelMining, Panel, Plain
<1>2. ASSUME Framed(in, r), in.W = r.W - 4 PROVE Keeps(ink, r)
  <2>1. in.W >= 10 /\ in.Y \in Int /\ in.H \in Int
    <3>1. r.W \in Int
      BY RegionIs
    <3>2. in.Y \in Int /\ in.H \in Int
      BY <1>2, FramedIs
    <3> HIDE DEF in
    <3> QED BY <1>2, <3>1, <3>2
  <2> HIDE DEF in
  <2> DEFINE y == in.Y + HeadlineRows(in, s)
             end == SplitEnd(in, s, y)
             z == IF Bottom(in) - end > 4 THEN end + 1 ELSE end
             head == IF Headlined(in, s) THEN Headline(in, s) ELSE PlainHeadline(in, s)
  <2>2. ink = head \cup Split(in, s, y) \cup Averages(in, s, z)
    BY Zenon DEF MiningInk
  <2>3. Keeps(head, r)
    <3>1. Headlined(in, s) => in.W >= 30 /\ in.H >= 5
      <4>1. nSources(s) \in {1, 2}
        BY SourcesAre
      <4> QED BY <2>1, <4>1 DEF Headlined
    <3> QED BY <1>2, <2>1, <3>1, HeadlineKeeps, PlainKeeps
  <2>4. y \in Int /\ y >= in.Y
    <3>1. HeadlineRows(in, s) \in {2, 4, 5}
      BY DEF HeadlineRows
    <3> QED BY <2>1, <3>1
  <2> HIDE DEF y
  <2>5. Keeps(Split(in, s, y), r) /\ end \in Int /\ end >= in.Y
    BY <1>2, <2>1, <2>4, SplitKeeps
  <2> HIDE DEF end
  <2>6. z \in Int /\ z >= in.Y
    BY <2>1, <2>5
  <2> HIDE DEF z
  <2>7. Keeps(Averages(in, s, z), r)
    BY <1>2, <2>6, AveragesKeep
  <2> HIDE DEF ink, head
  <2> QED BY <2>2, <2>3, <2>5, <2>7, ThreeKeep
<1> HIDE DEF ink
<1>3. Fine(Plain(r, 18, 0, ink))
  BY <1>2, PanelFine DEF in
<1> QED BY <1>1, <1>3

-----------------------------------------------------------------------------
(* The panels of the shares and of the log.                                *)
LEMMA SharesKeep ==
  ASSUME NEW in, NEW b, Framed(in, b), NEW s \in SnapshotType PROVE Keeps(SharesInk(in, s), b)
<1> DEFINE round == in.W >= 34 /\ in.H >= 5
           gw    == ringWidth(in.H, 19)
           text  == IF round THEN RightOf(in, gw) ELSE in
           pct   == IF ~ s.judged \/ text.W < 26 THEN 0 ELSE 9
           value == <<s.count + pct, s.count + pct, NA, NA>>
           sw    == IF text.W >= 22 THEN 3 ELSE 0
           n     == Lesser(4, text.H)
           y     == LET e == text.Y + Lesser(4, text.H) IN IF e < Bottom(text) THEN e + 1 ELSE e
           kvs   == <<<<9, s.count>>, <<10, Val(s.judged, 6)>>, <<12, Val(s.judged, 5)>>, <<10, s.time>>>>
           lw(i) == text.W - sw - value[i] - 1
           P(i) == IF sw > 0 THEN Text(text.X, text.Y + i - 1, 2) ELSE {}
           Q(i) == IF WorthALabel(lw(i)) THEN TextIn(text.X + sw, text.Y + i - 1, lw(i), 8) ELSE {}
           R(i) == TextRight(Right(text), text.Y + i - 1, Clip(value[i], text.W))
           line(i) == P(i) \cup Q(i) \cup R(i)
           A == IF round THEN Ring(Rect(in.X, in.Y, gw, in.H), <<6, 8>>) ELSE {}
           B == UNION {line(i) : i \in 1 .. n}
           C == kvRows(Below(text, y), y, kvs)
<1>1. SharesInk(in, s) = A \cup B \cup C
  BY Zenon DEF SharesInk
<1>2. b \in Region /\ in \in Region /\ Within(in, b) /\ in.W \in Nat /\ in.H \in Nat /\ in.H >= 1 /\ b.X >= 0
  <2>1. b.X \in Nat
    BY FramedIs
  <2> QED BY <2>1, FramedIs
<1>3. gw \in Nat /\ gw <= 19
  <2>1. 19 \in Nat
    OBVIOUS
  <2> QED BY <1>2, <2>1, ringIs
<1> HIDE DEF gw
<1>4. round => in.W >= gw + 2
  BY <1>2, <1>3
<1>5. text \in Region /\ Within(text, b) /\ text.H >= 1
  <2>1. CASE round
    <3>1. RightOf(in, gw) \in Region /\ Within(RightOf(in, gw), b) /\ RightOf(in, gw).H = in.H
      BY <1>2, <1>3, <1>4, <2>1, BesideIs
    <3> QED BY <1>2, <2>1, <3>1
  <2>2. CASE ~ round
    BY <1>2, <2>2
  <2> QED BY <2>1, <2>2
<1>6. Keeps(A, b)
  <2>1. CASE round
    <3>1. Rect(in.X, in.Y, gw, in.H) \in Region /\ Within(Rect(in.X, in.Y, gw, in.H), b)
      BY <1>2, <1>3, <1>4, <2>1, BesideIs
    <3>2. <<6, 8>> \in Seq(Int) /\ Len(<<6, 8>>) <= 3
      OBVIOUS
    <3>3. Keeps(Ring(Rect(in.X, in.Y, gw, in.H), <<6, 8>>), b)
      BY <1>2, <3>1, <3>2, RingKeeps
    <3> QED BY <2>1, <3>3
  <2>2. CASE ~ round
    BY <2>2, NoMarks
  <2> QED BY <2>1, <2>2
<1> HIDE DEF A, round, text
<1>7. /\ text.X \in Int /\ text.Y \in Int /\ text.W \in Nat /\ text.H \in Nat /\ Right(text) = text.X + text.W
      /\ Bottom(text) = text.Y + text.H
      /\ b.X \in Int /\ b.Y \in Int /\ b.W \in Nat /\ b.H \in Nat
      /\ text.X >= b.X /\ text.Y >= b.Y /\ text.X + text.W <= b.X + b.W /\ text.Y + text.H <= b.Y + b.H
      /\ Columned(text, b)
  BY <1>2, <1>5, InsideIs
<1>8. s.count \in Nat /\ s.time \in Nat /\ NA \in Nat /\ Val(s.judged, 6) \in Nat /\ Val(s.judged, 5) \in Nat
  BY SnapIs, ValIs DEF NA
<1>9. kvs \in Pairs
  BY <1>8 DEF Pairs
<1>10. ASSUME NEW i \in 1 .. 4 PROVE value[i] \in Nat
  <2>1. s.count + pct \in Nat
    BY <1>8
  <2> HIDE DEF pct
  <2>2. i = 1 \/ i = 2 \/ i = 3 \/ i = 4
    OBVIOUS
  <2> QED BY <1>8, <2>1, <2>2
<1>11. sw \in {0, 3} /\ (sw = 3 => text.W >= 22)
  OBVIOUS
<1>12. n \in Nat /\ n <= 4 /\ n <= text.H /\ y \in Int /\ y >= b.Y
  <2>1. n \in Nat /\ n <= 4 /\ n <= text.H
    BY <1>7 DEF Lesser
  <2> HIDE DEF n
  <2>2. y = IF text.Y + n < Bottom(text) THEN text.Y + n + 1 ELSE text.Y + n
    BY DEF n
  <2> HIDE DEF y
  <2> QED BY <1>7, <2>1, <2>2
<1> HIDE DEF value, sw, n, y, kvs
<1>13. ASSUME NEW i \in 1 .. n PROVE Keeps(line(i), b)
  <2> DEFINE z == text.Y + i - 1
             v == value[i]
             l == text.W - sw - v - 1
             c == Clip(v, text.W)
  <2>1. i \in 1 .. 4
    BY <1>12
  <2>2. v \in Nat
    BY <1>10, <2>1
  <2>3. z \in Int /\ z >= b.Y /\ z < b.Y + b.H
    BY <1>7, <1>12
  <2>4. c \in Nat /\ c <= text.W
    <3>1. v \in Int
      BY <2>2
    <3> HIDE DEF v
    <3> QED BY <1>7, <3>1, ClipIs
  <2> HIDE DEF z, v, c
  <2>5. P(i) = (IF sw > 0 THEN Text(text.X, z, 2) ELSE {})
        /\ Q(i) = (IF WorthALabel(l) THEN TextIn(text.X + sw, z, l, 8) ELSE {})
        /\ R(i) = TextRight(Right(text), z, c)
    BY DEF z, v, c
  <2>6. Keeps(P(i), b)
    <3>1. CASE sw > 0
      <4>1. 2 \in Int /\ text.X + 2 <= b.X + b.W
        BY <1>7, <1>11, <3>1
      <4>2. Keeps(Text(text.X, z, 2), b)
        BY <1>2, <1>7, <2>3, <4>1, TextKeeps
      <4> QED BY <2>5, <4>2, NoMarks
    <3>2. CASE ~ (sw > 0)
      BY <2>5, <3>2, NoMarks
    <3> QED BY <3>1, <3>2
  <2>7. Keeps(Q(i), b)
    <3>1. CASE WorthALabel(l)
      <4> DEFINE x == text.X + sw
      <4>1. x \in Int /\ l \in Int /\ 8 \in Int /\ x >= b.X /\ x + l <= b.X + b.W
        BY <1>7, <1>11, <2>2
      <4> HIDE DEF x, l
      <4>2. Keeps(TextIn(x, z, l, 8), b)
        BY <1>2, <2>3, <4>1, TextInKeeps
      <4> QED BY <2>5, <4>2, NoMarks DEF x
    <3>2. CASE ~ WorthALabel(l)
      BY <2>5, <3>2, NoMarks
    <3> QED BY <3>1, <3>2
  <2>8. Keeps(R(i), b)
    <3>1. Right(text) \in Int /\ Right(text) - c >= b.X /\ Right(text) <= b.X + b.W
      BY <1>7, <2>4
    <3>2. Keeps(TextRight(Right(text), z, c), b)
      BY <1>2, <2>3, <2>4, <3>1, TextRightKeeps
    <3> QED BY <2>5, <3>2
  <2> HIDE DEF P, Q, R
  <2> QED BY <2>6, <2>7, <2>8, ThreeKeep
<1> HIDE DEF line
<1>14. Keeps(B, b)
  BY <1>13 DEF Keeps
<1>15. Keeps(C, b)
  <2>1. Columned(Below(text, y), b)
    BY <1>2, <1>7, <1>12, BelowIs
  <2> QED BY <1>2, <1>9, <1>12, <2>1, KvRowsKeep
<1> HIDE DEF B, C
<1> QED BY <1>1, <1>6, <1>14, <1>15, ThreeKeep

-----------------------------------------------------------------------------
(* The lines of the log: time, tag and text.                               *)
LEMMA LogKeeps ==
  ASSUME NEW in, NEW b, Framed(in, b), NEW s \in SnapshotType, in.W >= 11 PROVE Keeps(drawLogLines(in, s), b)
<1> DEFINE timeW == IF in.W > 22 THEN 9 ELSE 0
           tagW  == Lesser(Greater(s.tag + 3, 6), 13)
           x     == in.X + timeW + tagW
           n     == Lesser(in.H, s.log)
           P(y) == IF timeW > 0 THEN Text(in.X, y, 8) ELSE {}
           Q(y) == TextIn(in.X + timeW, y, tagW, Clip(s.tag + 2, tagW))
           R(y) == IF x < Right(in) THEN TextIn(x, y, Right(in) - x, s.msg) ELSE {}
           T(y) == P(y) \cup Q(y) \cup R(y)
           A == TextCenter(in.X, in.Y + (in.H \div 2), in.W, 13)
           B == UNION {T(y) : y \in in.Y .. in.Y + n - 1}
<1>1. drawLogLines(in, s) = IF in.H <= 0 THEN {} ELSE IF s.log = 0 THEN A ELSE B
  BY Zenon DEF drawLogLines
<1>2. /\ b \in Region /\ b.X \in Nat /\ b.Y \in Int /\ b.W \in Nat /\ b.H \in Nat
      /\ in.X \in Nat /\ in.Y \in Int /\ in.W \in Nat /\ in.H \in Nat /\ in.X = b.X + 2 /\ in.Y = b.Y + 1 /\ in.H >= 1
      /\ in.X + in.W + 2 = b.X + b.W /\ in.Y + in.H + 1 = b.Y + b.H /\ Right(in) = in.X + in.W
  BY FramedIs
<1>3. s.tag \in Nat /\ s.log \in Nat /\ s.msg \in Int
  BY SnapIs
<1>4. timeW \in Nat /\ (timeW > 0 => in.W > 22) /\ tagW \in Nat /\ tagW <= 13 /\ timeW + tagW <= in.W + 2
  <2>1. tagW \in Nat /\ tagW <= 13
    BY <1>3 DEF Lesser, Greater
  <2> HIDE DEF tagW
  <2> QED BY <1>2, <2>1
<1>5. n \in Int /\ n <= in.H
  BY <1>2, <1>3 DEF Lesser
<1> HIDE DEF timeW, tagW, n
<1>6. Keeps(A, b)
  <2> DEFINE y == in.Y + (in.H \div 2)
  <2>1. in.X \in Int /\ 13 \in Int /\ in.X >= b.X /\ in.X + in.W <= b.X + b.W /\ y \in Int /\ y >= b.Y /\ y < b.Y + b.H
    BY <1>2
  <2> HIDE DEF y
  <2>2. Keeps(TextCenter(in.X, y, in.W, 13), b)
    BY <1>2, <2>1, CentredKeeps
  <2> QED BY <2>2 DEF y
<1>7. ASSUME NEW y \in in.Y .. in.Y + n - 1 PROVE Keeps(T(y), b)
  <2>1. y \in Int /\ y >= b.Y /\ y < b.Y + b.H
    BY <1>2, <1>5
  <2>2. Keeps(P(y), b)
    <3>1. CASE timeW > 0
      <4>1. in.X \in Int /\ 8 \in Int /\ in.X >= b.X /\ in.X + 8 <= b.X + b.W
        BY <1>2, <1>4, <3>1
      <4>2. Keeps(Text(in.X, y, 8), b)
        BY <1>2, <2>1, <4>1, TextKeeps
      <4> QED BY <4>2, NoMarks
    <3>2. CASE ~ (timeW > 0)
      BY <3>2, NoMarks
    <3> QED BY <3>1, <3>2
  <2>3. Keeps(Q(y), b)
    <3> DEFINE z == in.X + timeW  c == Clip(s.tag + 2, tagW)
    <3>1. z \in Int /\ tagW \in Int /\ z >= b.X /\ z + tagW <= b.X + b.W
      BY <1>2, <1>4
    <3>2. c \in Int
      <4>1. s.tag + 2 \in Int
        BY <1>3
      <4> QED BY <1>4, <4>1, ClipIs
    <3> HIDE DEF z, c
    <3>3. Keeps(TextIn(z, y, tagW, c), b)
      BY <1>2, <2>1, <3>1, <3>2, TextInKeeps
    <3> QED BY <3>3 DEF z, c
  <2>4. Keeps(R(y), b)
    <3> DEFINE w == Right(in) - x
    <3>1. x \in Int /\ w \in Int /\ x >= b.X /\ x + w <= b.X + b.W
      BY <1>2, <1>4
    <3> HIDE DEF x, w
    <3>2. Keeps(TextIn(x, y, w, s.msg), b)
      BY <1>2, <1>3, <2>1, <3>1, TextInKeeps
    <3> QED BY <3>2, NoMarks DEF w
  <2> HIDE DEF P, Q, R
  <2> QED BY <2>2, <2>3, <2>4, ThreeKeep
<1> HIDE DEF T
<1>8. Keeps(B, b)
  BY <1>7 DEF Keeps
<1> HIDE DEF A, B
<1> QED BY <1>1, <1>6, <1>8, NoMarks

-----------------------------------------------------------------------------
(* A line said in the middle of a panel, blanks at its ends.               *)
LEMMA SaysIs ==
  ASSUME NEW in, NEW b, Framed(in, b), NEW y \in Int, NEW n \in Int
  PROVE  LET w == Clip(n, in.W) + 8
         IN  Keeps(IF y < in.Y \/ y >= Bottom(in) THEN {}
                   ELSE IF w > in.W THEN Text(in.X, y, in.W) ELSE Text(in.X + ((in.W - w) \div 2), y, w), b)
<1> DEFINE w == Clip(n, in.W) + 8  d == (in.W - w) \div 2
<1>1. /\ b \in Region /\ b.X \in Nat /\ b.Y \in Int /\ b.W \in Nat /\ b.H \in Nat
      /\ in.X \in Nat /\ in.Y \in Int /\ in.W \in Nat /\ in.H \in Nat /\ in.X = b.X + 2 /\ in.Y = b.Y + 1
      /\ in.X + in.W + 2 = b.X + b.W /\ in.Y + in.H + 1 = b.Y + b.H /\ Bottom(in) = in.Y + in.H
  BY FramedIs
<1>2. w \in Nat
  <2>1. Clip(n, in.W) \in Nat
    BY <1>1, ClipIs
  <2> QED BY <2>1
<1> HIDE DEF w
<1>3. CASE y < in.Y \/ y >= Bottom(in)
  BY <1>3, NoMarks DEF w
<1>4. CASE ~ (y < in.Y \/ y >= Bottom(in))
  <2>1. y >= b.Y /\ y < b.Y + b.H
    BY <1>1, <1>4
  <2>2. CASE w > in.W
    <3>1. in.X \in Int /\ in.W \in Int /\ in.X >= b.X /\ in.X + in.W <= b.X + b.W
      BY <1>1
    <3>2. Keeps(Text(in.X, y, in.W), b)
      BY <1>1, <2>1, <3>1, TextKeeps
    <3> QED BY <1>4, <2>2, <3>2 DEF w
  <2>3. CASE ~ (w > in.W)
    <3>1. d \in Nat /\ d + w <= in.W
      BY <1>1, <1>2, <2>3, MiddleIs
    <3> HIDE DEF d
    <3>2. in.X + d \in Int /\ w \in Int /\ in.X + d >= b.X /\ (in.X + d) + w <= b.X + b.W
      BY <1>1, <1>2, <3>1
    <3>3. Keeps(Text(in.X + d, y, w), b)
      BY <1>1, <2>1, <3>2, TextKeeps
    <3> QED BY <1>4, <2>3, <3>3 DEF w, d
  <2> QED BY <2>2, <2>3
<1> QED BY <1>3, <1>4

-----------------------------------------------------------------------------
(* The panels whose ink was followed above.                                *)
LEMMA NetworkFine == ASSUME NEW r \in Region, r.X >= 0, NEW s \in SnapshotType PROVE Fine(panelNetwork(r, s))
<1> DEFINE ink == NetworkInk(Interior(r), s)
<1>1. panelNetwork(r, s) = Plain(r, 14, 0, ink)
  BY DEF panelNetwork, Panel, Plain
<1>2. Framed(Interior(r), r) => Keeps(ink, r)
  BY NetworkKeeps
<1> HIDE DEF ink
<1>3. Fine(Plain(r, 14, 0, ink))
  BY <1>2, PanelFine
<1> QED BY <1>1, <1>3

LEMMA SharesFine == ASSUME NEW r \in Region, r.X >= 0, NEW s \in SnapshotType PROVE Fine(panelShares(r, s))
<1> DEFINE ink == SharesInk(Interior(r), s)
<1>1. panelShares(r, s) = Plain(r, 11, 8, ink)
  BY DEF panelShares, Panel, Plain
<1>2. Framed(Interior(r), r) => Keeps(ink, r)
  BY SharesKeep
<1> HIDE DEF ink
<1>3. Fine(Plain(r, 11, 8, ink))
  BY <1>2, PanelFine
<1> QED BY <1>1, <1>3

(* A panel that shows the log, whatever its title says.                    *)
LogPanel(r, s, title, right) == Plain(r, title, right, drawLogLines(Interior(r), s))

LEMMA LogPanelFine ==
  ASSUME NEW r \in Region, r.X >= 0, r.W >= 15, NEW s \in SnapshotType, NEW title \in Int, NEW right \in Int
  PROVE  Fine(LogPanel(r, s, title, right))
<1> DEFINE ink == drawLogLines(Interior(r), s)
<1>1. Framed(Interior(r), r) /\ Interior(r).W = r.W - 4 => Keeps(ink, r)
  <2> SUFFICES ASSUME Framed(Interior(r), r), Interior(r).W = r.W - 4 PROVE Keeps(ink, r)
    OBVIOUS
  <2>1. r.W \in Int
    BY RegionIs
  <2>2. Interior(r).W >= 11
    BY <2>1
  <2> QED BY <2>2, LogKeeps
<1> HIDE DEF ink
<1>2. Fine(Plain(r, title, right, ink))
  BY <1>1, PanelFine
<1> QED BY <1>2 DEF ink, LogPanel

LEMMA LogFine == ASSUME NEW r \in Region, r.X >= 0, r.W >= 15, NEW s \in SnapshotType PROVE Fine(panelLog(r, s))
<1>1. panelLog(r, s) = LogPanel(r, s, 15, s.held)
  BY DEF panelLog, Panel, Plain, LogPanel
<1>2. s.held \in Int
  BY SnapIs
<1> QED BY <1>1, <1>2, LogPanelFine

-----------------------------------------------------------------------------
(* The panel that says how the run is.                                     *)
Say(in, y, n) ==
  LET w == Clip(n, in.W) + 8
  IN  IF y < in.Y \/ y >= Bottom(in) THEN {}
      ELSE IF w > in.W THEN Text(in.X, y, in.W) ELSE Text(in.X + ((in.W - w) \div 2), y, w)

StatusInk(in, s) ==
  LET mid == IF in.H >= 5 THEN in.Y + ((in.H - 2) \div 2) ELSE in.Y + (in.H \div 2)
  IN  (IF in.W >= 24 /\ in.H >= 4 THEN {in} ELSE {})
      \cup (IF in.W >= 40 /\ in.H >= 6 THEN Mark(in.X + ((in.W - 9) \div 2), in.Y, 9, 3) ELSE {})
      \cup Say(in, mid, 2 * s.label - 1)
      \cup (IF in.H >= 4 THEN Say(in, mid + 1, IF s.active THEN 12 ELSE s.node) ELSE {})
      \cup (IF in.H >= 6 THEN Say(in, Bottom(in) - 1, 25) ELSE {})

LEMMA SayKeeps == ASSUME NEW in, NEW b, Framed(in, b), NEW y \in Int, NEW n \in Int PROVE Keeps(Say(in, y, n), b)
  BY SaysIs DEF Say

LEMMA StatusFine == ASSUME NEW r \in Region, r.X >= 0, NEW s \in SnapshotType PROVE Fine(panelStatus(r, s))
<1> DEFINE in == Interior(r)
           ink == StatusInk(in, s)
<1>1. panelStatus(r, s) = Plain(r, 13, 0, ink)
  BY DEF panelStatus, Panel, Plain, StatusInk, Say
<1> HIDE DEF in
<1>2. ASSUME Framed(in, r) PROVE Keeps(ink, r)
  <2> DEFINE mid == IF in.H >= 5 THEN in.Y + ((in.H - 2) \div 2) ELSE in.Y + (in.H \div 2)
             n == IF s.active THEN 12 ELSE s.node
             A == Say(in, mid, 2 * s.label - 1)
             B == IF in.H >= 4 THEN Say(in, mid + 1, n) ELSE {}
             C == IF in.H >= 6 THEN Say(in, Bottom(in) - 1, 25) ELSE {}
             wire == IF in.W >= 24 /\ in.H >= 4 THEN {in} ELSE {}
             mark == IF in.W >= 40 /\ in.H >= 6 THEN Mark(in.X + ((in.W - 9) \div 2), in.Y, 9, 3) ELSE {}
  <2>1. ink = wire \cup mark \cup A \cup B \cup C
    BY Zenon DEF StatusInk
  <2>2. mid \in Int /\ mid + 1 \in Int /\ Bottom(in) - 1 \in Int
    <3>1. in.Y \in Int /\ in.H \in Nat /\ Bottom(in) \in Int
      BY <1>2, FramedIs
    <3> QED BY <3>1
  <2>3. 2 * s.label - 1 \in Int /\ n \in Int
    <3>1. s.label \in Nat /\ s.node \in Nat
      BY SnapIs
    <3> QED BY <3>1
  <2> HIDE DEF mid, n
  <2>4. Keeps(A, r)
    BY <1>2, <2>2, <2>3, SayKeeps
  <2>5. Keeps(Say(in, mid + 1, n), r) /\ Keeps(Say(in, Bottom(in) - 1, 25), r)
    BY <1>2, <2>2, <2>3, SayKeeps
  <2>6. Keeps(B, r) /\ Keeps(C, r)
    BY <2>5, NoMarks
  <2>7. Keeps(wire, r)
    <3>1. in \in Region /\ Within(in, r)
      BY <1>2, FramedIs
    <3> QED BY <3>1 DEF Keeps
  <2>8. Keeps(mark, r)
    <3>1. CASE in.W >= 40 /\ in.H >= 6
      <4> DEFINE d == (in.W - 9) \div 2
      <4>1. /\ r \in Region /\ r.X \in Nat /\ r.Y \in Int /\ r.W \in Nat /\ r.H \in Nat
            /\ in.X \in Nat /\ in.Y \in Int /\ in.W \in Nat /\ in.H \in Nat /\ in.X = r.X + 2 /\ in.Y = r.Y + 1
            /\ in.X + in.W + 2 = r.X + r.W /\ in.Y + in.H + 1 = r.Y + r.H
        BY <1>2, FramedIs
      <4>2. d \in Nat /\ d + 9 <= in.W
        BY <3>1, <4>1
      <4> HIDE DEF d
      <4>3. /\ in.X + d \in Int /\ in.X + d >= r.X /\ in.Y >= r.Y /\ (in.X + d) + 9 <= r.X + r.W
            /\ in.Y + 3 <= r.Y + r.H /\ 9 \in Int /\ 3 \in Int
        BY <3>1, <4>1, <4>2
      <4>4. Keeps(Mark(in.X + d, in.Y, 9, 3), r)
        BY <4>1, <4>3, MarkKeeps
      <4> QED BY <3>1, <4>4 DEF d
    <3>2. CASE ~ (in.W >= 40 /\ in.H >= 6)
      BY <3>2, NoMarks
    <3> QED BY <3>1, <3>2
  <2> HIDE DEF A, B, C, wire, mark
  <2>9. Keeps(wire \cup mark \cup A \cup B, r)
    BY <2>4, <2>6, <2>7, <2>8, FourKeep
  <2> QED BY <2>1, <2>6, <2>9, BothKeep
<1> HIDE DEF ink
<1>3. Fine(Plain(r, 13, 0, ink))
  BY <1>2, PanelFine DEF in
<1> QED BY <1>1, <1>3

-----------------------------------------------------------------------------
(* The lines a paragraph is broken into.                                   *)
LEMMA WithWordIs ==
  ASSUME NEW lines \in Seq(Int), NEW word \in Int, NEW w PROVE WithWord(lines, word, w) \in Seq(Int)
<1>1. CASE lines # <<>> /\ WordFits(lines[Len(lines)], word, w)
  <2>1. Len(lines) \in 1 .. Len(lines)
    BY <1>1
  <2>2. lines[Len(lines)] + 1 + word \in Int
    BY <2>1
  <2> QED BY <1>1, <2>1, <2>2 DEF WithWord
<1>2. CASE ~ (lines # <<>> /\ WordFits(lines[Len(lines)], word, w))
  BY <1>2 DEF WithWord
<1> QED BY <1>1, <1>2

Wraps(f, words, w) == f = [k \in 0 .. Len(words) |-> IF k = 0 THEN <<>> ELSE WithWord(f[k - 1], words[k], w)]

LEMMA WrapsIs ==
  ASSUME NEW words \in Seq(Int), NEW w
  PROVE  \E f \in [0 .. Len(words) -> Seq(Int)] : Wraps(f, words, w)
<1> DEFINE n == Len(words)
           S == Seq(Int)
           step == [k \in 1 .. n |-> [x \in S |-> WithWord(x, words[k], w)]]
<1>1. n \in Nat /\ <<>> \in S
  OBVIOUS
<1>2. step \in [1 .. n -> [S -> S]]
  <2>1. ASSUME NEW k \in 1 .. n, NEW x \in S PROVE WithWord(x, words[k], w) \in S
    <3>1. words[k] \in Int
      OBVIOUS
    <3> QED BY <3>1, WithWordIs
  <2> HIDE DEF S, n
  <2> QED BY <2>1
<1>3. \A k \in 1 .. n : \A x \in S : step[k][x] = WithWord(x, words[k], w)
  OBVIOUS
<1> HIDE DEF S, step, n
<1>4. Stepwise(S, n, <<>>, step)
  BY <1>1, <1>2, Solvable
<1>5. PICK f \in [0 .. n -> S] : f[0] = <<>> /\ \A i \in 1 .. n : f[i] = step[i][f[i - 1]]
  BY <1>4 DEF Stepwise
<1>6. ASSUME NEW i \in 0 .. n PROVE f[i] = IF i = 0 THEN <<>> ELSE WithWord(f[i - 1], words[i], w)
  <2>1. CASE i = 0
    BY <1>5, <2>1
  <2>2. CASE i # 0
    <3>1. i \in 1 .. n /\ i - 1 \in 0 .. n
      BY <1>1, <2>2
    <3>2. f[i - 1] \in S
      BY <1>5, <3>1
    <3> QED BY <1>3, <1>5, <2>2, <3>1, <3>2
  <2> QED BY <2>1, <2>2
<1>7. f = [i \in 0 .. n |-> f[i]]
  BY <1>5
<1>8. f = [i \in 0 .. n |-> IF i = 0 THEN <<>> ELSE WithWord(f[i - 1], words[i], w)]
  BY <1>6, <1>7
<1> QED BY <1>5, <1>8 DEF Wraps, n, S

LEMMA WrapIs == ASSUME NEW words \in Seq(Int), NEW w PROVE wrapText(words, w) \in Seq(Int)
<1> DEFINE n == Len(words)
           F == CHOOSE f : Wraps(f, words, w)
<1>1. PICK g \in [0 .. n -> Seq(Int)] : Wraps(g, words, w)
  BY WrapsIs
<1>2. Wraps(F, words, w)
  BY <1>1
<1>3. wrapText(words, w) = IF w < 8 THEN <<>> ELSE F[n]
  BY DEF wrapText, Wraps
<1> HIDE DEF F
<1>4. n \in Nat
  OBVIOUS
<1>5. \A k \in 0 .. n : F[k] = IF k = 0 THEN <<>> ELSE WithWord(F[k - 1], words[k], w)
  BY <1>2, Zenon DEF Wraps
<1> DEFINE T == {m \in Nat : m <= n => F[m] \in Seq(Int)}
<1>6. 0 \in T
  <2>1. 0 \in 0 .. n
    BY <1>4
  <2>2. F[0] = <<>>
    BY <1>5, <2>1, Zenon
  <2>3. <<>> \in Seq(Int) /\ 0 \in Nat
    OBVIOUS
  <2> HIDE DEF F, n
  <2> QED BY <2>2, <2>3
<1>7. ASSUME NEW m \in Nat, m \in T PROVE m + 1 \in T
  <2>1. SUFFICES ASSUME m + 1 <= n PROVE F[m + 1] \in Seq(Int)
    OBVIOUS
  <2>2. F[m] \in Seq(Int)
    BY <1>4, <1>7, <2>1
  <2>3. m + 1 \in 0 .. n /\ m + 1 # 0 /\ (m + 1) - 1 = m /\ m + 1 \in 1 .. n
    BY <1>4, <2>1
  <2>4. F[m + 1] = WithWord(F[m], words[m + 1], w)
    BY <1>5, <2>3
  <2>5. words[m + 1] \in Int
    BY <2>3
  <2> QED BY <2>2, <2>4, <2>5, WithWordIs
<1>8. n \in T
  <2> HIDE DEF T, n
  <2> QED BY <1>4, <1>6, <1>7, Induction
<1>9. F[n] \in Seq(Int)
  BY <1>4, <1>8
<1> HIDE DEF n
<1>10. <<>> \in Seq(Int)
  OBVIOUS
<1> QED BY <1>3, <1>9, <1>10, Zenon

-----------------------------------------------------------------------------
(* The panels the screens add.                                             *)
LEMMA HintFine ==
  ASSUME NEW r \in Region, r.X >= 0, NEW widths \in Seq(Int) PROVE Fine(panelHint(r, widths))
<1> DEFINE in == Interior(r)
           ink == Lines(in, in.Y, widths)
<1>1. panelHint(r, widths) = Plain(r, 8, 0, ink)
  BY DEF panelHint, Panel, Plain
<1> HIDE DEF in
<1>2. ASSUME Framed(in, r) PROVE Keeps(ink, r)
  <2>1. r \in Region /\ Columned(in, r) /\ in.Y \in Int /\ in.Y >= r.Y
    <3>1. r \in Region /\ Columned(in, r) /\ in.Y \in Int /\ in.Y = r.Y + 1 /\ r.Y \in Int
      BY <1>2, FramedIs
    <3> QED BY <3>1
  <2> QED BY <2>1, LinesKeep
<1> HIDE DEF ink
<1>3. Fine(Plain(r, 8, 0, ink))
  BY <1>2, PanelFine DEF in
<1> QED BY <1>1, <1>3

(* A line across the panel.                                                *)
LEMMA AcrossKeeps ==
  ASSUME NEW in, NEW b, Framed(in, b), NEW y \in Int, y >= b.Y, y < b.Y + b.H, NEW n \in Int
  PROVE  Keeps(TextIn(in.X, y, in.W, n), b)
<1>1. /\ b \in Region /\ b.X \in Nat /\ b.W \in Nat /\ in.X \in Nat /\ in.W \in Nat /\ in.X = b.X + 2
      /\ in.X + in.W + 2 = b.X + b.W
  BY FramedIs
<1>2. in.X \in Int /\ in.W \in Int /\ in.X >= b.X /\ in.X + in.W <= b.X + b.W
  BY <1>1
<1> QED BY <1>1, <1>2, TextInKeeps

LEMMA NodeWordsAre == NodeWords \in Seq(Int)
  BY DEF NodeWords

LEMMA SoloWordsAre == SoloWords \in Seq(Int)
  BY DEF SoloWords

LEMMA CommandHelpIs == configCommandHelp \in Seq(Int) /\ Len(configCommandHelp) = 11
  BY DEF configCommandHelp

LEMMA NodeDetailKeeps ==
  ASSUME NEW in, NEW b, Framed(in, b), NEW s \in SnapshotType PROVE Keeps(NodeDetailInk(in, s), b)
<1> DEFINE lines == wrapText(NodeWords, in.W)
           y == Lesser(in.Y + 2 + Len(lines), Greater(in.Y + 2, Bottom(in)))
           kvs == <<<<7, 9>>, <<7, 7>>, <<6, s.count>>, <<11, s.count>>, <<8, 2>>, <<9, 2>>,
                    <<6, 3>>, <<15, 3>>, <<7, s.count>>, <<3, s.node>>>>
           A == TextIn(in.X, in.Y, in.W, 24)
           B == Lines(in, in.Y + 2, lines)
           C == IF HintFits(y, in) THEN TextIn(in.X, Bottom(in) - 1, in.W, 34) ELSE {}
<1>1. NodeDetailInk(in, s) = IF s.info THEN kvRows(in, in.Y, kvs) ELSE A \cup B \cup C
  BY DEF NodeDetailInk
<1>2. /\ b \in Region /\ b.Y \in Int /\ b.H \in Nat /\ in.Y \in Int /\ in.H \in Nat /\ in.H >= 1
      /\ in.Y = b.Y + 1 /\ in.Y + in.H + 1 = b.Y + b.H /\ Bottom(in) = in.Y + in.H /\ Columned(in, b)
  BY FramedIs
<1>3. kvs \in Pairs
  <2>1. s.count \in Nat /\ s.node \in Nat
    BY SnapIs
  <2> QED BY <2>1 DEF Pairs
<1> HIDE DEF kvs, y
<1>4. Keeps(kvRows(in, in.Y, kvs), b)
  BY <1>3, KvKeeps
<1>5. /\ in.Y >= b.Y /\ in.Y < b.Y + b.H /\ in.Y + 2 \in Int /\ in.Y + 2 >= b.Y
      /\ Bottom(in) - 1 \in Int /\ Bottom(in) - 1 >= b.Y /\ Bottom(in) - 1 < b.Y + b.H
  BY <1>2
<1>6. Keeps(A, b)
  BY <1>2, <1>5, AcrossKeeps
<1>7. Keeps(B, b)
  <2>1. lines \in Seq(Int)
    BY NodeWordsAre, WrapIs
  <2> HIDE DEF lines
  <2> QED BY <1>2, <1>5, <2>1, LinesKeep
<1>8. Keeps(C, b)
  <2>1. Keeps(TextIn(in.X, Bottom(in) - 1, in.W, 34), b)
    BY <1>2, <1>5, AcrossKeeps
  <2> QED BY <2>1, NoMarks
<1> HIDE DEF A, B, C
<1>9. Keeps(A \cup B \cup C, b)
  BY <1>6, <1>7, <1>8, ThreeKeep
<1> QED BY <1>1, <1>4, <1>9

LEMMA NodeDetailFine == ASSUME NEW r \in Region, r.X >= 0, NEW s \in SnapshotType PROVE Fine(panelNodeDetail(r, s))
<1> DEFINE ink == NodeDetailInk(Interior(r), s)
<1>1. panelNodeDetail(r, s) = Plain(r, 4, 0, ink)
  BY DEF panelNodeDetail, Panel, Plain
<1>2. Framed(Interior(r), r) => Keeps(ink, r)
  BY NodeDetailKeeps
<1> HIDE DEF ink
<1>3. Fine(Plain(r, 4, 0, ink))
  BY <1>2, PanelFine
<1> QED BY <1>1, <1>3

LEMMA SoloKeeps == ASSUME NEW in, NEW b, Framed(in, b) PROVE Keeps(SoloInk(in), b)
<1> DEFINE lines == wrapText(SoloWords, in.W)
           y == in.Y + Lesser(Len(lines), in.H)
           A == Lines(in, in.Y, lines)
           B == IF HintFits(y, in) THEN TextIn(in.X, y + 1, in.W, 43) ELSE {}
<1>1. SoloInk(in) = A \cup B
  BY DEF SoloInk
<1>2. /\ b \in Region /\ b.Y \in Int /\ b.H \in Nat /\ in.Y \in Int /\ in.H \in Nat /\ in.H >= 1
      /\ in.Y = b.Y + 1 /\ in.Y + in.H + 1 = b.Y + b.H /\ Bottom(in) = in.Y + in.H /\ Columned(in, b)
  BY FramedIs
<1>3. lines \in Seq(Int)
  BY SoloWordsAre, WrapIs
<1>4. Len(lines) \in Nat
  BY <1>3
<1> DEFINE n == Len(lines)
<1> HIDE DEF lines, n
<1>5. y \in Int /\ y >= in.Y
  <2>1. n \in Nat /\ y = in.Y + Lesser(n, in.H)
    BY <1>4 DEF n
  <2> HIDE DEF y
  <2> QED BY <1>2, <2>1 DEF Lesser
<1> HIDE DEF y
<1>6. Keeps(A, b)
  <2>1. in.Y >= b.Y
    BY <1>2
  <2> QED BY <1>2, <1>3, <2>1, LinesKeep
<1>7. Keeps(B, b)
  <2>1. CASE HintFits(y, in)
    <3>1. y + 1 \in Int /\ y + 1 >= b.Y /\ y + 1 < b.Y + b.H
      BY <1>2, <1>5, <2>1 DEF HintFits
    <3>2. Keeps(TextIn(in.X, y + 1, in.W, 43), b)
      BY <3>1, AcrossKeeps
    <3> QED BY <2>1, <3>2
  <2>2. CASE ~ HintFits(y, in)
    BY <2>2, NoMarks
  <2> QED BY <2>1, <2>2
<1> HIDE DEF A, B
<1> QED BY <1>1, <1>6, <1>7, BothKeep

SoloPanel(r) == Panel(r, 17, 0, SoloInk)

LEMMA SoloFine == ASSUME NEW r \in Region, r.X >= 0 PROVE Fine(SoloPanel(r))
<1> DEFINE ink == SoloInk(Interior(r))
<1>1. SoloPanel(r) = Plain(r, 17, 0, ink)
  BY DEF SoloPanel, Panel, Plain
<1>2. Framed(Interior(r), r) => Keeps(ink, r)
  BY SoloKeeps
<1> HIDE DEF ink
<1>3. Fine(Plain(r, 17, 0, ink))
  BY <1>2, PanelFine
<1> QED BY <1>1, <1>3

LEMMA WorkSourceKeeps ==
  ASSUME NEW in, NEW b, Framed(in, b), in.W >= 14, NEW s \in SnapshotType PROVE Keeps(WorkSourceInk(in, s), b)
<1> DEFINE kvs == <<<<4, 20>>, <<7, s.node + 10>>, <<3, Val(s.info, s.node)>>, <<13, s.time>>, <<8, s.time>>,
                    <<7, Val(s.info, 6)>>, <<11, s.count>>, <<8, s.count>>>>
           A == Text(in.X, in.Y, 6)
           B == TextRight(Right(in), in.Y, 2 + s.conn)
           C == kvRows(Below(in, in.Y + 2), in.Y + 2, kvs)
<1>1. WorkSourceInk(in, s) = A \cup B \cup C
  BY DEF WorkSourceInk
<1>2. /\ b \in Region /\ b.X \in Nat /\ b.Y \in Int /\ b.W \in Nat /\ b.H \in Nat
      /\ in.X \in Nat /\ in.Y \in Int /\ in.W \in Nat /\ in.H \in Nat /\ in.H >= 1 /\ in.X = b.X + 2
      /\ in.X + in.W + 2 = b.X + b.W
      /\ in.Y = b.Y + 1 /\ in.Y + in.H + 1 = b.Y + b.H /\ Right(in) = in.X + in.W /\ Columned(in, b)
  BY FramedIs
<1>3. kvs \in Pairs
  <2>1. s.count \in Nat /\ s.node \in Nat /\ s.time \in Nat /\ Val(s.info, s.node) \in Nat /\ Val(s.info, 6) \in Nat
    BY SnapIs, ValIs
  <2>2. s.node + 10 \in Nat
    BY <2>1
  <2> QED BY <2>1, <2>2 DEF Pairs
<1> HIDE DEF kvs
<1>4. s.conn \in Nat /\ s.conn <= 12
  BY SnapIs
<1>5. /\ in.X \in Int /\ in.X >= b.X /\ in.X + 6 <= b.X + b.W /\ in.Y >= b.Y /\ in.Y < b.Y + b.H
      /\ in.Y + 2 \in Int /\ in.Y + 2 >= b.Y /\ b.X >= 0
  BY <1>2
<1>6. Keeps(A, b)
  BY <1>2, <1>5, TextKeeps
<1>7. Keeps(B, b)
  <2>1. Right(in) \in Int /\ 2 + s.conn \in Nat /\ Right(in) - (2 + s.conn) >= b.X /\ Right(in) <= b.X + b.W
    BY <1>2, <1>4
  <2> QED BY <1>2, <1>5, <2>1, TextRightKeeps
<1>8. Keeps(C, b)
  <2>1. Columned(Below(in, in.Y + 2), b)
    BY <1>2, <1>5, BelowIs
  <2> QED BY <1>2, <1>3, <1>5, <2>1, KvRowsKeep
<1> HIDE DEF A, B, C
<1> QED BY <1>1, <1>6, <1>7, <1>8, ThreeKeep

WorkSourcePanel(r, s) == Panel(r, 11, 0, LAMBDA in : WorkSourceInk(in, s))

LEMMA WorkSourceFine ==
  ASSUME NEW r \in Region, r.X >= 0, r.W >= 18, NEW s \in SnapshotType PROVE Fine(WorkSourcePanel(r, s))
<1> DEFINE ink == WorkSourceInk(Interior(r), s)
<1>1. WorkSourcePanel(r, s) = Plain(r, 11, 0, ink)
  BY DEF WorkSourcePanel, Panel, Plain
<1>2. Framed(Interior(r), r) /\ Interior(r).W = r.W - 4 => Keeps(ink, r)
  <2> SUFFICES ASSUME Framed(Interior(r), r), Interior(r).W = r.W - 4 PROVE Keeps(ink, r)
    OBVIOUS
  <2>1. r.W \in Int
    BY RegionIs
  <2>2. Interior(r).W >= 14
    BY <2>1
  <2> QED BY <2>2, WorkSourceKeeps
<1> HIDE DEF ink
<1>3. Fine(Plain(r, 11, 0, ink))
  BY <1>2, PanelFine
<1> QED BY <1>1, <1>3

-----------------------------------------------------------------------------
(* The panels of the config and the help screens.                          *)
ConfigPanel(r, s) == Panel(r, 8, 0, LAMBDA in : kvRows(in, in.Y,
  <<<<4, s.node>>, <<7, 7>>, <<11, 2>>, <<11, 4>>, <<9, s.count>>, <<10, 8>>, <<5, 5>>, <<6, 9>>,
    <<7, s.path>>, <<11, s.path>>, <<8, s.path>>>>))

LEMMA ConfigFine == ASSUME NEW r \in Region, r.X >= 0, NEW s \in SnapshotType PROVE Fine(ConfigPanel(r, s))
<1> DEFINE kvs == <<<<4, s.node>>, <<7, 7>>, <<11, 2>>, <<11, 4>>, <<9, s.count>>, <<10, 8>>, <<5, 5>>, <<6, 9>>,
                    <<7, s.path>>, <<11, s.path>>, <<8, s.path>>>>
<1>1. kvs \in Pairs
  <2>1. s.node \in Nat /\ s.count \in Nat /\ s.path \in Nat
    BY SnapIs
  <2> QED BY <2>1 DEF Pairs
<1>2. ConfigPanel(r, s) = ListPanel(r, 8, kvs)
  BY DEF ConfigPanel, ListPanel, Panel
<1> HIDE DEF kvs
<1> QED BY <1>1, <1>2, ListFine

KeysPanel(r) == Panel(r, 7, 0, LAMBDA in : kvRows(in, in.Y,
  <<<<10, 9>>, <<1, 6>>, <<1, 10>>, <<1, 7>>, <<1, 7>>, <<1, 6>>, <<1, 4>>, <<1, 5>>, <<1, 4>>,
    <<3, 11>>, <<9, 15>>, <<13, 4>>>>))

LEMMA KeysFine == ASSUME NEW r \in Region, r.X >= 0 PROVE Fine(KeysPanel(r))
<1> DEFINE kvs == <<<<10, 9>>, <<1, 6>>, <<1, 10>>, <<1, 7>>, <<1, 7>>, <<1, 6>>, <<1, 4>>, <<1, 5>>, <<1, 4>>,
                    <<3, 11>>, <<9, 15>>, <<13, 4>>>>
<1>1. kvs \in Pairs
  BY DEF Pairs
<1>2. KeysPanel(r) = ListPanel(r, 7, kvs)
  BY DEF KeysPanel, ListPanel, Panel
<1> HIDE DEF kvs
<1> QED BY <1>1, <1>2, ListFine

MorePanel(r) == Panel(r, 4, 0, LAMBDA in : kvRows(in, in.Y,
  <<<<12, 14>>, <<9, 13>>, <<10, 21>>, <<5, 13>>, <<1, 20>>, <<1, 18>>, <<12, 12>>, <<1, 8>>,
    <<1, 18>>, <<7, 12>>, <<6, 17>>>>))

LEMMA MoreFine == ASSUME NEW r \in Region, r.X >= 0 PROVE Fine(MorePanel(r))
<1> DEFINE kvs == <<<<12, 14>>, <<9, 13>>, <<10, 21>>, <<5, 13>>, <<1, 20>>, <<1, 18>>, <<12, 12>>, <<1, 8>>,
                    <<1, 18>>, <<7, 12>>, <<6, 17>>>>
<1>1. kvs \in Pairs
  BY DEF Pairs
<1>2. MorePanel(r) = ListPanel(r, 4, kvs)
  BY DEF MorePanel, ListPanel, Panel
<1> HIDE DEF kvs
<1> QED BY <1>1, <1>2, ListFine

(* The commands, and below them the flags.                                 *)
HelpInk(in) ==
  LET flags(q) == LET y == q.Y + Lesser(Len(configCommandHelp), q.H) IN IF y < Bottom(q) THEN y + 1 ELSE y
  IN  Lines(in, in.Y, configCommandHelp) \cup Lines(in, flags(in), <<40, 43, 33, 42>>)

HelpPanel(r) == Panel(r, 8, 0, LAMBDA in : HelpInk(in))

LEMMA HelpKeeps == ASSUME NEW in, NEW b, Framed(in, b) PROVE Keeps(HelpInk(in), b)
<1> DEFINE n == Len(configCommandHelp)
           y == in.Y + Lesser(n, in.H)
           z == IF y < Bottom(in) THEN y + 1 ELSE y
           more == <<40, 43, 33, 42>>
<1>1. HelpInk(in) = Lines(in, in.Y, configCommandHelp) \cup Lines(in, z, more)
  BY DEF HelpInk
<1>2. /\ b \in Region /\ b.Y \in Int /\ b.H \in Nat /\ in.Y \in Int /\ in.H \in Nat
      /\ in.Y = b.Y + 1 /\ Columned(in, b)
  BY FramedIs
<1>3. n = 11
  BY CommandHelpIs
<1>4. more \in Seq(Int)
  OBVIOUS
<1> HIDE DEF n, more
<1>5. in.Y >= b.Y /\ y \in Int /\ y >= b.Y
  BY <1>2, <1>3 DEF Lesser
<1> HIDE DEF y
<1>6. z \in Int /\ z >= b.Y
  BY <1>2, <1>5
<1> HIDE DEF z
<1>7. Keeps(Lines(in, in.Y, configCommandHelp), b)
  BY <1>2, <1>5, CommandHelpIs, LinesKeep
<1>8. Keeps(Lines(in, z, more), b)
  BY <1>2, <1>4, <1>6, LinesKeep
<1> QED BY <1>1, <1>7, <1>8, BothKeep

LEMMA HelpFine == ASSUME NEW r \in Region, r.X >= 0 PROVE Fine(HelpPanel(r))
<1> DEFINE ink == HelpInk(Interior(r))
<1>1. HelpPanel(r) = Plain(r, 8, 0, ink)
  BY DEF HelpPanel, Panel, Plain
<1>2. Framed(Interior(r), r) => Keeps(ink, r)
  BY HelpKeeps
<1> HIDE DEF ink
<1>3. Fine(Plain(r, 8, 0, ink))
  BY <1>2, PanelFine
<1> QED BY <1>1, <1>3

-----------------------------------------------------------------------------
(* The start-up notes.                                                     *)
NoteLines(in, s) == FlattenSeq([i \in DOMAIN s.notes |-> wrapText(s.notes[i], in.W - 2)])

LEMMA FlattenNone == ASSUME NEW ss, Len(ss) = 0 PROVE FlattenSeq(ss) = ss
  BY DEF FlattenSeq

LEMMA NoteLinesAre == ASSUME NEW in, NEW s \in SnapshotType PROVE NoteLines(in, s) \in Seq(Int)
<1> DEFINE notes == s.notes
           ss == [i \in DOMAIN notes |-> wrapText(notes[i], in.W - 2)]
<1>1. notes \in Seq(Seq(Nat))
  BY SnapIs
<1> HIDE DEF notes
<1>2. Len(notes) \in Nat /\ DOMAIN notes = 1 .. Len(notes) /\ \A i \in 1 .. Len(notes) : notes[i] \in Seq(Int)
  <2>1. \A i \in 1 .. Len(notes) : notes[i] \in Seq(Nat)
    BY <1>1
  <2>2. \A t \in Seq(Nat) : t \in Seq(Int)
    OBVIOUS
  <2> QED BY <1>1, <2>1, <2>2
<1>3. \A i \in 1 .. Len(notes) : wrapText(notes[i], in.W - 2) \in Seq(Int)
  BY <1>2, WrapIs
<1> DEFINE n == Len(notes)
<1>4. ss = [i \in 1 .. n |-> wrapText(notes[i], in.W - 2)] /\ ss \in [1 .. n -> Seq(Int)]
  BY <1>2, <1>3
<1>5. Len(ss) = n /\ n \in Nat /\ \A i \in 1 .. n : ss[i] \in Seq(Int)
  <2> HIDE DEF ss
  <2> QED BY <1>2, <1>4, SeqIs
<1>6. NoteLines(in, s) = FlattenSeq(ss)
  BY DEF NoteLines, notes
<1> HIDE DEF ss, n
<1>7. CASE n = 0
  <2>1. FlattenSeq(ss) = ss
    BY <1>5, <1>7, FlattenNone
  <2>2. ss \in [1 .. 0 -> Int]
    BY <1>4, <1>7
  <2>3. ss \in Seq(Int)
    BY <2>2, SeqIs
  <2> QED BY <1>6, <2>1, <2>3
<1>8. CASE n # 0
  <2>1. Len(ss) \in Nat \ {0} /\ \A i \in 1 .. Len(ss) : ss[i] \in Seq(Int)
    BY <1>5, <1>8
  <2> QED BY <1>6, <2>1, FlattenPlaces
<1> QED BY <1>7, <1>8

LEMMA NotesKeep == ASSUME NEW in, NEW b, Framed(in, b), NEW s \in SnapshotType PROVE Keeps(NotesInk(in, s), b)
<1> DEFINE lines == NoteLines(in, s)
           n == Lesser(Len(lines), in.H)
           A(i) == Text(in.X, in.Y + i - 1, 1)
           B(i) == TextIn(in.X + 2, in.Y + i - 1, in.W - 2, lines[i])
           T(i) == A(i) \cup B(i)
           none == TextIn(in.X, in.Y, in.W, 17)
<1>1. NotesInk(in, s) = IF n = 0 THEN none ELSE UNION {T(i) : i \in 1 .. n}
  BY DEF NotesInk, NoteLines
<1>2. /\ b \in Region /\ b.X \in Nat /\ b.Y \in Int /\ b.W \in Nat /\ b.H \in Nat
      /\ in.X \in Nat /\ in.Y \in Int /\ in.W \in Nat /\ in.H \in Nat /\ in.H >= 1 /\ in.W >= 1 /\ in.X = b.X + 2
      /\ in.X + in.W + 2 = b.X + b.W
      /\ in.Y = b.Y + 1 /\ in.Y + in.H + 1 = b.Y + b.H
  BY FramedIs
<1>3. lines \in Seq(Int)
  BY NoteLinesAre
<1> DEFINE k == Len(lines)
<1>4. k \in Nat /\ \A i \in 1 .. k : lines[i] \in Int
  BY <1>3
<1>5. n = Lesser(k, in.H)
  OBVIOUS
<1> HIDE DEF lines, k, n
<1>6. n \in Nat /\ n <= k /\ n <= in.H
  <2>1. k \in Nat
    BY <1>4
  <2> QED BY <1>2, <1>5, <2>1 DEF Lesser
<1>7. Keeps(none, b)
  <2>1. in.Y >= b.Y /\ in.Y < b.Y + b.H
    BY <1>2
  <2> QED BY <1>2, <2>1, AcrossKeeps
<1>8. ASSUME NEW i \in 1 .. n PROVE Keeps(T(i), b)
  <2> DEFINE y == in.Y + i - 1
  <2>0. i \in 1 .. k /\ k \in Nat
    BY <1>4, <1>6
  <2>1. y \in Int /\ y >= b.Y /\ y < b.Y + b.H
    BY <1>2, <1>6
  <2>2. lines[i] \in Int
    BY <1>4, <2>0
  <2> HIDE DEF y
  <2>3. Keeps(A(i), b)
    <3>1. in.X \in Int /\ 1 \in Int /\ in.X >= b.X /\ in.X + 1 <= b.X + b.W
      BY <1>2
    <3>2. Keeps(Text(in.X, y, 1), b)
      BY <1>2, <2>1, <3>1, TextKeeps
    <3> QED BY <3>2 DEF y
  <2>4. Keeps(B(i), b)
    <3>1. in.X + 2 \in Int /\ in.W - 2 \in Int /\ in.X + 2 >= b.X /\ (in.X + 2) + (in.W - 2) <= b.X + b.W
      BY <1>2
    <3>2. Keeps(TextIn(in.X + 2, y, in.W - 2, lines[i]), b)
      BY <1>2, <2>1, <2>2, <3>1, TextInKeeps
    <3> QED BY <3>2 DEF y
  <2> HIDE DEF A, B
  <2> QED BY <2>3, <2>4, BothKeep
<1> HIDE DEF T, none
<1>9. Keeps(UNION {T(i) : i \in 1 .. n}, b)
  BY <1>8 DEF Keeps
<1> QED BY <1>1, <1>7, <1>9

NotesPanel(r, s) == Panel(r, 14, 0, LAMBDA in : NotesInk(in, s))

LEMMA NotesFine == ASSUME NEW r \in Region, r.X >= 0, NEW s \in SnapshotType PROVE Fine(NotesPanel(r, s))
<1> DEFINE ink == NotesInk(Interior(r), s)
<1>1. NotesPanel(r, s) = Plain(r, 14, 0, ink)
  BY DEF NotesPanel, Panel, Plain
<1>2. Framed(Interior(r), r) => Keeps(ink, r)
  BY NotesKeep
<1> HIDE DEF ink
<1>3. Fine(Plain(r, 14, 0, ink))
  BY <1>2, PanelFine
<1> QED BY <1>1, <1>3

-----------------------------------------------------------------------------
(* The cells of the list of threads.                                       *)
LEMMA Under == ASSUME NEW g \in Nat \ {0}, NEW a \in Int, NEW b \in Int, g * a < b * g PROVE a + 1 <= b
  OBVIOUS

LEMMA TimesGrows == ASSUME NEW a \in Nat, NEW b \in Nat, NEW c \in Nat, a <= b PROVE a * c <= b * c
<1> DEFINE d == b - a
<1>1. d \in Nat /\ b = a + d
  OBVIOUS
<1> HIDE DEF d
<1>2. b * c = a * c + d * c
  BY <1>1
<1>3. d * c \in Nat /\ a * c \in Nat
  BY <1>1
<1> DEFINE p == a * c  q == d * c  r == b * c
<1>4. r = p + q /\ q \in Nat /\ p \in Nat
  BY <1>2, <1>3
<1> HIDE DEF p, q, r
<1>5. p <= r
  BY <1>4
<1> QED BY <1>5 DEF p, r

LEMMA CellIs ==
  ASSUME NEW W \in Nat, W >= 7, NEW rows \in Nat \ {0}, NEW i \in Nat, i < Greater(W \div 18, 1) * rows
  PROVE  LET c == W \div Greater(W \div 18, 1)
         IN  /\ c \in Nat /\ c >= 7 /\ (i \div rows) * c \in Nat /\ (i \div rows) * c + c <= W
             /\ i % rows \in Nat /\ i % rows < rows
<1> DEFINE d == W \div 18
           cols == Greater(d, 1)
           c == W \div cols
           q == i \div rows
<1>1. 18 \in Nat \ {0} /\ d \in Nat /\ 18 * d <= W
  <2>1. 18 \in Nat \ {0}
    OBVIOUS
  <2> QED BY <2>1, Division
<1> HIDE DEF d
<1>2. cols \in Nat \ {0} /\ (cols = 1 \/ cols = d)
  BY <1>1 DEF Greater
<1> HIDE DEF cols
<1>3. c \in Nat /\ cols * c <= W
  BY <1>2, Division
<1>4. W = cols * c + (W % cols) /\ W % cols < cols /\ W % cols \in Nat
  BY <1>2, Division
<1>5. c >= 7
  <2>1. CASE cols = 1
    <3>1. c = W
      BY <2>1, <1>3, <1>4
    <3> QED BY <3>1
  <2>2. CASE cols = d
    <3> DEFINE t == W % cols
    <3>1. t \in Nat /\ t < cols /\ W = cols * c + t /\ 18 * cols <= W
      BY <1>1, <1>4, <2>2
    <3> HIDE DEF t, c
    <3>2. cols * 18 < (c + 1) * cols
      <4>1. (c + 1) * cols = cols * c + cols
        BY <1>2, <1>3
      <4>2. cols * c \in Int /\ cols \in Int
        BY <1>2, <1>3
      <4> DEFINE p == cols * c
      <4> HIDE DEF p
      <4>3. p \in Int /\ W = p + t /\ (c + 1) * cols = p + cols
        BY <3>1, <4>1, <4>2 DEF p
      <4>4. p + cols > W
        BY <3>1, <4>2, <4>3
      <4> QED BY <3>1, <4>2, <4>3, <4>4
    <3>3. 18 + 1 <= c + 1
      <4>1. c + 1 \in Int /\ 18 \in Int
        BY <1>3
      <4> QED BY <1>2, <3>2, <4>1, Under
    <3> QED BY <1>3, <3>3
  <2> QED BY <1>2, <2>1, <2>2
<1>6. q \in Nat /\ rows * q <= i /\ i % rows \in Nat /\ i % rows < rows
  BY Division
<1> HIDE DEF c, q
<1>7. q + 1 <= cols
  <2> DEFINE p == rows * q  z == cols * rows
  <2>1. p \in Int /\ z \in Int /\ p <= i /\ i < z
    BY <1>2, <1>6 DEF cols, d
  <2> HIDE DEF p, z
  <2>2. p < z
    BY <2>1
  <2> QED BY <1>2, <1>6, <2>2, Under DEF p, z
<1>8. q * c \in Nat /\ q * c + c <= W
  <2>1. (q + 1) * c <= cols * c
    BY <1>2, <1>3, <1>6, <1>7, TimesGrows
  <2>2. (q + 1) * c = q * c + c /\ q * c \in Nat /\ cols * c \in Nat
    BY <1>2, <1>3, <1>6
  <2> DEFINE m == q * c  k == cols * c
  <2>3. m + c <= k /\ k <= W /\ m \in Nat /\ k \in Nat
    BY <1>3, <2>1, <2>2
  <2> HIDE DEF m, k
  <2>4. m + c <= W
    BY <1>3, <2>3
  <2> QED BY <2>3, <2>4 DEF m
<1> QED BY <1>3, <1>5, <1>6, <1>8 DEF c, q, cols, d

-----------------------------------------------------------------------------
(* A thread in its cell of the grid, and the grid.                         *)
GridX(in, rows, i) == in.X + (i \div rows) * (in.W \div ThreadCols(in))

GridThread(in, rows, i) ==
  LET cellW == in.W \div ThreadCols(in)  x == GridX(in, rows, i)  y == in.Y + (i % rows)
      lw == ThreadLabel(i)  barW == cellW - lw - 7
  IN  Text(x, y, lw) \cup (IF barW > 2 THEN DrawBar(x + lw + 1, y, barW) ELSE {})
      \cup TextRight(x + cellW - 1, y, 4)

LEMMA LabelIs ==
  /\ \A i : ThreadLabel(i) \in {3, 4}
  /\ \A n : Digits(n) \in {1, 2, 3}
<1>1. ASSUME NEW n PROVE Digits(n) \in {1, 2, 3}
  BY Zenon DEF Digits
<1>2. ASSUME NEW i PROVE ThreadLabel(i) \in {3, 4}
  <2> DEFINE d == Digits(i + 1)
  <2>1. d \in {1, 2, 3} /\ ThreadLabel(i) = 1 + Greater(d, 2)
    BY <1>1 DEF ThreadLabel
  <2> HIDE DEF d
  <2> QED BY <2>1 DEF Greater
<1> QED BY <1>1, <1>2

LEMMA GridThreadKeeps ==
  ASSUME NEW in, NEW b, Framed(in, b), in.W >= 7, NEW rows \in Nat \ {0}, rows <= in.H,
         NEW i \in Nat, i < ThreadCols(in) * rows, NEW more \in 7 .. 9
  PROVE  Keeps(GridThread(in, rows, i), b) /\ Keeps(Text(GridX(in, rows, i), in.Y + (i % rows), more), b)
<1> DEFINE c == in.W \div ThreadCols(in)
           m == (i \div rows) * c
           k == i % rows
           x == in.X + m
           y == in.Y + k
           lw == ThreadLabel(i)
           barW == c - lw - 7
           A == Text(x, y, lw)
           B == IF barW > 2 THEN DrawBar(x + lw + 1, y, barW) ELSE {}
           C == TextRight(x + c - 1, y, 4)
<1>1. GridThread(in, rows, i) = A \cup B \cup C /\ GridX(in, rows, i) = x
  BY Zenon DEF GridThread, GridX
<1>2. /\ b \in Region /\ b.X \in Nat /\ b.Y \in Int /\ b.W \in Nat /\ b.H \in Nat
      /\ in.X \in Nat /\ in.Y \in Int /\ in.W \in Nat /\ in.H \in Nat /\ in.X = b.X + 2
      /\ in.X + in.W + 2 = b.X + b.W
      /\ in.Y = b.Y + 1 /\ in.Y + in.H + 1 = b.Y + b.H
  BY FramedIs
<1>3. c \in Nat /\ c >= 7 /\ m \in Nat /\ m + c <= in.W /\ k \in Nat /\ k < rows
  BY <1>2, CellIs DEF ThreadCols
<1> HIDE DEF c, m, k
<1>4. x \in Int /\ y \in Int /\ y >= b.Y /\ y < b.Y + b.H /\ x = in.X + m
  BY <1>2, <1>3
<1>l. lw \in Int /\ lw >= 3 /\ lw <= 4
  <2>1. lw \in {3, 4}
    BY LabelIs
  <2> HIDE DEF lw
  <2> QED BY <2>1
<1> HIDE DEF x, y, lw
<1>w. barW \in Int /\ barW = c - lw - 7
  BY <1>3, <1>l
<1> HIDE DEF barW
<1>5. Keeps(A, b)
  <2>1. x >= b.X /\ x + lw <= b.X + b.W
    BY <1>2, <1>3, <1>4, <1>l
  <2> QED BY <1>2, <1>4, <1>l, <2>1, TextKeeps
<1>6. Keeps(B, b)
  <2>1. x + lw + 1 \in Int /\ x + lw + 1 >= b.X /\ (x + lw + 1) + barW <= b.X + b.W
    BY <1>2, <1>3, <1>4, <1>l, <1>w
  <2>2. Keeps(DrawBar(x + lw + 1, y, barW), b)
    BY <1>2, <1>4, <1>w, <2>1, TextKeeps DEF DrawBar
  <2> QED BY <2>2, NoMarks
<1>7. Keeps(C, b)
  <2>1. x + c - 1 \in Int /\ (x + c - 1) - 4 >= b.X /\ x + c - 1 <= b.X + b.W /\ b.X >= 0
    BY <1>2, <1>3, <1>4
  <2> QED BY <1>2, <1>4, <2>1, TextRightKeeps
<1>8. Keeps(Text(x, y, more), b)
  <2>1. more \in Int /\ x >= b.X /\ x + more <= b.X + b.W
    BY <1>2, <1>3, <1>4
  <2> QED BY <1>2, <1>4, <2>1, TextKeeps
<1> HIDE DEF A, B, C
<1>9. Keeps(A \cup B \cup C, b)
  BY <1>5, <1>6, <1>7, ThreeKeep
<1> QED BY <1>1, <1>8, <1>9 DEF y, k

LEMMA GridKeeps ==
  ASSUME NEW in, NEW b, Framed(in, b), in.W >= 7, NEW s \in SnapshotType PROVE Keeps(drawThreadGrid(in, s), b)
<1> DEFINE n == ThreadsKnown(s)
           cols == ThreadCols(in)
           rows == ThreadRows(in, s)
           cells == cols * rows
           seen == ThreadsShown(n, cells)
           none == TextCenter(in.X, in.Y + (in.H \div 2), in.W, 22)
           A == UNION {GridThread(in, rows, i) : i \in 0 .. seen - 1}
           more == 6 + Digits(n - seen)
           B == IF seen < n THEN Text(GridX(in, rows, seen), in.Y + (seen % rows), more) ELSE {}
<1>1. drawThreadGrid(in, s) = IF n <= 0 THEN none ELSE IF rows < 1 THEN {} ELSE A \cup B
  BY Zenon DEF drawThreadGrid, GridThread, GridX
<1>m. more \in 7 .. 9
  <2> DEFINE d == Digits(n - seen)
  <2>1. d \in {1, 2, 3}
    BY LabelIs
  <2> HIDE DEF d
  <2>2. 6 + d \in 7 .. 9
    BY <2>1
  <2> QED BY <2>2 DEF d
<1> HIDE DEF more
<1>2. /\ b \in Region /\ b.X \in Nat /\ b.Y \in Int /\ b.W \in Nat /\ b.H \in Nat
      /\ in.X \in Nat /\ in.Y \in Int /\ in.W \in Nat /\ in.H \in Nat /\ in.X = b.X + 2 /\ in.H >= 1
      /\ in.X + in.W + 2 = b.X + b.W
      /\ in.Y = b.Y + 1 /\ in.Y + in.H + 1 = b.Y + b.H
  BY FramedIs
<1>3. n \in Nat
  BY SnapIs DEF ThreadsKnown, Lesser
<1>4. cols \in Nat \ {0}
  <2>1. in.W \div 18 \in Int
    BY <1>2
  <2> QED BY <2>1 DEF ThreadCols, Greater
<1>5. rows \in Int /\ rows <= in.H
  <2> DEFINE u == (n + cols - 1) \div cols
  <2>1. u \in Int
    <3> HIDE DEF n, cols
    <3> QED BY <1>3, <1>4
  <2>2. rows = Lesser(u, in.H)
    BY DEF ThreadRows
  <2> HIDE DEF u, rows
  <2> QED BY <1>2, <2>1, <2>2 DEF Lesser
<1> HIDE DEF n, cols, rows
<1>6. Keeps(none, b)
  <2> DEFINE y == in.Y + (in.H \div 2)
  <2>1. in.X \in Int /\ 22 \in Int /\ in.X >= b.X /\ in.X + in.W <= b.X + b.W /\ y \in Int /\ y >= b.Y /\ y < b.Y + b.H
    BY <1>2
  <2> HIDE DEF y
  <2>2. Keeps(TextCenter(in.X, y, in.W, 22), b)
    BY <1>2, <2>1, CentredKeeps
  <2> QED BY <2>2 DEF y
<1>7. CASE n <= 0
  BY <1>1, <1>6, <1>7
<1>8. CASE ~ (n <= 0) /\ rows < 1
  BY <1>1, <1>8, NoMarks
<1>9. CASE ~ (n <= 0) /\ ~ (rows < 1)
  <2>1. rows \in Nat \ {0} /\ cells \in Nat \ {0}
    <3>1. rows \in Nat \ {0}
      BY <1>5, <1>9
    <3>2. cells \in Nat /\ cells # 0
      BY <1>4, <3>1
    <3> QED BY <3>1, <3>2
  <2> HIDE DEF cells
  <2>2. seen \in Int /\ seen <= cells /\ (seen < n => seen \in Nat /\ seen < cells)
    BY <1>3, <2>1 DEF ThreadsShown
  <2> HIDE DEF seen
  <2>3. ASSUME NEW i \in 0 .. seen - 1 PROVE Keeps(GridThread(in, rows, i), b)
    <3>1. i \in Nat /\ i < cells
      BY <2>1, <2>2
    <3> QED BY <1>5, <1>m, <2>1, <3>1, GridThreadKeeps DEF cells, cols
  <2>4. Keeps(A, b)
    BY <2>3 DEF Keeps
  <2>5. Keeps(B, b)
    <3>1. CASE seen < n
      BY <1>5, <1>m, <2>1, <2>2, <3>1, GridThreadKeeps DEF cells, cols
    <3>2. CASE ~ (seen < n)
      BY <3>2, NoMarks
    <3> QED BY <3>1, <3>2
  <2> HIDE DEF A, B
  <2> QED BY <1>1, <1>9, <2>4, <2>5, BothKeep
<1> QED BY <1>7, <1>8, <1>9

GridPanel(r, s, title, right) == Panel(r, title, right, LAMBDA in : drawThreadGrid(in, s))

LEMMA GridFine ==
  ASSUME NEW r \in Region, r.X >= 0, r.W >= 11, NEW s \in SnapshotType, NEW title \in Int, NEW right \in Int
  PROVE  Fine(GridPanel(r, s, title, right))
<1> DEFINE ink == drawThreadGrid(Interior(r), s)
<1>1. GridPanel(r, s, title, right) = Plain(r, title, right, ink)
  BY DEF GridPanel, Panel, Plain
<1>2. Framed(Interior(r), r) /\ Interior(r).W = r.W - 4 => Keeps(ink, r)
  <2> SUFFICES ASSUME Framed(Interior(r), r), Interior(r).W = r.W - 4 PROVE Keeps(ink, r)
    OBVIOUS
  <2>1. r.W \in Int
    BY RegionIs
  <2>2. Interior(r).W >= 7
    BY <2>1
  <2> QED BY <2>2, GridKeeps
<1> HIDE DEF ink
<1>3. Fine(Plain(r, title, right, ink))
  BY <1>2, PanelFine
<1> QED BY <1>1, <1>3

LEMMA ThreadsFine == ASSUME NEW r \in Region, r.X >= 0, r.W >= 11, NEW s \in SnapshotType PROVE Fine(panelThreads(r, s))
<1>1. panelThreads(r, s) = GridPanel(r, s, 14, 6)
  BY DEF panelThreads, GridPanel
<1>2. 14 \in Int /\ 6 \in Int
  OBVIOUS
<1> QED BY <1>1, <1>2, GridFine

-----------------------------------------------------------------------------
(* A line across the panel, centred.                                       *)
LEMMA MiddleKeeps ==
  ASSUME NEW in, NEW b, Framed(in, b), NEW x \in Int, NEW w \in Nat, x >= in.X, x + w <= in.X + in.W,
         NEW y \in Int, y >= b.Y, y < b.Y + b.H, NEW n \in Int
  PROVE  Keeps(TextCenter(x, y, w, n), b)
<1>1. /\ b \in Region /\ b.X \in Nat /\ b.W \in Nat /\ in.X \in Nat /\ in.W \in Nat /\ in.X = b.X + 2
      /\ in.X + in.W + 2 = b.X + b.W
  BY FramedIs
<1>2. x >= b.X /\ x + w <= b.X + b.W
  BY <1>1
<1> QED BY <1>1, <1>2, CentredKeeps

LEMMA PutKeeps ==
  ASSUME NEW in, NEW b, Framed(in, b), NEW x \in Int, NEW n \in Int, x >= in.X, x + n <= in.X + in.W,
         NEW y \in Int, y >= b.Y, y < b.Y + b.H
  PROVE  Keeps(Text(x, y, n), b)
<1>1. /\ b \in Region /\ b.X \in Nat /\ b.W \in Nat /\ in.X \in Nat /\ in.W \in Nat /\ in.X = b.X + 2
      /\ in.X + in.W + 2 = b.X + b.W
  BY FramedIs
<1>2. x >= b.X /\ x + n <= b.X + b.W
  BY <1>1
<1> QED BY <1>1, <1>2, TextKeeps

(* The mast, its signal and the words below them.                          *)
MastInk(in, s) ==
  LET artH == Lesser(in.H - 2, MastRows + 3)
      wide == in.W >= 22
      artW == IF wide THEN in.W \div 2 ELSE in.W
  IN  (IF wide THEN SignalRamp(Rect(in.X + artW, in.Y, in.W - artW, artH)) ELSE {})
      \cup Mast(Rect(in.X, in.Y, artW, artH))
      \cup (IF wide
            THEN TextCenter(in.X, Bottom(in) - 2, artW, 6)
                 \cup TextCenter(in.X + artW, Bottom(in) - 2, in.W - artW, 9)
                 \cup Row(in, Bottom(in) - 1, 4, Val(s.info, 6))
            ELSE Text(in.X, Bottom(in) - 2, 6) \cup SignalBars(Right(in) - 5, Bottom(in) - 2)
                 \cup TextCenter(in.X, Bottom(in) - 1, in.W, 9))

LEMMA MastInkKeeps ==
  ASSUME NEW in, NEW b, Framed(in, b), NEW s \in SnapshotType, in.W >= 10, in.H >= 7 PROVE Keeps(MastInk(in, s), b)
<1> DEFINE h == Lesser(in.H - 2, MastRows + 3)
           wide == in.W >= 22
           w == IF wide THEN in.W \div 2 ELSE in.W
           x == in.X + w
           k == in.W - w
           ramp == SignalRamp(Rect(x, in.Y, k, h))
           mast == Mast(Rect(in.X, in.Y, w, h))
           y == Bottom(in) - 2
           z == Bottom(in) - 1
           A == TextCenter(in.X, y, w, 6)
           B == TextCenter(x, y, k, 9)
           C == Row(in, z, 4, Val(s.info, 6))
           D == Text(in.X, y, 6)
           E == SignalBars(Right(in) - 5, y)
           F == TextCenter(in.X, z, in.W, 9)
<1>1. MastInk(in, s) = (IF wide THEN ramp ELSE {}) \cup mast \cup (IF wide THEN A \cup B \cup C ELSE D \cup E \cup F)
  BY DEF MastInk
<1>2. /\ b \in Region /\ in \in Region /\ b.X \in Nat /\ b.Y \in Int /\ b.W \in Nat /\ b.H \in Nat
      /\ in.X \in Nat /\ in.Y \in Int /\ in.W \in Nat /\ in.H \in Nat /\ in.X = b.X + 2
      /\ in.X + in.W + 2 = b.X + b.W
      /\ in.Y = b.Y + 1 /\ in.Y + in.H + 1 = b.Y + b.H /\ Bottom(in) = in.Y + in.H /\ Right(in) = in.X + in.W
      /\ Within(in, b) /\ Columned(in, b) /\ b.X >= 0
  BY FramedIs
<1>3. h \in Nat /\ h <= in.H
  BY <1>2 DEF Lesser, MastRows
<1>4. w \in Nat /\ w <= in.W /\ (wide => k >= 10) /\ k \in Nat /\ x \in Int /\ x >= in.X /\ x + k <= in.X + in.W
  <2>1. w \in Nat /\ w <= in.W /\ (wide => in.W - w >= 10)
    BY <1>2
  <2> HIDE DEF w, wide
  <2>2. k \in Nat /\ x \in Int /\ x >= in.X /\ x + k <= in.X + in.W
    BY <1>2, <2>1
  <2> QED BY <2>1, <2>2
<1>5. /\ y \in Int /\ y >= b.Y /\ y < b.Y + b.H /\ z \in Int /\ z >= b.Y /\ z < b.Y + b.H
  BY <1>2
<1> HIDE DEF h, w, x, k, y, z
<1>6. in.X \in Int /\ in.X >= in.X /\ in.X + w <= in.X + in.W /\ in.Y >= in.Y /\ in.Y + h <= in.Y + in.H
  BY <1>2, <1>3, <1>4
<1>7. Keeps(IF wide THEN ramp ELSE {}, b)
  <2>1. CASE wide
    <3>1. Rect(x, in.Y, k, h) \in Region /\ Within(Rect(x, in.Y, k, h), in)
      BY <1>2, <1>3, <1>4, <1>6, RectWithin
    <3>2. Within(Rect(x, in.Y, k, h), b) /\ Rect(x, in.Y, k, h).W = k
      BY <1>2, <3>1, WithinTrans, RectIs
    <3>3. Rect(x, in.Y, k, h).W >= 10
      BY <1>4, <2>1, <3>2
    <3> QED BY <1>2, <2>1, <3>1, <3>2, <3>3, SignalRampKeeps
  <2>2. CASE ~ wide
    BY <2>2, NoMarks
  <2> QED BY <2>1, <2>2
<1>8. Keeps(mast, b)
  <2>1. Rect(in.X, in.Y, w, h) \in Region /\ Within(Rect(in.X, in.Y, w, h), in)
    BY <1>2, <1>3, <1>4, <1>6, RectWithin
  <2>2. Within(Rect(in.X, in.Y, w, h), b)
    BY <1>2, <2>1, WithinTrans
  <2> QED BY <1>2, <2>1, <2>2, MastKeeps
<1>9. Keeps(A, b) /\ Keeps(B, b)
  BY <1>4, <1>5, <1>6, MiddleKeeps
<1>10. Keeps(C, b)
  <2>1. Val(s.info, 6) \in Nat
    BY ValIs
  <2> QED BY <1>2, <1>5, <2>1, RowKeeps
<1>11. Keeps(D, b)
  <2>1. in.X + 6 <= in.X + in.W
    BY <1>2
  <2> QED BY <1>5, <1>6, <2>1, PutKeeps
<1>12. Keeps(E, b)
  <2>1. Right(in) - 5 \in Int /\ Right(in) - 5 >= in.X /\ (Right(in) - 5) + 5 <= in.X + in.W
    BY <1>2
  <2> QED BY <1>5, <2>1, PutKeeps DEF SignalBars
<1>13. Keeps(F, b)
  <2>1. in.X + in.W <= in.X + in.W
    BY <1>2
  <2> QED BY <1>2, <1>5, <1>6, <2>1, MiddleKeeps
<1> HIDE DEF A, B, C, D, E, F, mast, ramp
<1>14. Keeps(A \cup B \cup C, b) /\ Keeps(D \cup E \cup F, b)
  BY <1>9, <1>10, <1>11, <1>12, <1>13, ThreeKeep
<1>15. Keeps(IF wide THEN A \cup B \cup C ELSE D \cup E \cup F, b)
  BY <1>14
<1> HIDE DEF wide
<1> QED BY <1>1, <1>7, <1>8, <1>15, ThreeKeep

(* The words and the figures alone.                                        *)
WordsInk(in, s) ==
  LET side == in.H >= 3 /\ in.W >= 14
      y    == in.Y + 2 + (IF side THEN 1 ELSE 0)
      rows == Rect(in.X, y, in.W, Bottom(in) - y - (IF in.H >= 5 THEN 1 ELSE 0))
  IN  TextCenter(in.X, in.Y, in.W, Clip(2 + s.conn, in.W))
      \cup (IF side THEN Text(in.X, in.Y + 2, 6) \cup SignalBars(Right(in) - 5, in.Y + 2) ELSE {})
      \cup (IF in.H >= 5 THEN TextCenter(in.X, Bottom(in) - 1, in.W, 9) ELSE {})
      \cup kvRows(rows, y, <<<<4, Val(s.info, 6)>>, <<5, Val(s.info, 2)>>, <<8, s.time>>>>)

LEMMA WordsInkKeeps ==
  ASSUME NEW in, NEW b, Framed(in, b), NEW s \in SnapshotType PROVE Keeps(WordsInk(in, s), b)
<1> DEFINE side == in.H >= 3 /\ in.W >= 14
           y    == in.Y + 2 + (IF side THEN 1 ELSE 0)
           h    == Bottom(in) - y - (IF in.H >= 5 THEN 1 ELSE 0)
           rows == Rect(in.X, y, in.W, h)
           n    == Clip(2 + s.conn, in.W)
           kvs  == <<<<4, Val(s.info, 6)>>, <<5, Val(s.info, 2)>>, <<8, s.time>>>>
           A == TextCenter(in.X, in.Y, in.W, n)
           B == IF side THEN Text(in.X, in.Y + 2, 6) \cup SignalBars(Right(in) - 5, in.Y + 2) ELSE {}
           C == IF in.H >= 5 THEN TextCenter(in.X, Bottom(in) - 1, in.W, 9) ELSE {}
           D == kvRows(rows, y, kvs)
<1>1. WordsInk(in, s) = A \cup B \cup C \cup D
  BY DEF WordsInk
<1>2. /\ b \in Region /\ in \in Region /\ b.X \in Nat /\ b.Y \in Int /\ b.W \in Nat /\ b.H \in Nat
      /\ in.X \in Nat /\ in.Y \in Int /\ in.W \in Nat /\ in.H \in Nat /\ in.X = b.X + 2
      /\ in.X + in.W + 2 = b.X + b.W /\ in.H >= 1
      /\ in.Y = b.Y + 1 /\ in.Y + in.H + 1 = b.Y + b.H /\ Bottom(in) = in.Y + in.H /\ Right(in) = in.X + in.W
      /\ b.X >= 0
  BY FramedIs
<1>3. kvs \in Pairs
  <2>1. s.time \in Nat /\ Val(s.info, 6) \in Nat /\ Val(s.info, 2) \in Nat
    BY SnapIs, ValIs
  <2> QED BY <2>1 DEF Pairs
<1> HIDE DEF kvs
<1>4. n \in Int
  <2>1. s.conn \in Nat
    BY SnapIs
  <2>2. 2 + s.conn \in Int
    BY <2>1
  <2> QED BY <1>2, <2>2, ClipIs
<1> HIDE DEF n
<1>5. y \in Int /\ y >= in.Y /\ h \in Int /\ y + h <= in.Y + in.H
  <2>1. y \in Int /\ y >= in.Y
    BY <1>2
  <2> HIDE DEF y
  <2> QED BY <1>2, <2>1
<1> HIDE DEF y, h
<1>6. /\ in.X \in Int /\ in.X >= in.X /\ in.X + in.W <= in.X + in.W /\ in.Y >= b.Y /\ in.Y < b.Y + b.H
      /\ Bottom(in) - 1 \in Int /\ Bottom(in) - 1 >= b.Y /\ Bottom(in) - 1 < b.Y + b.H
  BY <1>2
<1>7. Keeps(A, b)
  BY <1>2, <1>4, <1>6, MiddleKeeps
<1>8. Keeps(B, b)
  <2>1. CASE side
    <3>1. in.Y + 2 \in Int /\ in.Y + 2 >= b.Y /\ in.Y + 2 < b.Y + b.H /\ in.X + 6 <= in.X + in.W
          /\ Right(in) - 5 \in Int /\ Right(in) - 5 >= in.X /\ (Right(in) - 5) + 5 <= in.X + in.W
      BY <1>2, <2>1
    <3>2. Keeps(Text(in.X, in.Y + 2, 6), b)
      BY <1>6, <3>1, PutKeeps
    <3>3. Keeps(SignalBars(Right(in) - 5, in.Y + 2), b)
      BY <3>1, PutKeeps DEF SignalBars
    <3> QED BY <2>1, <3>2, <3>3, BothKeep
  <2>2. CASE ~ side
    BY <2>2, NoMarks
  <2> QED BY <2>1, <2>2
<1>9. Keeps(C, b)
  <2>1. Keeps(TextCenter(in.X, Bottom(in) - 1, in.W, 9), b)
    BY <1>2, <1>6, MiddleKeeps
  <2> QED BY <2>1, NoMarks
<1>10. Keeps(D, b)
  <2>1. rows.X = in.X /\ rows.Y = y /\ rows.W = in.W /\ rows.H = h
    BY RectIs
  <2> HIDE DEF rows
  <2>2. in.X >= b.X /\ in.X + in.W <= b.X + b.W /\ y >= b.Y /\ y + h <= b.Y + b.H
    BY <1>2, <1>5
  <2>3. Columned(rows, b)
    BY <1>2, <1>5, <1>6, <2>1, <2>2 DEF Columned
  <2> QED BY <1>2, <1>3, <1>5, <2>3, KvRowsKeep
<1> HIDE DEF A, B, C, D
<1> QED BY <1>1, <1>7, <1>8, <1>9, <1>10, FourKeep

LEMMA ConnectionFine == ASSUME NEW r \in Region, r.X >= 0, NEW s \in SnapshotType PROVE Fine(panelConnection(r, s))
<1> DEFINE in == Interior(r)
           ink == ConnectionInk(in, s)
<1>1. panelConnection(r, s) = Plain(r, 10, 0, ink)
  BY DEF panelConnection, Panel, Plain
<1> HIDE DEF in
<1>2. ASSUME Framed(in, r) PROVE Keeps(ink, r)
  <2>1. ink = IF in.W >= 10 /\ in.H >= MastRows + 3 THEN MastInk(in, s) ELSE WordsInk(in, s)
    BY Zenon DEF ConnectionInk, MastInk, WordsInk
  <2>2. MastRows + 3 = 7
    BY DEF MastRows
  <2> HIDE DEF ink
  <2>3. CASE in.W >= 10 /\ in.H >= 7
    BY <1>2, <2>1, <2>2, <2>3, MastInkKeeps
  <2>4. CASE ~ (in.W >= 10 /\ in.H >= 7)
    BY <1>2, <2>1, <2>2, <2>4, WordsInkKeeps
  <2> QED BY <2>3, <2>4
<1> HIDE DEF ink
<1>3. Fine(Plain(r, 10, 0, ink))
  BY <1>2, PanelFine DEF in
<1> QED BY <1>1, <1>3

-----------------------------------------------------------------------------
(* The list of the sources, wide enough.                                   *)
DeviceCells(in, y, rate, share, temp, note) ==
  TextRight(Right(in) - 13 - 6 - 11 + 10, y, rate) \cup TextRight(Right(in) - 13 - 6 + 5, y, share)
  \cup TextRight(Right(in) - 13 + 5, y, temp) \cup TextRight(Right(in), y, note)

DeviceLine(in, s, y, label, note) ==
  LET barW == Right(in) - 13 - 6 - 11 - in.X - 9
  IN  TextIn(in.X, y, 7, label) \cup (IF barW > 4 THEN DrawBar(in.X + 8, y, barW) ELSE {})
      \cup DeviceCells(in, y, s.rate, 4, Lesser(s.temp, 4), note)

LEMMA DeviceCellsKeep ==
  ASSUME NEW in, NEW b, Framed(in, b), in.W >= 30, NEW y \in Int, y >= b.Y, y < b.Y + b.H,
         NEW rate \in Nat, rate <= 12, NEW share \in Nat, share <= 5, NEW temp \in Nat, temp <= 4,
         NEW note \in Nat, note <= 8
  PROVE  Keeps(DeviceCells(in, y, rate, share, temp, note), b)
<1> DEFINE R == Right(in)
           p == R - 13 - 6 - 11 + 10
           q == R - 13 - 6 + 5
           t == R - 13 + 5
<1>1. /\ b \in Region /\ b.X \in Nat /\ b.W \in Nat /\ in.X \in Nat /\ in.W \in Nat /\ in.X = b.X + 2
      /\ in.X + in.W + 2 = b.X + b.W /\ R = in.X + in.W /\ R \in Nat /\ b.X >= 0
  BY FramedIs
<1>2. DeviceCells(in, y, rate, share, temp, note)
        = TextRight(p, y, rate) \cup TextRight(q, y, share) \cup TextRight(t, y, temp) \cup TextRight(R, y, note)
  BY DEF DeviceCells
<1> HIDE DEF R
<1>3. p \in Int /\ p = R - 20 /\ q \in Int /\ q = R - 14 /\ t \in Int /\ t = R - 8
  BY <1>1
<1> HIDE DEF p, q, t
<1>4. /\ p - rate >= b.X /\ p <= b.X + b.W /\ q - share >= b.X /\ q <= b.X + b.W
      /\ t - temp >= b.X /\ t <= b.X + b.W /\ R - note >= b.X /\ R <= b.X + b.W
  BY <1>1, <1>3
<1>5. Keeps(TextRight(p, y, rate), b)
  BY <1>1, <1>3, <1>4, TextRightKeeps
<1>6. Keeps(TextRight(q, y, share), b)
  BY <1>1, <1>3, <1>4, TextRightKeeps
<1>7. Keeps(TextRight(t, y, temp), b)
  BY <1>1, <1>3, <1>4, TextRightKeeps
<1>8. Keeps(TextRight(R, y, note), b)
  <2>1. R \in Int /\ R - note >= b.X /\ R <= b.X + b.W
    BY <1>1, <1>4
  <2> QED BY <1>1, <2>1, TextRightKeeps
<1> QED BY <1>2, <1>5, <1>6, <1>7, <1>8, FourKeep

LEMMA DeviceLineKeeps ==
  ASSUME NEW in, NEW b, Framed(in, b), in.W >= 30, NEW s \in SnapshotType, NEW y \in Int, y >= b.Y, y < b.Y + b.H,
         NEW label \in Int, NEW note \in Nat, note <= 8
  PROVE  Keeps(DeviceLine(in, s, y, label, note), b)
<1> DEFINE barW == Right(in) - 13 - 6 - 11 - in.X - 9
           A == TextIn(in.X, y, 7, label)
           B == IF barW > 4 THEN DrawBar(in.X + 8, y, barW) ELSE {}
           C == DeviceCells(in, y, s.rate, 4, Lesser(s.temp, 4), note)
<1>1. DeviceLine(in, s, y, label, note) = A \cup B \cup C
  BY DEF DeviceLine
<1>2. /\ b \in Region /\ b.X \in Nat /\ b.W \in Nat /\ in.X \in Nat /\ in.W \in Nat /\ in.X = b.X + 2
      /\ in.X + in.W + 2 = b.X + b.W /\ Right(in) = in.X + in.W /\ Right(in) \in Nat
  BY FramedIs
<1>3. barW \in Int /\ barW = in.W - 39
  BY <1>2
<1> HIDE DEF barW
<1>4. Keeps(A, b)
  <2>1. in.X \in Int /\ 7 \in Int /\ in.X >= b.X /\ in.X + 7 <= b.X + b.W
    BY <1>2
  <2> QED BY <1>2, <2>1, TextInKeeps
<1>5. Keeps(B, b)
  <2>1. in.X + 8 \in Int /\ in.X + 8 >= in.X /\ (in.X + 8) + barW <= in.X + in.W
    BY <1>2, <1>3
  <2>2. Keeps(DrawBar(in.X + 8, y, barW), b)
    BY <1>3, <2>1, PutKeeps DEF DrawBar
  <2> QED BY <2>2, NoMarks
<1>6. Keeps(C, b)
  <2>1. s.rate \in Nat /\ s.rate <= 12 /\ 4 \in Nat /\ 4 <= 5
    BY SnapIs
  <2>2. Lesser(s.temp, 4) \in Nat /\ Lesser(s.temp, 4) <= 4
    <3>1. s.temp \in Nat
      BY SnapIs
    <3> QED BY <3>1 DEF Lesser
  <2> QED BY <2>1, <2>2, DeviceCellsKeep
<1> HIDE DEF A, B, C
<1> QED BY <1>1, <1>4, <1>5, <1>6, ThreeKeep

LEMMA DevicesKeep ==
  ASSUME NEW in, NEW b, Framed(in, b), in.W >= 30, NEW s \in SnapshotType PROVE Keeps(DevicesInk(in, s), b)
<1> DEFINE head == in.W > 44
           top == IF head THEN in.Y + 1 ELSE in.Y
           A == IF head THEN DeviceCells(in, in.Y, 4, 5, 4, 5) ELSE {}
           label(i) == IF i = 0 THEN 3 ELSE 5
           note(i) == IF i = 0 THEN NA ELSE s.note
           T(i) == IF top + i < Bottom(in) THEN DeviceLine(in, s, top + i, label(i), note(i)) ELSE {}
           B == UNION {T(i) : i \in 0 .. s.gpus}
<1>1. DevicesInk(in, s) = A \cup B
  BY DEF DevicesInk, DeviceLine, DeviceCells
<1>2. /\ b \in Region /\ b.Y \in Int /\ b.H \in Nat /\ in.Y \in Int /\ in.H \in Nat /\ in.H >= 1
      /\ in.Y = b.Y + 1 /\ in.Y + in.H + 1 = b.Y + b.H /\ Bottom(in) = in.Y + in.H
  BY FramedIs
<1>3. s.gpus \in Nat /\ s.note \in Nat /\ s.note <= 8
  BY SnapIs
<1>4. in.Y >= b.Y /\ in.Y < b.Y + b.H /\ top \in Int /\ top >= in.Y
  BY <1>2
<1> HIDE DEF top
<1>5. Keeps(A, b)
  <2>1. 4 \in Nat /\ 4 <= 12 /\ 5 \in Nat /\ 5 <= 5 /\ 4 <= 4 /\ 5 <= 8
    OBVIOUS
  <2>2. Keeps(DeviceCells(in, in.Y, 4, 5, 4, 5), b)
    BY <1>2, <1>4, <2>1, DeviceCellsKeep
  <2> QED BY <2>2, NoMarks
<1>6. ASSUME NEW i \in 0 .. s.gpus PROVE Keeps(T(i), b)
  <2> DEFINE y == top + i
  <2>1. label(i) \in Int /\ note(i) \in Nat /\ note(i) <= 8
    BY <1>3 DEF NA
  <2>2. y \in Int /\ y >= b.Y
    BY <1>2, <1>3, <1>4
  <2> HIDE DEF y, label, note
  <2>3. CASE y < Bottom(in)
    <3>1. y < b.Y + b.H
      BY <1>2, <2>2, <2>3
    <3>2. Keeps(DeviceLine(in, s, y, label(i), note(i)), b)
      BY <2>1, <2>2, <3>1, DeviceLineKeeps
    <3> QED BY <2>3, <3>2 DEF y
  <2>4. CASE ~ (y < Bottom(in))
    BY <2>4, NoMarks DEF y
  <2> QED BY <2>3, <2>4
<1> HIDE DEF T, A
<1>7. Keeps(B, b)
  BY <1>6 DEF Keeps
<1> HIDE DEF B
<1> QED BY <1>1, <1>5, <1>7, BothKeep

LEMMA DevicesFine ==
  ASSUME NEW r \in Region, r.X >= 0, r.W >= 34, NEW s \in SnapshotType PROVE Fine(panelDevices(r, s))
<1> DEFINE ink == DevicesInk(Interior(r), s)
<1>1. panelDevices(r, s) = Plain(r, 15, 0, ink)
  BY DEF panelDevices, Panel, Plain
<1>2. Framed(Interior(r), r) /\ Interior(r).W = r.W - 4 => Keeps(ink, r)
  <2> SUFFICES ASSUME Framed(Interior(r), r), Interior(r).W = r.W - 4 PROVE Keeps(ink, r)
    OBVIOUS
  <2>1. r.W \in Int
    BY RegionIs
  <2>2. Interior(r).W >= 30
    BY <2>1
  <2> QED BY <2>2, DevicesKeep
<1> HIDE DEF ink
<1>3. Fine(Plain(r, 15, 0, ink))
  BY <1>2, PanelFine
<1> QED BY <1>1, <1>3

-----------------------------------------------------------------------------
(* The screens.  Their bodies start at or right of the first column, and   *)
(* have at least 54 columns.                                               *)
Roomy(r, w) == r \in Region /\ r.X >= 0 /\ r.W >= w

AllFine(ps) == \A i \in DOMAIN ps : Fine(ps[i])

LEMMA NoneFine == AllFine(<<>>)
  BY DEF AllFine

LEMMA OneFine == ASSUME NEW a, Fine(a) PROVE AllFine(<<a>>)
<1>1. DOMAIN <<a>> = 1 .. 1 /\ <<a>>[1] = a
  OBVIOUS
<1>2. \A i \in 1 .. 1 : i = 1
  OBVIOUS
<1> QED BY <1>1, <1>2 DEF AllFine

LEMMA ThreeFine == ASSUME NEW a, NEW b, NEW c, Fine(a), Fine(b), Fine(c) PROVE AllFine(<<a, b, c>>)
<1>1. DOMAIN <<a, b, c>> = 1 .. 3 /\ <<a, b, c>>[1] = a /\ <<a, b, c>>[2] = b /\ <<a, b, c>>[3] = c
  OBVIOUS
<1>2. \A i \in 1 .. 3 : i = 1 \/ i = 2 \/ i = 3
  OBVIOUS
<1> QED BY <1>1, <1>2 DEF AllFine

LEMMA FourFine ==
  ASSUME NEW a, NEW b, NEW c, NEW d, Fine(a), Fine(b), Fine(c), Fine(d) PROVE AllFine(<<a, b, c, d>>)
<1> DEFINE t == <<a, b, c, d>>
<1>1. DOMAIN t = 1 .. 4 /\ t[1] = a /\ t[2] = b /\ t[3] = c /\ t[4] = d
  OBVIOUS
<1>2. \A i \in 1 .. 4 : i = 1 \/ i = 2 \/ i = 3 \/ i = 4
  OBVIOUS
<1> HIDE DEF t
<1>3. AllFine(t)
  BY <1>1, <1>2 DEF AllFine
<1> QED BY <1>3 DEF t

(* Of five panels all but the fourth, and the fourth when c holds.         *)
LEMMA FiveFine ==
  ASSUME NEW a, NEW b, NEW c, NEW d, NEW e, Fine(a), Fine(b), Fine(c), NEW C, C => Fine(d), Fine(e)
  PROVE  \A i \in DOMAIN <<a, b, c, d, e>> : Fine(<<a, b, c, d, e>>[i]) \/ (i = 4 /\ ~ C)
<1> DEFINE t == <<a, b, c, d, e>>
<1>1. DOMAIN t = 1 .. 5 /\ t[1] = a /\ t[2] = b /\ t[3] = c /\ t[4] = d /\ t[5] = e
  OBVIOUS
<1>2. \A i \in 1 .. 5 : i = 1 \/ i = 2 \/ i = 3 \/ i = 4 \/ i = 5
  OBVIOUS
<1> HIDE DEF t
<1>3. \A i \in DOMAIN t : Fine(t[i]) \/ (i = 4 /\ ~ C)
  BY <1>1, <1>2
<1> QED BY <1>3 DEF t

LEMMA JoinedFine ==
  ASSUME NEW E, NEW F, NEW ps \in Seq(E), NEW qs \in Seq(F), AllFine(ps), AllFine(qs) PROVE AllFine(ps \o qs)
<1>1. ps \in Seq(E \cup F) /\ qs \in Seq(E \cup F)
  OBVIOUS
<1>2. /\ DOMAIN (ps \o qs) = 1 .. Len(ps) + Len(qs) /\ Len(ps) \in Nat /\ Len(qs) \in Nat
      /\ DOMAIN ps = 1 .. Len(ps) /\ DOMAIN qs = 1 .. Len(qs)
      /\ \A i \in 1 .. Len(ps) + Len(qs) : (ps \o qs)[i] = IF i <= Len(ps) THEN ps[i] ELSE qs[i - Len(ps)]
  BY <1>1
<1> DEFINE n == Len(ps)  m == Len(qs)  t == ps \o qs
<1> HIDE DEF n, m, t
<1>3. \A i \in 1 .. n + m : i \in 1 .. n \/ (~ (i <= n) /\ i - n \in 1 .. m)
  BY <1>2 DEF n, m
<1>4. \A i \in 1 .. n : i <= n
  BY <1>2 DEF n
<1>5. AllFine(t)
  <2> SUFFICES ASSUME NEW i \in 1 .. n + m PROVE Fine(t[i])
    BY <1>2 DEF AllFine, n, m, t
  <2>1. CASE i \in 1 .. n
    <3>1. t[i] = ps[i]
      BY <1>2, <1>4, <2>1 DEF n, m, t
    <3> QED BY <1>2, <2>1, <3>1 DEF AllFine, n
  <2>2. CASE ~ (i <= n) /\ i - n \in 1 .. m
    <3>1. t[i] = qs[i - n]
      BY <1>2, <2>2 DEF n, m, t
    <3> QED BY <1>2, <2>2, <3>1 DEF AllFine, m
  <2> QED BY <1>3, <2>1, <2>2
<1> QED BY <1>5 DEF t

-----------------------------------------------------------------------------
(* The rows and the columns of a roomy region are roomy.                   *)
LEMMA TwoRows ==
  ASSUME NEW r, NEW w \in Int, Roomy(r, w), NEW g \in Int, NEW h \in Int
  PROVE  Roomy(Rows(r, <<g, h>>)[1], w) /\ Roomy(Rows(r, <<g, h>>)[2], w)
<1> DEFINE hs == <<g, h>>
<1>0. r \in Region /\ r.X >= 0 /\ r.W >= w
  BY DEF Roomy
<1>1. DOMAIN hs = 1 .. 2 /\ Len(hs) = 2 /\ hs[1] = g /\ hs[2] = h
  OBVIOUS
<1> HIDE DEF hs
<1>2. Ints(hs, 2)
  <2>1. \A i \in 1 .. 2 : i = 1 \/ i = 2
    OBVIOUS
  <2> QED BY <1>1, <2>1 DEF Ints
<1>3. Down(Rows(r, hs), 2, r)
  BY <1>0, <1>1, <1>2, RowsIs
<1> DEFINE rows == Rows(r, hs)
<1> HIDE DEF rows
<1>4. \A i \in 1 .. 2 : rows[i] \in Region /\ rows[i].X = r.X /\ rows[i].W = r.W
  BY <1>3 DEF Down, rows
<1>5. 1 \in 1 .. 2 /\ 2 \in 1 .. 2
  OBVIOUS
<1> QED BY <1>0, <1>4, <1>5 DEF rows, hs, Roomy

LEMMA TwoCells ==
  ASSUME NEW r, Roomy(r, 0), NEW v \in Nat \ {0}, NEW w \in Nat \ {0}
  PROVE  /\ Roomy(Cols(r, <<v, w>>)[1], (r.W * v) \div (v + w))
         /\ Roomy(Cols(r, <<v, w>>)[2], (r.W * w) \div (v + w))
<1>1. r \in Region /\ r.X >= 0 /\ r.X \in Int
  BY RegionIs DEF Roomy
<1> DEFINE cs == Cols(r, <<v, w>>)
<1>2. /\ cs[1].W >= (r.W * v) \div (v + w) /\ cs[2].W >= (r.W * w) \div (v + w)
  BY <1>1, TwoWide
<1>3. Across(cs, 2, r)
  BY <1>1, ColsOfTwo
<1> HIDE DEF cs
<1>4. 1 \in 1 .. 2 /\ 2 \in 1 .. 2
  OBVIOUS
<1>5. cs[1] \in Region /\ cs[1].X >= r.X /\ cs[2] \in Region /\ cs[2].X >= r.X
  BY <1>3, <1>4 DEF Across
<1>6. cs[1].X \in Int /\ cs[2].X \in Int
  BY <1>5, RegionIs
<1>7. cs[1].X >= 0 /\ cs[2].X >= 0
  BY <1>1, <1>5, <1>6
<1> QED BY <1>2, <1>5, <1>7 DEF Roomy, cs

LEMMA ThreeCells ==
  ASSUME NEW r, Roomy(r, 0), NEW u \in Nat \ {0}, NEW v \in Nat \ {0}, NEW w \in Nat \ {0}
  PROVE  /\ Roomy(Cols(r, <<u, v, w>>)[1], (r.W * u) \div (u + v + w))
         /\ Roomy(Cols(r, <<u, v, w>>)[2], (r.W * v) \div (u + v + w))
         /\ Roomy(Cols(r, <<u, v, w>>)[3], (r.W * w) \div (u + v + w))
<1>1. r \in Region /\ r.X >= 0 /\ r.X \in Int
  BY RegionIs DEF Roomy
<1> DEFINE cs == Cols(r, <<u, v, w>>)
<1>2. /\ cs[1].W >= (r.W * u) \div (u + v + w) /\ cs[2].W >= (r.W * v) \div (u + v + w)
      /\ cs[3].W >= (r.W * w) \div (u + v + w)
  BY <1>1, ThreeWide
<1>3. Across(cs, 3, r)
  BY <1>1, ColsOfThree
<1> HIDE DEF cs
<1>4. 1 \in 1 .. 3 /\ 2 \in 1 .. 3 /\ 3 \in 1 .. 3
  OBVIOUS
<1>5. cs[1] \in Region /\ cs[1].X >= r.X /\ cs[2] \in Region /\ cs[2].X >= r.X /\ cs[3] \in Region /\ cs[3].X >= r.X
  BY <1>3, <1>4 DEF Across
<1>6. cs[1].X \in Int /\ cs[2].X \in Int /\ cs[3].X \in Int
  BY <1>5, RegionIs
<1>7. cs[1].X >= 0 /\ cs[2].X >= 0 /\ cs[3].X >= 0
  BY <1>1, <1>5, <1>6
<1> QED BY <1>2, <1>5, <1>7 DEF Roomy, cs

ChartPanel(r, s, i) == Panel(r, 8, histRanges[i].label, LAMBDA in : WindowChart(in, s, i, 19))

LEMMA ChartFine ==
  ASSUME NEW r \in Region, r.X >= 0, NEW s \in SnapshotType, NEW i \in 1 .. 5 PROVE Fine(ChartPanel(r, s, i))
<1> DEFINE ink == WindowChart(Interior(r), s, i, 19)
           label == histRanges[i].label
<1>1. ChartPanel(r, s, i) = Plain(r, 8, label, ink)
  BY DEF ChartPanel, Panel, Plain
<1>2. Framed(Interior(r), r) => Keeps(ink, r)
  BY WindowChartKeeps
<1>3. label \in Int /\ 8 \in Int
  BY RangesAre
<1> HIDE DEF ink, label
<1> QED BY <1>1, <1>2, <1>3, PanelFine

LEMMA ChartsFine ==
  ASSUME NEW r \in Region, r.X >= 0, NEW s \in SnapshotType
  PROVE  AllFine(Charts(r, s)) /\ \E E : Charts(r, s) \in Seq(E)
<1> DEFINE live == Live(s)
           perRow == IF r.W < 90 THEN 1 ELSE 2
           nRows  == (Len(live) + perRow - 1) \div perRow
           strips == Rows(r, [i \in 1 .. nRows |-> r.H \div nRows])
           cell(i) == Cols(strips[((i - 1) \div perRow) + 1], [j \in 1 .. perRow |-> 1])[((i - 1) % perRow) + 1]
           ps == Charts(r, s)
           qs == [i \in DOMAIN live |-> ChartPanel(cell(i), s, live[i])]
<1>1. live \in Seq(1 .. 5)
  BY LiveIs
<1>2. LaidOut(ps, r)
  BY ChartsLaid
<1>3. ps = <<>> \/ ps = qs
  BY DEF Charts, ChartPanel
<1> HIDE DEF ps, live, cell
<1>4. CASE ps = <<>>
  BY <1>2, <1>4, NoneFine DEF LaidOut, ps
<1>5. CASE ps = qs
  <2>1. PICK E : ps \in Seq(E)
    BY <1>2 DEF LaidOut
  <2>2. DOMAIN ps = DOMAIN live /\ DOMAIN live = 1 .. Len(live)
    BY <1>1, <1>5
  <2>3. DOMAIN ps = 1 .. Len(ps) /\ \A i \in 1 .. Len(ps) : ps[i].at \in Region /\ Within(ps[i].at, r)
    BY <1>2, <2>1 DEF LaidOut
  <2>4. ASSUME NEW i \in DOMAIN ps PROVE Fine(ps[i])
    <3>1. ps[i] = ChartPanel(cell(i), s, live[i]) /\ live[i] \in 1 .. 5
      BY <1>1, <1>5, <2>2, <2>4
    <3>2. ps[i].at = cell(i)
      BY <3>1 DEF ChartPanel, Panel
    <3>3. cell(i) \in Region /\ Within(cell(i), r)
      BY <2>3, <2>4, <3>2
    <3>4. cell(i).X >= 0
      BY <3>3, RegionIs DEF Within
    <3> QED BY <3>1, <3>3, <3>4, ChartFine
  <2>5. AllFine(ps)
    BY <2>4 DEF AllFine
  <2> QED BY <2>1, <2>5 DEF ps
<1> QED BY <1>3, <1>4, <1>5

-----------------------------------------------------------------------------
(* The screens, one by one.                                                *)
LEMMA Shares54 ==
  \A w \in Nat : w >= 54 =>
     /\ (w * 38) \div (38 + 34 + 28) >= 14 /\ (w * 50) \div (50 + 50) >= 11
     /\ (w >= 68 => (w * 50) \div (50 + 50) >= 34)
     /\ (w * 55) \div (55 + 45) >= 18
  OBVIOUS

LEMMA MiningScreenFine ==
  ASSUME NEW b, Roomy(b, 54), NEW s \in SnapshotType, NEW ps, ps = drawMiningScreen(b, s)
  PROVE  \A i \in DOMAIN ps : Fine(ps[i]) \/ (i = 4 /\ b.W < 68)
<1> DEFINE rows == Rows(b, <<b.H \div 2, -1>>)
           top == Cols(rows[1], <<38, 34, 28>>)
           low == Cols(rows[2], <<50, 50>>)
           us == <<panelMining(top[1], s), panelHistory(top[2], s), panelStatus(top[3], s),
                   panelDevices(low[1], s), panelThreads(low[2], s)>>
<1>1. ps = IF b.H < 6 THEN <<>> ELSE us
  BY Zenon DEF drawMiningScreen
<1>2. b \in Region /\ b.W \in Nat /\ b.H \in Nat /\ b.H \div 2 \in Int /\ b.W >= 54 /\ b.X >= 0
  BY HalfIs, RegionIs DEF Roomy
<1>3. Roomy(b, b.W) /\ b.W \in Int /\ -1 \in Int
  BY <1>2 DEF Roomy
<1>4. Roomy(rows[1], b.W) /\ Roomy(rows[2], b.W)
  BY <1>2, <1>3, TwoRows
<1> HIDE DEF rows
<1>5. /\ rows[1].W \in Nat /\ rows[1].W >= 54 /\ rows[2].W \in Nat /\ rows[2].W >= b.W
      /\ Roomy(rows[1], 0) /\ Roomy(rows[2], 0)
  BY <1>2, <1>4, RegionIs DEF Roomy
<1>6. /\ Roomy(top[1], (rows[1].W * 38) \div (38 + 34 + 28)) /\ Roomy(top[2], (rows[1].W * 34) \div (38 + 34 + 28))
      /\ Roomy(top[3], (rows[1].W * 28) \div (38 + 34 + 28))
  BY <1>5, ThreeCells
<1>7. Roomy(low[1], (rows[2].W * 50) \div (50 + 50)) /\ Roomy(low[2], (rows[2].W * 50) \div (50 + 50))
  BY <1>5, TwoCells
<1> HIDE DEF top, low
<1>8. /\ (rows[1].W * 38) \div (38 + 34 + 28) >= 14 /\ (rows[2].W * 50) \div (50 + 50) >= 11
      /\ (b.W >= 68 => (rows[2].W * 50) \div (50 + 50) >= 34)
  BY <1>2, <1>5, Shares54
<1>9. /\ top[1] \in Region /\ top[1].X >= 0 /\ top[1].W >= 14 /\ top[2] \in Region /\ top[2].X >= 0
      /\ top[3] \in Region /\ top[3].X >= 0 /\ low[1] \in Region /\ low[1].X >= 0 /\ (b.W >= 68 => low[1].W >= 34)
      /\ low[2] \in Region /\ low[2].X >= 0 /\ low[2].W >= 11
  <2> DEFINE m == (rows[1].W * 38) \div (38 + 34 + 28)  n == (rows[2].W * 50) \div (50 + 50)
  <2>1. m \in Int /\ n \in Int /\ m >= 14 /\ n >= 11 /\ (b.W >= 68 => n >= 34)
    BY <1>5, <1>8
  <2>2. Roomy(top[1], m) /\ Roomy(low[1], n) /\ Roomy(low[2], n)
    BY <1>6, <1>7
  <2> HIDE DEF m, n
  <2> QED BY <1>6, <2>1, <2>2, RegionIs DEF Roomy
<1>10. /\ Fine(panelMining(top[1], s)) /\ Fine(panelHistory(top[2], s)) /\ Fine(panelStatus(top[3], s))
       /\ (b.W >= 68 => Fine(panelDevices(low[1], s))) /\ Fine(panelThreads(low[2], s))
  BY <1>9, MiningFine, HistoryFine, StatusFine, DevicesFine, ThreadsFine
<1> DEFINE p1 == panelMining(top[1], s)  p2 == panelHistory(top[2], s)  p3 == panelStatus(top[3], s)
           p4 == panelDevices(low[1], s)  p5 == panelThreads(low[2], s)  C == b.W >= 68
           vs == <<p1, p2, p3, p4, p5>>
<1>11. \A i \in DOMAIN us : Fine(us[i]) \/ (i = 4 /\ ~ (b.W >= 68))
  <2>1. Fine(p1) /\ Fine(p2) /\ Fine(p3) /\ (C => Fine(p4)) /\ Fine(p5)
    BY <1>10
  <2>2. us = vs
    OBVIOUS
  <2> HIDE DEF p1, p2, p3, p4, p5, C, us
  <2>3. \A i \in DOMAIN vs : Fine(vs[i]) \/ (i = 4 /\ ~ C)
    BY <2>1, FiveFine
  <2> HIDE DEF vs
  <2> QED BY <2>2, <2>3, Zenon DEF C
<1>12. ~ (b.W >= 68) => b.W < 68
  BY <1>2
<1> HIDE DEF us
<1>13. CASE ps = us
  BY <1>11, <1>12, <1>13
<1>14. CASE ps = <<>>
  BY <1>14
<1> QED BY <1>1, <1>13, <1>14

LEMMA InCells3 ==
  ASSUME NEW r, Roomy(r, 0), NEW u \in Nat \ {0}, NEW v \in Nat \ {0}, NEW w \in Nat \ {0}
  PROVE  \A i \in 1 .. 3 : Cols(r, <<u, v, w>>)[i] \in Region /\ Cols(r, <<u, v, w>>)[i].X >= 0
<1> DEFINE cs == Cols(r, <<u, v, w>>)
<1>1. /\ cs[1] \in Region /\ cs[1].X >= 0 /\ cs[2] \in Region /\ cs[2].X >= 0 /\ cs[3] \in Region /\ cs[3].X >= 0
  BY ThreeCells DEF Roomy
<1> HIDE DEF cs
<1>2. \A i \in 1 .. 3 : i = 1 \/ i = 2 \/ i = 3
  OBVIOUS
<1>3. \A i \in 1 .. 3 : cs[i] \in Region /\ cs[i].X >= 0
  BY <1>1, <1>2
<1> QED BY <1>3 DEF cs

LEMMA InCells2 ==
  ASSUME NEW r, Roomy(r, 0), NEW v \in Nat \ {0}, NEW w \in Nat \ {0}
  PROVE  \A i \in 1 .. 2 : Cols(r, <<v, w>>)[i] \in Region /\ Cols(r, <<v, w>>)[i].X >= 0
<1> DEFINE cs == Cols(r, <<v, w>>)
<1>1. /\ cs[1] \in Region /\ cs[1].X >= 0 /\ cs[2] \in Region /\ cs[2].X >= 0
  BY TwoCells DEF Roomy
<1> HIDE DEF cs
<1>2. \A i \in 1 .. 2 : i = 1 \/ i = 2
  OBVIOUS
<1>3. \A i \in 1 .. 2 : cs[i] \in Region /\ cs[i].X >= 0
  BY <1>1, <1>2
<1> QED BY <1>3 DEF cs

LEMMA FiveAllFine ==
  ASSUME NEW a, NEW b, NEW c, NEW d, NEW e, Fine(a), Fine(b), Fine(c), Fine(d), Fine(e)
  PROVE  AllFine(<<a, b, c, d, e>>)
<1> DEFINE t == <<a, b, c, d, e>>
<1>1. \A i \in DOMAIN t : Fine(t[i]) \/ (i = 4 /\ ~ TRUE)
  BY FiveFine
<1> HIDE DEF t
<1>2. AllFine(t)
  BY <1>1 DEF AllFine
<1> QED BY <1>2 DEF t

LEMMA NetworkScreenFine == ASSUME NEW b, Roomy(b, 54), NEW s \in SnapshotType PROVE AllFine(drawNetworkScreen(b, s))
<1> DEFINE rows == Rows(b, <<b.H \div 2, -1>>)
           top == Cols(rows[1], <<40, 30, 30>>)
           low == Cols(rows[2], <<45, 55>>)
           p1 == panelNetwork(top[1], s)  p2 == panelNodeDetail(top[2], s)  p3 == panelConnection(top[3], s)
           p4 == panelBlockchain(low[1], s)  p5 == panelJob(low[2], s)
<1>1. drawNetworkScreen(b, s) = IF b.H < 6 THEN <<>> ELSE <<p1, p2, p3, p4, p5>>
  BY Zenon DEF drawNetworkScreen
<1>2. b \in Region /\ b.W \in Nat /\ b.H \in Nat /\ b.H \div 2 \in Int /\ (b.H * 2) \div 3 \in Int /\ b.W >= 54 /\ b.X >= 0
  BY HalfIs, RegionIs DEF Roomy
<1>3. Roomy(b, 54) /\ 54 \in Int /\ -1 \in Int /\ 7 \in Int
  OBVIOUS
<1>4. Roomy(rows[1], 54) /\ Roomy(rows[2], 54)
  BY <1>2, <1>3, TwoRows
<1> HIDE DEF rows
<1>5. /\ rows[1].W \in Nat /\ rows[1].W >= 54 /\ rows[2].W \in Nat /\ rows[2].W >= 54
      /\ Roomy(rows[1], 0) /\ Roomy(rows[2], 0)
  BY <1>4, RegionIs DEF Roomy
<1>6. /\ top[1] \in Region /\ top[1].X >= 0 /\ top[2] \in Region /\ top[2].X >= 0
      /\ top[3] \in Region /\ top[3].X >= 0 /\ low[1] \in Region /\ low[1].X >= 0
      /\ low[2] \in Region /\ low[2].X >= 0
  BY <1>5, InCells2, InCells3
<1> HIDE DEF top, low
<1>7. Fine(p1) /\ Fine(p2) /\ Fine(p3) /\ Fine(p4) /\ Fine(p5)
  BY <1>6, NetworkFine, NodeDetailFine, ConnectionFine, BlockchainFine, ListsFine
<1> HIDE DEF p1, p2, p3, p4, p5
<1>8. AllFine(<<p1, p2, p3, p4, p5>>)
  BY <1>7, FiveAllFine
<1> QED BY <1>1, <1>8, NoneFine, Zenon

LEMMA StatsScreenFine == ASSUME NEW b, Roomy(b, 54), NEW s \in SnapshotType PROVE AllFine(drawStatsScreen(b, s))
<1> DEFINE rows == Rows(b, <<(b.H * 2) \div 3, -1>>)
           cols == Cols(rows[2], <<34, 33, 33>>)
           ps == Charts(rows[1], s)
           p1 == panelSessionTotals(cols[1], s)  p2 == panelShares(cols[2], s)  p3 == panelRateSummary(cols[3], s)
           qs == <<p1, p2, p3>>
<1>1. drawStatsScreen(b, s) = IF b.H < 6 THEN <<>> ELSE ps \o qs
  BY DEF drawStatsScreen
<1>2. b \in Region /\ b.W \in Nat /\ b.H \in Nat /\ b.H \div 2 \in Int /\ (b.H * 2) \div 3 \in Int /\ b.W >= 54 /\ b.X >= 0
  BY HalfIs, RegionIs DEF Roomy
<1>3. Roomy(b, 54) /\ 54 \in Int /\ -1 \in Int /\ 7 \in Int
  OBVIOUS
<1>4. Roomy(rows[1], 54) /\ Roomy(rows[2], 54)
  BY <1>2, <1>3, TwoRows
<1> HIDE DEF rows
<1>5. /\ rows[1].W \in Nat /\ rows[1].W >= 54 /\ rows[2].W \in Nat /\ rows[2].W >= 54
      /\ Roomy(rows[1], 0) /\ Roomy(rows[2], 0)
  BY <1>4, RegionIs DEF Roomy
<1>6. /\ cols[1] \in Region /\ cols[1].X >= 0 /\ cols[2] \in Region /\ cols[2].X >= 0
      /\ cols[3] \in Region /\ cols[3].X >= 0
  BY <1>5, InCells3
<1> HIDE DEF cols
<1>7. Fine(p1) /\ Fine(p2) /\ Fine(p3)
  BY <1>6, SharesFine, ListsFine
<1>8. AllFine(ps) /\ \E E : ps \in Seq(E)
  BY <1>5, ChartsFine DEF Roomy
<1> HIDE DEF p1, p2, p3, ps
<1>9. AllFine(qs) /\ qs \in Seq({p1, p2, p3})
  BY <1>7, ThreeFine
<1> HIDE DEF qs
<1>10. AllFine(ps \o qs)
  BY <1>8, <1>9, JoinedFine
<1> QED BY <1>1, <1>10, NoneFine, Zenon

LEMMA ThreadsScreenFine == ASSUME NEW b, Roomy(b, 54), NEW s \in SnapshotType PROVE AllFine(drawThreadsScreen(b, s))
<1> DEFINE rows == Rows(b, <<-1, 7>>)
           cols == Cols(rows[2], <<34, 33, 33>>)
           hint == <<32, 33, 28, 26>>
           p1 == GridPanel(rows[1], s, 22, 27)
           p2 == panelThreadSummary(cols[1], s)  p3 == panelCPU(cols[2], s)  p4 == panelHint(cols[3], hint)
<1>1. drawThreadsScreen(b, s) = IF b.H < 5 THEN <<>> ELSE <<p1, p2, p3, p4>>
  BY Zenon DEF drawThreadsScreen, GridPanel
<1>2. b \in Region /\ b.W \in Nat /\ b.H \in Nat /\ b.H \div 2 \in Int /\ (b.H * 2) \div 3 \in Int /\ b.W >= 54 /\ b.X >= 0
  BY HalfIs, RegionIs DEF Roomy
<1>3. Roomy(b, 54) /\ 54 \in Int /\ -1 \in Int /\ 7 \in Int
  OBVIOUS
<1>4. Roomy(rows[1], 54) /\ Roomy(rows[2], 54)
  BY <1>2, <1>3, TwoRows
<1> HIDE DEF rows
<1>5. /\ rows[1].W \in Nat /\ rows[1].W >= 54 /\ rows[2].W \in Nat /\ rows[2].W >= 54
      /\ Roomy(rows[1], 0) /\ Roomy(rows[2], 0)
  BY <1>4, RegionIs DEF Roomy
<1>6. /\ cols[1] \in Region /\ cols[1].X >= 0 /\ cols[2] \in Region /\ cols[2].X >= 0
      /\ cols[3] \in Region /\ cols[3].X >= 0
  BY <1>5, InCells3
<1> HIDE DEF cols
<1>7. rows[1] \in Region /\ rows[1].X >= 0 /\ rows[1].W >= 11
  BY <1>4, <1>5 DEF Roomy
<1>8. hint \in Seq(Int)
  OBVIOUS
<1> HIDE DEF hint
<1>9. Fine(p1)
  BY <1>7, GridFine
<1>10. Fine(p2) /\ Fine(p3) /\ Fine(p4)
  BY <1>6, <1>8, CPUFine, HintFine, ListsFine
<1> HIDE DEF p1, p2, p3, p4
<1>11. AllFine(<<p1, p2, p3, p4>>)
  BY <1>9, <1>10, FourFine
<1> QED BY <1>1, <1>11, NoneFine, Zenon

LEMMA ConfigScreenFine == ASSUME NEW b, Roomy(b, 54), NEW s \in SnapshotType PROVE AllFine(drawConfigScreen(b, s))
<1> DEFINE rows == Rows(b, <<b.H \div 2, -1>>)
           top == Cols(rows[1], <<50, 50>>)
           hint == <<32, 0>> \o configCommandHelp
           p1 == ConfigPanel(top[1], s)  p2 == panelHint(top[2], hint)  p3 == NotesPanel(rows[2], s)
<1>1. drawConfigScreen(b, s) = IF b.H < 5 THEN <<>> ELSE <<p1, p2, p3>>
  BY Zenon DEF drawConfigScreen, ConfigPanel, NotesPanel
<1>2. b \in Region /\ b.W \in Nat /\ b.H \in Nat /\ b.H \div 2 \in Int /\ (b.H * 2) \div 3 \in Int /\ b.W >= 54 /\ b.X >= 0
  BY HalfIs, RegionIs DEF Roomy
<1>3. Roomy(b, 54) /\ 54 \in Int /\ -1 \in Int /\ 7 \in Int
  OBVIOUS
<1>4. Roomy(rows[1], 54) /\ Roomy(rows[2], 54)
  BY <1>2, <1>3, TwoRows
<1> HIDE DEF rows
<1>5. /\ rows[1].W \in Nat /\ rows[1].W >= 54 /\ rows[2].W \in Nat /\ rows[2].W >= 54
      /\ Roomy(rows[1], 0) /\ Roomy(rows[2], 0)
  BY <1>4, RegionIs DEF Roomy
<1>6. top[1] \in Region /\ top[1].X >= 0 /\ top[2] \in Region /\ top[2].X >= 0
  BY <1>5, InCells2
<1> HIDE DEF top
<1>7. rows[2] \in Region /\ rows[2].X >= 0
  BY <1>4 DEF Roomy
<1>8. hint \in Seq(Int)
  <2>1. <<32, 0>> \in Seq(Int)
    OBVIOUS
  <2>2. configCommandHelp \in Seq(Int)
    BY CommandHelpIs DEF configCommandHelp
  <2> QED BY <2>1, <2>2
<1> HIDE DEF hint
<1>9. Fine(p1) /\ Fine(p2) /\ Fine(p3)
  BY <1>6, <1>7, <1>8, ConfigFine, HintFine, NotesFine
<1> HIDE DEF p1, p2, p3
<1>10. AllFine(<<p1, p2, p3>>)
  BY <1>9, ThreeFine
<1> QED BY <1>1, <1>10, NoneFine, Zenon

LEMMA LogScreenFine == ASSUME NEW b, Roomy(b, 54), NEW s \in SnapshotType PROVE AllFine(drawLogScreen(b, s))
<1> DEFINE right == IF s.log = s.all THEN 14 ELSE 18 + s.filter
           p == LogPanel(b, s, 9, right)
<1>1. drawLogScreen(b, s) = IF b.H < 3 THEN <<>> ELSE <<p>>
  BY DEF drawLogScreen, LogPanel, Panel, Plain
<1>2. right \in Int
  <2>1. s.filter \in Nat
    BY DEF SnapshotType
  <2> QED BY <2>1
<1> HIDE DEF right
<1>3. b \in Region /\ b.X >= 0 /\ b.W >= 15
  <2>1. b \in Region /\ b.X >= 0 /\ b.W >= 54 /\ b.W \in Nat
    BY RegionIs DEF Roomy
  <2> QED BY <2>1
<1>4. Fine(p)
  BY <1>2, <1>3, LogPanelFine
<1> HIDE DEF p
<1>5. AllFine(<<p>>)
  BY <1>4, OneFine
<1> QED BY <1>1, <1>5, NoneFine, Zenon

LEMMA PoolsScreenFine == ASSUME NEW b, Roomy(b, 54), NEW s \in SnapshotType PROVE AllFine(drawPoolsScreen(b, s))
<1> DEFINE rows == Rows(b, <<b.H \div 2, -1>>)
           cols == Cols(rows[1], <<55, 45>>)
           quiet == [s EXCEPT !.log = s.all, !.held = 0]
           p1 == WorkSourcePanel(cols[1], s)  p2 == SoloPanel(cols[2])  p3 == panelLog(rows[2], quiet)
<1>1. drawPoolsScreen(b, s) = IF b.H < 5 THEN <<>> ELSE <<p1, p2, p3>>
  BY Zenon DEF drawPoolsScreen, WorkSourcePanel, SoloPanel
<1>2. b \in Region /\ b.W \in Nat /\ b.H \in Nat /\ b.H \div 2 \in Int /\ (b.H * 2) \div 3 \in Int /\ b.W >= 54 /\ b.X >= 0
  BY HalfIs, RegionIs DEF Roomy
<1>3. Roomy(b, 54) /\ 54 \in Int /\ -1 \in Int /\ 7 \in Int
  OBVIOUS
<1>4. Roomy(rows[1], 54) /\ Roomy(rows[2], 54)
  BY <1>2, <1>3, TwoRows
<1> HIDE DEF rows
<1>5. /\ rows[1].W \in Nat /\ rows[1].W >= 54 /\ rows[2].W \in Nat /\ rows[2].W >= 54
      /\ Roomy(rows[1], 0) /\ Roomy(rows[2], 0)
  BY <1>4, RegionIs DEF Roomy
<1>6. Roomy(cols[1], (rows[1].W * 55) \div (55 + 45)) /\ Roomy(cols[2], (rows[1].W * 45) \div (55 + 45))
  BY <1>5, TwoCells
<1> HIDE DEF cols
<1>7. cols[1] \in Region /\ cols[1].X >= 0 /\ cols[1].W >= 18 /\ cols[2] \in Region /\ cols[2].X >= 0
  <2> DEFINE m == (rows[1].W * 55) \div (55 + 45)
  <2>1. m >= 18 /\ m \in Int
    BY <1>5, Shares54
  <2>2. Roomy(cols[1], m)
    BY <1>6
  <2> HIDE DEF m
  <2> QED BY <1>6, <2>1, <2>2, RegionIs DEF Roomy
<1>8. rows[2] \in Region /\ rows[2].X >= 0 /\ rows[2].W >= 15
  BY <1>4, <1>5 DEF Roomy
<1>9. quiet \in SnapshotType
  BY ZenonT(60) DEF SnapshotType
<1> HIDE DEF quiet
<1>10. Fine(p1) /\ Fine(p2) /\ Fine(p3)
  BY <1>7, <1>8, <1>9, WorkSourceFine, SoloFine, LogFine
<1> HIDE DEF p1, p2, p3
<1>11. AllFine(<<p1, p2, p3>>)
  BY <1>10, ThreeFine
<1> QED BY <1>1, <1>11, NoneFine, Zenon

LEMMA HelpScreenFine == ASSUME NEW b, Roomy(b, 54) PROVE AllFine(drawHelpScreen(b))
<1> DEFINE cols == Cols(b, <<30, 34, 36>>)
           p1 == KeysPanel(cols[1])  p2 == MorePanel(cols[2])  p3 == HelpPanel(cols[3])
<1>1. drawHelpScreen(b) = IF b.H < 5 THEN <<>> ELSE <<p1, p2, p3>>
  BY DEF drawHelpScreen, KeysPanel, MorePanel, HelpPanel, HelpInk
<1>2. Roomy(b, 0)
  BY RegionIs DEF Roomy
<1>3. /\ cols[1] \in Region /\ cols[1].X >= 0 /\ cols[2] \in Region /\ cols[2].X >= 0
      /\ cols[3] \in Region /\ cols[3].X >= 0
  BY <1>2, InCells3
<1> HIDE DEF cols
<1>4. Fine(p1) /\ Fine(p2) /\ Fine(p3)
  BY <1>3, KeysFine, MoreFine, HelpFine
<1> HIDE DEF p1, p2, p3
<1>5. AllFine(<<p1, p2, p3>>)
  BY <1>4, ThreeFine
<1> QED BY <1>1, <1>5, NoneFine, Zenon

LEMMA DrawnFine ==
  ASSUME NEW c \in CellDef, c.r.W >= c.p.minW, c.r.X >= 0, NEW s \in SnapshotType PROVE Fine(DrawPanel(c, s))
<1>1. c.p \in PanelDef /\ c.r \in Region
  BY DEF CellDef
<1>2. c.p.name \in PanelNames /\ c.p.minW \in Nat /\ c.p.minW >= 16 /\ (c.p.name = "gpu" => c.p.minW >= 27)
  BY <1>1, PanelWidth
<1>3. c.r.W \in Nat
  BY <1>1, RegionIs
<1>4. c.r.W >= 14 /\ c.r.W >= 15 /\ c.r.W >= 11 /\ (c.p.name = "gpu" => c.r.W >= 27)
  BY <1>2, <1>3
<1>m. CASE c.p.name = "mining" BY <1>1, <1>4, <1>m, MiningFine DEF DrawPanel
<1>h. CASE c.p.name = "history" BY <1>1, <1>h, HistoryFine DEF DrawPanel
<1>n. CASE c.p.name = "network" BY <1>1, <1>n, NetworkFine DEF DrawPanel
<1>c. CASE c.p.name = "cpu" BY <1>1, <1>c, CPUFine DEF DrawPanel
<1>g. CASE c.p.name = "gpu" BY <1>1, <1>4, <1>g, GPUFine DEF DrawPanel
<1>s. CASE c.p.name = "shares" BY <1>1, <1>s, SharesFine DEF DrawPanel
<1>b. CASE c.p.name = "blockchain" BY <1>1, <1>b, BlockchainFine DEF DrawPanel
<1>y. CASE c.p.name = "system" BY <1>1, <1>y, SystemFine DEF DrawPanel
<1>l. CASE c.p.name = "log" BY <1>1, <1>4, <1>l, LogFine DEF DrawPanel
<1>t. CASE c.p.name = "threads" BY <1>1, <1>4, <1>t, ThreadsFine DEF DrawPanel
<1>u. CASE c.p.name = "status" BY <1>1, <1>u, StatusFine DEF DrawPanel
<1>q. CASE c.p.name = "quick" BY <1>1, <1>q, ListsFine DEF DrawPanel
<1>o. CASE c.p.name = "connection" BY <1>1, <1>o, ConnectionFine DEF DrawPanel
<1> QED BY <1>2, <1>m, <1>h, <1>n, <1>c, <1>g, <1>s, <1>b, <1>y, <1>l, <1>t, <1>u, <1>q, <1>o DEF PanelNames

LEMMA DashboardFine ==
  ASSUME NEW body \in Region, body.X >= 0, body.W >= 56, body.H >= 10, NEW s \in SnapshotType
  PROVE  AllFine(drawDashboard(body, s))
<1> DEFINE q == Inset2(body, 1, 0)
           cs == planBands(q, dashboardBands)
           ps == drawDashboard(body, s)
<1>1. Tiles(cs, q) /\ DOMAIN ps = 1 .. Len(cs)
  BY DashboardIs
<1>2. body.W \in Nat /\ body.H \in Nat /\ body.X \in Int /\ body.W >= 2
  BY RegionIs
<1>3. q \in Region /\ q.X = body.X + 1
  BY <1>2, InsetIs
<1>4. ~ Empty(body)
  BY <1>2 DEF Empty
<1>5. ps = [i \in DOMAIN cs |-> DrawPanel(cs[i], s)]
  BY <1>4 DEF drawDashboard
<1>6. q.X \in Int /\ q.X >= 0
  BY <1>2, <1>3
<1> HIDE DEF q, cs, ps
<1>7. DOMAIN cs = 1 .. Len(cs) /\ \A i \in 1 .. Len(cs) : cs[i] \in CellDef /\ Within(cs[i].r, q) /\ cs[i].r.W >= cs[i].p.minW
  BY <1>1 DEF Tiles
<1>8. ASSUME NEW i \in DOMAIN ps PROVE Fine(ps[i])
  <2>1. ps[i] = DrawPanel(cs[i], s) /\ cs[i] \in CellDef /\ Within(cs[i].r, q) /\ cs[i].r.W >= cs[i].p.minW
    BY <1>1, <1>5, <1>7
  <2>2. cs[i].r \in Region
    BY <2>1 DEF CellDef
  <2>3. cs[i].r.X >= 0
    BY <1>6, <2>1, <2>2, RegionIs DEF Within
  <2> QED BY <2>1, <2>3, DrawnFine
<1> QED BY <1>8 DEF AllFine, ps

LEMMA BodyRoomy ==
  ASSUME NEW r \in Region, r.X >= 0, r.W >= 56 PROVE Roomy(Body(r), 54) /\ Body(r).W = r.W - 2
<1> DEFINE q == Inset2(r, 1, 0)
<1>1. r.X \in Int /\ r.W \in Nat /\ r.W >= 2
  BY RegionIs
<1>2. q \in Region /\ q.X = r.X + 1 /\ q.W = r.W - 2
  BY <1>1, InsetIs
<1>3. Body(r) = Titled(q)
  BY DEF Body
<1> HIDE DEF q
<1>4. Titled(q).X = q.X /\ Titled(q).W = q.W
  BY DEF Titled, Rect
<1>5. Body(r) \in Region
  BY <1>1, BodyIs
<1> QED BY <1>1, <1>2, <1>3, <1>4, <1>5 DEF Roomy

(* What is drawn on a screen: all of it is inside its panel, except for    *)
(* the list of sources in a narrow window.                                 *)
LEMMA ScreenFine ==
  ASSUME NEW body \in Region, body.X >= 0, body.W >= 56, body.H >= 10, NEW s \in SnapshotType, NEW id \in Range(screens),
         NEW ps, ps = ScreenPanels(id, body, s)
  PROVE  \A i \in DOMAIN ps : Fine(ps[i]) \/ (id = "mining" /\ i = 4 /\ body.W < 70)
<1> DEFINE b == Body(body)
<1>1. Roomy(b, 54) /\ b.W = body.W - 2 /\ body.W \in Nat
  BY BodyRoomy, RegionIs
<1>2. ps =
        CASE id = "dashboard"  -> drawDashboard(body, s)
          [] id = "mining"     -> drawMiningScreen(b, s)
          [] id = "statistics" -> drawStatsScreen(b, s)
          [] id = "network"    -> drawNetworkScreen(b, s)
          [] id = "threads"    -> drawThreadsScreen(b, s)
          [] id = "config"     -> drawConfigScreen(b, s)
          [] id = "logs"       -> drawLogScreen(b, s)
          [] id = "pools"      -> drawPoolsScreen(b, s)
          [] id = "help"       -> drawHelpScreen(b)
  BY DEF ScreenPanels
<1> HIDE DEF b
<1>3. b.W < 68 => body.W < 70
  BY <1>1
<1>4. CASE id = "mining"
  <2>1. ps = drawMiningScreen(b, s)
    BY <1>2, <1>4
  <2>2. \A i \in DOMAIN ps : Fine(ps[i]) \/ (i = 4 /\ b.W < 68)
    BY <1>1, <2>1, MiningScreenFine
  <2> QED BY <1>3, <1>4, <2>2
<1>5. CASE id = "dashboard" BY <1>2, <1>5, DashboardFine DEF AllFine
<1>6. CASE id = "statistics" BY <1>1, <1>2, <1>6, StatsScreenFine DEF AllFine
<1>7. CASE id = "network" BY <1>1, <1>2, <1>7, NetworkScreenFine DEF AllFine
<1>8. CASE id = "threads" BY <1>1, <1>2, <1>8, ThreadsScreenFine DEF AllFine
<1>9. CASE id = "config" BY <1>1, <1>2, <1>9, ConfigScreenFine DEF AllFine
<1>10. CASE id = "logs" BY <1>1, <1>2, <1>10, LogScreenFine DEF AllFine
<1>11. CASE id = "pools" BY <1>1, <1>2, <1>11, PoolsScreenFine DEF AllFine
<1>12. CASE id = "help" BY <1>1, <1>2, <1>12, HelpScreenFine DEF AllFine
<1> QED BY <1>4, <1>5, <1>6, <1>7, <1>8, <1>9, <1>10, <1>11, <1>12, ScreensAre

-----------------------------------------------------------------------------
(* The frame: whatever the screen, a panel draws in its own rectangle.     *)
LEMMA FrameInk ==
  ASSUME FrameInv PROVE InsideItsPanel
<1>1. CASE Panels = <<>>
  BY <1>1 DEF InsideItsPanel
<1>2. CASE Panels # <<>>
  <2>1. frame # NoFrame
    BY <1>2 DEF NoFrame, Panels
  <2>2. window \in Window /\ screen \in Range(screens)
    BY <2>1, TuiIs DEF FrameInv, DrawnFrom
  <2>3. PICK s \in Snapshot : shown = {s} /\ frame = renderFrame(window, s, screen, cmdOpen)
    BY <2>1 DEF FrameInv, DrawnFrom
  <2>4. ~ TooSmall(window)
    BY <1>2, <2>3 DEF renderFrame, Panels
  <2> DEFINE body == Regions(window, cmdOpen)[2]
  <2>5. Panels = ScreenPanels(screen, body, s) /\ frame.parts = Regions(window, cmdOpen)
    BY <2>3, <2>4 DEF renderFrame, Panels
  <2>6. window \in Region /\ window.X = 0
    BY <2>2, WindowIs
  <2>7. PICK h \in {2, 3, 6, 8} : \E k \in {1, 2} : h + k + 10 <= window.H /\ Parts(Regions(window, cmdOpen), window, h, k)
    BY <2>4, <2>6, RegionsAre
  <2>8. PICK k \in {1, 2} : h + k + 10 <= window.H /\ Parts(Regions(window, cmdOpen), window, h, k)
    BY <2>7
  <2>9. body = Rect(window.X, window.Y + h, window.W, window.H - h - k)
    BY <2>8 DEF Parts
  <2>10. body.X = 0 /\ body.W = window.W
    BY <2>6, <2>9 DEF Rect
  <2>11. body \in Region /\ body.W >= 56 /\ body.H >= 10
    BY <2>4, <2>5, <2>6, BodyOfIs DEF BodyOf
  <2>12. s \in SnapshotType
    BY SnapshotAssumption
  <2> HIDE DEF body
  <2>13. \A i \in DOMAIN Panels : Fine(Panels[i]) \/ (screen = "mining" /\ i = 4 /\ body.W < 70)
    BY <2>2, <2>5, <2>10, <2>11, <2>12, ScreenFine
  <2>14. ASSUME NEW i \in DOMAIN Panels, Fine(Panels[i]) PROVE InkInside(i)
    BY <2>14 DEF Fine, Keeps, InkInside
  <2> QED BY <2>10, <2>13, <2>14 DEF InsideItsPanel, NarrowList
<1> QED BY <1>1, <1>2

(* In a window of any size, for any snapshot and on any screen: what a     *)
(* panel draws stays in its rectangle, of which its border is a part, the  *)
(* list of sources excepted in a narrow window; no two pieces of the       *)
(* header share a cell, a signature never costs a key and is clear of all  *)
(* of them, and the banner of a block covers neither the header nor the    *)
(* keys (tui_panels.go, tui_screens.go; tui_layout.go, drawHeader and      *)
(* drawBlockBanner; tui.go, drawFooter).                                   *)
THEOREM DrawnInPlace == FrameSpec => []StaysInPlace
<1>1. FrameInv => StaysInPlace
  BY FrameInk, FrameEdges DEF StaysInPlace
<1> QED BY <1>1, FrameInvInit, FrameInductive, PTL DEF FrameSpec
=============================================================================
