----------------------------- MODULE Keys -----------------------------
(***************************************************************************)
(* The keyboard of the full-screen console (cmd/derostorm/tui.go,          *)
(* tui_state.go): the bytes of the terminal read in chunks and decoded,    *)
(* what each key does to the console's own state, the commands typed into  *)
(* it (commands.go), and what of it a later run begins with (main.go).     *)
(*                                                                         *)
(* A byte and a rune are strings of one character or a control's name; a   *)
(* key that is no rune has a longer one.  Capitals, which do what the      *)
(* small letters do, and the key that picks a card are left out.  Of a log *)
(* entry it is kept how grave it is, whether the filter's text is in it    *)
(* and whether it is from before the view was cleared.                     *)
(***************************************************************************)
EXTENDS Integers, Sequences, SequencesExt, FiniteSets

CONSTANTS
  Sends,        \* the bytes the terminal sends for each press
  Means,        \* the keys a press stands for, <<>> for one the console has no use for
  Chunk,        \* the presses one read may hold
  LogEntry,     \* entries, [level, hit]
  ViewRows,     \* rows of the event view
  LogRoom,      \* entries the log holds (400)
  LogKeep,      \* what is left of it when it is full (300)
  CmdRoom,      \* characters the command line holds (120)
  Page,         \* lines of a page (10)
  FarBack,      \* lines Home scrolls back, more than there are (2^20)
  MaxInputs,    \* bound on the presses of a behaviour
  MaxArrivals   \* bound on the entries that arrive

ASSUME KeysAssumption ==
  /\ {ViewRows, LogRoom, LogKeep, CmdRoom, Page, FarBack} \subseteq Nat
  /\ DOMAIN Sends = DOMAIN Means /\ Chunk \subseteq Seq(DOMAIN Sends) \ {<<>>}
  /\ FarBack >= LogRoom /\ Page > 0 /\ LogKeep < LogRoom /\ ViewRows > 0
  /\ \A e \in LogEntry : e.level \in 1 .. 4 /\ e.hit \in BOOLEAN

screens == <<"dashboard", "mining", "statistics", "network", "threads", "config", "logs", "pools", "help">>
ranges  == 1 .. 5
LogInfo == 1
LogGood == 2
LogError == 4

-----------------------------------------------------------------------------
(* decodeKeys *)
Digit == {"0", "1", "2", "3", "4", "5", "6", "7", "8", "9"}

CSIKey(digits) ==
  CASE digits = <<"5">> -> <<"PgUp">>
    [] digits = <<"6">> -> <<"PgDn">>
    [] digits \in {<<"1">>, <<"7">>} -> <<"Home">>
    [] digits \in {<<"4">>, <<"8">>} -> <<"End">>
    [] OTHER -> <<>>

FinalKey(c) ==
  CASE c = "I" -> <<"FocusIn">> [] c = "O" -> <<"FocusOut">> [] c = "Z" -> <<"BackTab">>
    [] c = "A" -> <<"Up">> [] c = "B" -> <<"Down">> [] c = "C" -> <<"Right">> [] c = "D" -> <<"Left">>
    [] c = "H" -> <<"Home">> [] c = "F" -> <<"End">> [] OTHER -> <<>>

SingleKey(c) ==
  CASE c = "ESC" -> <<"Esc">> [] c \in {"CR", "LF"} -> <<"Enter">> [] c \in {"DEL", "BS"} -> <<"Backspace">>
    [] c = "HT" -> <<"Tab">> [] c = "ETX" -> <<"CtrlC">> [] c = "NUL" -> <<>>
    [] OTHER -> <<c>>

(* Slip: a sequence ends with its first parameter digit. *)
OneDigit(b, i) == i + 1

(* The first place at or after i with no digit.                            *)
DigitsEnd(b, i) ==
  CHOOSE j \in i .. Len(b) + 1 : /\ j = Len(b) + 1 \/ b[j] \notin Digit
                                 /\ \A k \in i .. j - 1 : b[k] \in Digit

(* A sequence is taken whole, its last byte with it, and a key that is not *)
(* known leaves nothing.                                                   *)
decodeKeys(b) ==
  LET from[i \in 1 .. Len(b) + 1] ==
        IF i > Len(b) THEN <<>>
        ELSE IF b[i] = "ESC" /\ i + 2 <= Len(b) /\ b[i + 1] \in {"[", "O"}
        THEN IF b[i + 2] \in Digit
             THEN LET j == DigitsEnd(b, i + 2)
                  IN  IF j > Len(b) THEN <<>> ELSE CSIKey(SubSeq(b, i + 2, j - 1)) \o from[j + 1]
             ELSE FinalKey(b[i + 2]) \o from[i + 3]
        ELSE SingleKey(b[i]) \o from[i + 1]
  IN  from[1]

(* What the terminal sends for a press: one byte, or a sequence of which   *)
(* only the last byte is no digit; and what the press alone stands for.    *)
Sequence(b) ==
  /\ Len(b) >= 3 /\ b[1] = "ESC" /\ b[2] \in {"[", "O"}
  /\ b[Len(b)] \notin Digit /\ \A i \in 3 .. Len(b) - 1 : b[i] \in Digit

KeyOf(b) ==
  IF Len(b) = 1 THEN SingleKey(b[1])
  ELSE IF Len(b) = 3 THEN FinalKey(b[3]) ELSE CSIKey(SubSeq(b, 3, Len(b) - 1))

ASSUME SendsAssumption ==
  \A p \in DOMAIN Sends :
    /\ Sends[p] \in Seq(STRING) /\ (Len(Sends[p]) = 1 \/ Sequence(Sends[p]))
    /\ Means[p] = KeyOf(Sends[p])

-----------------------------------------------------------------------------
VARIABLES
  up,         \* a run of the miner is in progress
  keys,       \* keys decoded and not yet handled
  screen, cmdOpen, cmd, histRange, anim, focused,   \* the fields of TUI
  view,       \* logView: scroll, paused, min and text
  log,        \* the log, [level, hit, old]; old is older than clearedAt
  ui,         \* cfg.UI: screen, range and animation
  uiFile,     \* the same in the config file
  meant,      \* history: the keys that were meant by what was pressed
  left,       \* history: the console as it was when it was last saved
  inputs, arrivals

tuiVars == <<screen, cmdOpen, cmd, histRange, anim, focused, view>>
keyVars == <<up, keys, tuiVars, log, ui, uiFile, meant, left, inputs, arrivals>>

Pinned == [scroll |-> 0, paused |-> FALSE, min |-> LogInfo, text |-> FALSE]
UI(s, r, a) == [screen |-> s, range |-> r, anim |-> a]

(* Slip: the words of the bar, where the statistics are shortened. *)
BarWord(s) == IF s = "statistics" THEN "stat." ELSE s

name(s) == s

screenByName(s) == IF s \in Range(screens) THEN s ELSE "dashboard"

(* A preference that was never saved reads as the default.                 *)
KeysInit ==
  /\ up = FALSE /\ keys = <<>> /\ screen = "dashboard" /\ cmdOpen = FALSE /\ cmd = <<>>
  /\ histRange = 1 /\ anim = TRUE /\ focused = TRUE /\ view = Pinned /\ log = <<>>
  /\ ui = UI("dashboard", 1, TRUE) /\ uiFile = UI("dashboard", 1, TRUE)
  /\ meant = <<>> /\ left = <<"dashboard", 1, TRUE>> /\ inputs = 0 /\ arrivals = 0

(* main and NewTUI: a flag wins over the file, for this run.               *)
StartConsole(flag, still) ==
  /\ ~ up /\ up' = TRUE
  /\ ui' = uiFile
  /\ screen' = screenByName(IF flag # "" THEN flag ELSE uiFile.screen)
  /\ histRange' = uiFile.range /\ anim' = (uiFile.anim /\ ~ still)
  /\ cmdOpen' = FALSE /\ cmd' = <<>> /\ focused' = TRUE /\ view' = Pinned
  /\ keys' = <<>> /\ meant' = <<>> /\ log' = <<>>
  /\ UNCHANGED <<uiFile, left, inputs, arrivals>>

-----------------------------------------------------------------------------
(* The log and what the view shows of it.                                  *)
Added(l, e) == Append(IF Len(l) >= LogRoom THEN SubSeq(l, Len(l) - LogKeep + 1, Len(l)) ELSE l, e)

Arrive(e) ==
  /\ up /\ arrivals < MaxArrivals
  /\ arrivals' = arrivals + 1
  /\ log' = Added(log, [level |-> e.level, hit |-> e.hit, old |-> FALSE])
  /\ UNCHANGED <<up, keys, tuiVars, ui, uiFile, meant, left, inputs>>

(* apply *)
Filtered == SelectSeq(log, LAMBDA e : e.level >= view.min /\ ~ e.old /\ (view.text => e.hit))

(* drawLogLines: as many as there are rows, ending scroll before the       *)
(* newest, and no further back than the oldest.                            *)
LinesBack ==
  LET n == Len(Filtered) IN
  IF view.scroll <= n - ViewRows THEN view.scroll ELSE IF n > ViewRows THEN n - ViewRows ELSE 0
ViewShows ==
  LET end == Len(Filtered) - LinesBack
  IN  SubSeq(Filtered, (IF end > ViewRows THEN end - ViewRows ELSE 0) + 1, end)

-----------------------------------------------------------------------------
(* Esc and a bracket before another press of the same chunk are, byte for  *)
(* byte, the beginning of a sequence.                                      *)
Tangled(presses) ==
  \E i \in 1 .. Len(presses) - 2 :
    Sends[presses[i]] = <<"ESC">> /\ Sends[presses[i + 1]] \in {<<"[">>, <<"O">>}

(* ReadKeys: what the presses sent is one chunk, of whole presses.  What   *)
(* was meant by a tangled one cannot be told: it is taken as it is read.   *)
ReadKeys(presses) ==
  /\ up /\ keys = <<>>
  /\ inputs + Len(presses) <= MaxInputs /\ inputs' = inputs + Len(presses)
  /\ keys' = decodeKeys(FlattenSeq([i \in DOMAIN presses |-> Sends[presses[i]]]))
  /\ meant' = IF Tangled(presses) THEN keys'
               ELSE FlattenSeq([i \in DOMAIN presses |-> Means[presses[i]]])
  /\ UNCHANGED <<up, tuiVars, log, ui, uiFile, left, arrivals>>

(* Key: the next key, and what of the console it leaves alone.             *)
Pressed(k) == up /\ keys # <<>> /\ Head(keys) = k /\ keys' = Tail(keys)
              /\ meant' = (IF meant = <<>> THEN <<>> ELSE Tail(meant))
World == <<up, log, ui, uiFile, left, inputs, arrivals>>

Focus(k) ==
  /\ k \in {"FocusIn", "FocusOut"} /\ focused' = (k = "FocusIn")
  /\ UNCHANGED <<World, screen, cmdOpen, cmd, histRange, anim, view>>

Leave == up' = FALSE /\ UNCHANGED <<tuiVars, log, ui, uiFile, left, inputs, arrivals>>

(* A signal, or the end of --run-for.                                      *)
Interrupted == up /\ Leave /\ UNCHANGED <<keys, meant>>

(* Slip: one character too many. *)
OneOver(line) == Len(line) <= CmdRoom

CmdFits(line) == Len(line) < CmdRoom

Signs == {"CtrlC", "FocusIn", "FocusOut"}
Moves == {"Tab", "BackTab", "Up", "Down", "Left", "Right", "PgUp", "PgDn", "Home", "End"}

(* The command line, while it has the keyboard.                            *)
Editing(k) ==
  /\ cmdOpen /\ k \notin Signs \cup {"Enter"}
  /\ cmdOpen' = (k # "Esc")
  /\ cmd' = CASE k \in {"Esc", "NAK"} -> <<>>
              [] k = "Backspace" -> SubSeq(cmd, 1, Len(cmd) - 1)
              [] k \in Moves -> cmd
              [] OTHER -> IF CmdFits(cmd) THEN Append(cmd, k) ELSE cmd
  /\ UNCHANGED <<World, screen, histRange, anim, focused, view>>

(* Slip: the place in the log is kept. *)
ScreenOnly(id) == screen' = id /\ UNCHANGED view

goTo(id) == screen' = id /\ view' = [view EXCEPT !.scroll = 0, !.paused = FALSE]

scrollBy(n) ==
  LET to == IF view.scroll + n < 0 THEN 0 ELSE view.scroll + n
  IN  view' = [view EXCEPT !.scroll = to, !.paused = to > 0]

PlaceOf(id) == CHOOSE i \in DOMAIN screens : screens[i] = id
Turned(n) == screens[((PlaceOf(screen) - 1 + n) % Len(screens)) + 1]

navKeys == [m |-> "mining", s |-> "statistics", n |-> "network", t |-> "threads",
            c |-> "config", l |-> "logs", p |-> "pools", h |-> "help"]

(* The key of a screen brings back from it.                                *)
Destination(k) ==
  CASE k \in {"Esc", "d"} -> "dashboard"
    [] k = "Tab" -> Turned(1)
    [] k = "BackTab" -> Turned(Len(screens) - 1)
    [] k = "?" -> "help"
    [] k \in DOMAIN navKeys -> IF screen = navKeys[k] THEN "dashboard" ELSE navKeys[k]
GoKeys == DOMAIN navKeys \cup {"Esc", "d", "Tab", "BackTab", "?"}

Going(k) ==
  /\ ~ cmdOpen /\ k \in GoKeys /\ goTo(Destination(k))
  /\ UNCHANGED <<World, cmdOpen, cmd, histRange, anim, focused>>

(* Slip: the view is let go and stays where it was. *)
LetGo(v) == [v EXCEPT !.paused = ~ @]

Toggled(v) == IF v.paused THEN [v EXCEPT !.paused = FALSE, !.scroll = 0] ELSE [v EXCEPT !.paused = TRUE]

ScrollKeys == [Up |-> 1, j |-> 1, Down |-> -1, k |-> -1, PgUp |-> Page, PgDn |-> 0 - Page, Home |-> FarBack]

Scrolling(k) ==
  /\ ~ cmdOpen
  /\ \/ k \in DOMAIN ScrollKeys /\ scrollBy(ScrollKeys[k])
     \/ k \in {" ", "End"} /\ view' = Toggled(IF k = "End" THEN [view EXCEPT !.paused = TRUE] ELSE view)
  /\ UNCHANGED <<World, screen, cmdOpen, cmd, histRange, anim, focused>>

(* f: all, shares and better, warnings and better, errors, and round; x:   *)
(* nothing from before now.                                                *)
Filtering(k) ==
  /\ ~ cmdOpen
  /\ \/ /\ k = "f"
        /\ view' = [view EXCEPT !.text = FALSE, !.min = (@ % LogError) + 1, !.scroll = 0]
        /\ UNCHANGED log
     \/ /\ k = "x"
        /\ view' = [view EXCEPT !.scroll = 0]
        /\ log' = [i \in DOMAIN log |-> [log[i] EXCEPT !.old = TRUE]]
  /\ UNCHANGED <<up, ui, uiFile, left, inputs, arrivals, screen, cmdOpen, cmd, histRange, anim, focused>>

Earlier == {"Left", "[", ","}
Later   == {"Right", "]", "."}
clampRange(i) == ((i - 1) % 5) + 1

Choosing(k) ==
  /\ ~ cmdOpen
  /\ \/ /\ k \in Earlier \cup Later
        /\ histRange' = clampRange(IF k \in Later THEN histRange + 1 ELSE histRange + 4)
        /\ UNCHANGED <<anim, cmdOpen, cmd>>
     \/ k = "a" /\ anim' = ~ anim /\ UNCHANGED <<histRange, cmdOpen, cmd>>
     \/ k = ":" /\ cmdOpen' = TRUE /\ cmd' = <<>> /\ UNCHANGED <<histRange, anim>>
  /\ UNCHANGED <<World, screen, focused, view>>

Quits(k) == k = "CtrlC" \/ (k = "q" /\ ~ cmdOpen)

(* The other runes, and Enter and Backspace without a command line.        *)
Ignored(k) ==
  ~ cmdOpen /\ k \notin Signs \cup GoKeys \cup DOMAIN ScrollKeys \cup Earlier \cup Later
                          \cup {" ", "End", "f", "x", "a", ":", "q"}

-----------------------------------------------------------------------------
(* A line that was typed, whatever it spells.  What a command says of      *)
(* itself arrives in the log; help and config say two lines or three.      *)
Line(level)   == [level |-> level, hit |-> FALSE, old |-> FALSE]
Said(l, level) == Added(l, Line(level))

RunCommand ==
  \/ \E on \in BOOLEAN :                                       \* filter
       /\ view' = [view EXCEPT !.text = on, !.min = LogInfo, !.scroll = 0]
       /\ log' = Added(log, [level |-> LogGood, hit |-> on, old |-> FALSE])
       /\ UNCHANGED <<up, histRange, anim, ui, uiFile, left>>
  \/ \E r \in ranges :                                         \* range
       /\ histRange' = r /\ ui' = [ui EXCEPT !.range = r]
       /\ log' = Said(log, LogGood) /\ UNCHANGED <<up, anim, view, uiFile, left>>
  \/ \E on \in BOOLEAN :                                       \* animation
       /\ anim' = on /\ ui' = [ui EXCEPT !.anim = on]
       /\ log' = Said(log, LogGood) /\ UNCHANGED <<up, histRange, view, uiFile, left>>
  \/ /\ ui' = UI(name(screen), histRange, anim)                 \* save
     /\ \/ uiFile' = ui' /\ left' = <<screen, histRange, anim>> /\ log' = Said(log, LogGood)
        \/ UNCHANGED <<uiFile, left>> /\ log' = Said(log, LogError)
     /\ UNCHANGED <<up, histRange, anim, view>>
  \/ /\ up' = FALSE /\ log' = Said(log, LogInfo)                 \* quit
     /\ UNCHANGED <<histRange, anim, view, ui, uiFile, left>>
  \/ /\ \E level \in LogInfo .. LogError : log' = Said(log, level)   \* the others
     /\ UNCHANGED <<up, histRange, anim, view, ui, uiFile, left>>
  \/ /\ LET twice == Said(Said(log, LogInfo), LogInfo)              \* help, config
        IN  log' \in {twice, Said(twice, LogInfo)}
     /\ UNCHANGED <<up, histRange, anim, view, ui, uiFile, left>>

Enter ==
  /\ Pressed("Enter") /\ cmdOpen /\ cmdOpen' = FALSE /\ cmd' = <<>>
  /\ IF \A i \in DOMAIN cmd : cmd[i] = " "
     THEN UNCHANGED <<up, log, ui, uiFile, left, histRange, anim, view>> ELSE RunCommand
  /\ UNCHANGED <<inputs, arrivals, screen, focused>>

Key(k) ==
  /\ Pressed(k)
  /\ \/ Focus(k) \/ Editing(k)
     \/ Quits(k) /\ Leave
     \/ Going(k) \/ Scrolling(k) \/ Filtering(k) \/ Choosing(k)
     \/ Ignored(k) /\ UNCHANGED <<World, tuiVars>>

KeysNext ==
  \/ \E flag \in {"", "logs"}, still \in BOOLEAN : StartConsole(flag, still)
  \/ \E e \in LogEntry : Arrive(e)
  \/ \E presses \in Chunk : ReadKeys(presses)
  \/ (keys # <<>> /\ Key(Head(keys)))
  \/ Enter \/ Interrupted

KeysSpec == KeysInit /\ [][KeysNext]_keyVars

-----------------------------------------------------------------------------
KeysTypeOK ==
  /\ up \in BOOLEAN /\ screen \in Range(screens) /\ histRange \in ranges
  /\ cmdOpen \in BOOLEAN /\ Len(cmd) <= CmdRoom /\ (cmd # <<>> => cmdOpen)
  /\ view \in [scroll : Nat, paused : BOOLEAN, min : LogInfo .. LogError, text : BOOLEAN]
  /\ Len(log) <= LogRoom

(* However many whole presses one read holds, they are told apart: what is *)
(* handled is what was pressed, in order, and a function key the console   *)
(* has no use for leaves nothing behind, not a letter for the command line.*)
(* Not covered are Esc and a bracket typed before another key of the same  *)
(* read, which are that key's sequence, and a sequence cut at the end of   *)
(* the 32 bytes a read takes (tui.go, decodeKeys and ReadKeys).            *)
DecodedAsMeant == up => keys = meant

(* A view that is scrolled back is one that is paused: whatever was        *)
(* pressed before, no view stands still under the label of one that        *)
(* follows.                                                                *)
ScrolledIsPaused == view.scroll > 0 => view.paused

(* After any sequence of keys and commands the command line, the log and   *)
(* the view keep to their limits, and the label on the view is true.       *)
ViewIsTrue == KeysTypeOK /\ ScrolledIsPaused

(* Going to another screen, by whichever key, leaves the log following     *)
(* again and the filter as it is.                                          *)
LeavesTheLogFollowing ==
  [][up /\ up' /\ screen' # screen =>
       view'.scroll = 0 /\ ~ view'.paused /\ view'.min = view.min /\ view'.text = view.text]_keyVars

(* A run that is started with no flags opens as the console was when it    *)
(* was last saved: the screen, the window and the animation.               *)
PrefsSurvive ==
  [][StartConsole("", FALSE) => <<screen', histRange', anim'>> = left]_keyVars

-----------------------------------------------------------------------------
(* tui_panels.go:1034: the scroll is counted back from the newest, "so an  *)
(* entry arriving while someone is reading history does not shift the      *)
(* screen under them."                                                     *)
ReadingStays ==
  [][arrivals' # arrivals /\ LinesBack > 0 /\ Len(log) < LogRoom => ViewShows' = ViewShows]_keyVars
=============================================================================
