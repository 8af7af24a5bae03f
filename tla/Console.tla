---------------------------- MODULE Console ----------------------------
(***************************************************************************)
(* The run loop of the full-screen console: cmd/derostorm/runloop.go, run, *)
(* with the parts of tui.go that take and give back the terminal.          *)
(*                                                                         *)
(* "main" is the goroutine of run, from tui.Enter to its deferred calls;   *)
(* "signal" waits for an interrupt, "timer" for --run-for.  The forwarder  *)
(* moves the engine's events into the log, the reader turns input into     *)
(* keys.  All of them end with the process, when main returns.             *)
(*                                                                         *)
(* Left out: the splash, which draws under the rules of Render; the node   *)
(* watcher's one log line; the state shown by setState(StateStopping),     *)
(* which RunGetWork may overwrite at once; what the other components'      *)
(* deferred Close calls do.                                                *)
(***************************************************************************)
EXTENDS LogRing

CONSTANTS
  Console,      \* an entry of the console's own goroutines
  EventRoom,    \* capacity of engine.events (256)
  KeyRoom,      \* capacity of keys (64)
  RefreshRoom,  \* capacity of refreshReq (4)
  MaxPosts,     \* bound on what the engine posts
  MaxKeys       \* bound on the keys pressed

ASSUME ConsoleAssumption ==
  /\ {EventRoom, KeyRoom, RefreshRoom, MaxPosts, MaxKeys} \subseteq Nat
  /\ Entry = {Console} \cup 1 .. MaxPosts

Caller == {"main", "signal", "timer"}
Goroutine == Caller \cup {"forwarder"}
Key == {"quit", "refresh"}

VARIABLES
  pc,        \* where main, signal, timer and the forwarder are
  hand,      \* the event the forwarder took and has still to log
  reader,    \* the reader of input: off, waiting, left, or the key in hand
  typed,     \* how many keys were pressed
  posted,    \* how many events the engine posted
  events, keys, refreshReq,   \* the channels; refreshReq and sigc as counts
  sigc,
  once,      \* stopOnce: fresh, running, over
  closes,    \* how often done was closed
  stopped,   \* engine.Stop was called
  entered,   \* the terminal is in its alternate buffer
  raw,       \* the terminal's input is raw
  spoilt     \* a frame was written outside the alternate buffer

uiVars == <<hand, reader, typed, posted, events, keys, refreshReq, sigc>>
endVars == <<once, closes, stopped, entered, raw, spoilt>>
vars == <<logVars, pc, uiVars, endVars>>

ConsoleInit ==
  /\ LogInit
  /\ pc = [c \in Goroutine |-> IF c = "main" THEN "enter" ELSE "off"]
  /\ hand = <<>> /\ reader = "off" /\ typed = 0 /\ posted = 0
  /\ events = <<>> /\ keys = <<>> /\ refreshReq = 0 /\ sigc = 0
  /\ once = "fresh" /\ closes = 0 /\ stopped = FALSE
  /\ entered = FALSE /\ raw = FALSE /\ spoilt = FALSE

done == closes > 0
Running == pc["main"] \notin {"killed", "returned"}
At(c, here) == pc[c] = here
Go(c, from, to) == pc[c] = from /\ pc' = [pc EXCEPT ![c] = to]

(* Say is logf: one line of the console's own.                             *)
Say(c, from, to) == /\ Go(c, from, to)
                    /\ addLog(Console)
                    /\ UNCHANGED <<uiVars, endVars>>

--------------------------------------------------------------------------
(* Starting: the terminal first, then the goroutines, then the engine.     *)

TerminalUnder(buffer, mode) == entered' = buffer /\ raw' = mode

Enter == /\ Go("main", "enter", "raw")
         /\ TerminalUnder(TRUE, raw)
         /\ UNCHANGED <<logVars, uiVars, once, closes, stopped, spoilt>>

EnableRawInput == /\ Go("main", "raw", "spawn")
                  /\ TerminalUnder(entered, TRUE)
                  /\ UNCHANGED <<logVars, uiVars, once, closes, stopped, spoilt>>

(* From here signals are the program's own; --run-for may be unset.        *)
Spawn == /\ At("main", "spawn")
         /\ \E timer \in {"off", "wait"} :
              pc' = [c \in Goroutine |-> CASE c = "main" -> "start"
                                           [] c = "timer" -> timer
                                           [] OTHER -> "wait"]
         /\ reader' = "wait"
         /\ UNCHANGED <<logVars, hand, typed, posted, events, keys, refreshReq, sigc, endVars>>

StartMining == Say("main", "start", "first")

FirstSnapshot == /\ Go("main", "first", "loop")
                 /\ TakeLog
                 /\ UNCHANGED <<uiVars, endVars>>

--------------------------------------------------------------------------
(* The log's other end: engine.post and the forwarder.                     *)

(* Slip: counts one place too many. *)
RoomOffByOne(channel, room) == Len(channel) <= room

HasRoom(channel, room) == Len(channel) < room

(* post never waits: a full channel loses the event.                       *)
Sent(channel, room, e) == IF HasRoom(channel, room) THEN Append(channel, e) ELSE channel

Post == /\ pc["main"] \notin {"enter", "raw", "spawn", "start"}
        /\ posted < MaxPosts
        /\ posted' = posted + 1
        /\ events' = Sent(events, EventRoom, posted + 1)
        /\ UNCHANGED <<logVars, pc, hand, reader, typed, keys, refreshReq, sigc, endVars>>

TakeEvent == /\ At("forwarder", "wait") /\ events # <<>>
             /\ Go("forwarder", "wait", "log")
             /\ hand' = <<Head(events)>> /\ events' = Tail(events)
             /\ UNCHANGED <<logVars, reader, typed, posted, keys, refreshReq, sigc, endVars>>

Forward == /\ Go("forwarder", "log", "wait")
           /\ addLog(hand[1])
           /\ hand' = <<>>
           /\ UNCHANGED <<reader, typed, posted, events, keys, refreshReq, sigc, endVars>>

--------------------------------------------------------------------------
(* Input: ReadKeys.  It blocks in its read, and on a full channel.         *)

Press(k) ==
  /\ reader = "wait" /\ typed < MaxKeys
  /\ reader' = k /\ typed' = typed + 1
  /\ UNCHANGED <<logVars, pc, hand, posted, events, keys, refreshReq, sigc, endVars>>

SendKey ==
  /\ reader \in Key /\ HasRoom(keys, KeyRoom)
  /\ keys' = Append(keys, reader) /\ reader' = "wait"
  /\ UNCHANGED <<logVars, pc, hand, typed, posted, events, refreshReq, sigc, endVars>>

ReaderLeaves ==
  /\ reader \in Key /\ done
  /\ reader' = "left"
  /\ UNCHANGED <<logVars, pc, hand, typed, posted, events, keys, refreshReq, sigc, endVars>>

--------------------------------------------------------------------------
(* Stopping: quit, which sync.Once runs for its first caller while the     *)
(* others wait for it, and the goroutines that call it.                    *)

(* Slip: a flag set only when quit is over. *)
FlagNotSet == once # "over"

MayRunOnce == once = "fresh"

AfterQuit(c) == IF c = "main" THEN "loop" ELSE "left"

Quit(c) == /\ Go(c, "quit", "stop") /\ MayRunOnce
           /\ once' = "running"
           /\ UNCHANGED <<logVars, uiVars, closes, stopped, entered, raw, spoilt>>

QuitAlready(c) == /\ Go(c, "quit", AfterQuit(c)) /\ once = "over"
                  /\ UNCHANGED <<logVars, uiVars, endVars>>

StopEngine(c) == /\ Go(c, "stop", "close")
                 /\ stopped' = TRUE
                 /\ UNCHANGED <<logVars, uiVars, once, closes, entered, raw, spoilt>>

CloseDone(c) == /\ Go(c, "close", AfterQuit(c))
                /\ closes' = closes + 1 /\ once' = "over"
                /\ UNCHANGED <<logVars, uiVars, stopped, entered, raw, spoilt>>

(* Slip: Close does not take tui.mu. *)
NeverLocked == FALSE

(* tui.Close by another goroutine than the one drawing waits for tui.mu,   *)
(* which Render holds for the length of a frame.                           *)
Drawing == At("main", "drawing")

(* An interrupt before signal.Notify has the process killed; after it, a   *)
(* second one waits in sigc and a third is lost.                           *)
Signal ==
  IF pc["main"] \in {"enter", "raw", "spawn"}
  THEN /\ pc' = [pc EXCEPT !["main"] = "killed"]
       /\ UNCHANGED <<logVars, uiVars, endVars>>
  ELSE /\ sigc = 0 /\ sigc' = 1
       /\ UNCHANGED <<logVars, pc, hand, reader, typed, posted, events, keys, refreshReq, endVars>>

TakeSignal == /\ Go("signal", "wait", "closing") /\ sigc = 1 /\ sigc' = 0
              /\ UNCHANGED <<logVars, hand, reader, typed, posted, events, keys, refreshReq, endVars>>

CloseOnSignal == /\ Go("signal", "closing", "restoring") /\ ~ Drawing
                 /\ TerminalUnder(FALSE, raw)
                 /\ UNCHANGED <<logVars, uiVars, once, closes, stopped, spoilt>>

RestoreOnSignal == /\ Go("signal", "restoring", "log")
                   /\ TerminalUnder(entered, FALSE)
                   /\ UNCHANGED <<logVars, uiVars, once, closes, stopped, spoilt>>

Elapse == /\ Go("timer", "wait", "log")
          /\ UNCHANGED <<logVars, uiVars, endVars>>

LogThenQuit(c) == c # "main" /\ Say(c, "log", "quit")

NoLongerNeeded(c) == /\ Go(c, "wait", "left") /\ done
                     /\ UNCHANGED <<logVars, uiVars, endVars>>

--------------------------------------------------------------------------
(* The loop: one case of the select per action, taken in any order when    *)
(* several are ready.                                                      *)

TakeKey == /\ At("main", "loop") /\ keys # <<>>
           /\ keys' = Tail(keys)
           /\ pc' = [pc EXCEPT !["main"] = IF Head(keys) = "quit" THEN "quitting" ELSE "command"]
           /\ UNCHANGED <<logVars, hand, reader, typed, posted, events, refreshReq, sigc, endVars>>

LogQuit == Say("main", "quitting", "quit")

(* Slip: the request waits for room. *)
RequestWaits ==
  /\ Go("main", "command", "report") /\ refreshReq < RefreshRoom
  /\ refreshReq' = refreshReq + 1
  /\ UNCHANGED <<logVars, hand, reader, typed, posted, events, keys, sigc, endVars>>

(* The command "refresh" asks for a frame rate of the goroutine that is    *)
(* running it; a request there is no room for is dropped.                  *)
SetRefresh ==
  /\ Go("main", "command", "report")
  /\ refreshReq' = IF refreshReq < RefreshRoom THEN refreshReq + 1 ELSE refreshReq
  /\ UNCHANGED <<logVars, hand, reader, typed, posted, events, keys, sigc, endVars>>

ReportRefresh == Say("main", "report", "loop")

TakeRefresh == /\ At("main", "loop") /\ refreshReq > 0
               /\ refreshReq' = refreshReq - 1
               /\ UNCHANGED <<logVars, pc, hand, reader, typed, posted, events, keys, sigc, endVars>>

Sample == /\ At("main", "loop")
          /\ TakeLog
          /\ UNCHANGED <<pc, uiVars, endVars>>

(* Render: under tui.mu from the check of entered to the flush.            *)
BeginFrame == /\ Go("main", "loop", "drawing") /\ entered
              /\ UNCHANGED <<logVars, uiVars, endVars>>

Flush == /\ Go("main", "drawing", "loop")
         /\ spoilt' = (spoilt \/ ~ entered)
         /\ UNCHANGED <<logVars, uiVars, once, closes, stopped, entered, raw>>

(* The done case, the session's summary and the deferred calls.            *)
SeeDone == /\ Go("main", "loop", "closing") /\ done
           /\ UNCHANGED <<logVars, uiVars, endVars>>

(* Slip: left to the deferred Close, which follows the summary. *)
LeftToDeferred == /\ Go("main", "closing", "restoring")
                  /\ UNCHANGED <<logVars, uiVars, endVars>>

CloseAtEnd == /\ Go("main", "closing", "restoring")
              /\ TerminalUnder(FALSE, raw)
              /\ UNCHANGED <<logVars, uiVars, once, closes, stopped, spoilt>>

RestoreAtEnd == /\ Go("main", "restoring", "summary")
                /\ TerminalUnder(entered, FALSE)
                /\ UNCHANGED <<logVars, uiVars, once, closes, stopped, spoilt>>

Summary == /\ Go("main", "summary", "deferred")
           /\ UNCHANGED <<logVars, uiVars, endVars>>

Deferred == /\ Go("main", "deferred", "returned")
            /\ TerminalUnder(FALSE, FALSE)
            /\ UNCHANGED <<logVars, uiVars, once, closes, stopped, spoilt>>

--------------------------------------------------------------------------
Startup == Enter \/ EnableRawInput \/ Spawn \/ StartMining \/ FirstSnapshot
Forwarder == TakeEvent \/ Forward
Reader == (\E k \in Key : Press(k)) \/ SendKey \/ ReaderLeaves
Quitting(c) == \/ Quit(c) \/ QuitAlready(c) \/ StopEngine(c) \/ CloseDone(c)
               \/ LogThenQuit(c)
OnSignal == TakeSignal \/ CloseOnSignal \/ RestoreOnSignal
MainLoop == \/ TakeKey \/ LogQuit \/ SetRefresh \/ ReportRefresh \/ TakeRefresh
            \/ Sample \/ BeginFrame \/ Flush
Ending == SeeDone \/ CloseAtEnd \/ RestoreAtEnd \/ Summary \/ Deferred

ConsoleNext ==
  /\ Running
  /\ \/ Startup \/ Post \/ Forwarder \/ Reader \/ Signal \/ OnSignal \/ Elapse
     \/ \E c \in Caller : Quitting(c)
     \/ \E g \in Goroutine \ {"main"} : NoLongerNeeded(g)
     \/ MainLoop \/ Ending

ConsoleSpec == ConsoleInit /\ [][ConsoleNext]_vars

(* Every goroutine is scheduled and goes on from where it is; select picks *)
(* at random among the cases that are ready, so none is passed over for    *)
(* ever, and a mutex does not starve who waits for it.                     *)
GoesOn == \/ Startup \/ Flush \/ LogQuit \/ SetRefresh \/ ReportRefresh
          \/ CloseAtEnd \/ RestoreAtEnd \/ Summary \/ Deferred

FairSpec ==
  /\ ConsoleSpec
  /\ WF_vars(Running /\ GoesOn)
  /\ \A c \in Caller : WF_vars(Running /\ Quitting(c))
  /\ SF_vars(Running /\ OnSignal)
  /\ SF_vars(Running /\ TakeKey)
  /\ SF_vars(Running /\ SeeDone)

--------------------------------------------------------------------------
Point == {"off", "wait", "enter", "raw", "spawn", "start", "first", "loop", "drawing",
          "quitting", "command", "report", "log", "quit", "stop", "close", "closing",
          "restoring", "summary", "deferred", "returned", "left", "killed"}

(* The values every variable keeps to; no channel holds more than it has   *)
(* room for.                                                               *)
ConsoleTypeOK ==
  /\ LogTypeOK
  /\ pc \in [Goroutine -> Point]
  /\ hand \in Seq(Entry) /\ Len(hand) <= 1
  /\ reader \in {"off", "wait", "left"} \cup Key
  /\ typed \in 0 .. MaxKeys /\ posted \in 0 .. MaxPosts
  /\ events \in Seq(1 .. MaxPosts) /\ Len(events) <= EventRoom
  /\ keys \in Seq(Key) /\ Len(keys) <= KeyRoom
  /\ refreshReq \in 0 .. RefreshRoom /\ sigc \in 0 .. 1
  /\ once \in {"fresh", "running", "over"} /\ closes \in Nat
  /\ {stopped, entered, raw, spoilt} \subseteq BOOLEAN

(* quit may be called by a signal, the timer and a key at once, and        *)
(* closing done a second time would panic (runloop.go, 186-196).           *)
DoneClosedOnce == closes <= 1

(* No frame is drawn over the user's own terminal: a signal may close the  *)
(* console while the loop is drawing or about to (tui.go, 347-362).        *)
NoFrameOutside == ~ spoilt

(* Whoever quits, and however many at once: done is closed once, the       *)
(* channels keep to their sizes and no frame is drawn outside the console. *)
EndsOnce == ConsoleTypeOK /\ DoneClosedOnce /\ NoFrameOutside

(* The summary is printed with the engine told to stop and the terminal    *)
(* back as it was found, whoever asked to quit (runloop.go, 482-490).      *)
LeavesCleanly ==
  pc["main"] \in {"summary", "deferred", "returned"} => stopped /\ ~ entered /\ ~ raw

(* "The terminal has to be given back whatever happens next" (runloop.go:  *)
(* 198): a process that is gone has left the console.  It does not hold:   *)
(* until signal.Notify (254) an interrupt has its default effect, and the  *)
(* process is gone before any deferred call or handler gives it back.      *)
TerminalGivenBack == pc["main"] \in {"returned", "killed"} => ~ entered /\ ~ raw

(* A miner that was interrupted, told to quit or out of its time exits:    *)
(* nobody waits for the loop in a way that keeps it from leaving.          *)
AskedToQuit == \/ At("signal", "closing") \/ At("timer", "log") \/ At("main", "quitting")
               \/ sigc = 1 /\ At("signal", "wait")
ShutdownCompletes == AskedToQuit ~> At("main", "returned")
=============================================================================
