--------------------------- MODULE StatsFile ---------------------------
(***************************************************************************)
(* The status document of cmd/derostorm/statsfile.go and the script that   *)
(* reads it, hiveos/derostorm/h-stats.sh.  The run loop writes the         *)
(* document aside and renames it into place; the script looks at the file, *)
(* then opens it once for every figure it takes from it.  The miner may be *)
(* killed between any two system calls, and started again.                 *)
(*                                                                         *)
(* A document is the time it was written at; what is in it is Devices.     *)
(***************************************************************************)
EXTENDS Integers

CONSTANTS
  statsInterval,  \* ticks of the clock between two documents
  StaleAfter,     \* the age the script refuses, 60 s
  MaxNow,         \* bound: how far the clock runs
  MaxKills        \* bound: times the miner is killed

ASSUME StatsAssumption ==
  /\ statsInterval \in Nat \ {0} /\ StaleAfter \in Nat
  /\ MaxNow \in Nat /\ MaxKills \in Nat

NoFile == -1     \* the file does not exist
Torn   == -2     \* it holds part of a document

VARIABLES
  now,          \* the clock
  statsPath,    \* the file at path
  statsTmp,     \* the file at path.tmp
  statsPC,      \* the run loop: "wait", "tmp", "full", "rename", "undo",
                \* "removetmp", "left" or "killed"
  statsNext,    \* w.next
  kills,
  readPC,       \* the script: "away", "check", "khs", "rows"
  lookedAt,     \* when it took the age of the file
  readKhs,      \* the document khs is taken from
  readRows      \* the document the arrays are taken from

statsVars == <<now, statsPath, statsTmp, statsPC, statsNext, kills, readPC, lookedAt, readKhs, readRows>>
statsFiles == <<statsPath, statsTmp>>
statsReader == <<readPC, lookedAt, readKhs, readRows>>

StatsInit ==
  /\ now = 0 /\ statsPath = NoFile /\ statsTmp = NoFile
  /\ statsPC = "wait" /\ statsNext = 0 /\ kills = 0
  /\ readPC = "away" /\ lookedAt = 0 /\ readKhs = NoFile /\ readRows = NoFile

StatsClock ==
  /\ now < MaxNow /\ now' = now + 1
  /\ UNCHANGED <<statsFiles, statsPC, statsNext, kills, statsReader>>

-----------------------------------------------------------------------------
(* Write *)

StatsDue == now >= statsNext

WriteBegins ==
  /\ statsPC = "wait" /\ StatsDue
  /\ statsNext' = now + statsInterval
  /\ statsPC' = "tmp"
  /\ UNCHANGED <<now, statsFiles, kills, statsReader>>

(* Slip: the document is written where it is read. *)
InPlace(doc) == statsPath' = doc /\ UNCHANGED statsTmp
(* What os.WriteFile leaves behind at the temporary name.                  *)
Aside(doc)   == statsTmp' = doc /\ UNCHANGED statsPath

(* os.WriteFile truncates and then writes, and either may be as far as it  *)
(* gets; an error leaves what there is.                                    *)
WriteStarted ==
  /\ statsPC = "tmp" /\ Aside(Torn)
  /\ statsPC' \in {"full", "wait"}
  /\ UNCHANGED <<now, statsNext, kills, statsReader>>

WriteFinished ==
  /\ statsPC = "full" /\ Aside(now)
  /\ statsPC' = "rename"
  /\ UNCHANGED <<now, statsNext, kills, statsReader>>

StatsRename ==
  /\ statsPC = "rename"
  /\ \/ statsPath' = statsTmp /\ statsTmp' = NoFile /\ statsPC' = "wait"
     \/ UNCHANGED statsFiles /\ statsPC' = "undo"
  /\ UNCHANGED <<now, statsNext, kills, statsReader>>

(* Slip: both files are taken away. *)
BothRemoved == statsTmp' = NoFile /\ statsPath' = NoFile
TmpRemoved  == statsTmp' = NoFile /\ UNCHANGED statsPath

StatsUndo ==
  /\ statsPC = "undo" /\ statsPC' = "wait"
  /\ TmpRemoved
  /\ UNCHANGED <<now, statsNext, kills, statsReader>>

(* Remove, deferred in run.                                                *)
(* Slip: only the temporary file is taken away. *)
LeaveDocument == UNCHANGED statsFiles
StatsRemoves == statsPath' = NoFile /\ UNCHANGED statsTmp

StatsRemove ==
  /\ statsPC = "wait" /\ statsPC' = "removetmp"
  /\ StatsRemoves
  /\ UNCHANGED <<now, statsNext, kills, statsReader>>

StatsRemoveTmp ==
  /\ statsPC = "removetmp" /\ statsPC' = "left"
  /\ TmpRemoved
  /\ UNCHANGED <<now, statsNext, kills, statsReader>>

(* A kill, a power cut or a panic outside the run loop.                    *)
StatsKilled ==
  /\ statsPC \notin {"left", "killed"} /\ kills < MaxKills
  /\ statsPC' = "killed" /\ kills' = kills + 1
  /\ UNCHANGED <<now, statsFiles, statsNext, statsReader>>

(* newStatsWriter of the next process: next is the zero time.              *)
newStatsWriter ==
  /\ statsPC \in {"left", "killed"}
  /\ statsPC' = "wait" /\ statsNext' = 0
  /\ UNCHANGED <<now, statsFiles, kills, statsReader>>

-----------------------------------------------------------------------------
(* h-stats.sh *)

(* Slip: a file that is there is read. *)
AnyAge == TRUE
FreshEnough == now - statsPath <= StaleAfter

(* [[ -f ]] and the age; a file that is not there has the age of 1970.     *)
ReaderLooks ==
  /\ readPC = "away" /\ statsPath # NoFile /\ FreshEnough
  /\ readPC' = "check" /\ lookedAt' = now /\ readKhs' = NoFile /\ readRows' = NoFile
  /\ UNCHANGED <<now, statsFiles, statsPC, statsNext, kills>>

(* jq -e . : a file that is gone or does not parse ends it.                *)
ReaderChecks ==
  /\ readPC = "check"
  /\ readPC' = IF statsPath \in {NoFile, Torn} THEN "away" ELSE "khs"
  /\ UNCHANGED <<now, statsFiles, statsPC, statsNext, kills, lookedAt, readKhs, readRows>>

(* Each jq opens the file again; one that is gone gives an empty value.    *)
ReadsKhs ==
  /\ readPC = "khs" /\ readPC' = "rows"
  /\ readKhs' = statsPath
  /\ UNCHANGED <<now, statsFiles, statsPC, statsNext, kills, lookedAt, readRows>>

ReadsRows ==
  /\ readPC = "rows" /\ readPC' = "away"
  /\ readRows' = statsPath
  /\ UNCHANGED <<now, statsFiles, statsPC, statsNext, kills, lookedAt, readKhs>>

StatsNextStep ==
  \/ StatsClock \/ WriteBegins \/ WriteStarted \/ WriteFinished \/ StatsRename
  \/ StatsUndo \/ StatsRemove \/ StatsRemoveTmp \/ StatsKilled \/ newStatsWriter
  \/ ReaderLooks \/ ReaderChecks \/ ReadsKhs \/ ReadsRows

StatsSpec == StatsInit /\ [][StatsNextStep]_statsVars

-----------------------------------------------------------------------------
StatsTypeOK ==
  /\ now \in 0 .. MaxNow /\ statsPath \in -2 .. MaxNow /\ statsTmp \in -2 .. MaxNow
  /\ statsPC \in {"wait", "tmp", "full", "rename", "undo", "removetmp", "left", "killed"}
  /\ statsNext \in Nat /\ kills \in 0 .. MaxKills
  /\ readPC \in {"away", "check", "khs", "rows"} /\ lookedAt \in Nat
  /\ readKhs \in -2 .. MaxNow /\ readRows \in -2 .. MaxNow
  /\ statsPC = "rename" => statsTmp \in 0 .. now

(* A reader sees the previous document or the next one and never half of   *)
(* one, whatever call fails and wherever the miner is killed.              *)
WholeDocument == statsPath # Torn /\ readKhs # Torn /\ readRows # Torn

(* No figure the script reports is older than it was told to accept: what  *)
(* is read after the age was taken can only be a later document, or none.  *)
NeverFrozen ==
  \A doc \in {readKhs, readRows} : doc >= 0 => lookedAt - doc <= StaleAfter

(* After a clean exit the file is gone: there is no hashrate left that     *)
(* never changes again, nor a half-written one beside it.                  *)
GoneAfterExit == statsPC = "left" => statsPath = NoFile /\ statsTmp = NoFile

(* Whatever a reader gets is a whole document that is no older than it     *)
(* accepts, and after a clean exit there is none.                          *)
DocumentTrue == StatsTypeOK /\ WholeDocument /\ NeverFrozen /\ GoneAfterExit

(* A document stands until a later one takes its place or the miner leaves *)
(* on purpose: no failed write takes the last good one away.               *)
OnlyNewer ==
  [][statsPath' # statsPath => statsPath' > statsPath \/ (statsPC = "wait" /\ statsPC' = "removetmp")]_statsVars
=============================================================================
