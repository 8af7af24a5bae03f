---------------------------- MODULE LogRing ----------------------------
(***************************************************************************)
(* The console's log: cmd/derostorm/runloop.go, addLog and the part of     *)
(* build that hands the log to a Snapshot.  A Go slice is the address of   *)
(* an array and a length, so a Snapshot shares its array with the run      *)
(* loop, which keeps appending to it.  logMu makes each operation atomic.  *)
(***************************************************************************)
EXTENDS Integers, Sequences

CONSTANTS
  Entry,         \* what a LogEntry is told apart by
  Zero,          \* the content of a cell nothing was written to
  Address,       \* where an array can be allocated
  logRingSize,   \* a log this long is trimmed before it grows
  logRingKeep    \* what survives a trim

ASSUME LogAssumption ==
  /\ logRingSize \in Nat /\ logRingKeep \in Nat
  /\ logRingKeep < logRingSize
  /\ Zero \notin Entry
  /\ Address # {} /\ \A a, b \in Address : Address \ {a, b} # {}

VARIABLES
  array,    \* the arrays something still refers to, by address
  ring,     \* the slice logRing
  latest    \* the slice the newest Snapshot carries

logVars == <<array, ring, latest>>

(* The capacity append gives a slice of 64-byte entries that is full.      *)
Grown(cap) == IF cap = 0 THEN 1 ELSE 2 * cap

Content(slice) == SubSeq(array[slice.at], 1, slice.len)

(* The slice of the last n entries, which Go takes without copying.        *)
LastOf(slice, n) == SubSeq(array[slice.at], slice.len - n + 1, slice.len)

(* Memory is collected, so an address is free once no slice refers to it.  *)
FreshAddress == CHOOSE a \in Address : a \notin {ring.at, latest.at}

Filled(entries, cap) ==
  [i \in 1 .. cap |-> IF i <= Len(entries) THEN entries[i] ELSE Zero]

WriteInPlace(e) ==
  /\ array' = [array EXCEPT ![ring.at][ring.len + 1] = e]
  /\ ring' = [ring EXCEPT !.len = @ + 1]

(* Slip: the entries are moved within the array they are in. *)
SlideDown(fresh, entries, cap) ==
  /\ array' = [array EXCEPT ![ring.at] = Filled(entries, cap)]
  /\ ring' = [ring EXCEPT !.len = Len(entries)]

MoveTo(fresh, entries, cap) ==
  /\ array' = [a \in {fresh, latest.at} |->
                 IF a = fresh THEN Filled(entries, cap) ELSE array[a]]
  /\ ring' = [at |-> fresh, len |-> Len(entries)]

(* append, when the log is short of logRingSize: at the end of its array,  *)
(* or in a larger one when that is full.                                   *)
AppendEntry(e) ==
  /\ ring.len < logRingSize
  /\ \/ /\ ring.len < Len(array[ring.at])
        /\ WriteInPlace(e)
     \/ /\ ring.len = Len(array[ring.at])
        /\ MoveTo(FreshAddress, Append(Content(ring), e), Grown(ring.len))

(* A log of logRingSize: the newest entries go to an array of their own.   *)
TrimAndAppend(e) ==
  /\ ring.len >= logRingSize
  /\ MoveTo(FreshAddress, Append(LastOf(ring, logRingKeep), e), logRingSize)

addLog(e) == /\ AppendEntry(e) \/ TrimAndAppend(e)
             /\ UNCHANGED latest

(* build: the Snapshot takes the slice itself.                             *)
TakeLog == /\ latest' = ring
           /\ array' = [a \in {ring.at} |-> array[a]]
           /\ UNCHANGED ring

LogInit == LET nowhere == CHOOSE a \in Address : TRUE
           IN  /\ array = [a \in {nowhere} |-> <<>>]
               /\ ring = [at |-> nowhere, len |-> 0]
               /\ latest = ring

LogNext == (\E e \in Entry : addLog(e)) \/ TakeLog

LogSpec == LogInit /\ [][LogNext]_logVars

(* Every slice lies in an array that is still held, and its cells were     *)
(* all written.                                                            *)
Slice == [at : Address, len : 0 .. logRingSize]

LogTypeOK ==
  /\ ring \in Slice /\ latest \in Slice
  /\ DOMAIN array = {ring.at, latest.at}
  /\ \A a \in DOMAIN array : array[a] \in Seq(Entry \cup {Zero})
  /\ \A s \in {ring, latest} :
       /\ s.len <= Len(array[s.at])
       /\ \A i \in 1 .. s.len : array[s.at][i] \in Entry

(* A reader of the array being appended to holds no cell that append has   *)
(* still to write (runloop.go, 130-134).                                   *)
ReaderBehind == latest.at = ring.at => latest.len <= ring.len

Log == INSTANCE EventLog WITH log <- Content(ring), seen <- Content(latest)

(* The arrays and slices keep the promise of EventLog: what is held is     *)
(* always the newest of what was added, and a Snapshot shows the log as it *)
(* was when it was taken for as long as it is held (runloop.go, 128-134).  *)
ImplementsEventLog == Log!Spec
=============================================================================
