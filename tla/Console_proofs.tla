------------------------ MODULE Console_proofs ------------------------
(***************************************************************************)
(* Proofs about LogRing and Console: whatever the log's size, what is held *)
(* and what a Snapshot shows are those of a log of values, and the run     *)
(* loop closes done once, draws only inside the alternate buffer and       *)
(* leaves with the terminal given back.                                    *)
(***************************************************************************)
EXTENDS Console, SequenceTheorems, TLAPS

LEMMA Sizes ==
  logRingSize \in Nat /\ logRingKeep \in Nat /\ logRingKeep < logRingSize
  BY LogAssumption

(* The inductive invariant of the log.                                     *)
LogInv == LogTypeOK /\ ReaderBehind

LEMMA LogInitInv == LogInit => LogInv
<1> SUFFICES ASSUME LogInit PROVE LogInv
  OBVIOUS
<1> DEFINE nowhere == CHOOSE a \in Address : TRUE
<1>1. nowhere \in Address
  BY LogAssumption
<1>2. array = [a \in {nowhere} |-> <<>>] /\ ring = [at |-> nowhere, len |-> 0] /\ latest = ring
  BY DEF LogInit
<1> HIDE DEF nowhere
<1>3. array[nowhere] = <<>> /\ DOMAIN array = {nowhere} /\ <<>> \in Seq(Entry \cup {Zero})
  BY <1>2
<1> QED BY <1>1, <1>2, <1>3, LogAssumption DEF LogInv, LogTypeOK, ReaderBehind, Slice

(* An address for a new array is one that no slice refers to.              *)
LEMMA FreshIsFree ==
  ASSUME LogInv
  PROVE  FreshAddress \in Address /\ FreshAddress # ring.at /\ FreshAddress # latest.at
<1>1. ring.at \in Address /\ latest.at \in Address
  BY DEF LogInv, LogTypeOK, Slice
<1>2. \E a \in Address : a \notin {ring.at, latest.at}
  BY <1>1, LogAssumption
<1> QED BY <1>2 DEF FreshAddress

(* The content of a slice is a sequence of entries, cell by cell.          *)
LEMMA ContentIs ==
  ASSUME LogInv, NEW s \in {ring, latest}
  PROVE  /\ Content(s) \in Seq(Entry) /\ Len(Content(s)) = s.len
         /\ \A i \in 1 .. s.len : Content(s)[i] = array[s.at][i]
         /\ s.len \in Nat /\ s.len <= logRingSize /\ s.at \in DOMAIN array
<1>1. /\ s \in Slice /\ s.at \in DOMAIN array
      /\ array[s.at] \in Seq(Entry \cup {Zero}) /\ s.len <= Len(array[s.at])
      /\ \A i \in 1 .. s.len : array[s.at][i] \in Entry
  BY DEF LogInv, LogTypeOK
<1>2. s.len \in Nat /\ s.len <= logRingSize
  BY <1>1, LogAssumption DEF Slice
<1>3. /\ Content(s) = [i \in 1 .. s.len |-> array[s.at][i]]
  BY <1>1, <1>2 DEF Content
<1>4. Content(s) \in [1 .. s.len -> Entry]
  BY <1>1, <1>3
<1> QED BY <1>1, <1>2, <1>3, <1>4

(* What a log moved to a new array holds, and what it leaves untouched.    *)
LEMMA MovedIs ==
  ASSUME LogInv, NEW entries \in Seq(Entry), NEW cap \in Nat,
         Len(entries) <= cap, Len(entries) <= logRingSize,
         MoveTo(FreshAddress, entries, cap), UNCHANGED latest
  PROVE  /\ LogInv'
         /\ Content(ring)' = entries /\ Content(latest)' = Content(latest)
<1> DEFINE fresh == FreshAddress
<1>1. fresh \in Address /\ fresh # latest.at
  BY FreshIsFree
<1>2. /\ array' = [a \in {fresh, latest.at} |->
                     IF a = fresh THEN Filled(entries, cap) ELSE array[a]]
      /\ ring' = [at |-> fresh, len |-> Len(entries)] /\ latest' = latest
  BY DEF MoveTo
<1> HIDE DEF fresh
<1>3. /\ array'[fresh] = Filled(entries, cap) /\ array'[latest.at] = array[latest.at]
      /\ DOMAIN array' = {fresh, latest.at}
  BY <1>1, <1>2
<1>4. /\ Filled(entries, cap) \in Seq(Entry \cup {Zero}) /\ Len(Filled(entries, cap)) = cap
      /\ \A i \in 1 .. Len(entries) : Filled(entries, cap)[i] = entries[i]
  <2>1. Filled(entries, cap) \in [1 .. cap -> Entry \cup {Zero}]
    BY DEF Filled
  <2>2. \A i \in 1 .. Len(entries) : i \in 1 .. cap
    OBVIOUS
  <2> QED BY <2>1, <2>2 DEF Filled
<1>5. Content(latest)' = Content(latest)
  BY <1>2, <1>3 DEF Content
<1>6. Content(ring)' = entries
  <2>1. Content(ring)' = SubSeq(Filled(entries, cap), 1, Len(entries))
    BY <1>2, <1>3 DEF Content
  <2>2. SubSeq(Filled(entries, cap), 1, Len(entries)) = [i \in 1 .. Len(entries) |-> entries[i]]
    BY <1>4
  <2> QED BY <2>1, <2>2
<1>7. LogTypeOK'
  <2>1. latest \in Slice /\ array[latest.at] \in Seq(Entry \cup {Zero})
        /\ latest.len <= Len(array[latest.at])
        /\ \A i \in 1 .. latest.len : array[latest.at][i] \in Entry
    BY DEF LogInv, LogTypeOK
  <2>2. ring' \in Slice
    BY <1>1, <1>2, LogAssumption DEF Slice
  <2>3. ring'.at = fresh /\ ring'.len = Len(entries)
    BY <1>2
  <2>4. \A i \in 1 .. Len(entries) : array'[fresh][i] \in Entry
    BY <1>3, <1>4
  <2> QED BY <1>2, <1>3, <1>4, <2>1, <2>2, <2>3, <2>4 DEF LogTypeOK
<1>8. ReaderBehind'
  BY <1>1, <1>2 DEF ReaderBehind
<1> QED BY <1>5, <1>6, <1>7, <1>8 DEF LogInv

(* addLog adds the entry to the log there is, trimmed if it is full, and   *)
(* leaves what a Snapshot shows alone.                                     *)
LEMMA AddIs ==
  ASSUME LogInv, NEW e \in Entry, addLog(e)
  PROVE  /\ LogInv'
         /\ Content(ring)' = Append(Log!Trimmed, e)
         /\ Content(latest)' = Content(latest)
<1> DEFINE held == Content(ring)
<1>1. /\ held \in Seq(Entry) /\ Len(held) = ring.len /\ ring.len \in Nat
      /\ ring.len <= logRingSize
      /\ \A i \in 1 .. ring.len : held[i] = array[ring.at][i]
  BY ContentIs
<1>2. latest' = latest
  BY DEF addLog
<1>3. /\ ring \in Slice /\ latest \in Slice /\ DOMAIN array = {ring.at, latest.at}
      /\ \A a \in DOMAIN array : array[a] \in Seq(Entry \cup {Zero})
      /\ ring.len <= Len(array[ring.at]) /\ latest.len <= Len(array[latest.at])
      /\ \A i \in 1 .. ring.len : array[ring.at][i] \in Entry
      /\ \A i \in 1 .. latest.len : array[latest.at][i] \in Entry
  BY DEF LogInv, LogTypeOK
<1> HIDE DEF held
<1>n. ring.len \in Nat /\ ring.len <= logRingSize /\ Len(held) = ring.len
  BY <1>1
<1>h. held \in Seq(Entry)
  BY <1>1
<1>4. CASE /\ ring.len < logRingSize /\ ring.len < Len(array[ring.at])
           /\ WriteInPlace(e)
  <2> DEFINE n == ring.len + 1
             old == array[ring.at]
  <2>1. n \in 1 .. Len(old) /\ n \in Nat /\ n <= logRingSize /\ old \in Seq(Entry \cup {Zero})
    BY <1>n, <1>3, <1>4, Sizes
  <2>2. array' = [array EXCEPT ![ring.at] = [old EXCEPT ![n] = e]] /\ ring' = [ring EXCEPT !.len = n]
    BY <1>4 DEF WriteInPlace
  <2>3. ring'.at = ring.at /\ ring'.len = n /\ ring' \in Slice
    BY <1>3, <2>1, <2>2, Sizes DEF Slice
  <2> DEFINE new == [old EXCEPT ![n] = e]
  <2>4. /\ new \in Seq(Entry \cup {Zero}) /\ Len(new) = Len(old) /\ new[n] = e
        /\ \A i \in 1 .. Len(old) : i # n => new[i] = old[i]
    BY <2>1
  <2>5. array'[ring.at] = new /\ DOMAIN array' = DOMAIN array
        /\ \A a \in DOMAIN array : a # ring.at => array'[a] = array[a]
    BY <1>3, <2>2
  <2> HIDE DEF new
  <2>6. \A i \in 1 .. ring.len : i \in 1 .. Len(old) /\ i # n
    BY <1>1, <1>3
  <2>7. \A i \in 1 .. n : i = n \/ i \in 1 .. ring.len
    BY <1>1
  <2>8. \A i \in 1 .. latest.len : array'[latest.at][i] = array[latest.at][i]
    <3>1. CASE latest.at = ring.at
      <4>1. latest.len <= ring.len
        BY <3>1 DEF LogInv, ReaderBehind
      <4>2. latest.len \in Nat
        BY <1>3, Sizes DEF Slice
      <4>3. \A i \in 1 .. latest.len : i \in 1 .. ring.len
        BY <1>1, <4>1, <4>2
      <4> QED BY <2>4, <2>5, <2>6, <3>1, <4>3
    <3>2. CASE latest.at # ring.at
      BY <1>3, <2>5, <3>2
    <3> QED BY <3>1, <3>2
  <2> HIDE DEF old, n
  <2>9. Content(latest)' = Content(latest)
    <3>1. latest.len \in Nat /\ latest.at \in DOMAIN array
      BY <1>3, Sizes DEF Slice
    <3>2. array'[latest.at] \in Seq(Entry \cup {Zero}) /\ array[latest.at] \in Seq(Entry \cup {Zero})
      BY <1>3, <2>4, <2>5, <3>1
    <3>3. /\ Content(latest)' = SubSeq(array'[latest.at], 1, latest.len)
          /\ Content(latest) = SubSeq(array[latest.at], 1, latest.len)
      BY <1>2 DEF Content
    <3>4. /\ SubSeq(array'[latest.at], 1, latest.len) = [i \in 1 .. latest.len |-> array'[latest.at][i]]
          /\ SubSeq(array[latest.at], 1, latest.len) = [i \in 1 .. latest.len |-> array[latest.at][i]]
      BY <3>1, <3>2
    <3> QED BY <2>8, <3>3, <3>4
  <2>10. Content(ring)' = Append(held, e)
    <3>1. Content(ring)' = SubSeq(new, 1, n)
      BY <2>3, <2>5 DEF Content
    <3>3. \A i \in 1 .. ring.len : new[i] = held[i]
      BY <1>1, <2>4, <2>6 DEF old
    <3>4. /\ Append(held, e) \in Seq(Entry) /\ Len(Append(held, e)) = n
          /\ Append(held, e)[n] = e
          /\ \A i \in 1 .. ring.len : Append(held, e)[i] = held[i]
      BY <1>n, <1>h, AppendProperties DEF n
    <3>5. \A i \in 1 .. n : Append(held, e)[i] = new[i]
      BY <2>4, <2>7, <3>3, <3>4
    <3>6. \A i \in 1 .. n : new[i] \in Entry
      BY <1>3, <2>4, <2>6, <2>7 DEF old
    <3>7. /\ SubSeq(new, 1, n) \in Seq(Entry) /\ Len(SubSeq(new, 1, n)) = n
          /\ \A i \in 1 .. n : SubSeq(new, 1, n)[i] = new[i]
      BY <2>1, <2>4, <3>6
    <3> QED BY <3>1, <3>4, <3>5, <3>7, SeqEqual
  <2>11. Log!Trimmed = held
    BY <1>1, <1>4 DEF Log!Trimmed, held
  <2>12. LogTypeOK'
    <3>1. \A a \in DOMAIN array' : array'[a] \in Seq(Entry \cup {Zero})
      BY <1>3, <2>4, <2>5
    <3>2. n <= Len(array'[ring.at]) /\ \A i \in 1 .. n : array'[ring.at][i] \in Entry
      BY <1>3, <2>1, <2>4, <2>5, <2>6, <2>7 DEF old
    <3>3. latest.len <= Len(array'[latest.at])
      BY <1>3, <2>4, <2>5 DEF old
    <3>4. \A i \in 1 .. latest.len : array'[latest.at][i] \in Entry
      BY <1>3, <2>8
    <3> QED BY <1>2, <1>3, <2>3, <2>5, <3>1, <3>2, <3>3, <3>4 DEF LogTypeOK
  <2>13. ReaderBehind'
    BY <1>2, <1>3, <2>3, Sizes DEF LogInv, ReaderBehind, Slice, n
  <2> QED BY <2>9, <2>10, <2>11, <2>12, <2>13 DEF LogInv
<1>5. CASE /\ ring.len < logRingSize /\ ring.len = Len(array[ring.at])
           /\ MoveTo(FreshAddress, Append(held, e), Grown(ring.len))
  <2>1. /\ Append(held, e) \in Seq(Entry) /\ Len(Append(held, e)) = ring.len + 1
    BY <1>1
  <2>2. Grown(ring.len) \in Nat /\ ring.len + 1 <= Grown(ring.len) /\ ring.len + 1 <= logRingSize
    BY <1>n, <1>5, Sizes DEF Grown
  <2>3. Log!Trimmed = held
    BY <1>1, <1>5 DEF Log!Trimmed, held
  <2> QED BY <1>2, <1>5, <2>1, <2>2, <2>3, MovedIs
<1>6. CASE /\ ring.len >= logRingSize
           /\ MoveTo(FreshAddress, Append(LastOf(ring, logRingKeep), e), logRingSize)
  <2> DEFINE kept == LastOf(ring, logRingKeep)
             from == ring.len - logRingKeep
  <2>1. ring.len = logRingSize /\ from \in Nat /\ from > 0 /\ from + logRingKeep = ring.len
    BY <1>n, <1>6, Sizes
  <2>2. \A i \in 1 .. logRingKeep : from + i \in 1 .. ring.len
    BY <2>1, Sizes
  <2>3. kept = [i \in 1 .. logRingKeep |-> array[ring.at][from + i]]
    BY <1>3, <2>1, <2>2, Sizes DEF LastOf
  <2>4. SubSeq(held, ring.len - logRingKeep + 1, ring.len)
          = [i \in 1 .. logRingKeep |-> held[from + i]]
    BY <1>n, <1>h, <2>1, Sizes
  <2> HIDE DEF kept, from
  <2>5. kept = SubSeq(held, ring.len - logRingKeep + 1, ring.len)
    BY <1>1, <2>2, <2>3, <2>4
  <2>6. kept \in Seq(Entry) /\ Len(kept) = logRingKeep
    BY <1>3, <2>2, <2>3, Sizes
  <2>7. Append(kept, e) \in Seq(Entry) /\ Len(Append(kept, e)) = logRingKeep + 1
    BY <2>6
  <2>8. logRingKeep + 1 <= logRingSize /\ logRingSize \in Nat
    BY Sizes
  <2>9. Log!Trimmed = kept
    <3>1. ~ (Len(held) < logRingSize) /\ Len(held) = ring.len
      BY <1>n, <2>1, Sizes
    <3>2. Log!Trimmed = IF Len(held) < logRingSize THEN held
                        ELSE SubSeq(held, Len(held) - logRingKeep + 1, Len(held))
      BY DEF Log!Trimmed, held
    <3> QED BY <2>5, <3>1, <3>2
  <2>10. MoveTo(FreshAddress, Append(kept, e), logRingSize)
    BY <1>6 DEF kept
  <2> QED BY <1>2, <2>7, <2>8, <2>9, <2>10, MovedIs
<1> QED BY <1>4, <1>5, <1>6 DEF addLog, AppendEntry, TrimAndAppend, held

(* A Snapshot shows the log there is.                                      *)
LEMMA TakeIs ==
  ASSUME LogInv, TakeLog
  PROVE  /\ LogInv'
         /\ Content(latest)' = Content(ring) /\ Content(ring)' = Content(ring)
<1>1. latest' = ring /\ ring' = ring /\ array' = [a \in {ring.at} |-> array[a]]
  BY DEF TakeLog
<1>2. array'[ring.at] = array[ring.at] /\ DOMAIN array' = {ring.at}
  BY <1>1
<1>3. Content(latest)' = Content(ring) /\ Content(ring)' = Content(ring)
  BY <1>1, <1>2 DEF Content
<1>4. LogTypeOK'
  BY <1>1, <1>2 DEF LogInv, LogTypeOK
<1>5. ReaderBehind'
  BY <1>1, Sizes DEF LogInv, LogTypeOK, Slice, ReaderBehind
<1> QED BY <1>3, <1>4, <1>5 DEF LogInv

(* Every step of the log is one of EventLog, or none.                      *)
LEMMA LogStepImplements ==
  ASSUME LogInv, LogNext \/ UNCHANGED logVars
  PROVE  LogInv' /\ (Log!Next \/ UNCHANGED <<Content(ring), Content(latest)>>)
<1>1. ASSUME NEW e \in Entry, addLog(e)
      PROVE  LogInv' /\ Log!Add
  BY <1>1, AddIs DEF Log!Add
<1>2. CASE TakeLog
  BY <1>2, TakeIs DEF Log!Next, Log!Look
<1>3. CASE UNCHANGED logVars
  BY <1>3 DEF logVars, LogInv, LogTypeOK, ReaderBehind, Content
<1> QED BY <1>1, <1>2, <1>3 DEF LogNext, Log!Next

LEMMA LogInitImplements == LogInit => Log!Init
  BY DEF LogInit, Log!Init, Content

(* For a log of any size, arrays that are appended to in place and slices  *)
(* that share them behave as a bounded log of values and a reader with a   *)
(* value of its own (runloop.go, 128-159).                                 *)
THEOREM LogRingImplements == LogSpec => ImplementsEventLog
<1>1. LogInit => LogInv /\ Log!Init
  BY LogInitInv, LogInitImplements
<1>2. LogInv /\ [LogNext]_logVars => LogInv' /\ [Log!Next]_<<Content(ring), Content(latest)>>
  BY LogStepImplements
<1> QED BY <1>1, <1>2, PTL DEF LogSpec, ImplementsEventLog, Log!Spec

--------------------------------------------------------------------------
(* The inductive invariant of the run loop: one caller at most is inside   *)
(* quit, done is closed exactly when quit is over, and the main goroutine  *)
(* is past a point of its shutdown only when what that point did holds.    *)
Inside(c) == pc[c] \in {"stop", "close"}

OnceInv ==
  /\ \A c \in Caller : Inside(c) => once = "running"
  /\ \A c, d \in Caller : Inside(c) /\ Inside(d) => c = d
  /\ closes = IF once = "over" THEN 1 ELSE 0
  /\ \A c \in Caller : pc[c] = "close" => stopped
  /\ once = "over" => stopped

Ended == {"summary", "deferred", "returned"}

TerminalInv ==
  /\ pc["main"] \in Ended \cup {"closing", "restoring"} => once = "over"
  /\ pc["main"] \in Ended \cup {"restoring"} => entered = FALSE
  /\ pc["main"] \in Ended => raw = FALSE
  /\ pc["main"] = "drawing" => entered = TRUE
  /\ spoilt = FALSE

ControlInv == DOMAIN pc = Goroutine /\ OnceInv /\ TerminalInv

LEMMA ControlInit == ConsoleInit => ControlInv
  BY DEF ConsoleInit, ControlInv, OnceInv, TerminalInv, Inside, Goroutine, Caller, Ended

(* A move that changes nothing else keeps the invariant unless it enters   *)
(* quit, or takes the main goroutine where the invariant says something.   *)
Plain(c, to) ==
  /\ to \notin {"stop", "close"}
  /\ c = "main" => to \notin Ended \cup {"closing", "restoring", "drawing"}

LEMMA QuietMove ==
  ASSUME ControlInv, NEW c \in Goroutine, NEW from, NEW to, Go(c, from, to),
         Plain(c, to), UNCHANGED endVars
  PROVE  ControlInv'
<1>1. pc' = [pc EXCEPT ![c] = to] /\ DOMAIN pc' = Goroutine
      /\ \A d \in Goroutine : pc'[d] = IF d = c THEN to ELSE pc[d]
  BY DEF Go, ControlInv
<1>2. Caller \subseteq Goroutine /\ "main" \in Goroutine
  BY DEF Goroutine, Caller
<1>3. UNCHANGED <<once, closes, stopped, entered, raw, spoilt>>
  BY DEF endVars
<1>4. OnceInv'
  BY <1>1, <1>2, <1>3 DEF ControlInv, OnceInv, Inside, Plain
<1>5. TerminalInv'
  BY <1>1, <1>2, <1>3 DEF ControlInv, TerminalInv, Plain
<1> QED BY <1>1, <1>4, <1>5 DEF ControlInv

(* The main goroutine gives the terminal back and moves on.                *)
LEMMA GiveBack ==
  ASSUME ControlInv, NEW from, NEW to \in Ended \cup {"restoring"}, Go("main", from, to),
         once = "over", entered' = FALSE, raw' = FALSE \/ to = "restoring",
         UNCHANGED <<once, closes, stopped, spoilt>>
  PROVE  ControlInv'
<1>1. DOMAIN pc' = Goroutine
      /\ \A d \in Goroutine : pc'[d] = IF d = "main" THEN to ELSE pc[d]
  BY DEF Go, ControlInv
<1>2. Caller \subseteq Goroutine /\ "main" \in Goroutine
  BY DEF Goroutine, Caller
<1>3. OnceInv'
  BY <1>1, <1>2 DEF ControlInv, OnceInv, Inside, Ended
<1>4. TerminalInv'
  BY <1>1, <1>2 DEF ControlInv, TerminalInv, Ended
<1> QED BY <1>1, <1>3, <1>4 DEF ControlInv

LEMMA StartupKeeps == ASSUME ControlInv, Startup PROVE ControlInv'
<1>1. CASE Enter
  BY <1>1 DEF Enter, Go, TerminalUnder, ControlInv, OnceInv, TerminalInv, Inside, Ended,
              Goroutine, Caller
<1>2. CASE EnableRawInput
  BY <1>2 DEF EnableRawInput, Go, TerminalUnder, ControlInv, OnceInv, TerminalInv, Inside,
              Ended, Goroutine, Caller
<1>3. CASE Spawn
  BY <1>3 DEF Spawn, At, endVars, ControlInv, OnceInv, TerminalInv, Inside, Ended,
              Goroutine, Caller
<1>4. CASE StartMining
  BY <1>4, QuietMove DEF StartMining, Say, Plain, Goroutine, Caller, Ended
<1>5. CASE FirstSnapshot
  BY <1>5, QuietMove DEF FirstSnapshot, Plain, Goroutine, Caller, Ended
<1> QED BY <1>1, <1>2, <1>3, <1>4, <1>5 DEF Startup

LEMMA QuittingKeeps ==
  ASSUME ControlInv, NEW c \in Caller, Quitting(c)
  PROVE  ControlInv'
<1>0. c \in Goroutine /\ Caller \subseteq Goroutine /\ "main" \in Caller
  BY DEF Goroutine, Caller
<1>a. ASSUME NEW from, NEW to, Go(c, from, to)
      PROVE  /\ pc[c] = from /\ DOMAIN pc' = Goroutine
             /\ \A d \in Goroutine : pc'[d] = IF d = c THEN to ELSE pc[d]
  BY <1>0, <1>a DEF Go, ControlInv
<1>1. CASE Quit(c)
  <2>1. /\ pc[c] = "quit" /\ DOMAIN pc' = Goroutine
        /\ \A d \in Goroutine : pc'[d] = IF d = c THEN "stop" ELSE pc[d]
    BY <1>1, <1>a DEF Quit
  <2>2. once = "fresh" /\ once' = "running" /\ UNCHANGED <<closes, stopped, entered, raw, spoilt>>
    BY <1>1 DEF Quit, MayRunOnce
  <2> QED BY <1>0, <2>1, <2>2 DEF ControlInv, OnceInv, TerminalInv, Inside, Ended
<1>2. CASE QuitAlready(c)
  BY <1>0, <1>2, QuietMove DEF QuitAlready, AfterQuit, Plain, Ended
<1>3. CASE StopEngine(c)
  <2>1. /\ pc[c] = "stop" /\ DOMAIN pc' = Goroutine
        /\ \A d \in Goroutine : pc'[d] = IF d = c THEN "close" ELSE pc[d]
    BY <1>3, <1>a DEF StopEngine
  <2>2. stopped' = TRUE /\ UNCHANGED <<once, closes, entered, raw, spoilt>>
    BY <1>3 DEF StopEngine
  <2> QED BY <1>0, <2>1, <2>2 DEF ControlInv, OnceInv, TerminalInv, Inside, Ended
<1>4. CASE CloseDone(c)
  <2>1. /\ pc[c] = "close" /\ DOMAIN pc' = Goroutine
        /\ \A d \in Goroutine : pc'[d] = IF d = c THEN AfterQuit(c) ELSE pc[d]
    BY <1>4, <1>a DEF CloseDone
  <2>2. closes' = closes + 1 /\ once' = "over" /\ UNCHANGED <<stopped, entered, raw, spoilt>>
    BY <1>4 DEF CloseDone
  <2>3. AfterQuit(c) \in {"loop", "left"}
    BY DEF AfterQuit
  <2>4. once = "running" /\ stopped /\ closes = 0
    BY <1>0, <2>1 DEF ControlInv, OnceInv, Inside
  <2>5. OnceInv'
    BY <1>0, <2>1, <2>2, <2>3, <2>4 DEF ControlInv, OnceInv, Inside
  <2>6. TerminalInv'
    BY <1>0, <2>1, <2>2, <2>3 DEF ControlInv, TerminalInv, Ended
  <2> QED BY <2>1, <2>5, <2>6 DEF ControlInv
<1>5. CASE LogThenQuit(c)
  BY <1>0, <1>5, QuietMove DEF LogThenQuit, Say, Plain
<1> QED BY <1>1, <1>2, <1>3, <1>4, <1>5 DEF Quitting

LEMMA SignalKeeps == ASSUME ControlInv, Signal \/ OnSignal PROVE ControlInv'
<1>0. {"main", "signal"} \subseteq Goroutine
  BY DEF Goroutine, Caller
<1>1. CASE Signal
  <2>1. CASE pc["main"] \in {"enter", "raw", "spawn"}
    BY <1>0, <1>1, <2>1, QuietMove DEF Signal, Go, Plain, Ended
  <2>2. CASE pc["main"] \notin {"enter", "raw", "spawn"}
    BY <1>1, <2>2 DEF Signal, endVars, ControlInv, OnceInv, TerminalInv, Inside
  <2> QED BY <2>1, <2>2
<1>2. CASE TakeSignal
  BY <1>0, <1>2, QuietMove DEF TakeSignal, Plain
<1>3. CASE CloseOnSignal
  BY <1>3 DEF CloseOnSignal, Go, TerminalUnder, Drawing, At, ControlInv, OnceInv, TerminalInv,
              Inside, Goroutine, Caller
<1>4. CASE RestoreOnSignal
  <2>1. Go("signal", "restoring", "log") /\ UNCHANGED <<once, closes, stopped, entered, spoilt>>
        /\ raw' = FALSE
    BY <1>4 DEF RestoreOnSignal, TerminalUnder
  <2> QED BY <2>1 DEF Go, ControlInv, OnceInv, TerminalInv, Inside, Goroutine, Caller
<1> QED BY <1>1, <1>2, <1>3, <1>4 DEF OnSignal

LEMMA LoopKeeps == ASSUME ControlInv, MainLoop PROVE ControlInv'
<1>0. "main" \in Goroutine
  BY DEF Goroutine, Caller
<1>1. CASE TakeKey
  <2>1. \E to \in {"quitting", "command"} : Go("main", "loop", to)
    BY <1>1 DEF TakeKey, Go, At
  <2> QED BY <1>0, <1>1, <2>1, QuietMove DEF TakeKey, Plain, Ended
<1>2. CASE LogQuit
  BY <1>0, <1>2, QuietMove DEF LogQuit, Say, Plain, Ended
<1>3. CASE SetRefresh
  BY <1>0, <1>3, QuietMove DEF SetRefresh, Plain, Ended
<1>4. CASE ReportRefresh
  BY <1>0, <1>4, QuietMove DEF ReportRefresh, Say, Plain, Ended
<1>5. CASE TakeRefresh \/ Sample
  BY <1>5 DEF TakeRefresh, Sample, endVars, ControlInv, OnceInv, TerminalInv, Inside
<1>6. CASE BeginFrame
  BY <1>6 DEF BeginFrame, Go, endVars, ControlInv, OnceInv, TerminalInv, Inside, Ended,
              Goroutine, Caller
<1>7. CASE Flush
  BY <1>7 DEF Flush, Go, ControlInv, OnceInv, TerminalInv, Inside, Ended, Goroutine, Caller
<1> QED BY <1>1, <1>2, <1>3, <1>4, <1>5, <1>6, <1>7 DEF MainLoop

LEMMA EndingKeeps == ASSUME ControlInv, Ending PROVE ControlInv'
<1>0. "main" \in Goroutine
  BY DEF Goroutine, Caller
<1>1. CASE SeeDone
  BY <1>1 DEF SeeDone, done, Go, endVars, ControlInv, OnceInv, TerminalInv, Inside, Ended,
              Goroutine, Caller
<1>2. CASE CloseAtEnd
  <2>1. once = "over"
    BY <1>2 DEF CloseAtEnd, Go, ControlInv, TerminalInv
  <2> QED BY <1>0, <1>2, <2>1, GiveBack DEF CloseAtEnd, TerminalUnder, Ended
<1>3. CASE RestoreAtEnd
  <2>1. once = "over" /\ entered = FALSE
    BY <1>3 DEF RestoreAtEnd, Go, ControlInv, TerminalInv
  <2> QED BY <1>0, <1>3, <2>1, GiveBack DEF RestoreAtEnd, TerminalUnder, Ended
<1>4. CASE Summary
  <2>1. once = "over" /\ entered = FALSE /\ raw = FALSE
    BY <1>4 DEF Summary, Go, ControlInv, TerminalInv, Ended
  <2> QED BY <1>0, <1>4, <2>1, GiveBack DEF Summary, endVars, Ended
<1>5. CASE Deferred
  <2>1. once = "over"
    BY <1>5 DEF Deferred, Go, ControlInv, TerminalInv, Ended
  <2> QED BY <1>0, <1>5, <2>1, GiveBack DEF Deferred, TerminalUnder, Ended
<1> QED BY <1>1, <1>2, <1>3, <1>4, <1>5 DEF Ending

LEMMA ControlStep == ControlInv /\ [ConsoleNext]_vars => ControlInv'
<1> SUFFICES ASSUME ControlInv, ConsoleNext \/ UNCHANGED vars PROVE ControlInv'
  OBVIOUS
<1>1. CASE Post \/ Reader
  BY <1>1 DEF Post, Reader, Press, SendKey, ReaderLeaves, endVars, ControlInv, OnceInv,
              TerminalInv, Inside
<1>2. CASE Forwarder
  <2>1. "forwarder" \in Goroutine
    BY DEF Goroutine
  <2> QED BY <1>2, <2>1, QuietMove DEF Forwarder, TakeEvent, Forward, Plain
<1>3. CASE Elapse
  BY <1>3, QuietMove DEF Elapse, Plain, Goroutine, Caller
<1>4. ASSUME NEW g \in Goroutine \ {"main"}, NoLongerNeeded(g) PROVE ControlInv'
  BY <1>4, QuietMove DEF NoLongerNeeded, Plain
<1>5. CASE UNCHANGED vars
  BY <1>5 DEF vars, endVars, ControlInv, OnceInv, TerminalInv, Inside
<1> QED BY <1>1, <1>2, <1>3, <1>4, <1>5, StartupKeeps, QuittingKeeps, SignalKeeps, LoopKeeps,
           EndingKeeps DEF ConsoleNext

(* done is closed once, no frame is drawn outside the alternate buffer and *)
(* the summary finds the terminal given back and the engine told to stop,  *)
(* whatever the channels' rooms, the log's size and the order in which the *)
(* signal, the timer and the keys ask to quit (runloop.go, 186-290).       *)
THEOREM LeavesTheTerminal ==
  ConsoleSpec => [](DoneClosedOnce /\ NoFrameOutside /\ LeavesCleanly)
<1>1. ControlInv => DoneClosedOnce /\ NoFrameOutside /\ LeavesCleanly
  BY DEF ControlInv, OnceInv, TerminalInv, Ended, DoneClosedOnce, NoFrameOutside, LeavesCleanly
<1> QED BY <1>1, ControlInit, ControlStep, PTL DEF ConsoleSpec

--------------------------------------------------------------------------
(* What the forwarder hands to the log is an entry.                        *)
EntryInv ==
  /\ posted \in Nat /\ events \in Seq(Entry)
  /\ pc["forwarder"] = "log" => hand[1] \in Entry

LEMMA EntryInit == ConsoleInit => EntryInv
  BY DEF ConsoleInit, EntryInv, Goroutine, Caller

(* Steps of the others move no event and do not set the forwarder to work. *)
LEMMA OthersKeep ==
  ASSUME ControlInv, EntryInv, ConsoleNext, ~ Post, ~ Forwarder
  PROVE  EntryInv'
<1>0. DOMAIN pc = Goroutine /\ "forwarder" \in Goroutine \ Caller
  BY DEF ControlInv, Goroutine, Caller
<1> SUFFICES /\ UNCHANGED <<posted, events, hand>>
             /\ pc'["forwarder"] \in {pc["forwarder"], "wait", "left"}
  BY DEF EntryInv
<1>a. ASSUME NEW c \in Caller, NEW from, NEW to, Go(c, from, to)
      PROVE  pc'["forwarder"] = pc["forwarder"]
  BY <1>0, <1>a DEF Go
<1>b. {"main", "signal", "timer"} = Caller
  BY DEF Caller
<1>1. CASE Startup
  BY <1>0, <1>1, <1>a, <1>b DEF Startup, Enter, EnableRawInput, Spawn, StartMining,
        FirstSnapshot, Say, uiVars
<1>2. CASE Reader
  BY <1>2 DEF Reader, Press, SendKey, ReaderLeaves
<1>3. CASE Signal
  BY <1>0, <1>3, <1>b DEF Signal, uiVars
<1>4. CASE OnSignal
  BY <1>4, <1>a, <1>b DEF OnSignal, TakeSignal, CloseOnSignal, RestoreOnSignal, uiVars
<1>5. CASE Elapse
  BY <1>5, <1>a, <1>b DEF Elapse, uiVars
<1>6. ASSUME NEW c \in Caller, Quitting(c)
      PROVE  UNCHANGED <<posted, events, hand>> /\ pc'["forwarder"] = pc["forwarder"]
  BY <1>6, <1>a DEF Quitting, Quit, QuitAlready, StopEngine, CloseDone, LogThenQuit, Say, uiVars
<1>7. ASSUME NEW g \in Goroutine \ {"main"}, NoLongerNeeded(g)
      PROVE  UNCHANGED <<posted, events, hand>>
             /\ pc'["forwarder"] \in {pc["forwarder"], "left"}
  BY <1>0, <1>7 DEF NoLongerNeeded, Go, uiVars
<1>8. CASE MainLoop
  <2>1. CASE TakeKey
    BY <1>0, <1>b, <2>1 DEF TakeKey
  <2>2. CASE LogQuit \/ SetRefresh \/ ReportRefresh \/ BeginFrame \/ Flush
    BY <1>a, <1>b, <2>2 DEF LogQuit, SetRefresh, ReportRefresh, BeginFrame, Flush, Say, uiVars
  <2>3. CASE TakeRefresh \/ Sample
    BY <2>3 DEF TakeRefresh, Sample, uiVars
  <2> QED BY <1>8, <2>1, <2>2, <2>3 DEF MainLoop
<1>9. CASE Ending
  BY <1>9, <1>a, <1>b DEF Ending, SeeDone, CloseAtEnd, RestoreAtEnd, Summary, Deferred, uiVars
<1> QED BY <1>1, <1>2, <1>3, <1>4, <1>5, <1>6, <1>7, <1>8, <1>9 DEF ConsoleNext

LEMMA EntryStep == ControlInv /\ EntryInv /\ [ConsoleNext]_vars => EntryInv'
<1> SUFFICES ASSUME ControlInv, EntryInv, ConsoleNext \/ UNCHANGED vars PROVE EntryInv'
  OBVIOUS
<1>0. DOMAIN pc = Goroutine /\ "forwarder" \in Goroutine
  BY DEF ControlInv, Goroutine
<1>1. CASE Post
  <2>1. posted' = posted + 1 /\ posted + 1 \in Entry /\ UNCHANGED <<pc, hand>>
        /\ events' = Sent(events, EventRoom, posted + 1)
    BY <1>1, ConsoleAssumption DEF Post, EntryInv
  <2>2. Append(events, posted + 1) \in Seq(Entry)
    BY <2>1 DEF EntryInv
  <2> QED BY <2>1, <2>2 DEF Sent, EntryInv
<1>2. CASE Forwarder
  <2>1. CASE TakeEvent
    <3>1. events # <<>> /\ hand' = <<Head(events)>> /\ events' = Tail(events) /\ posted' = posted
      BY <2>1 DEF TakeEvent
    <3>2. Head(events) \in Entry /\ Tail(events) \in Seq(Entry)
      BY <3>1 DEF EntryInv
    <3> QED BY <3>1, <3>2 DEF EntryInv
  <2>2. CASE Forward
    BY <1>0, <2>2 DEF Forward, Go, EntryInv
  <2> QED BY <1>2, <2>1, <2>2 DEF Forwarder
<1>3. CASE UNCHANGED vars
  BY <1>3 DEF vars, uiVars, EntryInv
<1> QED BY <1>1, <1>2, <1>3, OthersKeep

(* A step of the run loop is a step of the log, or leaves it alone.        *)
LEMMA ConsoleStepsLog ==
  ASSUME EntryInv, ConsoleNext
  PROVE  LogNext \/ UNCHANGED logVars
<1>0. Console \in Entry
  BY ConsoleAssumption
<1>1. ASSUME NEW c, NEW from, NEW to, Say(c, from, to)
      PROVE  LogNext
  BY <1>0, <1>1 DEF Say, LogNext
<1>2. CASE Startup
  BY <1>1, <1>2 DEF Startup, Enter, EnableRawInput, Spawn, StartMining, FirstSnapshot, LogNext
<1>3. CASE Post \/ Reader
  BY <1>3 DEF Post, Reader, Press, SendKey, ReaderLeaves
<1>4. CASE Forwarder
  BY <1>4 DEF Forwarder, TakeEvent, Forward, Go, EntryInv, LogNext
<1>5. CASE Signal \/ OnSignal \/ Elapse
  BY <1>5 DEF Signal, OnSignal, TakeSignal, CloseOnSignal, RestoreOnSignal, Elapse
<1>6. ASSUME NEW c \in Caller, Quitting(c)
      PROVE  LogNext \/ UNCHANGED logVars
  BY <1>1, <1>6 DEF Quitting, Quit, QuitAlready, StopEngine, CloseDone, LogThenQuit
<1>7. ASSUME NEW g \in Goroutine \ {"main"}, NoLongerNeeded(g)
      PROVE  UNCHANGED logVars
  BY <1>7 DEF NoLongerNeeded
<1>8. CASE MainLoop
  BY <1>1, <1>8 DEF MainLoop, TakeKey, LogQuit, SetRefresh, ReportRefresh, TakeRefresh,
        Sample, BeginFrame, Flush, LogNext
<1>9. CASE Ending
  BY <1>9 DEF Ending, SeeDone, CloseAtEnd, RestoreAtEnd, Summary, Deferred
<1> QED BY <1>2, <1>3, <1>4, <1>5, <1>6, <1>7, <1>8, <1>9 DEF ConsoleNext

(* Whatever the rest of the run loop does, its log and what the newest     *)
(* Snapshot shows of it are a bounded log and a value taken from it        *)
(* (runloop.go, 123-159 and 400-402).                                      *)
THEOREM ConsoleImplementsLog == ConsoleSpec => ImplementsEventLog
<1>1. ConsoleInit => ControlInv /\ EntryInv /\ LogInv /\ Log!Init
  BY ControlInit, EntryInit, LogInitInv, LogInitImplements DEF ConsoleInit
<1>2. LogInv /\ EntryInv /\ [ConsoleNext]_vars
        => LogInv' /\ [Log!Next]_<<Content(ring), Content(latest)>>
  <2> SUFFICES ASSUME LogInv, EntryInv, ConsoleNext \/ UNCHANGED vars
               PROVE  LogInv' /\ [Log!Next]_<<Content(ring), Content(latest)>>
    OBVIOUS
  <2>1. LogNext \/ UNCHANGED logVars
    BY ConsoleStepsLog DEF vars
  <2> QED BY <2>1, LogStepImplements
<1> QED BY <1>1, <1>2, ControlStep, EntryStep, PTL DEF ConsoleSpec, ImplementsEventLog, Log!Spec

--------------------------------------------------------------------------
(* The types of the run loop's own state, variable group by group: where   *)
(* the goroutines are, what the channels hold, what ending has done.       *)
PointInv == pc \in [Goroutine -> Point]

ChannelInv ==
  /\ hand \in Seq(Entry) /\ Len(hand) <= 1
  /\ reader \in {"off", "wait", "left"} \cup Key
  /\ typed \in 0 .. MaxKeys /\ posted \in 0 .. MaxPosts
  /\ events \in Seq(1 .. MaxPosts) /\ Len(events) <= EventRoom
  /\ keys \in Seq(Key) /\ Len(keys) <= KeyRoom
  /\ refreshReq \in 0 .. RefreshRoom /\ sigc \in 0 .. 1

EndInv ==
  /\ once \in {"fresh", "running", "over"} /\ closes \in Nat
  /\ {stopped, entered, raw, spoilt} \subseteq BOOLEAN

LEMMA Rooms ==
  {EventRoom, KeyRoom, RefreshRoom, MaxPosts, MaxKeys} \subseteq Nat /\ 1 .. MaxPosts \subseteq Entry
  BY ConsoleAssumption

LEMMA TypesInit == ConsoleInit => PointInv /\ ChannelInv /\ EndInv
<1> SUFFICES ASSUME ConsoleInit PROVE PointInv /\ ChannelInv /\ EndInv
  OBVIOUS
<1>1. PointInv
  BY DEF ConsoleInit, PointInv, Point
<1>2. ChannelInv
  BY Rooms DEF ConsoleInit, ChannelInv
<1>3. EndInv
  BY DEF ConsoleInit, EndInv
<1> QED BY <1>1, <1>2, <1>3

LEMMA PointStep == ASSUME PointInv, ConsoleNext PROVE PointInv'
<1>1. ASSUME NEW c \in Goroutine, NEW from, NEW to \in Point, Go(c, from, to)
      PROVE  PointInv'
  BY <1>1 DEF Go, PointInv
<1>2. Caller \subseteq Goroutine /\ {"main", "signal", "timer", "forwarder"} = Goroutine
  BY DEF Caller, Goroutine
<1>3. CASE Startup
  <2>1. CASE Spawn
    BY <2>1 DEF Spawn, PointInv, Point
  <2> QED BY <1>1, <1>2, <1>3, <2>1 DEF Startup, Enter, EnableRawInput, StartMining, FirstSnapshot,
        Say, Point
<1>4. CASE Post \/ Reader
  BY <1>4 DEF Post, Reader, Press, SendKey, ReaderLeaves, PointInv
<1>5. CASE Forwarder
  BY <1>1, <1>2, <1>5 DEF Forwarder, TakeEvent, Forward, Point
<1>6. CASE Signal
  BY <1>6 DEF Signal, PointInv, Point
<1>7. CASE OnSignal \/ Elapse
  BY <1>1, <1>2, <1>7 DEF OnSignal, TakeSignal, CloseOnSignal, RestoreOnSignal, Elapse, Point
<1>8. ASSUME NEW c \in Caller, Quitting(c) PROVE PointInv'
  <2>1. {"stop", "close", "quit", AfterQuit(c)} \subseteq Point
    BY DEF AfterQuit, Point
  <2> QED BY <1>1, <1>2, <1>8, <2>1 DEF Quitting, Quit, QuitAlready, StopEngine, CloseDone,
        LogThenQuit, Say
<1>9. ASSUME NEW g \in Goroutine \ {"main"}, NoLongerNeeded(g) PROVE PointInv'
  BY <1>1, <1>9 DEF NoLongerNeeded, Point
<1>10. CASE MainLoop
  <2>1. CASE TakeKey \/ TakeRefresh \/ Sample
    BY <2>1 DEF TakeKey, TakeRefresh, Sample, PointInv, Point
  <2> QED BY <1>1, <1>2, <1>10, <2>1 DEF MainLoop, LogQuit, SetRefresh, ReportRefresh, BeginFrame,
        Flush, Say, Point
<1>11. CASE Ending
  BY <1>1, <1>2, <1>11 DEF Ending, SeeDone, CloseAtEnd, RestoreAtEnd, Summary, Deferred, Point
<1> QED BY <1>3, <1>4, <1>5, <1>6, <1>7, <1>8, <1>9, <1>10, <1>11 DEF ConsoleNext

(* Only these steps touch a channel or what is read of the keyboard.       *)
OnChannel == \/ Spawn \/ Post \/ Forwarder \/ Reader \/ Signal \/ TakeSignal
             \/ TakeKey \/ SetRefresh \/ TakeRefresh

LEMMA OffTheChannels == ASSUME ConsoleNext, ~ OnChannel PROVE UNCHANGED uiVars
<1>1. CASE Startup
  BY <1>1 DEF OnChannel, Startup, Enter, EnableRawInput, StartMining, FirstSnapshot, Say
<1>2. CASE OnSignal \/ Elapse
  BY <1>2 DEF OnChannel, OnSignal, CloseOnSignal, RestoreOnSignal, Elapse
<1>3. ASSUME NEW c \in Caller, Quitting(c) PROVE UNCHANGED uiVars
  BY <1>3 DEF Quitting, Quit, QuitAlready, StopEngine, CloseDone, LogThenQuit, Say
<1>4. ASSUME NEW g \in Goroutine \ {"main"}, NoLongerNeeded(g) PROVE UNCHANGED uiVars
  BY <1>4 DEF NoLongerNeeded
<1>5. CASE MainLoop
  BY <1>5 DEF OnChannel, MainLoop, LogQuit, ReportRefresh, Sample, BeginFrame, Flush, Say
<1>6. CASE Ending
  BY <1>6 DEF Ending, SeeDone, CloseAtEnd, RestoreAtEnd, Summary, Deferred
<1> QED BY <1>1, <1>2, <1>3, <1>4, <1>5, <1>6 DEF ConsoleNext, OnChannel

(* A channel that is sent on keeps to its room, and so does one received   *)
(* from.                                                                   *)
LEMMA ChannelKept ==
  ASSUME NEW T, NEW channel \in Seq(T), NEW room \in Nat, Len(channel) <= room, NEW e \in T
  PROVE  /\ Sent(channel, room, e) \in Seq(T) /\ Len(Sent(channel, room, e)) <= room
         /\ channel # <<>> => /\ Head(channel) \in T
                              /\ Tail(channel) \in Seq(T) /\ Len(Tail(channel)) <= room
<1>1. Sent(channel, room, e) \in Seq(T) /\ Len(Sent(channel, room, e)) <= room
  BY DEF Sent, HasRoom
<1>2. ASSUME channel # <<>>
      PROVE  Head(channel) \in T /\ Tail(channel) \in Seq(T) /\ Len(Tail(channel)) <= room
  BY <1>2
<1> QED BY <1>1, <1>2

LEMMA ChannelStep ==
  ASSUME ChannelInv, EntryInv, ConsoleNext
  PROVE  ChannelInv'
<1>0. /\ EventRoom \in Nat /\ KeyRoom \in Nat /\ RefreshRoom \in Nat
      /\ MaxPosts \in Nat /\ MaxKeys \in Nat
  BY Rooms
<1>1. CASE Spawn
  BY <1>1 DEF Spawn, ChannelInv
<1>2. CASE Post
  <2>1. posted + 1 \in 1 .. MaxPosts /\ posted' = posted + 1 /\ posted' \in 0 .. MaxPosts
        /\ events' = Sent(events, EventRoom, posted + 1)
        /\ UNCHANGED <<hand, reader, typed, keys, refreshReq, sigc>>
    BY <1>0, <1>2 DEF Post, ChannelInv
  <2>2. events' \in Seq(1 .. MaxPosts) /\ Len(events') <= EventRoom
    BY <1>0, <2>1, ChannelKept DEF ChannelInv
  <2> QED BY <2>1, <2>2 DEF ChannelInv
<1>3. CASE TakeEvent
  <2>1. events # <<>> /\ hand' = <<Head(events)>> /\ events' = Tail(events)
        /\ UNCHANGED <<reader, typed, posted, keys, refreshReq, sigc>>
    BY <1>3 DEF TakeEvent
  <2>2. Head(events) \in 1 .. MaxPosts /\ events' \in Seq(1 .. MaxPosts) /\ Len(events') <= EventRoom
    BY <1>0, <2>1 DEF ChannelInv
  <2>3. hand' \in Seq(Entry) /\ Len(hand') <= 1
    BY <2>1, <2>2, Rooms
  <2> QED BY <2>1, <2>2, <2>3 DEF ChannelInv
<1>4. CASE Forward
  BY <1>4 DEF Forward, ChannelInv
<1>5. CASE Reader
  <2>1. ASSUME NEW k \in Key, Press(k) PROVE ChannelInv'
    BY <1>0, <2>1 DEF Press, ChannelInv
  <2>2. CASE SendKey
    <3>1. keys' = Append(keys, reader) /\ reader \in Key /\ Len(keys) < KeyRoom /\ reader' = "wait"
          /\ UNCHANGED <<hand, typed, posted, events, refreshReq, sigc>>
      BY <2>2 DEF SendKey, HasRoom
    <3>2. keys' \in Seq(Key) /\ Len(keys') <= KeyRoom
      BY <1>0, <3>1 DEF ChannelInv
    <3> QED BY <3>1, <3>2 DEF ChannelInv
  <2>3. CASE ReaderLeaves
    BY <2>3 DEF ReaderLeaves, ChannelInv
  <2> QED BY <1>5, <2>1, <2>2, <2>3 DEF Reader
<1>6. CASE Signal
  BY <1>6 DEF Signal, uiVars, ChannelInv
<1>7. CASE TakeSignal
  BY <1>7 DEF TakeSignal, ChannelInv
<1>8. CASE TakeKey
  <2>1. keys # <<>> /\ keys' = Tail(keys)
        /\ UNCHANGED <<hand, reader, typed, posted, events, refreshReq, sigc>>
    BY <1>8 DEF TakeKey
  <2>2. keys' \in Seq(Key) /\ Len(keys') <= KeyRoom
    BY <1>0, <2>1 DEF ChannelInv
  <2> QED BY <2>1, <2>2 DEF ChannelInv
<1>9. CASE SetRefresh \/ TakeRefresh
  BY <1>0, <1>9 DEF SetRefresh, TakeRefresh, ChannelInv
<1>10. CASE UNCHANGED uiVars
  BY <1>10 DEF uiVars, ChannelInv
<1> QED BY <1>1, <1>2, <1>3, <1>4, <1>5, <1>6, <1>7, <1>8, <1>9, <1>10, OffTheChannels
        DEF OnChannel, Forwarder

LEMMA EndStep == ASSUME EndInv, ConsoleNext PROVE EndInv'
<1>1. CASE UNCHANGED endVars
  BY <1>1 DEF endVars, EndInv
<1>2. CASE Startup
  BY <1>1, <1>2 DEF Startup, Enter, EnableRawInput, Spawn, StartMining, FirstSnapshot, Say,
        TerminalUnder, EndInv, endVars
<1>3. CASE Post \/ Forwarder \/ Reader \/ Signal \/ Elapse
  BY <1>1, <1>3 DEF Post, Forwarder, TakeEvent, Forward, Reader, Press, SendKey, ReaderLeaves,
        Signal, Elapse
<1>4. CASE OnSignal
  BY <1>1, <1>4 DEF OnSignal, TakeSignal, CloseOnSignal, RestoreOnSignal, TerminalUnder, EndInv
<1>5. ASSUME NEW c \in Caller, Quitting(c) PROVE EndInv'
  <2>1. CASE Quit(c)
    BY <2>1 DEF Quit, EndInv
  <2>2. CASE StopEngine(c)
    BY <2>2 DEF StopEngine, EndInv
  <2>3. CASE CloseDone(c)
    BY <2>3 DEF CloseDone, EndInv
  <2> QED BY <1>1, <1>5, <2>1, <2>2, <2>3 DEF Quitting, QuitAlready, LogThenQuit, Say
<1>6. ASSUME NEW g \in Goroutine \ {"main"}, NoLongerNeeded(g) PROVE EndInv'
  BY <1>1, <1>6 DEF NoLongerNeeded
<1>7. CASE MainLoop
  <2>1. CASE Flush
    <3>1. spoilt' \in BOOLEAN /\ UNCHANGED <<once, closes, stopped, entered, raw>>
      BY <2>1 DEF Flush
    <3> QED BY <3>1 DEF EndInv
  <2> QED BY <1>1, <1>7, <2>1 DEF MainLoop, TakeKey, LogQuit, SetRefresh, ReportRefresh,
        TakeRefresh, Sample, BeginFrame, Say
<1>8. CASE Ending
  BY <1>1, <1>8 DEF Ending, SeeDone, CloseAtEnd, RestoreAtEnd, Summary, Deferred, TerminalUnder,
        EndInv
<1> QED BY <1>2, <1>3, <1>4, <1>5, <1>6, <1>7, <1>8 DEF ConsoleNext

LoopInv == LogInv /\ ControlInv /\ EntryInv /\ PointInv /\ ChannelInv /\ EndInv

LEMMA LoopStep == LoopInv /\ [ConsoleNext]_vars => LoopInv'
<1> SUFFICES ASSUME LoopInv, ConsoleNext \/ UNCHANGED vars PROVE LoopInv'
  OBVIOUS
<1>1. ControlInv' /\ EntryInv'
  BY ControlStep, EntryStep DEF LoopInv
<1>2. LogInv'
  <2>1. LogNext \/ UNCHANGED logVars
    BY ConsoleStepsLog DEF LoopInv, vars
  <2> QED BY <2>1, LogStepImplements DEF LoopInv
<1>3. CASE ConsoleNext
  BY <1>1, <1>2, <1>3, PointStep, ChannelStep, EndStep DEF LoopInv
<1>4. CASE UNCHANGED vars
  <2>1. PointInv' /\ ChannelInv' /\ EndInv'
    BY <1>4 DEF vars, uiVars, endVars, LoopInv, PointInv, ChannelInv, EndInv
  <2> QED BY <1>1, <1>2, <2>1 DEF LoopInv
<1> QED BY <1>3, <1>4

(* However large the log and the channels, whoever quits and however many  *)
(* at once: every channel keeps to its room and the run loop's state to    *)
(* its types, done is closed once, and no frame is drawn outside the       *)
(* console (runloop.go, 162-290).                                          *)
THEOREM LoopEndsOnce == ConsoleSpec => []EndsOnce
<1>1. ConsoleInit => LoopInv
  BY ControlInit, EntryInit, LogInitInv, TypesInit DEF ConsoleInit, LoopInv
<1>2. LoopInv => EndsOnce
  BY DEF LoopInv, LogInv, ControlInv, OnceInv, TerminalInv, PointInv, ChannelInv, EndInv,
         EndsOnce, ConsoleTypeOK, DoneClosedOnce, NoFrameOutside
<1> QED BY <1>1, <1>2, LoopStep, PTL DEF ConsoleSpec
=============================================================================
