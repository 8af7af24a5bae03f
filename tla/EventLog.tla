--------------------------- MODULE EventLog ---------------------------
(***************************************************************************)
(* What the run loop promises of its log (cmd/derostorm/runloop.go,        *)
(* 123-134): a bounded log whose oldest entries go first, and readers who  *)
(* have a consistent view of it, the log as it was when they looked.       *)
(***************************************************************************)
EXTENDS Naturals, Sequences

CONSTANTS Entry, logRingSize, logRingKeep

VARIABLES
  log,    \* the entries held, oldest first
  seen    \* what the reader last looked at

Init == log = <<>> /\ seen = <<>>

Trimmed == IF Len(log) < logRingSize THEN log
           ELSE SubSeq(log, Len(log) - logRingKeep + 1, Len(log))

Add == /\ \E e \in Entry : log' = Append(Trimmed, e)
       /\ UNCHANGED seen

Look == seen' = log /\ UNCHANGED log

Next == Add \/ Look

Spec == Init /\ [][Next]_<<log, seen>>
=============================================================================
