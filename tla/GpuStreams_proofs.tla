------------------------ MODULE GpuStreams_proofs ------------------------
(***************************************************************************)
(* The streams, for any number of banks, slots, chunks and batches.  What  *)
(* a batch puts on the streams and where; what must be over before an      *)
(* operation begins, which all follows from the streams' own order and the *)
(* waits; the invariant of the ring, the streams and dsg_free that keeps   *)
(* the users of a buffer apart; then what is in memory, from which         *)
(* operations are over.                                                    *)
(***************************************************************************)
EXTENDS GpuStreams, GpuRing_proofs

-----------------------------------------------------------------------------
(* The operations of a batch by name.                                      *)
ShaTurn       == IF DSG_OVERLAP_SHA THEN 2 ELSE 1
Upload(n, s)  == Op(n, 0, 0, 0, "upload", s)
LeadReady(n)  == Record(n, 0, 1, 0, <<"drained", 0>>)
Follow(n, b)  == Wait(n, 0, b + 1, b, <<"drained", 0>>)
Stage1(n, c, b, s) == Op(n, c, 0, b, "stage1", s)
Clear(n, c, b, s)  == Op(n, c, 1, b, "clear", s)
Turn(n, c, b, o)   == Wait(n, c, o + 2, b, <<"sorted", o>>)
Sort(n, c, b, s)   == Op(n, c, AfterSort(0), b, "sort", s)
Sha(n, c, b, s)    == Op(n, c, AfterSort(ShaTurn), b, "sha", s)
Sorted(n, c, b)    == Record(n, c, AfterSort(3 - ShaTurn), b, <<"sorted", b>>)
Drained(n, b)  == Record(n, Chunks + 1, 2 * b, b, <<"drained", b>>)
Awaited(n, b)  == Wait(n, Chunks + 1, 2 * b + 1, 0, <<"drained", b>>)
Readback(n, s) == Op(n, Chunks + 1, 2 * DSG_BANKS, 0, "readback", s)
Done(n, s)     == Record(n, Chunks + 1, 2 * DSG_BANKS + 1, 0, <<"done", s>>)

InChunk(n, c, b, s) ==
  {Stage1(n, c, b, s), Clear(n, c, b, s), Sort(n, c, b, s), Sha(n, c, b, s), Sorted(n, c, b)}
    \cup {Turn(n, c, b, o) : o \in Bank \ {b}}

(* Whichever order the build has for the last two of a chunk.              *)
LEMMA ChunkIs ==
  ASSUME NEW n, NEW c, NEW b, NEW s
  PROVE  RunChunk(n, c, b, s) = InChunk(n, c, b, s)
<1>1. SortAndCheck(n, c, b, s) = {Sort(n, c, b, s), Sha(n, c, b, s), Sorted(n, c, b)}
  <2>1. CASE DSG_OVERLAP_SHA
    BY <2>1 DEF SortAndCheck, SortThenRelease, Sort, Sha, Sorted, ShaTurn
  <2>2. CASE ~ DSG_OVERLAP_SHA
    BY <2>2 DEF SortAndCheck, Sort, Sha, Sorted, ShaTurn
  <2> QED BY <2>1, <2>2
<1>2. SortOrder(n, c, b) = {Turn(n, c, b, o) : o \in Bank \ {b}}
  BY DEF SortOrder, Turn
<1> QED BY <1>1, <1>2, Zenon DEF RunChunk, InChunk, Stage1, Clear

Ends(n, s)      == {Upload(n, s), LeadReady(n), Readback(n, s), Done(n, s)}
Joins(n)        ==
  {Follow(n, b) : b \in Others} \cup {Drained(n, b) : b \in Others} \cup {Awaited(n, b) : b \in Others}
Work(n, s, first) == UNION {InChunk(n, c, BankOfChunk(first, c), s) : c \in 1 .. Chunks}

LEMMA BatchIs ==
  ASSUME NEW n, NEW s, NEW first
  PROVE  Enqueued(n, s, first) = Ends(n, s) \cup Joins(n) \cup Work(n, s, first)
<1>1. RunChunks(n, s, first) = Work(n, s, first)
  BY ChunkIs, Zenon DEF RunChunks, Work
<1> DEFINE f == {Follow(n, b) : b \in Others}
           d == {Drained(n, b) : b \in Others}
           a == {Awaited(n, b) : b \in Others}
<1>2. UploadOrder(n) = {LeadReady(n)} \cup f
  BY Zenon DEF UploadOrder, LeadReady, Follow
<1>3. DrainOrder(n) = d \cup a
  BY Zenon DEF DrainOrder, Drained, Awaited
<1>4. Enqueued(n, s, first) =
        {Upload(n, s)} \cup UploadOrder(n) \cup RunChunks(n, s, first)
          \cup DrainOrder(n) \cup {Readback(n, s), Done(n, s)}
  BY Zenon DEF Enqueued, Upload, Readback, Done
<1>5. Enqueued(n, s, first) =
        {Upload(n, s), LeadReady(n), Readback(n, s), Done(n, s)} \cup (f \cup d \cup a) \cup Work(n, s, first)
  <2> HIDE DEF f, d, a
  <2> QED BY <1>1, <1>2, <1>3, <1>4
<1> QED BY <1>5, Zenon DEF Ends, Joins

(* Where the operations of a batch may stand.                              *)
AtFront(x, n, s) == x = Upload(n, s) \/ x = LeadReady(n) \/ \E b \in Others : x = Follow(n, b)
InTheMiddle(x, n, s, first) ==
  /\ x.c \in 1 .. Chunks /\ x.st = BankOfChunk(first, x.c)
  /\ \/ x = Stage1(n, x.c, x.st, s) \/ x = Clear(n, x.c, x.st, s) \/ x = Sort(n, x.c, x.st, s)
     \/ x = Sha(n, x.c, x.st, s) \/ x = Sorted(n, x.c, x.st)
     \/ \E o \in Bank \ {x.st} : x = Turn(n, x.c, x.st, o)
AtEnd(x, n, s) ==
  \/ \E b \in Others : x = Drained(n, b) \/ x = Awaited(n, b)
  \/ x = Readback(n, s) \/ x = Done(n, s)

LEMMA BankIsBank == ASSUME NEW first \in Bank, NEW c \in 1 .. Chunks PROVE BankOfChunk(first, c) \in Bank
<1>1. first + c - 1 \in Int /\ DSG_BANKS \in Nat /\ DSG_BANKS > 0
  BY StreamsAssumption DEF Bank
<1>2. (first + c - 1) % DSG_BANKS \in 0 .. DSG_BANKS - 1
  BY <1>1
<1> QED BY <1>2 DEF BankOfChunk, Bank

At(x, n, c, i, st, kind) == x.n = n /\ x.c = c /\ x.i = i /\ x.st = st /\ x.kind = kind

(* Where each stands, what it is for and the event it is about.            *)
LEMMA SlotFields ==
  ASSUME NEW n, NEW s
  PROVE  /\ At(Upload(n, s), n, 0, 0, 0, "upload") /\ Upload(n, s).s = s
         /\ At(Readback(n, s), n, Chunks + 1, 2 * DSG_BANKS, 0, "readback") /\ Readback(n, s).s = s
         /\ At(Done(n, s), n, Chunks + 1, 2 * DSG_BANKS + 1, 0, "record") /\ Done(n, s).ev = <<"done", s>>
  BY DEF At, Done, Readback, Upload, Op, Record, Sync

LEMMA LeadFields ==
  ASSUME NEW n
  PROVE  /\ At(LeadReady(n), n, 0, 1, 0, "record") /\ LeadReady(n).ev = <<"drained", 0>>
  BY DEF At, LeadReady, Record, Sync

LEMMA BankFields ==
  ASSUME NEW n, NEW b
  PROVE  /\ At(Follow(n, b), n, 0, b + 1, b, "wait") /\ Follow(n, b).ev = <<"drained", 0>>
         /\ At(Drained(n, b), n, Chunks + 1, 2 * b, b, "record") /\ Drained(n, b).ev = <<"drained", b>>
         /\ At(Awaited(n, b), n, Chunks + 1, 2 * b + 1, 0, "wait") /\ Awaited(n, b).ev = <<"drained", b>>
  BY DEF At, Awaited, Drained, Follow, Record, Sync, Wait

LEMMA ChunkFields ==
  ASSUME NEW n, NEW c, NEW b, NEW s
  PROVE  /\ At(Stage1(n, c, b, s), n, c, 0, b, "stage1") /\ Stage1(n, c, b, s).s = s
         /\ At(Clear(n, c, b, s), n, c, 1, b, "clear") /\ Clear(n, c, b, s).s = s
         /\ At(Sort(n, c, b, s), n, c, AfterSort(0), b, "sort") /\ Sort(n, c, b, s).s = s
         /\ At(Sha(n, c, b, s), n, c, AfterSort(ShaTurn), b, "sha") /\ Sha(n, c, b, s).s = s
  BY DEF At, Clear, Sha, Sort, Stage1, Op

LEMMA SortedFields ==
  ASSUME NEW n, NEW c, NEW b
  PROVE  /\ At(Sorted(n, c, b), n, c, AfterSort(3 - ShaTurn), b, "record") /\ Sorted(n, c, b).ev = <<"sorted", b>>
  BY DEF At, Sorted, Record, Sync

LEMMA TurnFields ==
  ASSUME NEW n, NEW c, NEW b, NEW o
  PROVE  /\ At(Turn(n, c, b, o), n, c, o + 2, b, "wait") /\ Turn(n, c, b, o).ev = <<"sorted", o>>
  BY DEF At, Turn, Sync, Wait

(* An operation of a batch is one of these, and each of these is one of    *)
(* the batch.                                                              *)
LEMMA BatchShape ==
  ASSUME NEW n, NEW s, NEW first \in Bank, NEW x \in Enqueued(n, s, first)
  PROVE  AtFront(x, n, s) \/ InTheMiddle(x, n, s, first) \/ AtEnd(x, n, s)
<1>1. x \in Ends(n, s) \/ x \in Joins(n) \/ x \in Work(n, s, first)
  BY BatchIs, Zenon
<1>2. CASE x \in Ends(n, s)
  BY <1>2, Zenon DEF Ends, AtFront, AtEnd
<1>3. ASSUME NEW b \in Others, x = Follow(n, b) \/ x = Drained(n, b) \/ x = Awaited(n, b)
      PROVE  AtFront(x, n, s) \/ AtEnd(x, n, s)
  BY <1>3, Zenon DEF AtFront, AtEnd
<1>4. ASSUME NEW c \in 1 .. Chunks, x \in InChunk(n, c, BankOfChunk(first, c), s) PROVE InTheMiddle(x, n, s, first)
  <2> DEFINE b == BankOfChunk(first, c)
  <2>2. \/ x = Stage1(n, c, b, s) \/ x = Clear(n, c, b, s) \/ x = Sort(n, c, b, s)
        \/ x = Sha(n, c, b, s) \/ x = Sorted(n, c, b)
        \/ \E o \in Bank \ {b} : x = Turn(n, c, b, o)
    BY <1>4, Zenon DEF InChunk
  <2> HIDE DEF b
  <2>1. x.c = c /\ x.st = b
    BY <2>2, ChunkFields, SortedFields, TurnFields DEF At
  <2> QED BY <2>1, <2>2, Zenon DEF InTheMiddle, b
<1>5. CASE x \in Joins(n)
  BY <1>3, <1>5, Zenon DEF Joins
<1>6. CASE x \in Work(n, s, first)
  BY <1>4, <1>6, Zenon DEF Work
<1> QED BY <1>1, <1>2, <1>5, <1>6, Zenon

LEMMA BatchHas ==
  ASSUME NEW n, NEW s, NEW first
  PROVE  /\ Ends(n, s) \subseteq Enqueued(n, s, first)
         /\ \A b \in Others : {Follow(n, b), Drained(n, b), Awaited(n, b)} \subseteq Enqueued(n, s, first)
         /\ \A c \in 1 .. Chunks : InChunk(n, c, BankOfChunk(first, c), s) \subseteq Enqueued(n, s, first)
<1>1. /\ Ends(n, s) \subseteq Enqueued(n, s, first) /\ Joins(n) \subseteq Enqueued(n, s, first)
      /\ Work(n, s, first) \subseteq Enqueued(n, s, first)
  BY BatchIs
<1>2. \A b \in Others : Follow(n, b) \in Joins(n) /\ Drained(n, b) \in Joins(n) /\ Awaited(n, b) \in Joins(n)
  BY Zenon DEF Joins
<1>3. \A c \in 1 .. Chunks : InChunk(n, c, BankOfChunk(first, c), s) \subseteq Work(n, s, first)
  BY Zenon DEF Work
<1> QED BY <1>1, <1>2, <1>3

LEMMA ChunkHas ==
  ASSUME NEW n, NEW c, NEW b, NEW s
  PROVE  /\ Stage1(n, c, b, s) \in InChunk(n, c, b, s) /\ Clear(n, c, b, s) \in InChunk(n, c, b, s)
         /\ Sort(n, c, b, s) \in InChunk(n, c, b, s) /\ Sha(n, c, b, s) \in InChunk(n, c, b, s)
         /\ Sorted(n, c, b) \in InChunk(n, c, b, s)
         /\ \A o \in Bank \ {b} : Turn(n, c, b, o) \in InChunk(n, c, b, s)
  BY Zenon DEF InChunk

(* An operation of the front, of the middle and of the end, by its fields. *)
LEMMA FrontIs ==
  ASSUME NEW n, NEW s, NEW x, AtFront(x, n, s)
  PROVE  /\ x.n = n /\ x.c = 0 /\ x.st \in Bank
         /\ \/ x.kind = "upload" /\ x.i = 0 /\ x.st = 0 /\ x.s = s
            \/ x.kind = "record" /\ x.i = 1 /\ x.st = 0
            \/ x.kind = "wait" /\ x.i = x.st + 1 /\ x.st \in Others
<1>1. Others \subseteq Bank /\ 0 \in Bank
  BY StreamsAssumption DEF Others, Bank
<1>2. CASE x = Upload(n, s)
  BY <1>1, <1>2, SlotFields DEF At
<1>3. CASE x = LeadReady(n)
  BY <1>1, <1>3, LeadFields DEF At
<1>4. CASE \E b \in Others : x = Follow(n, b)
  BY <1>1, <1>4, BankFields DEF At
<1> QED BY <1>2, <1>3, <1>4 DEF AtFront

LEMMA MiddleIs ==
  ASSUME NEW n, NEW s, NEW first \in Bank, NEW x, InTheMiddle(x, n, s, first)
  PROVE  /\ x.n = n /\ x.c \in 1 .. Chunks /\ x.st \in Bank /\ x.i \in Nat
         /\ \/ x.kind = "stage1" /\ x.i = 0 /\ x.s = s
            \/ x.kind = "clear" /\ x.i = 1 /\ x.s = s
            \/ x.kind = "sort" /\ x.i = DSG_BANKS + 2 /\ x.s = s
            \/ x.kind = "sha" /\ x.i = DSG_BANKS + 2 + ShaTurn /\ x.s = s
            \/ x.kind = "record" /\ x.i = DSG_BANKS + 5 - ShaTurn
            \/ x.kind = "wait" /\ x.i < DSG_BANKS + 2 /\ x.i > 1
<1>1. x.st \in Bank /\ x.c \in 1 .. Chunks /\ DSG_BANKS \in Nat /\ ShaTurn \in {1, 2}
  BY BankIsBank, StreamsAssumption DEF InTheMiddle, ShaTurn
<1>2. ASSUME NEW o \in Bank, At(x, n, x.c, o + 2, x.st, "wait")
      PROVE  x.n = n /\ x.kind = "wait" /\ x.i \in Nat /\ x.i < DSG_BANKS + 2 /\ x.i > 1
  BY <1>1, <1>2 DEF Bank, At
<1>3. \/ At(x, n, x.c, 0, x.st, "stage1") /\ x.s = s
      \/ At(x, n, x.c, 1, x.st, "clear") /\ x.s = s
      \/ At(x, n, x.c, AfterSort(0), x.st, "sort") /\ x.s = s
      \/ At(x, n, x.c, AfterSort(ShaTurn), x.st, "sha") /\ x.s = s
      \/ At(x, n, x.c, AfterSort(3 - ShaTurn), x.st, "record")
      \/ \E o \in Bank : At(x, n, x.c, o + 2, x.st, "wait")
  <2>1. \/ x = Stage1(n, x.c, x.st, s) \/ x = Clear(n, x.c, x.st, s) \/ x = Sort(n, x.c, x.st, s)
        \/ x = Sha(n, x.c, x.st, s) \/ x = Sorted(n, x.c, x.st)
        \/ \E o \in Bank : x = Turn(n, x.c, x.st, o)
    BY DEF InTheMiddle
  <2>2. ASSUME NEW c, NEW b, x.c = c, x.st = b,
               \/ x = Stage1(n, c, b, s) \/ x = Clear(n, c, b, s) \/ x = Sort(n, c, b, s)
               \/ x = Sha(n, c, b, s) \/ x = Sorted(n, c, b)
               \/ \E o \in Bank : x = Turn(n, c, b, o)
        PROVE  \/ At(x, n, c, 0, b, "stage1") /\ x.s = s
               \/ At(x, n, c, 1, b, "clear") /\ x.s = s
               \/ At(x, n, c, AfterSort(0), b, "sort") /\ x.s = s
               \/ At(x, n, c, AfterSort(ShaTurn), b, "sha") /\ x.s = s
               \/ At(x, n, c, AfterSort(3 - ShaTurn), b, "record")
               \/ \E o \in Bank : At(x, n, c, o + 2, b, "wait")
    BY <2>2, ChunkFields, SortedFields, TurnFields
  <2> QED BY <2>1, <2>2, Zenon
<1>4. CASE \E o \in Bank : At(x, n, x.c, o + 2, x.st, "wait")
  BY <1>1, <1>2, <1>4
<1> QED BY <1>1, <1>3, <1>4 DEF At, AfterSort

LEMMA EndIs ==
  ASSUME NEW n, NEW s, NEW x, AtEnd(x, n, s)
  PROVE  /\ x.n = n /\ x.c = Chunks + 1 /\ x.st \in Bank /\ x.i \in Nat
         /\ \/ x.kind = "record" /\ x.i = 2 * x.st /\ x.st \in Others
            \/ x.kind = "wait" /\ x.st = 0 /\ x.i < 2 * DSG_BANKS
            \/ x.kind = "readback" /\ x.st = 0 /\ x.i = 2 * DSG_BANKS /\ x.s = s
            \/ x.kind = "record" /\ x.st = 0 /\ x.i = 2 * DSG_BANKS + 1
<1>1. DSG_BANKS \in Nat \ {0} /\ 0 \in Bank /\ Others \subseteq Bank /\ Bank \subseteq Nat
  BY StreamsAssumption DEF Bank, Others
<1>2. ASSUME NEW b \in Others, x = Drained(n, b)
      PROVE  x.n = n /\ x.c = Chunks + 1 /\ x.st = b /\ x.i = 2 * b /\ x.i \in Nat /\ x.kind = "record"
  BY <1>1, <1>2, BankFields DEF At
<1>3. ASSUME NEW b \in Others, x = Awaited(n, b)
      PROVE  x.n = n /\ x.c = Chunks + 1 /\ x.st = 0 /\ x.i \in Nat /\ x.kind = "wait" /\ x.i < 2 * DSG_BANKS
  <2>1. At(x, n, Chunks + 1, 2 * b + 1, 0, "wait")
    BY <1>3, BankFields, Zenon
  <2> QED BY <1>1, <2>1 DEF Others, Bank, At
<1>4. CASE x = Readback(n, s)
  BY <1>1, <1>4, SlotFields DEF At
<1>5. CASE x = Done(n, s)
  BY <1>1, <1>5, SlotFields DEF At
<1> QED BY <1>1, <1>2, <1>3, <1>4, <1>5 DEF AtEnd

(* Within a batch a place is taken once, and a chunk has one stream.       *)
LEMMA OnePlace ==
  ASSUME NEW n, NEW s, NEW first \in Bank, NEW x \in Enqueued(n, s, first), NEW y \in Enqueued(n, s, first),
         x.c = y.c, x.i = y.i
  PROVE  x = y
<1>1. DSG_BANKS \in Nat \ {0} /\ Chunks \in Nat \ {0} /\ Others \subseteq Bank /\ Bank \subseteq Nat
      /\ \A b \in Others : b > 0 /\ b < DSG_BANKS
  BY StreamsAssumption DEF Bank, Others
<1>2. ASSUME AtFront(x, n, s), AtFront(y, n, s) PROVE x = y
  BY <1>1, <1>2, SlotFields, LeadFields, BankFields DEF AtFront, At
<1>3. ASSUME InTheMiddle(x, n, s, first), InTheMiddle(y, n, s, first) PROVE x = y
  <2> DEFINE c == x.c
             b == BankOfChunk(first, c)
  <2>1. x.c = c /\ x.st = b /\ y.c = c /\ y.st = b
    BY <1>3 DEF InTheMiddle
  <2>2. x.i = y.i
    OBVIOUS
  <2>3. ShaTurn \in {1, 2}
    BY DEF ShaTurn
  <2>4. /\ \/ x = Stage1(n, c, b, s) \/ x = Clear(n, c, b, s) \/ x = Sort(n, c, b, s)
           \/ x = Sha(n, c, b, s) \/ x = Sorted(n, c, b)
           \/ \E o \in Bank : x = Turn(n, c, b, o)
        /\ \/ y = Stage1(n, c, b, s) \/ y = Clear(n, c, b, s) \/ y = Sort(n, c, b, s)
           \/ y = Sha(n, c, b, s) \/ y = Sorted(n, c, b)
           \/ \E o \in Bank : y = Turn(n, c, b, o)
    BY <1>3, <2>1 DEF InTheMiddle
  <2> HIDE DEF c, b
  <2>5. /\ Stage1(n, c, b, s).i = 0 /\ Clear(n, c, b, s).i = 1 /\ Sort(n, c, b, s).i = DSG_BANKS + 2
        /\ Sha(n, c, b, s).i = DSG_BANKS + 2 + ShaTurn /\ Sorted(n, c, b).i = DSG_BANKS + 5 - ShaTurn
    BY <1>1, <2>3, ChunkFields, SortedFields DEF At, AfterSort
  <2>6. \A o \in Bank : Turn(n, c, b, o).i = o + 2 /\ o \in Nat /\ o < DSG_BANKS
    BY <1>1, TurnFields DEF At, Bank
  <2> QED BY <1>1, <2>2, <2>3, <2>4, <2>5, <2>6
<1>4. ASSUME AtEnd(x, n, s), AtEnd(y, n, s) PROVE x = y
  <2>1. Readback(n, s).i = 2 * DSG_BANKS /\ Done(n, s).i = 2 * DSG_BANKS + 1
    BY SlotFields DEF At
  <2>2. \A b \in Others : Drained(n, b).i = 2 * b /\ Awaited(n, b).i = 2 * b + 1
    BY BankFields DEF At
  <2> QED BY <1>1, <1>4, <2>1, <2>2 DEF AtEnd
<1>5. /\ AtFront(x, n, s) \/ InTheMiddle(x, n, s, first) \/ AtEnd(x, n, s)
      /\ AtFront(y, n, s) \/ InTheMiddle(y, n, s, first) \/ AtEnd(y, n, s)
  BY BatchShape
<1>6. /\ AtFront(x, n, s) => x.c = 0
      /\ InTheMiddle(x, n, s, first) => x.c \in 1 .. Chunks
      /\ AtEnd(x, n, s) => x.c = Chunks + 1
  BY FrontIs, MiddleIs, EndIs
<1>7. /\ AtFront(y, n, s) => y.c = 0
      /\ InTheMiddle(y, n, s, first) => y.c \in 1 .. Chunks
      /\ AtEnd(y, n, s) => y.c = Chunks + 1
  BY FrontIs, MiddleIs, EndIs
<1>8. x.c = y.c
  OBVIOUS
<1> QED BY <1>1, <1>2, <1>3, <1>4, <1>5, <1>6, <1>7, <1>8

(* What a place says of the operation there.                               *)
Placed(x) ==
  /\ x.n \in Nat /\ x.c \in 0 .. Chunks + 1 /\ x.i \in Nat /\ x.st \in Bank
  /\ x.kind \in {"record", "wait", "upload", "stage1", "clear", "sort", "sha", "readback"}
  /\ x.kind = "upload" => x.c = 0 /\ x.i = 0 /\ x.st = 0
  /\ x.kind \in {"stage1", "clear", "sort", "sha"} => x.c \in 1 .. Chunks
  /\ x.kind = "stage1" => x.i = 0
  /\ x.kind = "clear" => x.i = 1
  /\ x.kind = "sort" => x.i = DSG_BANKS + 2
  /\ x.kind = "sha" => x.i = DSG_BANKS + 2 + ShaTurn
  /\ x.kind = "readback" => x.c = Chunks + 1 /\ x.i = 2 * DSG_BANKS /\ x.st = 0
  /\ x.c = Chunks + 1 => x.i <= 2 * DSG_BANKS + 1
  /\ x.c = Chunks + 1 /\ x.st # 0 => x.i = 2 * x.st

(* Every operation of a batch is where Placed says, for the slot of the    *)
(* batch and in the bank of its chunk.                                     *)
LEMMA BatchPlaced ==
  ASSUME NEW n \in Nat, NEW s, NEW first \in Bank, NEW x \in Enqueued(n, s, first)
  PROVE  /\ Placed(x) /\ x.n = n
         /\ ~ IsSync(x) => x.s = s
         /\ x.c \in 1 .. Chunks => x.st = BankOfChunk(first, x.c)
<1>1. DSG_BANKS \in Nat \ {0} /\ Chunks \in Nat \ {0} /\ Others \subseteq Bank /\ Bank \subseteq Nat
      /\ \A b \in Others : b > 0 /\ b < DSG_BANKS
  BY StreamsAssumption DEF Bank, Others
<1>2. CASE AtFront(x, n, s)
  <2>1. /\ x.n = n /\ x.c = 0 /\ x.st \in Bank
        /\ \/ x.kind = "upload" /\ x.i = 0 /\ x.st = 0 /\ x.s = s
           \/ x.kind = "record" /\ x.i = 1 /\ x.st = 0
           \/ x.kind = "wait" /\ x.i = x.st + 1 /\ x.st \in Others
    BY <1>2, FrontIs
  <2>2. x.i \in Nat
    <3>1. \A b \in Bank : b + 1 \in Nat
      BY <1>1
    <3>2. x.i \in {0, 1, x.st + 1}
      BY <2>1
    <3> QED BY <2>1, <3>1, <3>2
  <2>3. ~ (0 \in 1 .. Chunks) /\ 0 \in 0 .. Chunks + 1 /\ 0 # Chunks + 1
    BY <1>1
  <2> QED BY <2>1, <2>2, <2>3 DEF Placed, IsSync
<1>3. CASE InTheMiddle(x, n, s, first)
  <2>1. x.st = BankOfChunk(first, x.c)
    BY <1>3 DEF InTheMiddle
  <2> QED BY <1>1, <1>3, <2>1, MiddleIs DEF Placed, IsSync
<1>4. CASE AtEnd(x, n, s)
  <2>1. /\ x.n = n /\ x.c = Chunks + 1 /\ x.st \in Bank /\ x.i \in Nat
        /\ \/ x.kind = "record" /\ x.i = 2 * x.st /\ x.st \in Others
           \/ x.kind = "wait" /\ x.st = 0 /\ x.i < 2 * DSG_BANKS
           \/ x.kind = "readback" /\ x.st = 0 /\ x.i = 2 * DSG_BANKS /\ x.s = s
           \/ x.kind = "record" /\ x.st = 0 /\ x.i = 2 * DSG_BANKS + 1
    BY <1>4, EndIs
  <2>2. x.c \notin 1 .. Chunks /\ x.c \in 0 .. Chunks + 1 /\ x.c # 0
    BY <1>1, <2>1
  <2>3. x.i <= 2 * DSG_BANKS + 1
    <3>1. \A b \in Others : 2 * b <= 2 * DSG_BANKS + 1
      BY <1>1
    <3>2. x.i < 2 * DSG_BANKS \/ x.i = 2 * DSG_BANKS \/ x.i = 2 * DSG_BANKS + 1 \/ (x.i = 2 * x.st /\ x.st \in Others)
      BY <2>1
    <3>3. x.i \in Nat
      BY <2>1
    <3>4. CASE x.i = 2 * x.st /\ x.st \in Others
      BY <3>1, <3>4, Zenon
    <3>5. CASE x.i < 2 * DSG_BANKS \/ x.i = 2 * DSG_BANKS \/ x.i = 2 * DSG_BANKS + 1
      BY <1>1, <3>3, <3>5
    <3> QED BY <3>2, <3>4, <3>5
  <2> QED BY <2>1, <2>2, <2>3 DEF Placed, IsSync
<1> QED BY <1>2, <1>3, <1>4, BatchShape

-----------------------------------------------------------------------------
(* The batches that were launched, and those already collected: a batch    *)
(* whose submit failed is neither.                                         *)
Full  == IF failed THEN batches - 1 ELSE batches
Gone  == Full - inflight
Begun == finished \cup running

(* Batch n was enqueued in the order of the calls, all of it if it was     *)
(* launched, but for launches that failed if it was not; for the slot that *)
(* the ring has it in.                                                     *)
InSlot(n, s) ==
  /\ \A i \in 1 .. inflight : n = Gone + i => s = Position(i)
  /\ n > Full => s = head
IsPlan(n, s, first) ==
  /\ \A x \in enqueued : x.n = n => x \in Enqueued(n, s, first)
  /\ n <= Full => Enqueued(n, s, first) \subseteq enqueued
  /\ \A y \in enqueued, x \in Enqueued(n, s, first) :
       y.n = n /\ Earlier(x, y) /\ x.kind \notin Launched => x \in enqueued
  /\ InSlot(n, s)
Planned ==
  /\ \A x \in enqueued : x.n \in 1 .. batches
  /\ \A n \in 1 .. batches : \E s \in SlotNo, first \in Bank : IsPlan(n, s, first)

(* The card began nothing before what it had to wait for.                  *)
Closed == \A y \in Begun, x \in enqueued : Before(x, y) => x \in finished

Ordered == StreamsTypeOK /\ Planned /\ Closed

(* An operation on the streams is one of its batch's plan.                 *)
LEMMA PlanOf ==
  ASSUME Ordered, NEW x \in enqueued
  PROVE  /\ x.n \in 1 .. batches /\ x.n \in Nat
         /\ \E s \in SlotNo, first \in Bank : IsPlan(x.n, s, first) /\ x \in Enqueued(x.n, s, first)
  BY DEF Ordered, Planned, IsPlan, StreamsTypeOK

LEMMA EnqueuedPlaced ==
  ASSUME Ordered, NEW x \in enqueued
  PROVE  Placed(x) /\ (~ IsSync(x) => x.s \in SlotNo)
<1>1. PICK s \in SlotNo, first \in Bank : x \in Enqueued(x.n, s, first)
  BY PlanOf
<1> QED BY <1>1, PlanOf, BatchPlaced

(* One operation at a place, one stream for a chunk, one slot for a batch. *)
LEMMA SameBatch ==
  ASSUME Ordered, NEW x \in enqueued, NEW y \in enqueued, x.n = y.n
  PROVE  /\ x.c = y.c /\ x.i = y.i => x = y
         /\ x.c = y.c /\ x.c \in 1 .. Chunks => x.st = y.st
         /\ ~ IsSync(x) /\ ~ IsSync(y) => x.s = y.s
<1>1. PICK s \in SlotNo, first \in Bank : IsPlan(x.n, s, first)
  BY PlanOf
<1>2. x.n \in Nat /\ x \in Enqueued(x.n, s, first) /\ y \in Enqueued(x.n, s, first)
  BY <1>1, PlanOf DEF IsPlan
<1>3. x.c = y.c /\ x.i = y.i => x = y
  BY <1>2, OnePlace
<1>4. /\ ~ IsSync(x) => x.s = s
      /\ x.c \in 1 .. Chunks => x.st = BankOfChunk(first, x.c)
  BY <1>2, BatchPlaced
<1>5. /\ ~ IsSync(y) => y.s = s
      /\ y.c \in 1 .. Chunks => y.st = BankOfChunk(first, y.c)
  BY <1>2, BatchPlaced
<1> QED BY <1>3, <1>4, <1>5

LEMMA OneOrder ==
  ASSUME Ordered, NEW x \in enqueued, NEW y \in enqueued, x # y
  PROVE  Earlier(x, y) \/ Earlier(y, x)
<1>1. x.n \in Nat /\ y.n \in Nat /\ x.c \in Int /\ y.c \in Int /\ x.i \in Int /\ y.i \in Int
  BY EnqueuedPlaced, StreamsAssumption DEF Placed
<1>2. ~ (x.n = y.n /\ x.c = y.c /\ x.i = y.i)
  BY SameBatch
<1> QED BY <1>1, <1>2 DEF Earlier

-----------------------------------------------------------------------------
(* What is over when an operation begins.                                  *)
LEMMA StreamFirst ==
  ASSUME Ordered, NEW y \in Begun, NEW x \in enqueued, Earlier(x, y), x.st = y.st
  PROVE  x \in finished
  BY DEF Ordered, Closed, Before

LEMMA RecordFirst ==
  ASSUME Ordered, NEW y \in Begun, NEW x \in enqueued, Earlier(x, y),
         y.kind = "wait", x.kind = "record", x.ev = y.ev
  PROVE  x \in finished
  BY DEF Ordered, Closed, Before

(* What began was enqueued, and what is over began.                        *)
LEMMA BegunIsEnqueued ==
  ASSUME Ordered
  PROVE  Begun \subseteq enqueued /\ finished \subseteq Begun
  BY DEF Ordered, StreamsTypeOK, Begun, Pending

(* The lead stream is through with everything before a batch, and with the *)
(* batch's upload, before any bank begins on it.                           *)
LEMMA LeadFirst ==
  ASSUME Ordered, NEW y \in Begun, y.c # 0 \/ y.st = 0, NEW x \in enqueued, x.st = 0,
         x.n < y.n \/ (x.n = y.n /\ x.c = 0 /\ x.i = 0 /\ y.c # 0)
  PROVE  x \in finished
<1>0. y \in enqueued /\ Placed(y) /\ Placed(x) /\ finished \subseteq Begun
  BY BegunIsEnqueued, EnqueuedPlaced
<1>1. Earlier(x, y)
  BY <1>0, StreamsAssumption DEF Placed, Earlier
<1>2. CASE y.st = 0
  BY <1>1, <1>2, StreamFirst
<1>3. CASE y.st # 0
  <2> DEFINE n == y.n
             b == y.st
  <2>1. PICK s \in SlotNo, first \in Bank : IsPlan(n, s, first)
    BY <1>0, PlanOf
  <2>2. b \in Others
    BY <1>0, <1>3 DEF Placed, Others
  <2>3. Follow(n, b) \in Enqueued(n, s, first) /\ LeadReady(n) \in Enqueued(n, s, first)
    BY <2>2, BatchHas DEF Ends
  <2>4. /\ At(Follow(n, b), n, 0, b + 1, b, "wait") /\ Follow(n, b).ev = <<"drained", 0>>
        /\ At(LeadReady(n), n, 0, 1, 0, "record") /\ LeadReady(n).ev = <<"drained", 0>>
    BY BankFields, LeadFields
  <2>5. y.n = n /\ y.c \in Nat /\ y.c # 0 /\ y.st = b /\ b \in Nat /\ b > 0
    BY <1>0, <1>3, <2>2, StreamsAssumption DEF Placed, Others, Bank
  <2> HIDE DEF n, b
  <2>6. Earlier(Follow(n, b), y) /\ Earlier(LeadReady(n), y) /\ Earlier(LeadReady(n), Follow(n, b))
    BY <2>4, <2>5 DEF At, Earlier
  <2>7. Follow(n, b) \in enqueued /\ LeadReady(n) \in enqueued
    BY <1>0, <2>1, <2>3, <2>4, <2>5, <2>6 DEF IsPlan, At, Launched
  <2>8. Follow(n, b) \in finished
    BY <2>4, <2>5, <2>6, <2>7, StreamFirst DEF At
  <2>9. LeadReady(n) \in finished
    BY <1>0, <2>4, <2>6, <2>7, <2>8, RecordFirst DEF At
  <2>10. Earlier(x, LeadReady(n))
    BY <1>0, <2>4, <2>5 DEF Placed, At, Earlier
  <2> QED BY <1>0, <2>4, <2>7, <2>9, <2>10, StreamFirst DEF At
<1> QED BY <1>2, <1>3

(* The readback waits for every bank.                                      *)
LEMMA BanksFirst ==
  ASSUME Ordered, NEW y \in Begun, y.st = 0, y.c = Chunks + 1, y.i >= 2 * DSG_BANKS,
         NEW x \in enqueued, x.n = y.n, Earlier(x, y)
  PROVE  x \in finished
<1>0. y \in enqueued /\ Placed(y) /\ Placed(x) /\ finished \subseteq Begun
  BY BegunIsEnqueued, EnqueuedPlaced
<1>1. CASE x.st = 0
  BY <1>1, StreamFirst
<1>2. CASE x.st # 0
  <2> DEFINE n == y.n
             b == x.st
  <2>1. PICK s \in SlotNo, first \in Bank : IsPlan(n, s, first)
    BY <1>0, PlanOf
  <2>2. b \in Others
    BY <1>0, <1>2 DEF Placed, Others
  <2>3. Drained(n, b) \in Enqueued(n, s, first) /\ Awaited(n, b) \in Enqueued(n, s, first)
    BY <2>2, BatchHas
  <2>4. /\ At(Drained(n, b), n, Chunks + 1, 2 * b, b, "record") /\ Drained(n, b).ev = <<"drained", b>>
        /\ At(Awaited(n, b), n, Chunks + 1, 2 * b + 1, 0, "wait") /\ Awaited(n, b).ev = <<"drained", b>>
    BY BankFields
  <2>5. /\ y.n = n /\ x.n = n /\ x.st = b /\ b \in Nat /\ b < DSG_BANKS /\ DSG_BANKS \in Nat /\ y.i \in Nat
        /\ x.c \in 0 .. Chunks + 1 /\ (x.c = Chunks + 1 => x.i = 2 * b) /\ Chunks \in Nat
    BY <1>0, <1>2, <2>2, StreamsAssumption DEF Placed, Others, Bank
  <2> HIDE DEF n, b
  <2>6. Earlier(Drained(n, b), y) /\ Earlier(Awaited(n, b), y) /\ Earlier(Drained(n, b), Awaited(n, b))
    BY <2>4, <2>5 DEF At, Earlier
  <2>7. Drained(n, b) \in enqueued /\ Awaited(n, b) \in enqueued
    BY <1>0, <2>1, <2>3, <2>4, <2>5, <2>6 DEF IsPlan, At, Launched
  <2>8. Awaited(n, b) \in finished
    BY <2>4, <2>6, <2>7, StreamFirst DEF At
  <2>9. Drained(n, b) \in finished
    BY <1>0, <2>4, <2>6, <2>7, <2>8, RecordFirst DEF At
  <2>10. CASE x.c = Chunks + 1
    BY <2>4, <2>5, <2>7, <2>9, <2>10, SameBatch DEF At
  <2>11. CASE x.c # Chunks + 1
    <3>1. Earlier(x, Drained(n, b))
      BY <2>4, <2>5, <2>11 DEF At, Earlier
    <3> QED BY <1>0, <2>4, <2>5, <2>9, <3>1, StreamFirst DEF At
  <2> QED BY <2>10, <2>11
<1> QED BY <1>1, <1>2

IsDone(x) == x.st = 0 /\ x.c = Chunks + 1 /\ x.i = 2 * DSG_BANKS + 1

(* When the event of a batch is through, all of the batch is.              *)
LEMMA DoneIsLast ==
  ASSUME Ordered, NEW y \in finished, IsDone(y), NEW x \in enqueued, x.n = y.n
  PROVE  x \in finished
<1>0. y \in Begun /\ y \in enqueued /\ Placed(y) /\ Placed(x)
  BY BegunIsEnqueued, EnqueuedPlaced
<1>1. CASE x.c = y.c /\ x.i = y.i
  BY <1>0, <1>1, SameBatch
<1>2. CASE ~ (x.c = y.c /\ x.i = y.i)
  <2>1. Earlier(x, y)
    BY <1>0, <1>2, StreamsAssumption DEF IsDone, Placed, Earlier
  <2>2. y.i >= 2 * DSG_BANKS
    BY StreamsAssumption DEF IsDone
  <2> QED BY <1>0, <2>1, <2>2, BanksFirst DEF IsDone
<1> QED BY <1>1, <1>2

(* Nothing of a batch begins on a bank, nor its upload, before everything  *)
(* of the batches before it is over.                                       *)
LEMMA BatchFirst ==
  ASSUME Ordered, NEW y \in Begun, y.c # 0 \/ y.st = 0, NEW x \in enqueued, x.n < y.n
  PROVE  x \in finished
<1>0. y \in enqueued /\ x.n \in 1 .. batches /\ y.n \in 1 .. batches /\ batches \in Nat /\ failed \in BOOLEAN
  BY BegunIsEnqueued, PlanOf DEF Ordered, StreamsTypeOK
<1>1. PICK s \in SlotNo, first \in Bank : IsPlan(x.n, s, first)
  BY PlanOf
<1> DEFINE n == x.n
           d == Done(n, s)
<1>2. d \in enqueued
  <2>1. n <= Full
    BY <1>0 DEF Full
  <2> QED BY <1>1, <2>1, BatchHas DEF IsPlan, Ends
<1>3. At(d, n, Chunks + 1, 2 * DSG_BANKS + 1, 0, "record")
  BY SlotFields
<1> HIDE DEF d
<1>4. d \in finished
  BY <1>2, <1>3, LeadFirst DEF At
<1> QED BY <1>3, <1>4, DoneIsLast DEF At, IsDone

(* Sorts run one at a time, in the order of the calls; unless the build    *)
(* lets the checks run beside them, sorts and checks do.                   *)
Sorting(x) == x.kind = "sort" \/ (x.kind = "sha" /\ ~ DSG_OVERLAP_SHA)

(* Through `sorted`: a sort waits for the sorts before it, in its own      *)
(* bank or in another.                                                     *)
LEMMA SortsFirst ==
  ASSUME Ordered, NEW y \in Begun, y.kind \in {"sort", "sha"}, NEW x \in enqueued, Sorting(x), Earlier(x, y),
         y.kind = "sort" \/ ~ DSG_OVERLAP_SHA
  PROVE  x \in finished
<1>0. y \in enqueued /\ Placed(y) /\ Placed(x) /\ finished \subseteq Begun
  BY BegunIsEnqueued, EnqueuedPlaced
<1>1. x.c \in 1 .. Chunks /\ y.c \in 1 .. Chunks /\ y.c # 0
  BY <1>0, StreamsAssumption DEF Sorting, Placed
<1>2. CASE x.n < y.n
  BY <1>1, <1>2, BatchFirst
<1>3. CASE x.st = y.st
  BY <1>3, StreamFirst
<1>4. CASE x.n = y.n /\ x.st # y.st
  <2> DEFINE n == x.n
             c == x.c
             e == y.c
             o == x.st
             b == y.st
  <2>1. PICK s \in SlotNo, first \in Bank : IsPlan(n, s, first)
    BY PlanOf
  <2>2. x \in Enqueued(n, s, first) /\ y \in Enqueued(n, s, first) /\ n \in Nat
    BY <1>0, <1>4, <2>1, PlanOf DEF IsPlan
  <2>3. o = BankOfChunk(first, c) /\ b = BankOfChunk(first, e)
    BY <1>1, <1>4, <2>2, BatchPlaced
  <2>4. c # e /\ c < e
    BY <1>1, <1>4, <2>3, <1>0 DEF Earlier, Placed
  <2>5. /\ x.n = n /\ x.c = c /\ x.st = o /\ y.n = n /\ y.c = e /\ y.st = b
        /\ c \in 1 .. Chunks /\ e \in 1 .. Chunks /\ o \in Bank \ {b} /\ o \in Nat /\ o < DSG_BANKS
        /\ DSG_BANKS \in Nat /\ ShaTurn \in {1, 2} /\ (~ DSG_OVERLAP_SHA => ShaTurn = 1)
        /\ y.i \in {DSG_BANKS + 2, DSG_BANKS + 2 + ShaTurn}
        /\ x.i = DSG_BANKS + 2 \/ (x.i = DSG_BANKS + 3 /\ ShaTurn = 1)
    <3>1. ShaTurn \in {1, 2} /\ (~ DSG_OVERLAP_SHA => ShaTurn = 1) /\ DSG_BANKS \in Nat
      BY StreamsAssumption DEF ShaTurn
    <3>2. o \in Bank \ {b} /\ o \in Nat /\ o < DSG_BANKS
      BY <1>0, <1>4, <3>1 DEF Placed, Bank
    <3>3. y.i \in {DSG_BANKS + 2, DSG_BANKS + 2 + ShaTurn}
      BY <1>0 DEF Placed
    <3>4. x.i = DSG_BANKS + 2 \/ (x.i = DSG_BANKS + 3 /\ ShaTurn = 1)
      BY <1>0, <3>1 DEF Placed, Sorting
    <3> QED BY <1>1, <1>4, <3>1, <3>2, <3>3, <3>4
  <2> HIDE DEF n, c, e, o, b
  <2>6. Turn(n, e, b, o) \in Enqueued(n, s, first) /\ Sorted(n, c, o) \in Enqueued(n, s, first)
    BY <2>3, <2>5, BatchHas, ChunkHas
  <2>7. /\ At(Turn(n, e, b, o), n, e, o + 2, b, "wait") /\ Turn(n, e, b, o).ev = <<"sorted", o>>
        /\ At(Sorted(n, c, o), n, c, AfterSort(3 - ShaTurn), o, "record") /\ Sorted(n, c, o).ev = <<"sorted", o>>
    BY TurnFields, SortedFields
  <2>8. Earlier(Turn(n, e, b, o), y) /\ Earlier(Sorted(n, c, o), y)
    BY <2>4, <2>5, <2>7 DEF At, Earlier
  <2>9. Earlier(Sorted(n, c, o), Turn(n, e, b, o)) /\ Earlier(x, Sorted(n, c, o))
    BY <2>4, <2>5, <2>7 DEF At, Earlier, AfterSort
  <2>10. Turn(n, e, b, o) \in enqueued /\ Sorted(n, c, o) \in enqueued
    BY <1>0, <2>1, <2>5, <2>6, <2>7, <2>8 DEF IsPlan, At, Launched
  <2>11. Turn(n, e, b, o) \in finished
    BY <2>5, <2>7, <2>8, <2>10, StreamFirst DEF At
  <2>12. Sorted(n, c, o) \in finished
    BY <1>0, <2>7, <2>9, <2>10, <2>11, RecordFirst DEF At
  <2> QED BY <1>0, <2>5, <2>7, <2>9, <2>12, StreamFirst DEF At
<1> QED BY <1>2, <1>3, <1>4, <1>0 DEF Earlier

(* The slots in order hold the batches since the last one collected.       *)
Numbered         == \A i \in 1 .. inflight : slot[Position(i)] = Gone + i
RoomAfterFailure == failed => inflight < DSG_SLOTS
(* Nothing of a batch that was collected is left to do.                    *)
GoneIsOver       == Gone \in Nat /\ \A x \in enqueued : x.n <= Gone => x \in finished
(* The stream of a bank that was freed is empty.                           *)
FreedFrom        == \A x \in Pending : x.st >= freed
OnlyWorkRuns     == \A x \in running : ~ IsSync(x)

Control == RingInv /\ Ordered /\ Numbered /\ RoomAfterFailure /\ GoneIsOver /\ FreedFrom /\ OnlyWorkRuns

(* A copy or a kernel has the whole of the batches before it to wait for.  *)
LEMMA WorkPlaced ==
  ASSUME Ordered, NEW x \in enqueued, ~ IsSync(x)
  PROVE  x.c # 0 \/ x.st = 0
  BY EnqueuedPlaced, StreamsAssumption DEF Placed, IsSync

(* Two operations that run at once are kernels of one batch, on different  *)
(* chunks in different banks, and do not both need a turn to sort.         *)
LEMMA Together ==
  ASSUME Control, NEW x \in running, NEW y \in running, Earlier(x, y)
  PROVE  /\ x.n = y.n /\ x.s = y.s /\ x.st # y.st
         /\ x.kind \in {"stage1", "clear", "sort", "sha"} /\ y.kind \in {"stage1", "clear", "sort", "sha"}
         /\ ~ (Sorting(x) /\ y.kind \in {"sort", "sha"} /\ (y.kind = "sort" \/ ~ DSG_OVERLAP_SHA))
<1>1. /\ Ordered /\ x \in enqueued /\ y \in enqueued /\ x \notin finished /\ y \in Begun
      /\ ~ IsSync(x) /\ ~ IsSync(y)
  BY DEF Control, OnlyWorkRuns, Ordered, StreamsTypeOK, Pending, Begun
<1>2. Placed(x) /\ Placed(y) /\ x.n \in Nat /\ y.n \in Nat
  BY <1>1, EnqueuedPlaced DEF Placed
<1>3. y.c # 0 \/ y.st = 0
  BY <1>1, WorkPlaced
<1>4. ~ (x.n < y.n)
  BY <1>1, <1>3, BatchFirst
<1>5. x.n = y.n
  BY <1>2, <1>4 DEF Earlier
<1>6. x.st # y.st
  BY <1>1, StreamFirst
<1>7. x.s = y.s
  BY <1>1, <1>5, SameBatch
<1>8. y.kind # "upload"
  BY <1>2, <1>5, StreamsAssumption DEF Earlier, Placed
<1>9. y.kind # "readback"
  <2>1. SUFFICES ASSUME y.kind = "readback" PROVE FALSE
    OBVIOUS
  <2>2. y.st = 0 /\ y.c = Chunks + 1 /\ y.i >= 2 * DSG_BANKS
    BY <1>2, <2>1, StreamsAssumption DEF Placed
  <2> QED BY <1>1, <1>5, <2>2, BanksFirst
<1>10. y.c # 0 /\ y.c \in 1 .. Chunks
  BY <1>1, <1>2, <1>8, <1>9 DEF Placed, IsSync
<1>11. x.kind # "upload"
  <2>1. SUFFICES ASSUME x.kind = "upload" PROVE FALSE
    OBVIOUS
  <2>2. x.st = 0 /\ x.c = 0 /\ x.i = 0
    BY <1>2, <2>1 DEF Placed
  <2> QED BY <1>1, <1>5, <1>10, <2>2, LeadFirst
<1>12. x.kind # "readback"
  BY <1>2, <1>5, <1>10, StreamsAssumption DEF Earlier, Placed
<1>13. ~ (Sorting(x) /\ y.kind \in {"sort", "sha"} /\ (y.kind = "sort" \/ ~ DSG_OVERLAP_SHA))
  BY <1>1, SortsFirst
<1>14. x.kind \in {"stage1", "clear", "sort", "sha"} /\ y.kind \in {"stage1", "clear", "sort", "sha"}
  BY <1>1, <1>2, <1>8, <1>9, <1>11, <1>12 DEF Placed, IsSync
<1> QED BY <1>5, <1>6, <1>7, <1>13, <1>14

LEMMA RunningOrder ==
  ASSUME Control, NEW x \in running, NEW y \in running, x # y
  PROVE  Earlier(x, y) \/ Earlier(y, x)
  BY OneOrder DEF Control, Ordered, StreamsTypeOK, Pending

(* Control is all that the safety of the card needs: the parts of          *)
(* KeptApart from it, and the free slot.                                   *)
LEMMA ControlKeepsApart == Control => NoConflict /\ ShaKeptApart
<1> SUFFICES ASSUME Control PROVE NoConflict /\ ShaKeptApart
  OBVIOUS
<1>1. ASSUME NEW x \in running, NEW y \in running, x # y
      PROVE  /\ x.st # y.st /\ x.s = y.s
             /\ x.kind \in {"stage1", "clear", "sort", "sha"} /\ y.kind \in {"stage1", "clear", "sort", "sha"}
             /\ ~ (x.kind = "sort" /\ y.kind = "sort")
             /\ ~ DSG_OVERLAP_SHA => ~ (x.kind = "sort" /\ y.kind = "sha")
  <2>1. CASE Earlier(x, y)
    BY <2>1, Together DEF Sorting
  <2>2. CASE Earlier(y, x)
    BY <2>2, Together DEF Sorting
  <2> QED BY <1>1, <2>1, <2>2, RunningOrder
<1>2. ASSUME NEW x \in running, NEW y \in running, x # y
      PROVE  /\ Writes(x) \cap (Reads(y) \cup Writes(y) \cup Adds(y)) = {}
             /\ Adds(x) \cap (Reads(y) \cup Writes(y)) = {}
  <2>1. /\ x.st # y.st /\ x.s = y.s
        /\ x.kind \in {"stage1", "clear", "sort", "sha"} /\ y.kind \in {"stage1", "clear", "sort", "sha"}
        /\ ~ (x.kind = "sort" /\ y.kind = "sort")
    BY <1>1, <1>2
  <2> QED BY <2>1 DEF Writes, Reads, Adds
<1>3. ShaKeptApart
  BY <1>1 DEF ShaKeptApart
<1> QED BY <1>2, <1>3 DEF NoConflict

LEMMA ControlFreesIdle == Control => FreedIsIdle
<1> SUFFICES ASSUME Control, NEW op \in Pending, ~ IsSync(op)
             PROVE  op.st >= freed /\ freed <= DSG_BANKS
  BY DEF FreedIsIdle
<1>1. op.st >= freed /\ freed \in 0 .. DSG_BANKS + 1
  BY DEF Control, FreedFrom, Ordered, StreamsTypeOK
<1>2. op.st \in Bank
  BY EnqueuedPlaced DEF Control, Pending, Placed
<1> QED BY <1>1, <1>2, StreamsAssumption DEF Bank

(* The slot of an operation is the one its batch is in.                    *)
LEMMA LiveSlot ==
  ASSUME Control, NEW x \in enqueued, x.n > Gone
  PROVE  /\ x.n \in Nat /\ x.n > Gone /\ x.n <= batches /\ Gone \in Nat /\ batches \in Nat /\ inflight \in Nat
         /\ Full = Gone + inflight /\ (~ failed => Full = batches)
         /\ ~ IsSync(x) /\ x.n <= Full => x.n - Gone \in 1 .. inflight /\ x.s = Position(x.n - Gone)
         /\ ~ IsSync(x) /\ x.n > Full => x.s = head /\ failed
<1>1. Ordered
  BY DEF Control
<1>2. batches \in Nat /\ inflight \in Nat /\ Gone \in Nat /\ failed \in BOOLEAN
  BY RingAssumption DEF Control, Ordered, StreamsTypeOK, RingTypeOK, GoneIsOver
<1>3. x.n \in Nat /\ x.n <= batches /\ x.n \in 1 .. batches
  BY <1>1, <1>2, PlanOf
<1>4. x.n > Gone
  OBVIOUS
<1>5. Full \in Int /\ Full = Gone + inflight /\ (~ failed => Full = batches)
  BY <1>2 DEF Full, Gone
<1>6. PICK s \in SlotNo, first \in Bank : IsPlan(x.n, s, first) /\ x \in Enqueued(x.n, s, first)
  BY <1>1, PlanOf
<1>7. ~ IsSync(x) => x.s = s
  BY <1>3, <1>6, BatchPlaced
<1>8. x.n <= Full => x.n - Gone \in 1 .. inflight /\ x.n = Gone + (x.n - Gone)
  BY <1>2, <1>3, <1>4, <1>5
<1>9. /\ \A i \in 1 .. inflight : x.n = Gone + i => s = Position(i)
      /\ x.n > Full => s = head
  BY <1>6 DEF IsPlan, InSlot
<1>10. x.n <= Full => s = Position(x.n - Gone)
  BY <1>8, <1>9
<1> QED BY <1>2, <1>3, <1>4, <1>5, <1>7, <1>8, <1>9, <1>10

LEMMA PendingSlot ==
  ASSUME Control, NEW x \in Pending
  PROVE  /\ x.n \in Nat /\ x.n > Gone /\ x.n <= batches /\ Gone \in Nat /\ batches \in Nat /\ inflight \in Nat
         /\ Full = Gone + inflight /\ (~ failed => Full = batches)
         /\ ~ IsSync(x) /\ x.n <= Full => x.n - Gone \in 1 .. inflight /\ x.s = Position(x.n - Gone)
         /\ ~ IsSync(x) /\ x.n > Full => x.s = head /\ failed
<1>1. x \in enqueued /\ x \notin finished /\ x.n \in Nat
  BY PlanOf DEF Control, Pending
<1>2. x.n > Gone
  BY <1>1 DEF Control, GoneIsOver
<1> QED BY <1>1, <1>2, LiveSlot

LEMMA PositionsDiffer ==
  ASSUME RingInv, NEW i \in 1 .. inflight, NEW j \in 1 .. inflight, Position(i) = Position(j)
  PROVE  i = j
  BY RingAssumption DEF RingInv, RingTypeOK, Position, SlotNo

LEMMA ControlLeavesSlotFree == Control => SlotFreeWhenRoom
<1> SUFFICES ASSUME Control, inflight < DSG_SLOTS, ~ failed, NEW op \in Pending, ~ IsSync(op) PROVE op.s # head
  BY DEF SlotFreeWhenRoom
<1>1. op.n - Gone \in 1 .. inflight /\ op.s = Position(op.n - Gone)
  BY PendingSlot
<1> QED BY <1>1, HeadIsFree DEF Control, HasRoom

(* The batch of an operation that runs, from the slot it is in.            *)
LEMMA RunsFromSlot ==
  ASSUME Control, NEW x \in Pending, ~ IsSync(x), NEW i \in 1 .. inflight, x.s = Position(i)
  PROVE  x.n = Gone + i
<1>1. RingInv
  BY DEF Control
<1>2. CASE x.n <= Full
  <2>1. x.n - Gone \in 1 .. inflight /\ x.s = Position(x.n - Gone) /\ x.n \in Nat /\ Gone \in Nat
    BY <1>2, PendingSlot
  <2>2. x.n - Gone = i
    BY <1>1, <2>1, PositionsDiffer
  <2> QED BY <2>1, <2>2
<1>3. CASE x.n > Full
  <2>1. x.s = head /\ failed
    BY <1>3, PendingSlot
  <2>2. HasRoom
    BY <2>1 DEF Control, RoomAfterFailure, HasRoom
  <2> QED BY <1>1, <2>1, <2>2, HeadIsFree
<1>4. Full \in Int /\ x.n \in Int
  BY PendingSlot
<1> QED BY <1>2, <1>3, <1>4

(* Two batches not yet collected are in two slots.                         *)
LEMMA SlotTells ==
  ASSUME Control, NEW x \in enqueued, NEW y \in enqueued, ~ IsSync(x), ~ IsSync(y), x.n > Gone, y.n > Gone, x.s = y.s
  PROVE  x.n = y.n
<1>1. /\ RingInv /\ x.n \in Nat /\ y.n \in Nat /\ Gone \in Nat /\ Full \in Nat /\ batches \in Nat
      /\ x.n <= batches /\ y.n <= batches /\ Full \in {batches - 1, batches}
  <2>1. x.n \in Nat /\ y.n \in Nat /\ Gone \in Nat /\ inflight \in Nat /\ batches \in Nat /\ Full = Gone + inflight
        /\ x.n <= batches /\ y.n <= batches
    BY LiveSlot
  <2> QED BY <2>1 DEF Control, Full
<1>2. CASE x.n <= Full /\ y.n <= Full
  <2>1. /\ x.n - Gone \in 1 .. inflight /\ x.s = Position(x.n - Gone)
        /\ y.n - Gone \in 1 .. inflight /\ y.s = Position(y.n - Gone)
    BY <1>2, LiveSlot
  <2>2. x.n - Gone = y.n - Gone
    BY <1>1, <2>1, PositionsDiffer
  <2> QED BY <1>1, <2>2
<1>3. CASE x.n <= Full /\ y.n > Full
  <2>1. x.n - Gone \in 1 .. inflight /\ x.s = Position(x.n - Gone) /\ y.s = head /\ failed
    BY <1>3, LiveSlot
  <2>2. HasRoom
    BY <2>1 DEF Control, RoomAfterFailure, HasRoom
  <2> QED BY <1>1, <2>1, <2>2, HeadIsFree
<1>4. CASE x.n > Full /\ y.n <= Full
  <2>1. y.n - Gone \in 1 .. inflight /\ y.s = Position(y.n - Gone) /\ x.s = head /\ failed
    BY <1>4, LiveSlot
  <2>2. HasRoom
    BY <2>1 DEF Control, RoomAfterFailure, HasRoom
  <2> QED BY <1>1, <2>1, <2>2, HeadIsFree
<1>5. CASE x.n > Full /\ y.n > Full
  BY <1>1, <1>5
<1> QED BY <1>1, <1>2, <1>3, <1>4, <1>5

LEMMA ControlSerialises == Control => OneBatchAtATime
<1> SUFFICES ASSUME Control, NEW x \in running, NEW i \in 2 .. inflight, x.kind = "stage1", x.s = Position(i),
                    NEW y \in Pending, y.kind \in {"stage1", "sort", "sha"}, NEW j \in 1 .. i - 1, y.s = Position(j)
             PROVE  FALSE
  BY DEF OneBatchAtATime
<1>1. x \in Pending /\ ~ IsSync(x) /\ ~ IsSync(y) /\ x \in Begun /\ Ordered /\ y \in enqueued /\ y \notin finished
      /\ x \in enqueued
  BY DEF Control, Ordered, StreamsTypeOK, Pending, IsSync, Begun
<1>2. inflight \in Nat /\ Gone \in Nat
  BY <1>1, PendingSlot
<1>3. i \in 1 .. inflight /\ j \in 1 .. inflight /\ i \in Nat /\ j \in Nat /\ j < i
  BY <1>2
<1>4. x.n = Gone + i /\ y.n = Gone + j
  BY <1>1, <1>3, RunsFromSlot
<1>5. x.c # 0 \/ x.st = 0
  BY <1>1, WorkPlaced
<1> QED BY <1>1, <1>2, <1>3, <1>4, <1>5, BatchFirst

LEMMA ControlIsEnough == Control => KeptApart /\ SlotFreeWhenRoom
  BY ControlKeepsApart, ControlFreesIdle, ControlLeavesSlotFree, ControlSerialises DEF KeptApart

(* The plan of a batch never changes.                                      *)
LEMMA SameEnqueued ==
  ASSUME NEW n, NEW s, NEW first, DSG_OVERLAP_SHA' = DSG_OVERLAP_SHA
  PROVE  Enqueued(n, s, first)' = Enqueued(n, s, first)
<1>1. \A c, b : RunChunk(n, c, b, s)' = RunChunk(n, c, b, s)
  BY DEF RunChunk, SortAndCheck, SortThenRelease, SortOrder
<1>2. RunChunks(n, s, first)' = RunChunks(n, s, first)
  BY <1>1 DEF RunChunks
<1> QED BY <1>2 DEF Enqueued

(* What a launch and a failed launch leave alone, and what they number.    *)
LEMMA StageCounts ==
  ASSUME Control, Submit \/ SubmitBreaks
  PROVE  /\ batches \in Nat /\ batches' = batches + 1 /\ batches + 1 \in Batch /\ batches + 1 \in Nat
         /\ ~ failed /\ Full = batches /\ Gone \in Nat /\ batches = Gone + inflight /\ inflight \in Nat
         /\ Gone' = Gone /\ HasRoom /\ head = Position(inflight + 1) /\ head \in SlotNo /\ nextBank \in Bank
         /\ freed = 0 /\ UNCHANGED <<DSG_OVERLAP_SHA, finished, running, freed>>
         /\ \A i \in Nat : Position(i)' = Position(i)
         /\ IF failed' THEN inflight' = inflight /\ Full' = batches /\ head' = head
                       ELSE inflight' = inflight + 1 /\ Full' = batches + 1
<1>1. /\ batches \in 0 .. MaxBatches /\ failed \in BOOLEAN /\ MaxBatches \in Nat /\ Batch = 1 .. MaxBatches
      /\ inflight \in Nat /\ Gone \in Nat /\ head \in SlotNo /\ nextBank \in Bank
  BY StreamsAssumption, RingAssumption DEF Control, Ordered, StreamsTypeOK, GoneIsOver, RingTypeOK
<1>2. /\ ~ failed /\ batches < MaxBatches /\ batches' = batches + 1 /\ freed = 0
      /\ UNCHANGED <<DSG_OVERLAP_SHA, finished, running, freed>> /\ HasRoom /\ tail' = tail
  BY DEF Submit, SubmitBreaks, Stage, SubmitOk, SubmitFails
<1>3. IF failed' THEN inflight' = inflight /\ head' = head ELSE inflight' = inflight + 1
  BY <1>2 DEF Submit, SubmitBreaks, SubmitOk, SubmitFails, HeadAfterError
<1>4. head = Position(inflight + 1)
  BY <1>1, <1>2, RingAssumption DEF Control, RingInv, HeadFollowsTail, HasRoom
<1>5. \A i \in Nat : Position(i)' = Position(i)
  BY <1>2 DEF Position
<1>6. Full = batches /\ Full' = IF failed' THEN batches ELSE batches + 1
  BY <1>1, <1>2 DEF Full
<1> QED BY <1>1, <1>2, <1>3, <1>4, <1>5, <1>6 DEF Gone

(* A step of the streams is one of the ring, or leaves it alone.           *)
LEMMA RingMoves == ASSUME Control, [Next]_vars PROVE [RingNext]_ring
<1>1. CASE Submit \/ SubmitBreaks
  <2>1. batches + 1 \in Batch
    BY <1>1, StageCounts
  <2> QED BY <1>1, <2>1 DEF Submit, SubmitBreaks, RingNext
<1>2. CASE Collect
  BY <1>2 DEF Collect, RingNext
<1>3. CASE Free \/ (\E op \in Pending : CardStep(op)) \/ UNCHANGED vars
  BY <1>3 DEF Free, CardStep, Pass, Start, Finish, vars
<1> QED BY <1>1, <1>2, <1>3 DEF Next

LEMMA RingStep == ASSUME Control, [Next]_vars PROVE RingInv'
  BY RingMoves, StepRing DEF Control

(* What a launch puts on the streams, and a failed one.                    *)
LEMMA StageAdds ==
  ASSUME Control, Submit \/ SubmitBreaks
  PROVE  \E n, s, first, new :
           /\ n = batches + 1 /\ s = head /\ first = nextBank
           /\ new \subseteq Enqueued(n, s, first) /\ enqueued' = enqueued \cup new
           /\ ~ failed' => new = Enqueued(n, s, first)
           /\ \A y \in new, x \in Enqueued(n, s, first) : Earlier(x, y) /\ x.kind \notin Launched => x \in new
<1> DEFINE n == batches + 1
           E == Enqueued(n, head, nextBank)
<1>1. CASE Submit
  <2>1. enqueued' = enqueued \cup E
    BY <1>1 DEF Submit
  <2> HIDE DEF E, n
  <2> QED BY <2>1, Zenon DEF E, n
<1>2. CASE SubmitBreaks
  <2>0. PICK call \in E : \E lost \in SUBSET {op \in E : op.kind \in Launched /\ op.c = call.c} :
          enqueued' = enqueued \cup (Called(E, call) \ (lost \cup {call}))
    BY <1>2, Zenon DEF SubmitBreaks
  <2>1. PICK lost \in SUBSET {op \in E : op.kind \in Launched /\ op.c = call.c} :
          enqueued' = enqueued \cup (Called(E, call) \ (lost \cup {call}))
    BY <2>0
  <2> DEFINE new == Called(E, call) \ (lost \cup {call})
  <2>2. failed' /\ new \subseteq E /\ enqueued' = enqueued \cup new
    BY <1>2, <2>1 DEF SubmitBreaks, Called
  <2>3. \A x \in E : x.n \in Int /\ x.c \in Int /\ x.i \in Int
    <3>1. n \in Nat /\ nextBank \in Bank
      BY StageCounts
    <3>2. \A x \in E : Placed(x)
      BY <3>1, BatchPlaced
    <3> QED BY <3>2, StreamsAssumption DEF Placed
  <2>4. ASSUME NEW y \in new, NEW x \in E, Earlier(x, y), x.kind \notin Launched PROVE x \in new
    <3> HIDE DEF E
    <3>1. x \notin lost
      BY <2>4
    <3>2. \A z \in E : z.n = n
      <4>1. n \in Nat /\ nextBank \in Bank
        BY StageCounts
      <4> QED BY <4>1, BatchPlaced DEF E
    <3>3. CASE call.kind \in Launched
      <4>1. x # call /\ y \in E /\ y.c <= call.c
        BY <2>4, <3>3 DEF Called
      <4>2. x.c <= call.c
        BY <2>3, <2>4, <3>2, <4>1 DEF Earlier
      <4> QED BY <3>1, <3>3, <4>1, <4>2 DEF Called
    <3>4. CASE call.kind \notin Launched
      <4>1. y \in E /\ Earlier(y, call)
        BY <2>4, <3>4 DEF Called
      <4>2. Earlier(x, call) /\ x # call
        BY <2>3, <2>4, <4>1 DEF Earlier
      <4> QED BY <3>1, <3>4, <4>2 DEF Called
    <3> QED BY <3>3, <3>4
  <2> HIDE DEF new, E, n
  <2>5. \A y \in new, x \in E : Earlier(x, y) /\ x.kind \notin Launched => x \in new
    BY <2>4, Zenon
  <2> QED BY <2>2, <2>5, Zenon DEF E, n
<1> QED BY <1>1, <1>2

(* The plans of the batches before hold, and the new batch is enqueued to  *)
(* plan.                                                                   *)
LEMMA StagePlans ==
  ASSUME Control, Submit \/ SubmitBreaks
  PROVE  /\ Planned'
         /\ \A x \in enqueued' : x \in enqueued \/ (x.n = batches + 1 /\ Placed(x) /\ x \notin finished
                                                      /\ (~ IsSync(x) => x.s = head))
         /\ enqueued \subseteq enqueued'
<1>1. PICK N, S, first, new :
        /\ N = batches + 1 /\ S = head /\ first = nextBank
        /\ new \subseteq Enqueued(N, S, first) /\ enqueued' = enqueued \cup new
        /\ ~ failed' => new = Enqueued(N, S, first)
        /\ \A y \in new, x \in Enqueued(N, S, first) : Earlier(x, y) /\ x.kind \notin Launched => x \in new
  BY StageAdds
<1>2. /\ batches \in Nat /\ batches' = batches + 1 /\ N \in Nat
      /\ Full = batches /\ Gone \in Nat /\ batches = Gone + inflight /\ inflight \in Nat
      /\ Gone' = Gone /\ S = Position(inflight + 1) /\ S \in SlotNo /\ first \in Bank
      /\ DSG_OVERLAP_SHA' = DSG_OVERLAP_SHA
      /\ \A i \in Nat : Position(i)' = Position(i)
      /\ IF failed' THEN inflight' = inflight /\ Full' = batches /\ head' = S
                    ELSE inflight' = inflight + 1 /\ Full' = batches + 1
  BY <1>1, StageCounts
<1>3. \A x \in new : x.n = N /\ Placed(x) /\ (~ IsSync(x) => x.s = S)
  BY <1>1, <1>2, BatchPlaced
<1>4. /\ \A x \in enqueued : x.n \in 1 .. batches
      /\ \A n \in 1 .. batches : \E s \in SlotNo, f \in Bank : IsPlan(n, s, f)
  BY DEF Control, Ordered, Planned
<1>5. ASSUME NEW n \in 1 .. batches, NEW s \in SlotNo, NEW f \in Bank, IsPlan(n, s, f) PROVE IsPlan(n, s, f)'
  <2>1. Enqueued(n, s, f)' = Enqueued(n, s, f)
    BY <1>2, SameEnqueued
  <2>2. n # N /\ n <= Full /\ ~ (n > Full') /\ \A x \in enqueued' : x.n = n => x \in enqueued
    BY <1>1, <1>2, <1>3
  <2>3. \A i \in 1 .. inflight' : n = Gone' + i => s = Position(i)'
    <3>1. \A i \in 1 .. inflight' : n = Gone' + i => i \in 1 .. inflight /\ i \in Nat /\ n = Gone + i
      BY <1>2
    <3> QED BY <1>2, <1>5, <3>1 DEF IsPlan, InSlot
  <2>4. InSlot(n, s)'
    BY <2>2, <2>3 DEF InSlot
  <2>5. enqueued \subseteq enqueued'
    BY <1>1
  <2>6. \A x, y : Earlier(x, y)' <=> Earlier(x, y)
    BY DEF Earlier
  <2> QED BY <1>5, <2>1, <2>2, <2>4, <2>5, <2>6 DEF IsPlan
<1>6. IsPlan(N, S, first)'
  <2>1. Enqueued(N, S, first)' = Enqueued(N, S, first)
    BY <1>2, SameEnqueued
  <2>2. \A x \in enqueued' : x.n = N => x \in new
    BY <1>1, <1>2, <1>4
  <2>3. \A i \in 1 .. inflight' : N = Gone' + i => S = Position(i)'
    <3>1. \A i \in 1 .. inflight' : N = Gone' + i => i = inflight + 1 /\ i \in Nat
      BY <1>1, <1>2
    <3> QED BY <1>2, <3>1
  <2>4. N > Full' => S = head'
    BY <1>1, <1>2
  <2>5. N <= Full' => Enqueued(N, S, first) \subseteq enqueued'
    BY <1>1, <1>2
  <2>6. InSlot(N, S)'
    BY <2>3, <2>4 DEF InSlot
  <2> QED BY <1>1, <2>1, <2>2, <2>5, <2>6 DEF IsPlan, Earlier
<1>7. Planned'
  <2>1. \A x \in enqueued' : x.n \in 1 .. batches'
    BY <1>1, <1>2, <1>3, <1>4
  <2>2. ASSUME NEW n \in 1 .. batches' PROVE \E s \in SlotNo, f \in Bank : IsPlan(n, s, f)'
    <3>1. CASE n = N
      BY <1>2, <1>6, <3>1
    <3>2. CASE n # N
      <4>1. n \in 1 .. batches
        BY <1>1, <1>2, <3>2
      <4> QED BY <1>4, <1>5, <4>1
    <3> QED BY <3>1, <3>2
  <2> QED BY <2>1, <2>2 DEF Planned, SlotNo, Bank
<1>8. \A x \in new : x \notin finished
  <2>1. finished \subseteq enqueued
    BY DEF Control, Ordered, StreamsTypeOK
  <2> QED BY <1>1, <1>2, <1>3, <1>4, <2>1
<1> QED BY <1>1, <1>3, <1>7, <1>8

(* One lemma for each action: it keeps Control.                            *)
LEMMA StageControl == ASSUME Control, Submit \/ SubmitBreaks, RingInv' PROVE Control'
<1>1. /\ batches \in Nat /\ batches' = batches + 1 /\ batches + 1 \in Batch /\ batches + 1 \in Nat
      /\ ~ failed /\ Full = batches /\ Gone \in Nat /\ batches = Gone + inflight /\ inflight \in Nat
      /\ Gone' = Gone /\ HasRoom /\ nextBank \in Bank
      /\ freed = 0 /\ UNCHANGED <<DSG_OVERLAP_SHA, finished, running, freed>>
      /\ \A i \in Nat : Position(i)' = Position(i)
      /\ IF failed' THEN inflight' = inflight ELSE inflight' = inflight + 1
  BY StageCounts
<1>2. /\ Planned'
      /\ \A x \in enqueued' : x \in enqueued \/ (x.n = batches + 1 /\ Placed(x) /\ x \notin finished)
      /\ enqueued \subseteq enqueued'
  BY StagePlans
<1>3. /\ finished \subseteq enqueued /\ running \subseteq enqueued /\ running \subseteq Pending
      /\ DSG_OVERLAP_SHA \in BOOLEAN /\ batches \in 0 .. MaxBatches /\ freed \in 0 .. DSG_BANKS + 1
      /\ Planned /\ Closed /\ Ordered
  BY DEF Control, Ordered, StreamsTypeOK, Pending
<1>4. StreamsTypeOK'
  <2>1. nextBank' \in Bank
    <3>1. (nextBank + Chunks) % DSG_BANKS \in 0 .. DSG_BANKS - 1
      BY <1>1, StreamsAssumption DEF Bank
    <3>2. CASE Submit
      BY <3>1, <3>2 DEF Submit, Bank
    <3>3. CASE SubmitBreaks
      <4>1. PICK call \in Enqueued(batches + 1, head, nextBank) :
              nextBank' = (nextBank + (IF call.c <= Chunks THEN call.c ELSE Chunks)) % DSG_BANKS
        BY <3>3, Zenon DEF SubmitBreaks
      <4>2. call.c \in Nat
        BY <1>1, BatchPlaced, StreamsAssumption DEF Placed
      <4> DEFINE begun == IF call.c <= Chunks THEN call.c ELSE Chunks
      <4>3. begun \in Nat
        BY <4>2, StreamsAssumption
      <4> HIDE DEF begun
      <4>4. (nextBank + begun) % DSG_BANKS \in 0 .. DSG_BANKS - 1
        BY <1>1, <4>3, StreamsAssumption DEF Bank
      <4> QED BY <4>1, <4>4, Zenon DEF begun, Bank
    <3> QED BY <3>2, <3>3
  <2>2. failed' \in BOOLEAN
    <3>1. failed \in BOOLEAN
      BY DEF Control, Ordered, StreamsTypeOK
    <3>2. failed' = failed \/ failed' = TRUE
      BY Zenon DEF Submit, SubmitBreaks
    <3> QED BY <3>1, <3>2
  <2>3. batches' \in 0 .. MaxBatches
    BY <1>1, StreamsAssumption
  <2>4. RingTypeOK'
    BY DEF RingInv
  <2>5. running' \subseteq Pending'
    BY <1>1, <1>2, <1>3 DEF Pending
  <2>6. finished' \subseteq enqueued'
    BY <1>1, <1>2, <1>3
  <2>7. Bank' = Bank
    BY DEF Bank
  <2> QED BY <1>1, <1>3, <2>1, <2>2, <2>3, <2>4, <2>5, <2>6, <2>7 DEF StreamsTypeOK
<1>5. Closed'
  <2>1. SUFFICES ASSUME NEW y \in finished \cup running, NEW x \in enqueued', Before(x, y) PROVE x \in finished
    BY <1>1 DEF Closed, Begun, Before, Earlier
  <2>2. y \in enqueued /\ y.n \in 1 .. batches
    BY <1>3 DEF Planned
  <2>3. x \in enqueued
    <3>1. x.n = batches + 1 => ~ Before(x, y)
      BY <1>1, <2>2 DEF Before, Earlier
    <3> QED BY <1>2, <2>1, <3>1
  <2> QED BY <1>3, <2>1, <2>3 DEF Closed, Begun
<1>6. Numbered'
  <2>1. Numbered /\ RingInv
    BY DEF Control
  <2>2. CASE Submit
    <3>1. \A i \in 1 .. inflight + 1 :
            slot'[Position(i)'] = IF i = inflight + 1 THEN batches + 1 ELSE slot[Position(i)]
      BY <1>1, <2>1, <2>2, SubmitKeeps DEF Submit
    <3>2. inflight' = inflight + 1
      BY <2>2 DEF Submit, SubmitOk
    <3> QED BY <1>1, <2>1, <3>1, <3>2 DEF Numbered
  <2>3. CASE SubmitBreaks
    <3>1. slot' = [slot EXCEPT ![head] = batches + 1] /\ inflight' = inflight
      BY <2>3 DEF SubmitBreaks, SubmitFails
    <3>2. slot \in [SlotNo -> Batch \cup {NoBatch}]
      BY <2>1 DEF RingInv, RingTypeOK
    <3>3. \A i \in 1 .. inflight : Position(i) # head /\ Position(i) \in SlotNo
      BY <1>1, <2>1, HeadIsFree
    <3>4. \A i \in 1 .. inflight : i \in Nat /\ slot'[Position(i)'] = slot[Position(i)]
      BY <1>1, <3>1, <3>2, <3>3
    <3> QED BY <1>1, <2>1, <3>1, <3>4 DEF Numbered
  <2> QED BY <2>2, <2>3
<1>7. RoomAfterFailure'
  BY <1>1 DEF RoomAfterFailure, HasRoom
<1>8. GoneIsOver'
  <2>1. GoneIsOver
    BY DEF Control
  <2> QED BY <1>1, <1>2, <2>1 DEF GoneIsOver
<1>9. FreedFrom'
  <2>1. \A x \in Pending' : x.st \in Bank
    BY <1>1, <1>2, <1>3, EnqueuedPlaced DEF Pending, Placed
  <2> QED BY <1>1, <2>1 DEF FreedFrom, Bank
<1>10. OnlyWorkRuns'
  BY <1>1 DEF Control, OnlyWorkRuns, IsSync
<1> QED BY <1>2, <1>4, <1>5, <1>6, <1>7, <1>8, <1>9, <1>10 DEF Control, Ordered

(* The card changes no plan.                                               *)
LEMMA CardPlans ==
  ASSUME Planned, UNCHANGED <<ring, DSG_OVERLAP_SHA, enqueued, batches, failed>>
  PROVE  Planned' /\ Gone' = Gone /\ Full' = Full /\ \A i : Position(i)' = Position(i)
<1>1. /\ Gone' = Gone /\ Full' = Full /\ \A i : Position(i)' = Position(i)
      /\ inflight' = inflight /\ head' = head /\ enqueued' = enqueued /\ batches' = batches
  BY DEF Gone, Full, Position, ring
<1>2. ASSUME NEW n, NEW s, NEW f, IsPlan(n, s, f) PROVE IsPlan(n, s, f)'
  <2>1. Enqueued(n, s, f)' = Enqueued(n, s, f)
    BY SameEnqueued
  <2>2. InSlot(n, s)'
    BY <1>1, <1>2 DEF IsPlan, InSlot
  <2>3. \A x, y : Earlier(x, y)' <=> Earlier(x, y)
    BY DEF Earlier
  <2> QED BY <1>1, <1>2, <2>1, <2>2, <2>3 DEF IsPlan
<1>3. \A n \in 1 .. batches : \E s \in SlotNo, f \in Bank : IsPlan(n, s, f)'
  BY <1>2 DEF Planned
<1>4. \A x \in enqueued : x.n \in 1 .. batches
  BY DEF Planned
<1> QED BY <1>1, <1>3, <1>4 DEF Planned, SlotNo, Bank

(* The operations of the batch that is collected are through.              *)
LEMMA CollectedIsOver ==
  ASSUME Control, Collect
  PROVE  /\ inflight \in Nat /\ inflight > 0 /\ Gone \in Nat /\ Full = Gone + inflight /\ tail = Position(1)
         /\ Gone + 1 \in 1 .. batches /\ slot[tail] = Gone + 1
         /\ \A x \in enqueued : x.n = Gone + 1 => x \in finished
         /\ Readback(Gone + 1, tail) \in finished
<1>1. /\ inflight \in Nat /\ inflight > 0 /\ Gone \in Nat /\ tail = Position(1)
      /\ batches \in Nat /\ failed \in BOOLEAN
      /\ Ordered /\ tail \in SlotNo
  BY RingAssumption, CollectShifts
     DEF Control, Ordered, StreamsTypeOK, GoneIsOver, RingTypeOK, Collect, CollectOk, RingInv
<1>2. Full = Gone + inflight /\ Full \in Nat /\ Full <= batches
  BY <1>1 DEF Full, Gone
<1>3. Gone + 1 \in 1 .. batches /\ Gone + 1 <= Full /\ 1 \in 1 .. inflight
  BY <1>1, <1>2
<1>4. slot[tail] = Gone + 1
  BY <1>1, <1>3 DEF Control, Numbered
<1>5. PICK s \in SlotNo, first \in Bank : IsPlan(Gone + 1, s, first)
  BY <1>1, <1>3 DEF Ordered, Planned
<1>6. s = tail
  BY <1>1, <1>3, <1>5 DEF IsPlan, InSlot
<1> DEFINE n == Gone + 1
           d == Done(n, tail)
<1>7. Done(n, tail) \in enqueued /\ Readback(n, tail) \in enqueued
  BY <1>3, <1>5, <1>6, BatchHas DEF IsPlan, Ends
<1>8. At(Done(n, tail), n, Chunks + 1, 2 * DSG_BANKS + 1, 0, "record") /\ Done(n, tail).ev = <<"done", tail>>
      /\ At(Readback(n, tail), n, Chunks + 1, 2 * DSG_BANKS, 0, "readback")
  BY SlotFields
<1>9. d \in finished
  BY <1>7, <1>8 DEF Collect, DoneFired, Pending
<1> HIDE DEF n, d
<1>10. \A x \in enqueued : x.n = n => x \in finished
  <2>1. d.n = n /\ IsDone(d)
    BY <1>8 DEF d, At, IsDone
  <2> QED BY <1>1, <1>9, <2>1, DoneIsLast
<1> QED BY <1>1, <1>2, <1>3, <1>4, <1>7, <1>8, <1>10 DEF n, At

LEMMA CollectControl == ASSUME Control, Collect, RingInv' PROVE Control'
<1>1. /\ inflight \in Nat /\ inflight > 0 /\ Gone \in Nat /\ Full = Gone + inflight
      /\ \A x \in enqueued : x.n = Gone + 1 => x \in finished
  BY CollectedIsOver
<1>2. /\ UNCHANGED <<slot, head, batches, failed, build, card, freed>> /\ inflight' = inflight - 1
      /\ \A i \in 1 .. inflight' : Position(i)' = Position(i + 1)
  BY CollectShifts DEF Collect, CollectOk, Control
<1>3. UNCHANGED <<DSG_OVERLAP_SHA, nextBank, enqueued, finished, running, mem>>
  BY <1>2 DEF build, card
<1>4. Full' = Full /\ Gone' = Gone + 1
  BY <1>1, <1>2 DEF Full, Gone
<1>5. Ordered /\ Planned /\ Closed /\ StreamsTypeOK
  BY DEF Control, Ordered
<1>6. \A i \in 1 .. inflight' : i + 1 \in 1 .. inflight /\ Gone' + i = Gone + (i + 1)
  BY <1>1, <1>2, <1>4
<1>7. Planned'
  <2>1. ASSUME NEW n, NEW s, NEW f, IsPlan(n, s, f) PROVE IsPlan(n, s, f)'
    <3>1. Enqueued(n, s, f)' = Enqueued(n, s, f)
      BY <1>3, SameEnqueued
    <3>2. InSlot(n, s)
      BY <2>1 DEF IsPlan
    <3>3. InSlot(n, s)'
      BY <1>2, <1>4, <1>6, <3>2 DEF InSlot
    <3>4. \A x, y : Earlier(x, y)' <=> Earlier(x, y)
      BY DEF Earlier
    <3> QED BY <1>3, <1>4, <2>1, <3>1, <3>3, <3>4 DEF IsPlan
  <2>2. \A n \in 1 .. batches : \E s \in SlotNo, f \in Bank : IsPlan(n, s, f)'
    BY <1>5, <2>1 DEF Planned
  <2>3. \A x \in enqueued : x.n \in 1 .. batches
    BY <1>5 DEF Planned
  <2> QED BY <1>2, <1>3, <2>2, <2>3 DEF Planned, SlotNo, Bank
<1>8. StreamsTypeOK' /\ Closed'
  BY <1>2, <1>3, <1>5 DEF StreamsTypeOK, Closed, Begun, Before, Earlier, Pending, RingInv, Bank
<1>9. Numbered'
  BY <1>2, <1>6 DEF Control, Numbered
<1>10. RoomAfterFailure'
  BY <1>1, <1>2, RingAssumption DEF Control, RoomAfterFailure
<1>11. GoneIsOver'
  <2>1. \A x \in enqueued : x.n \in Nat
    BY <1>5, PlanOf
  <2>2. \A x \in enqueued : x.n <= Gone + 1 => x.n <= Gone \/ x.n = Gone + 1
    BY <1>1, <2>1
  <2> QED BY <1>1, <1>3, <1>4, <2>2 DEF Control, GoneIsOver
<1>12. FreedFrom' /\ OnlyWorkRuns'
  BY <1>2, <1>3 DEF Control, FreedFrom, OnlyWorkRuns, Pending, IsSync
<1> QED BY <1>7, <1>8, <1>9, <1>10, <1>11, <1>12 DEF Control, Ordered

LEMMA FreeControl == ASSUME Control, Free, RingInv' PROVE Control'
<1>1. /\ Planned /\ Closed /\ StreamsTypeOK /\ Numbered /\ RoomAfterFailure /\ GoneIsOver /\ FreedFrom /\ OnlyWorkRuns
      /\ freed \in 0 .. DSG_BANKS + 1 /\ Ordered
  BY DEF Control, Ordered, StreamsTypeOK
<1>2. /\ UNCHANGED <<ring, DSG_OVERLAP_SHA, nextBank, batches, failed, enqueued, finished, running, mem>>
      /\ freed <= DSG_BANKS /\ (freed < DSG_BANKS => Synchronised(freed)) /\ freed' = freed + 1
  BY DEF Free, build, card
<1>3. Planned' /\ Gone' = Gone /\ \A i : Position(i)' = Position(i)
  BY <1>1, <1>2, CardPlans
<1>4. FreedFrom'
  <2>1. \A x \in Pending : x.st \in Bank /\ x.st >= freed
    BY <1>1, EnqueuedPlaced DEF FreedFrom, Pending, Placed
  <2>2. \A x \in Pending : freed < DSG_BANKS => x.st # freed
    BY <1>2 DEF Synchronised
  <2>3. Pending' = Pending
    BY <1>2 DEF Pending
  <2> QED BY <1>1, <1>2, <2>1, <2>2, <2>3, StreamsAssumption DEF FreedFrom, Bank
<1>5. StreamsTypeOK'
  BY <1>1, <1>2, StreamsAssumption DEF StreamsTypeOK, RingInv, Pending, Bank
<1>6. Closed' /\ RoomAfterFailure' /\ OnlyWorkRuns'
  BY <1>1, <1>2 DEF Closed, Begun, Before, Earlier, RoomAfterFailure, OnlyWorkRuns, IsSync, ring
<1>7. GoneIsOver' /\ Numbered'
  BY <1>1, <1>2, <1>3 DEF GoneIsOver, Numbered, ring
<1> QED BY <1>3, <1>4, <1>5, <1>6, <1>7 DEF Control, Ordered

(* What the card does to the three sets, and what it needs for it.         *)
LEMMA CardMoves ==
  ASSUME Control, NEW op \in Pending, CardStep(op)
  PROVE  /\ UNCHANGED <<ring, DSG_OVERLAP_SHA, nextBank, batches, failed, enqueued, got, freed>>
         /\ finished \subseteq finished' /\ finished' \subseteq finished \cup {op}
         /\ \/ finished' = finished /\ running' = running \cup {op} /\ ~ IsSync(op)
            \/ finished' = finished \cup {op} /\ running' = running \ {op}
         /\ op \in running \/ \A x \in Pending : ~ Before(x, op)
<1>1. CASE Pass(op)
  BY <1>1 DEF Pass, Ready, build
<1>2. CASE Start(op)
  BY <1>2 DEF Start, Ready, build
<1>3. CASE Finish(op)
  BY <1>3 DEF Finish, build
<1> QED BY <1>1, <1>2, <1>3 DEF CardStep

LEMMA CardControl == ASSUME Control, NEW op \in Pending, CardStep(op), RingInv' PROVE Control'
<1>1. /\ Planned /\ Closed /\ StreamsTypeOK /\ Numbered /\ RoomAfterFailure /\ GoneIsOver /\ FreedFrom /\ OnlyWorkRuns
      /\ op \in enqueued /\ op \notin finished
  BY DEF Control, Ordered, Pending
<1>2. /\ UNCHANGED <<ring, DSG_OVERLAP_SHA, nextBank, batches, failed, enqueued, got, freed>>
      /\ finished \subseteq finished' /\ finished' \subseteq finished \cup {op}
      /\ \/ finished' = finished /\ running' = running \cup {op} /\ ~ IsSync(op)
         \/ finished' = finished \cup {op} /\ running' = running \ {op}
      /\ op \in running \/ \A x \in Pending : ~ Before(x, op)
  BY CardMoves
<1>3. Planned' /\ Gone' = Gone /\ \A i : Position(i)' = Position(i)
  BY <1>1, <1>2, CardPlans
<1>4. StreamsTypeOK'
  BY <1>1, <1>2 DEF StreamsTypeOK, RingInv, Pending, Bank
<1>5. Closed'
  <2>1. SUFFICES ASSUME NEW y \in Begun', NEW x \in enqueued, Before(x, y) PROVE x \in finished'
    BY <1>2 DEF Closed, Before, Earlier
  <2>2. CASE y \in Begun
    BY <1>1, <1>2, <2>1, <2>2 DEF Closed
  <2>3. CASE y = op /\ op \notin running
    BY <1>2, <2>1, <2>3 DEF Pending
  <2> QED BY <1>2, <2>2, <2>3 DEF Begun
<1>6. RoomAfterFailure' /\ OnlyWorkRuns'
  BY <1>1, <1>2 DEF RoomAfterFailure, OnlyWorkRuns, IsSync, ring
<1>7. GoneIsOver' /\ Numbered'
  BY <1>1, <1>2, <1>3 DEF GoneIsOver, Numbered, ring
<1>8. FreedFrom'
  BY <1>1, <1>2 DEF FreedFrom, Pending
<1> QED BY <1>3, <1>4, <1>5, <1>6, <1>7, <1>8 DEF Control, Ordered

LEMMA StreamsInit == Init => Control
<1> SUFFICES ASSUME Init PROVE Control
  OBVIOUS
<1>1. RingInv
  BY InitRing DEF Init
<1>2. /\ enqueued = {} /\ finished = {} /\ running = {} /\ batches = 0 /\ inflight = 0
      /\ failed = FALSE /\ freed = 0 /\ nextBank = 0
  BY DEF Init, RingInit
<1>3. Full = 0 /\ Gone = 0
  BY <1>2 DEF Full, Gone
<1>4. StreamsTypeOK
  <2>1. DSG_OVERLAP_SHA \in BOOLEAN
    BY DEF Init
  <2>2. 0 \in 0 .. MaxBatches /\ 0 \in Bank /\ 0 \in 0 .. DSG_BANKS + 1
    BY StreamsAssumption DEF Bank
  <2> QED BY <1>1, <1>2, <2>1, <2>2 DEF StreamsTypeOK, RingInv
<1>5. Planned /\ Closed /\ GoneIsOver /\ FreedFrom /\ OnlyWorkRuns
  BY <1>2, <1>3 DEF Planned, Closed, Begun, GoneIsOver, FreedFrom, Pending, OnlyWorkRuns
<1>6. Numbered /\ RoomAfterFailure
  BY <1>2 DEF Numbered, RoomAfterFailure
<1> QED BY <1>1, <1>4, <1>5, <1>6 DEF Control, Ordered

LEMMA ControlStep == ASSUME Control, [Next]_vars PROVE Control'
<1>1. RingInv'
  BY RingStep
<1>2. CASE Submit \/ SubmitBreaks
  BY <1>1, <1>2, StageControl
<1>3. CASE Collect
  BY <1>1, <1>3, CollectControl
<1>4. CASE Free
  BY <1>1, <1>4, FreeControl
<1>5. ASSUME NEW op \in Pending, CardStep(op) PROVE Control'
  BY <1>1, <1>5, CardControl
<1>6. CASE UNCHANGED vars
  <2>1. UNCHANGED <<ring, DSG_OVERLAP_SHA, nextBank, batches, failed, enqueued, finished, running, freed>>
    BY <1>6 DEF vars, build, card
  <2>2. Planned' /\ Gone' = Gone /\ \A i : Position(i)' = Position(i)
    BY <2>1, CardPlans DEF Control, Ordered
  <2>3. StreamsTypeOK' /\ Closed' /\ RoomAfterFailure' /\ OnlyWorkRuns' /\ FreedFrom'
    BY <1>1, <2>1 DEF Control, Ordered, StreamsTypeOK, RingInv, Pending, Bank, Closed, Begun, Before, Earlier,
                     RoomAfterFailure, OnlyWorkRuns, IsSync, FreedFrom, ring
  <2>4. GoneIsOver' /\ Numbered'
    BY <2>1, <2>2 DEF Control, GoneIsOver, Numbered, ring
  <2> QED BY <1>1, <2>2, <2>3, <2>4 DEF Control, Ordered
<1> QED BY <1>2, <1>3, <1>4, <1>5, <1>6 DEF Next

(* Whatever the card and the host do first, and for any number of banks,   *)
(* slots, chunks and batches: no two operations of the card meet on a      *)
(* buffer, no check runs beside a sort unless the build allows it, a batch *)
(* begins when those before it are over, and no buffer is freed under the  *)
(* card.                                                                   *)
THEOREM CardKeepsApart == Spec => []KeptApart
<1>1. Init => Control
  BY StreamsInit
<1>2. Control /\ [Next]_vars => Control'
  BY ControlStep
<1>3. Control => KeptApart
  BY ControlIsEnough
<1> QED BY <1>1, <1>2, <1>3, PTL DEF Spec

-----------------------------------------------------------------------------
(* What is in memory of the batches that were launched, from what is over. *)
(* Of the batch whose submit failed nothing is said: kernels may be        *)
(* missing from it, and it is not collected.                               *)
Whole(n)         == {<<n, <<n, c>>>> : c \in 1 .. Chunks}
Over(kind, n, c) == \E y \in finished : y.kind = kind /\ y.n = n /\ y.c = c
Checked(n)       == {c \in 1 .. Chunks : Over("sha", n, c)}

Text == Nat \X Nat
MemTypeOK ==
  mem \in [hWork : [SlotNo -> Nat], dWork : [SlotNo -> Nat],
           dFound : [SlotNo -> SUBSET (Nat \X Text)], hFound : [SlotNo -> SUBSET (Nat \X Text)],
           texts : [Bank -> Text], sa : [Bank -> Text], next : [Bank -> {0, 1}]]

StagedIs ==
  \A x \in enqueued : x.kind = "upload" /\ x \notin finished => mem.hWork[x.s] = x.n
UploadedIs ==
  \A x \in finished : x.kind = "upload" /\ x.n <= Full /\ ~ Over("readback", x.n, Chunks + 1) =>
    /\ mem.dWork[x.s] = x.n
    /\ mem.dFound[x.s] = {<<x.n, <<x.n, c>>>> : c \in Checked(x.n)}
TextsAre ==
  \A x \in finished :
    x.kind = "stage1" /\ x.n <= Full /\ ~ Over("sort", x.n, x.c) => mem.texts[x.st] = <<x.n, x.c>>
CounterIs ==
  \A x \in finished : x.kind = "clear" /\ x.n <= Full /\ ~ Over("sort", x.n, x.c) => mem.next[x.st] = 0
SuffixesAre ==
  \A x \in finished :
    x.kind = "sort" /\ x.n <= Full /\ ~ Over("sha", x.n, x.c) => mem.sa[x.st] = <<x.n, x.c>>
HitsAre ==
  \A x \in finished : x.kind = "readback" /\ x.n > Gone /\ x.n <= Full => mem.hFound[x.s] = Whole(x.n)

Data == MemTypeOK /\ StagedIs /\ UploadedIs /\ TextsAre /\ CounterIs /\ SuffixesAre /\ HitsAre

StreamsInv == Control /\ Data /\ CollectedWhole

-----------------------------------------------------------------------------
(* What is over when a kernel or a copy begins.                            *)
Kernel(x) == x.kind \in {"stage1", "clear", "sort", "sha"}

(* A kernel or a readback finds the upload of its batch over.              *)
LEMMA UploadOver ==
  ASSUME Ordered, NEW y \in Begun, Kernel(y) \/ y.kind = "readback"
  PROVE  \E u \in finished : u.kind = "upload" /\ u.n = y.n /\ u.s = y.s
<1>0. y \in enqueued /\ Placed(y) /\ ~ IsSync(y) /\ y.c # 0 /\ y.c \in Nat
  BY BegunIsEnqueued, EnqueuedPlaced, StreamsAssumption DEF Placed, Kernel, IsSync
<1>1. PICK s \in SlotNo, first \in Bank : IsPlan(y.n, s, first) /\ y \in Enqueued(y.n, s, first)
  BY <1>0, PlanOf
<1>2. y.s = s /\ y.n \in Nat
  BY <1>0, <1>1, BatchPlaced DEF Placed
<1> DEFINE n == y.n
           u == Upload(n, s)
<1>3. u \in Enqueued(n, s, first)
  BY BatchHas DEF Ends
<1>4. At(u, n, 0, 0, 0, "upload") /\ u.s = s
  BY SlotFields
<1> HIDE DEF u
<1>5. Earlier(u, y)
  BY <1>0, <1>4 DEF At, Earlier
<1>6. u \in enqueued
  BY <1>0, <1>1, <1>3, <1>4, <1>5 DEF IsPlan, At, Launched
<1>7. u \in finished
  BY <1>0, <1>4, <1>6, LeadFirst DEF At
<1> QED BY <1>2, <1>4, <1>7 DEF At

(* In a batch that was launched, a sort finds the texts of its chunk and   *)
(* the cleared counter; a check finds the sort of its chunk over.          *)
LEMMA ChunkOver ==
  ASSUME Ordered, NEW y \in Begun, NEW k,
         \/ y.kind = "sort" /\ k \in {"stage1", "clear"}
         \/ y.kind = "sha" /\ k = "sort",
         y.n <= Full
  PROVE  \E p \in finished : p.kind = k /\ p.n = y.n /\ p.c = y.c /\ p.st = y.st /\ p.s = y.s
<1>0. y \in enqueued /\ Placed(y) /\ ~ IsSync(y) /\ y.c \in 1 .. Chunks
  BY BegunIsEnqueued, EnqueuedPlaced DEF Placed, IsSync
<1>1. PICK s \in SlotNo, first \in Bank : IsPlan(y.n, s, first) /\ y \in Enqueued(y.n, s, first)
  BY <1>0, PlanOf
<1>2. y.s = s /\ y.n \in Nat /\ y.st = BankOfChunk(first, y.c)
  BY <1>0, <1>1, BatchPlaced DEF Placed
<1> DEFINE n == y.n
           c == y.c
           b == y.st
           p == IF k = "stage1" THEN Stage1(n, c, b, s)
                ELSE IF k = "clear" THEN Clear(n, c, b, s) ELSE Sort(n, c, b, s)
<1>3. p \in Enqueued(n, s, first)
  BY <1>0, <1>2, BatchHas, ChunkHas
<1>4. p.n = n /\ p.c = c /\ p.st = b /\ p.s = s /\ p.kind = k
      /\ p.i = IF k = "stage1" THEN 0 ELSE IF k = "clear" THEN 1 ELSE DSG_BANKS + 2
  BY ChunkFields, StreamsAssumption DEF At, AfterSort
<1> HIDE DEF p
<1>5. Earlier(p, y)
  BY <1>0, <1>4, StreamsAssumption DEF Placed, Earlier, ShaTurn
<1>6. p \in enqueued
  BY <1>1, <1>3 DEF IsPlan
<1>7. p \in finished
  BY <1>4, <1>5, <1>6, StreamFirst
<1> QED BY <1>2, <1>4, <1>7

(* A bank is through with a chunk when it begins on the next.              *)
LEMMA ChunkDone ==
  ASSUME Ordered, NEW y \in Begun, Kernel(y), NEW x \in enqueued, Kernel(x), x.st = y.st, Earlier(x, y),
         ~ (x.n = y.n /\ x.c = y.c), x.n <= Full, NEW k \in {"sort", "sha"}
  PROVE  Over(k, x.n, x.c)
<1>0. /\ y \in enqueued /\ Placed(x) /\ Placed(y) /\ ~ IsSync(x) /\ x.c \in 1 .. Chunks /\ y.c \in 1 .. Chunks
      /\ x.n \in 1 .. batches /\ y.n \in 1 .. batches /\ batches \in Nat /\ failed \in BOOLEAN
  BY BegunIsEnqueued, EnqueuedPlaced, PlanOf DEF Placed, IsSync, Kernel, Ordered, StreamsTypeOK
<1>1. PICK s \in SlotNo, first \in Bank : IsPlan(x.n, s, first) /\ x \in Enqueued(x.n, s, first)
  BY PlanOf
<1>2. x.n \in Nat /\ x.st = BankOfChunk(first, x.c)
  BY <1>0, <1>1, BatchPlaced DEF Placed
<1> DEFINE n == x.n
           c == x.c
           b == x.st
           p == IF k = "sort" THEN Sort(n, c, b, s) ELSE Sha(n, c, b, s)
<1>3. p \in Enqueued(n, s, first)
  BY <1>0, <1>2, BatchHas, ChunkHas
<1>4. p.n = n /\ p.c = c /\ p.st = b /\ p.kind = k
  BY ChunkFields DEF At
<1> HIDE DEF p
<1>5. x.n < y.n \/ (x.n = y.n /\ x.c < y.c)
  BY <1>0 DEF Earlier
<1>6. Earlier(p, y)
  BY <1>4, <1>5 DEF Earlier
<1>7. p \in enqueued
  BY <1>1, <1>3 DEF IsPlan
<1>8. p \in finished
  BY <1>4, <1>6, <1>7, StreamFirst
<1> QED BY <1>4, <1>8 DEF Over

(* The readback of a batch that was launched finds every chunk checked.    *)
LEMMA AllChecked ==
  ASSUME Ordered, NEW y \in Begun, y.kind = "readback", y.n <= Full, NEW c \in 1 .. Chunks
  PROVE  Over("sha", y.n, c)
<1>0. y \in enqueued /\ Placed(y) /\ y.n \in Nat
  BY BegunIsEnqueued, EnqueuedPlaced DEF Placed
<1>1. PICK s \in SlotNo, first \in Bank : IsPlan(y.n, s, first)
  BY <1>0, PlanOf
<1> DEFINE n == y.n
           b == BankOfChunk(first, c)
           p == Sha(n, c, b, s)
<1>3. p \in Enqueued(n, s, first)
  BY BatchHas, ChunkHas
<1>4. p.n = n /\ p.c = c /\ p.kind = "sha"
  BY ChunkFields DEF At
<1> HIDE DEF p
<1>5. y.st = 0 /\ y.c = Chunks + 1 /\ y.i >= 2 * DSG_BANKS
  BY <1>0, StreamsAssumption DEF Placed
<1>6. Earlier(p, y)
  BY <1>4, <1>5, StreamsAssumption DEF Earlier
<1>7. p \in enqueued
  BY <1>1, <1>3 DEF IsPlan
<1>8. p \in finished
  BY <1>4, <1>5, <1>6, <1>7, BanksFirst
<1> QED BY <1>4, <1>8 DEF Over

(* The readback of a batch is over before anything of a later one begins,  *)
(* and after everything of its own.                                        *)
LEMMA ReadBefore ==
  ASSUME Ordered, NEW y \in Begun, ~ IsSync(y), NEW x \in enqueued, x.n < y.n
  PROVE  Over("readback", x.n, Chunks + 1)
<1>0. /\ y \in enqueued /\ x.n \in 1 .. batches /\ y.n \in 1 .. batches /\ batches \in Nat /\ failed \in BOOLEAN
      /\ (y.c # 0 \/ y.st = 0)
  BY BegunIsEnqueued, PlanOf, WorkPlaced DEF Ordered, StreamsTypeOK
<1>1. PICK s \in SlotNo, first \in Bank : IsPlan(x.n, s, first)
  BY PlanOf
<1> DEFINE n == x.n
           p == Readback(n, s)
<1>2. x.n <= Full
  BY <1>0 DEF Full
<1>3. p \in enqueued
  BY <1>1, <1>2, BatchHas DEF IsPlan, Ends
<1>4. p.n = n /\ p.c = Chunks + 1 /\ p.kind = "readback"
  BY SlotFields DEF At
<1> HIDE DEF p
<1>5. p \in finished
  BY <1>0, <1>3, <1>4, BatchFirst
<1> QED BY <1>4, <1>5 DEF Over

LEMMA ReadAfter ==
  ASSUME Ordered, NEW x \in enqueued, x \notin finished, x.kind = "upload" \/ Kernel(x)
  PROVE  ~ Over("readback", x.n, Chunks + 1)
<1> SUFFICES ASSUME NEW y \in finished, y.kind = "readback", y.n = x.n PROVE FALSE
  BY DEF Over
<1>1. y \in Begun /\ y \in enqueued /\ Placed(y) /\ Placed(x)
  BY BegunIsEnqueued, EnqueuedPlaced
<1>2. y.st = 0 /\ y.c = Chunks + 1 /\ y.i >= 2 * DSG_BANKS
  BY <1>1, StreamsAssumption DEF Placed
<1>3. Earlier(x, y)
  BY <1>1, <1>2, StreamsAssumption DEF Placed, Earlier, Kernel
<1> QED BY <1>1, <1>2, <1>3, BanksFirst

(* An operation is known by its kind, batch and chunk.                     *)
LEMMA OneOver ==
  ASSUME Ordered, NEW x \in enqueued, ~ IsSync(x)
  PROVE  /\ \A y \in enqueued : y.kind = x.kind /\ y.n = x.n /\ y.c = x.c => y = x
         /\ x \notin finished => ~ Over(x.kind, x.n, x.c)
<1>1. \A y \in enqueued : y.kind = x.kind /\ y.n = x.n /\ y.c = x.c => y = x
  <2>1. SUFFICES ASSUME NEW y \in enqueued, y.kind = x.kind, y.n = x.n, y.c = x.c PROVE y = x
    OBVIOUS
  <2>2. x.i = y.i
    BY <2>1, EnqueuedPlaced DEF Placed, IsSync
  <2> QED BY <2>1, <2>2, SameBatch
<1>2. finished \subseteq enqueued
  BY DEF Ordered, StreamsTypeOK
<1> QED BY <1>1, <1>2 DEF Over

Fresh(op) == op.kind = "sort" /\ mem.next[op.st] = 0

(* What an operation leaves in each buffer.                                *)
LEMMA EffectIs ==
  ASSUME MemTypeOK, NEW op, op.s \in SlotNo, op.st \in Bank, op.c \in Nat, mem' = Effect(op, mem),
         op.kind \in {"upload", "stage1", "clear", "sort", "sha", "readback"}
  PROVE  /\ MemTypeOK'
         /\ \A s \in SlotNo :
              /\ mem'.hWork[s] = mem.hWork[s]
              /\ mem'.dWork[s] = IF op.kind = "upload" /\ op.s = s THEN mem.hWork[s] ELSE mem.dWork[s]
              /\ mem'.dFound[s] = IF op.s # s \/ op.kind \notin {"upload", "sha"} THEN mem.dFound[s]
                                  ELSE IF op.kind = "upload" THEN {}
                                  ELSE mem.dFound[s] \cup {<<mem.dWork[s], mem.sa[op.st]>>}
              /\ mem'.hFound[s] = IF op.kind = "readback" /\ op.s = s THEN mem.dFound[s] ELSE mem.hFound[s]
         /\ \A b \in Bank :
              /\ mem'.texts[b] = IF op.kind = "stage1" /\ op.st = b THEN <<mem.dWork[op.s], op.c>> ELSE mem.texts[b]
              /\ mem'.next[b] = IF op.st # b \/ op.kind \notin {"clear", "sort"} THEN mem.next[b]
                                ELSE IF op.kind = "clear" THEN 0 ELSE 1
              /\ mem'.sa[b] = IF Fresh(op) /\ op.st = b THEN mem.texts[b] ELSE mem.sa[b]
<1>1. /\ mem \in [hWork : [SlotNo -> Nat], dWork : [SlotNo -> Nat],
                  dFound : [SlotNo -> SUBSET (Nat \X Text)], hFound : [SlotNo -> SUBSET (Nat \X Text)],
                  texts : [Bank -> Text], sa : [Bank -> Text], next : [Bank -> {0, 1}]]
      /\ \A s \in SlotNo : mem.hWork[s] \in Nat /\ mem.dWork[s] \in Nat
                           /\ mem.dFound[s] \in SUBSET (Nat \X Text)
      /\ \A b \in Bank : mem.next[b] \in {0, 1} /\ mem.texts[b] \in Text /\ mem.sa[b] \in Text
  BY DEF MemTypeOK
<1>2. mem = [hWork |-> mem.hWork, dWork |-> mem.dWork, dFound |-> mem.dFound, hFound |-> mem.hFound,
             texts |-> mem.texts, sa |-> mem.sa, next |-> mem.next]
  BY <1>1
<1>3. /\ mem.hWork \in [SlotNo -> Nat] /\ mem.dWork \in [SlotNo -> Nat]
      /\ mem.dFound \in [SlotNo -> SUBSET (Nat \X Text)] /\ mem.hFound \in [SlotNo -> SUBSET (Nat \X Text)]
      /\ mem.texts \in [Bank -> Text] /\ mem.sa \in [Bank -> Text] /\ mem.next \in [Bank -> {0, 1}]
  BY <1>1
<1>4. /\ <<mem.dWork[op.s], op.c>> \in Text /\ {} \in SUBSET (Nat \X Text)
      /\ mem.dFound[op.s] \cup {<<mem.dWork[op.s], mem.sa[op.st]>>} \in SUBSET (Nat \X Text)
  BY <1>1 DEF Text
<1>5. ASSUME NEW dw, NEW df, NEW hf, NEW te, NEW sa1, NEW ne,
              mem' = [hWork |-> mem.hWork, dWork |-> dw, dFound |-> df,
                      hFound |-> hf, texts |-> te, sa |-> sa1, next |-> ne],
              dw \in [SlotNo -> Nat], df \in [SlotNo -> SUBSET (Nat \X Text)],
              hf \in [SlotNo -> SUBSET (Nat \X Text)],
              te \in [Bank -> Text], sa1 \in [Bank -> Text], ne \in [Bank -> {0, 1}]
       PROVE  MemTypeOK'
  <2>1. mem' \in [hWork : [SlotNo -> Nat], dWork : [SlotNo -> Nat],
                  dFound : [SlotNo -> SUBSET (Nat \X Text)], hFound : [SlotNo -> SUBSET (Nat \X Text)],
                  texts : [Bank -> Text], sa : [Bank -> Text], next : [Bank -> {0, 1}]]
    BY <1>3, <1>5
  <2> QED BY <2>1, Zenon DEF MemTypeOK
<1>6. CASE op.kind = "upload"
  <2>1. mem' = [mem EXCEPT !.dWork[op.s] = mem.hWork[op.s], !.dFound[op.s] = {}]
    BY <1>6 DEF Effect
  <2>2. mem' = [hWork |-> mem.hWork, dWork |-> [mem.dWork EXCEPT ![op.s] = mem.hWork[op.s]],
                dFound |-> [mem.dFound EXCEPT ![op.s] = {}], hFound |-> mem.hFound,
                texts |-> mem.texts, sa |-> mem.sa, next |-> mem.next]
    BY <1>2, <2>1
  <2>3. /\ [mem.dWork EXCEPT ![op.s] = mem.hWork[op.s]] \in [SlotNo -> Nat]
        /\ [mem.dFound EXCEPT ![op.s] = {}] \in [SlotNo -> SUBSET (Nat \X Text)]
    BY <1>1, <1>3, <1>4
  <2>4. MemTypeOK'
    BY <1>3, <1>5, <2>2, <2>3
  <2> QED BY <1>3, <1>6, <2>2, <2>4 DEF Fresh
<1>7. CASE op.kind = "stage1"
  <2>1. mem' = [mem EXCEPT !.texts[op.st] = <<mem.dWork[op.s], op.c>>]
    BY <1>7 DEF Effect
  <2>2. mem' = [hWork |-> mem.hWork, dWork |-> mem.dWork, dFound |-> mem.dFound,
                hFound |-> mem.hFound,
                texts |-> [mem.texts EXCEPT ![op.st] = <<mem.dWork[op.s], op.c>>], sa |-> mem.sa,
                next |-> mem.next]
    BY <1>2, <2>1
  <2>3. [mem.texts EXCEPT ![op.st] = <<mem.dWork[op.s], op.c>>] \in [Bank -> Text]
    BY <1>1, <1>3, <1>4
  <2>4. MemTypeOK'
    BY <1>3, <1>5, <2>2, <2>3
  <2> QED BY <1>3, <1>7, <2>2, <2>4 DEF Fresh
<1>8. CASE op.kind = "clear"
  <2>1. mem' = [mem EXCEPT !.next[op.st] = 0]
    BY <1>8 DEF Effect
  <2>2. mem' = [hWork |-> mem.hWork, dWork |-> mem.dWork, dFound |-> mem.dFound,
                hFound |-> mem.hFound, texts |-> mem.texts, sa |-> mem.sa,
                next |-> [mem.next EXCEPT ![op.st] = 0]]
    BY <1>2, <2>1
  <2>3. [mem.next EXCEPT ![op.st] = 0] \in [Bank -> {0, 1}]
    BY <1>1, <1>3, <1>4
  <2>4. MemTypeOK'
    BY <1>3, <1>5, <2>2, <2>3
  <2> QED BY <1>3, <1>8, <2>2, <2>4 DEF Fresh
<1>9. CASE op.kind = "sort" /\ mem.next[op.st] = 0
  <2>1. mem' = [mem EXCEPT !.sa[op.st] = mem.texts[op.st], !.next[op.st] = 1]
    BY <1>9 DEF Effect
  <2>2. mem' = [hWork |-> mem.hWork, dWork |-> mem.dWork, dFound |-> mem.dFound,
                hFound |-> mem.hFound, texts |-> mem.texts,
                sa |-> [mem.sa EXCEPT ![op.st] = mem.texts[op.st]],
                next |-> [mem.next EXCEPT ![op.st] = 1]]
    BY <1>2, <2>1
  <2>3. /\ [mem.sa EXCEPT ![op.st] = mem.texts[op.st]] \in [Bank -> Text]
        /\ [mem.next EXCEPT ![op.st] = 1] \in [Bank -> {0, 1}]
    BY <1>1, <1>3, <1>4
  <2>4. MemTypeOK'
    BY <1>3, <1>5, <2>2, <2>3
  <2> QED BY <1>3, <1>9, <2>2, <2>4 DEF Fresh
<1>10. CASE op.kind = "sort" /\ mem.next[op.st] # 0
  <2>1. mem' = mem /\ mem.next[op.st] = 1
    BY <1>1, <1>10 DEF Effect
  <2>2. MemTypeOK'
    BY <2>1 DEF MemTypeOK, SlotNo, Bank, Text
  <2> QED BY <1>1, <1>10, <2>1, <2>2 DEF Fresh
<1>11. CASE op.kind = "sha"
  <2>1. mem' = [mem EXCEPT !.dFound[op.s] = @ \cup {<<mem.dWork[op.s], mem.sa[op.st]>>}]
    BY <1>11 DEF Effect
  <2>2. mem' = [hWork |-> mem.hWork, dWork |-> mem.dWork,
                dFound |-> [mem.dFound EXCEPT ![op.s] = mem.dFound[op.s] \cup {<<mem.dWork[op.s], mem.sa[op.st]>>}],
                hFound |-> mem.hFound, texts |-> mem.texts, sa |-> mem.sa, next |-> mem.next]
    BY <1>2, <2>1
  <2>3. [mem.dFound EXCEPT ![op.s] = mem.dFound[op.s] \cup {<<mem.dWork[op.s], mem.sa[op.st]>>}]
           \in [SlotNo -> SUBSET (Nat \X Text)]
    BY <1>1, <1>3, <1>4
  <2>4. MemTypeOK'
    BY <1>3, <1>5, <2>2, <2>3
  <2>5. \A s \in SlotNo : mem'.dFound[s] = IF op.s # s THEN mem.dFound[s]
                                           ELSE mem.dFound[s] \cup {<<mem.dWork[s], mem.sa[op.st]>>}
    <3> DEFINE new == mem.dFound[op.s] \cup {<<mem.dWork[op.s], mem.sa[op.st]>>}
    <3>1. mem'.dFound = [mem.dFound EXCEPT ![op.s] = new]
      BY <2>2
    <3> HIDE DEF new
    <3>2. \A s \in SlotNo : mem'.dFound[s] = IF op.s # s THEN mem.dFound[s] ELSE new
      BY <1>3, <3>1
    <3> QED BY <3>2, Zenon DEF new
  <2>6. UNCHANGED <<mem.hWork, mem.dWork, mem.hFound, mem.texts, mem.sa, mem.next>>
    BY <2>2
  <2> QED BY <1>11, <2>4, <2>5, <2>6 DEF Fresh
<1>12. CASE op.kind = "readback"
  <2>1. mem' = [mem EXCEPT !.hFound[op.s] = mem.dFound[op.s]]
    BY <1>12 DEF Effect
  <2>2. mem' = [hWork |-> mem.hWork, dWork |-> mem.dWork, dFound |-> mem.dFound,
                hFound |-> [mem.hFound EXCEPT ![op.s] = mem.dFound[op.s]], texts |-> mem.texts,
                sa |-> mem.sa, next |-> mem.next]
    BY <1>2, <2>1
  <2>3. [mem.hFound EXCEPT ![op.s] = mem.dFound[op.s]] \in [SlotNo -> SUBSET (Nat \X Text)]
    BY <1>1, <1>3, <1>4
  <2>4. MemTypeOK'
    BY <1>3, <1>5, <2>2, <2>3
  <2> QED BY <1>3, <1>12, <2>2, <2>4 DEF Fresh
<1> QED BY <1>6, <1>7, <1>8, <1>9, <1>10, <1>11, <1>12

(* What holds when the card is through with a copy or a kernel.            *)
LEMMA FinishFacts ==
  ASSUME Control, Data, NEW op \in Pending, Finish(op)
  PROVE  /\ Ordered /\ op \in enqueued /\ op \notin finished /\ op \in Begun /\ ~ IsSync(op) /\ Placed(op)
         /\ op.s \in SlotNo /\ op.st \in Bank /\ op.c \in Nat
         /\ op.kind \in {"upload", "stage1", "clear", "sort", "sha", "readback"}
         /\ finished' = finished \cup {op} /\ enqueued' = enqueued /\ Gone' = Gone /\ Full' = Full
         /\ mem' = Effect(op, mem) /\ MemTypeOK
         /\ finished \subseteq enqueued /\ finished \subseteq Begun
         /\ \A x \in finished : x \in enqueued /\ x \in Begun /\ Placed(x) /\ x # op
<1>1. Ordered /\ op \in enqueued /\ op \notin finished /\ op \in running /\ op \in Begun /\ ~ IsSync(op)
  BY DEF Control, Pending, Finish, Begun, OnlyWorkRuns
<1>2. Placed(op) /\ op.s \in SlotNo
  BY <1>1, EnqueuedPlaced
<1>3. Gone' = Gone /\ Full' = Full
  BY DEF Finish, ring, Gone, Full
<1>4. finished \subseteq enqueued /\ finished \subseteq Begun
  BY <1>1, BegunIsEnqueued
<1>5. op.c \in Nat /\ op.st \in Bank
  BY <1>2, StreamsAssumption DEF Placed
<1>6. op.kind \in {"upload", "stage1", "clear", "sort", "sha", "readback"}
  BY <1>1, <1>2 DEF Placed, IsSync
<1> QED BY <1>1, <1>2, <1>3, <1>4, <1>5, <1>6, EnqueuedPlaced DEF Finish, Data

(* What is over once it is.                                                *)
LEMMA OverAfter ==
  ASSUME NEW op, finished' = finished \cup {op}, NEW k, NEW n, NEW c
  PROVE  Over(k, n, c)' <=> (Over(k, n, c) \/ (op.kind = k /\ op.n = n /\ op.c = c))
  BY DEF Over

(* What a bank was through with before it began on another chunk.          *)
LEMMA Overtaken ==
  ASSUME Control, Data, NEW op \in Pending, Finish(op), Kernel(op),
         NEW x \in finished, Kernel(x), x.n <= Full, x.st = op.st, ~ (x.n = op.n /\ x.c = op.c)
  PROVE  Over("sort", x.n, x.c) /\ Over("sha", x.n, x.c)
<1>1. Ordered /\ op \in enqueued /\ op \notin finished /\ op \in Begun /\ x \in enqueued /\ x \in Begun /\ x # op
  BY FinishFacts
<1>2. Earlier(x, op)
  BY <1>1, OneOrder, StreamFirst
<1> QED BY <1>1, <1>2, ChunkDone

(* One lemma for each part of Data: a copy or a kernel that finishes       *)
(* keeps it.                                                               *)
LEMMA FinishStaged == ASSUME Control, Data, NEW op \in Pending, Finish(op) PROVE MemTypeOK' /\ StagedIs'
<1>1. /\ Ordered /\ finished' = finished \cup {op} /\ enqueued' = enqueued /\ mem' = Effect(op, mem) /\ MemTypeOK
      /\ op.s \in SlotNo /\ op.st \in Bank /\ op.c \in Nat
      /\ op.kind \in {"upload", "stage1", "clear", "sort", "sha", "readback"}
  BY FinishFacts
<1>2. MemTypeOK' /\ \A s \in SlotNo : mem'.hWork[s] = mem.hWork[s]
  BY <1>1, EffectIs
<1>3. StagedIs'
  <2>1. \A x \in enqueued : x.kind = "upload" => x.s \in SlotNo
    BY <1>1, EnqueuedPlaced DEF IsSync
  <2> QED BY <1>1, <1>2, <2>1 DEF Data, StagedIs
<1> QED BY <1>2, <1>3

LEMMA FinishUploaded == ASSUME Control, Data, NEW op \in Pending, Finish(op) PROVE UploadedIs'
<1>1. /\ Ordered /\ op \in enqueued /\ op \notin finished /\ op \in Begun /\ ~ IsSync(op) /\ Placed(op)
      /\ op.s \in SlotNo /\ op.st \in Bank /\ op.c \in Nat
      /\ op.kind \in {"upload", "stage1", "clear", "sort", "sha", "readback"}
      /\ finished' = finished \cup {op} /\ enqueued' = enqueued /\ Full' = Full
      /\ mem' = Effect(op, mem) /\ MemTypeOK
      /\ \A x \in finished : x \in enqueued /\ x \in Begun /\ Placed(x) /\ x # op
  BY FinishFacts
<1>e. /\ op.s \in SlotNo /\ op.st \in Bank /\ op.c \in Nat /\ mem' = Effect(op, mem) /\ MemTypeOK
      /\ op.kind \in {"upload", "stage1", "clear", "sort", "sha", "readback"}
  BY FinishFacts
<1>2. \A s \in SlotNo :
        /\ mem'.dWork[s] = IF op.kind = "upload" /\ op.s = s THEN mem.hWork[s] ELSE mem.dWork[s]
        /\ mem'.dFound[s] = IF op.s # s \/ op.kind \notin {"upload", "sha"} THEN mem.dFound[s]
                            ELSE IF op.kind = "upload" THEN {}
                            ELSE mem.dFound[s] \cup {<<mem.dWork[s], mem.sa[op.st]>>}
  BY <1>e, EffectIs, ZenonT(40)
<1>3. \A k, n, c : Over(k, n, c)' <=> (Over(k, n, c) \/ (op.kind = k /\ op.n = n /\ op.c = c))
  BY <1>1, OverAfter
<1>4. ASSUME op.kind = "upload"
      PROVE  mem'.dWork[op.s] = op.n /\ mem'.dFound[op.s] = {<<op.n, <<op.n, c>>>> : c \in Checked(op.n)'}
  <2>1. mem.hWork[op.s] = op.n
    BY <1>1, <1>4 DEF Data, StagedIs
  <2>2. mem'.dWork[op.s] = op.n /\ mem'.dFound[op.s] = {}
    BY <1>1, <1>2, <1>4, <2>1
  <2>3. ASSUME NEW c, Over("sha", op.n, c) PROVE FALSE
    <3>1. PICK y \in finished : y.kind = "sha" /\ y.n = op.n
      BY <2>3 DEF Over
    <3>2. PICK u \in finished : u.kind = "upload" /\ u.n = op.n
      BY <1>1, <3>1, UploadOver DEF Kernel
    <3>3. u.c = op.c
      BY <1>1, <1>4, <3>2 DEF Placed
    <3> QED BY <1>1, <1>4, <3>2, <3>3, OneOver
  <2>4. Checked(op.n)' = {}
    BY <1>3, <1>4, <2>3 DEF Checked
  <2> QED BY <2>2, <2>4
<1>5. ASSUME NEW x \in finished, x.kind = "upload", x.n <= Full, ~ Over("readback", x.n, Chunks + 1)'
      PROVE  mem'.dWork[x.s] = x.n /\ mem'.dFound[x.s] = {<<x.n, <<x.n, c>>>> : c \in Checked(x.n)'}
  <2>1. x \in enqueued /\ x \in Begun /\ Placed(x) /\ x # op /\ ~ IsSync(x) /\ x.s \in SlotNo
    BY <1>1, <1>5, EnqueuedPlaced DEF IsSync
  <2>2. mem.dWork[x.s] = x.n /\ mem.dFound[x.s] = {<<x.n, <<x.n, c>>>> : c \in Checked(x.n)}
    BY <1>3, <1>5 DEF Data, UploadedIs
  <2>3. x.n \in Nat /\ op.n \in Nat
    BY <1>1, <2>1 DEF Placed
  <2>4. CASE op.n # x.n
    <3>1. op.s # x.s \/ op.kind \notin {"upload", "sha"}
      <4>1. CASE x.n < op.n
        BY <1>1, <1>3, <1>5, <2>1, <4>1, ReadBefore
      <4>2. CASE op.n < x.n
        BY <1>1, <2>1, <4>2, WorkPlaced, BatchFirst
      <4> QED BY <2>3, <2>4, <4>1, <4>2
    <3>2. Checked(x.n)' = Checked(x.n)
      BY <1>3, <2>4 DEF Checked
    <3> QED BY <1>2, <2>1, <2>2, <3>1, <3>2
  <2>5. CASE op.n = x.n /\ op.kind = "sha"
    <3>1. op.s = x.s
      BY <1>1, <2>1, <2>5, SameBatch
    <3>2. PICK p \in finished : p.kind = "sort" /\ p.n = op.n /\ p.c = op.c /\ p.st = op.st
      BY <1>1, <1>5, <2>5, ChunkOver
    <3>3. ~ Over("sha", op.n, op.c)
      BY <1>1, <2>5, OneOver
    <3>4. mem.sa[op.st] = <<x.n, op.c>>
      BY <1>5, <2>5, <3>2, <3>3 DEF Data, SuffixesAre
    <3>5. mem'.dWork[x.s] = x.n /\ mem'.dFound[x.s] = mem.dFound[x.s] \cup {<<x.n, <<x.n, op.c>>>>}
      BY <1>2, <2>1, <2>2, <2>5, <3>1, <3>4
    <3>6. op.c \in 1 .. Chunks
      BY <1>1, <2>5 DEF Placed
    <3>7. Checked(x.n)' = Checked(x.n) \cup {op.c}
      BY <1>3, <2>5, <3>6 DEF Checked
    <3> QED BY <2>2, <3>5, <3>7
  <2>6. CASE op.n = x.n /\ op.kind # "sha"
    <3>1. op.kind # "upload"
      BY <1>1, <1>5, <2>1, <2>6, OneOver DEF Placed
    <3>2. Checked(x.n)' = Checked(x.n)
      BY <1>3, <2>6 DEF Checked
    <3> QED BY <1>2, <2>1, <2>2, <2>6, <3>1, <3>2
  <2> QED BY <2>4, <2>5, <2>6
<1> QED BY <1>1, <1>4, <1>5 DEF UploadedIs

LEMMA FinishTexts == ASSUME Control, Data, NEW op \in Pending, Finish(op) PROVE TextsAre' /\ CounterIs'
<1>1. /\ Ordered /\ op \in enqueued /\ op \notin finished /\ op \in Begun /\ ~ IsSync(op) /\ Placed(op)
      /\ op.s \in SlotNo /\ op.st \in Bank /\ op.c \in Nat
      /\ op.kind \in {"upload", "stage1", "clear", "sort", "sha", "readback"}
      /\ finished' = finished \cup {op} /\ enqueued' = enqueued /\ Full' = Full
      /\ mem' = Effect(op, mem) /\ MemTypeOK
      /\ \A x \in finished : x \in enqueued /\ x \in Begun /\ Placed(x) /\ x # op
  BY FinishFacts
<1>e. /\ op.s \in SlotNo /\ op.st \in Bank /\ op.c \in Nat /\ mem' = Effect(op, mem) /\ MemTypeOK
      /\ op.kind \in {"upload", "stage1", "clear", "sort", "sha", "readback"}
  BY FinishFacts
<1>2. \A b \in Bank :
        /\ mem'.texts[b] = IF op.kind = "stage1" /\ op.st = b THEN <<mem.dWork[op.s], op.c>> ELSE mem.texts[b]
        /\ mem'.next[b] = IF op.st # b \/ op.kind \notin {"clear", "sort"} THEN mem.next[b]
                          ELSE IF op.kind = "clear" THEN 0 ELSE 1
  BY <1>e, EffectIs, ZenonT(40)
<1>3. \A k, n, c : Over(k, n, c)' <=> (Over(k, n, c) \/ (op.kind = k /\ op.n = n /\ op.c = c))
  BY <1>1, OverAfter
<1>4. ASSUME op.kind = "stage1", op.n <= Full PROVE mem'.texts[op.st] = <<op.n, op.c>>
  <2>1. PICK u \in finished : u.kind = "upload" /\ u.n = op.n /\ u.s = op.s
    BY <1>1, <1>4, UploadOver DEF Kernel
  <2>2. ~ Over("readback", u.n, Chunks + 1)
    BY <1>1, <1>4, <2>1, ReadAfter DEF Kernel
  <2>3. mem.dWork[op.s] = op.n
    BY <1>4, <2>1, <2>2 DEF Data, UploadedIs
  <2> QED BY <1>1, <1>2, <1>4, <2>3
<1>5. ASSUME NEW x \in finished, x.kind = "stage1", x.n <= Full, ~ Over("sort", x.n, x.c)'
      PROVE  mem'.texts[x.st] = <<x.n, x.c>>
  <2>1. mem.texts[x.st] = <<x.n, x.c>> /\ ~ Over("sort", x.n, x.c) /\ x.st \in Bank
    BY <1>1, <1>3, <1>5 DEF Data, TextsAre, Placed
  <2>2. ASSUME op.kind = "stage1", op.st = x.st PROVE FALSE
    <3>1. x.n = op.n /\ x.c = op.c
      BY <1>5, <2>1, <2>2, Overtaken DEF Kernel
    <3> QED BY <1>1, <1>5, <2>2, <3>1, OneOver
  <2> QED BY <1>2, <2>1, <2>2
<1>6. ASSUME NEW x \in finished, x.kind = "clear", x.n <= Full, ~ Over("sort", x.n, x.c)' PROVE mem'.next[x.st] = 0
  <2>1. mem.next[x.st] = 0 /\ ~ Over("sort", x.n, x.c) /\ x.st \in Bank
    BY <1>1, <1>3, <1>6 DEF Data, CounterIs, Placed
  <2>2. ASSUME op.kind = "sort", op.st = x.st PROVE FALSE
    <3>1. x.n = op.n /\ x.c = op.c
      BY <1>6, <2>1, <2>2, Overtaken DEF Kernel
    <3> QED BY <1>3, <1>6, <2>2, <3>1
  <2> QED BY <1>2, <2>1, <2>2
<1>7. op.kind = "clear" => mem'.next[op.st] = 0
  BY <1>1, <1>2
<1> QED BY <1>1, <1>4, <1>5, <1>6, <1>7 DEF TextsAre, CounterIs

LEMMA FinishSuffixes == ASSUME Control, Data, NEW op \in Pending, Finish(op) PROVE SuffixesAre'
<1>1. /\ Ordered /\ op \in enqueued /\ op \notin finished /\ op \in Begun /\ ~ IsSync(op) /\ Placed(op)
      /\ op.s \in SlotNo /\ op.st \in Bank /\ op.c \in Nat
      /\ op.kind \in {"upload", "stage1", "clear", "sort", "sha", "readback"}
      /\ finished' = finished \cup {op} /\ enqueued' = enqueued /\ Full' = Full
      /\ mem' = Effect(op, mem) /\ MemTypeOK
      /\ \A x \in finished : x \in enqueued /\ x \in Begun /\ Placed(x) /\ x # op
  BY FinishFacts
<1>e. /\ op.s \in SlotNo /\ op.st \in Bank /\ op.c \in Nat /\ mem' = Effect(op, mem) /\ MemTypeOK
      /\ op.kind \in {"upload", "stage1", "clear", "sort", "sha", "readback"}
  BY FinishFacts
<1>2. \A b \in Bank : mem'.sa[b] = IF Fresh(op) /\ op.st = b THEN mem.texts[b] ELSE mem.sa[b]
  BY <1>e, EffectIs, ZenonT(40)
<1>3. \A k, n, c : Over(k, n, c)' <=> (Over(k, n, c) \/ (op.kind = k /\ op.n = n /\ op.c = c))
  BY <1>1, OverAfter
<1>4. ASSUME op.kind = "sort", op.n <= Full PROVE mem'.sa[op.st] = <<op.n, op.c>>
  <2>1. PICK p \in finished : p.kind = "stage1" /\ p.n = op.n /\ p.c = op.c /\ p.st = op.st
    BY <1>1, <1>4, ChunkOver
  <2>2. PICK q \in finished : q.kind = "clear" /\ q.n = op.n /\ q.c = op.c /\ q.st = op.st
    BY <1>1, <1>4, ChunkOver
  <2>3. ~ Over("sort", op.n, op.c)
    BY <1>1, <1>4, OneOver
  <2>4. mem.texts[op.st] = <<op.n, op.c>> /\ mem.next[op.st] = 0
    BY <1>4, <2>1, <2>2, <2>3 DEF Data, TextsAre, CounterIs
  <2> QED BY <1>1, <1>2, <1>4, <2>4 DEF Fresh
<1>5. ASSUME NEW x \in finished, x.kind = "sort", x.n <= Full, ~ Over("sha", x.n, x.c)'
      PROVE  mem'.sa[x.st] = <<x.n, x.c>>
  <2>1. mem.sa[x.st] = <<x.n, x.c>> /\ ~ Over("sha", x.n, x.c) /\ x.st \in Bank
    BY <1>1, <1>3, <1>5 DEF Data, SuffixesAre, Placed
  <2>2. ASSUME op.kind = "sort", op.st = x.st PROVE FALSE
    <3>1. x.n = op.n /\ x.c = op.c
      BY <1>5, <2>1, <2>2, Overtaken DEF Kernel
    <3> QED BY <1>1, <1>5, <2>2, <3>1, OneOver
  <2> QED BY <1>2, <2>1, <2>2 DEF Fresh
<1> QED BY <1>1, <1>4, <1>5 DEF SuffixesAre

LEMMA FinishHits == ASSUME Control, Data, NEW op \in Pending, Finish(op) PROVE HitsAre'
<1>1. /\ Ordered /\ op \in enqueued /\ op \notin finished /\ op \in Begun /\ ~ IsSync(op) /\ Placed(op)
      /\ op.s \in SlotNo /\ op.st \in Bank /\ op.c \in Nat
      /\ op.kind \in {"upload", "stage1", "clear", "sort", "sha", "readback"}
      /\ finished' = finished \cup {op} /\ enqueued' = enqueued /\ Gone' = Gone /\ Full' = Full
      /\ mem' = Effect(op, mem) /\ MemTypeOK
      /\ \A x \in finished : x \in enqueued /\ x \in Begun /\ Placed(x) /\ x # op
  BY FinishFacts
<1>e. /\ op.s \in SlotNo /\ op.st \in Bank /\ op.c \in Nat /\ mem' = Effect(op, mem) /\ MemTypeOK
      /\ op.kind \in {"upload", "stage1", "clear", "sort", "sha", "readback"}
  BY FinishFacts
<1>2. \A s \in SlotNo : mem'.hFound[s] = IF op.kind = "readback" /\ op.s = s THEN mem.dFound[s] ELSE mem.hFound[s]
  BY <1>e, EffectIs, ZenonT(40)
<1>3. op.n > Gone
  BY PendingSlot
<1>4. ASSUME op.kind = "readback", op.n <= Full PROVE mem'.hFound[op.s] = Whole(op.n)
  <2>1. PICK u \in finished : u.kind = "upload" /\ u.n = op.n /\ u.s = op.s
    BY <1>1, <1>4, UploadOver
  <2>2. ~ Over("readback", op.n, Chunks + 1)
    <3>1. op.c = Chunks + 1
      BY <1>1, <1>4 DEF Placed
    <3> QED BY <1>1, <1>4, <3>1, OneOver
  <2>3. mem.dFound[op.s] = {<<op.n, <<op.n, c>>>> : c \in Checked(op.n)}
    BY <1>4, <2>1, <2>2 DEF Data, UploadedIs
  <2>4. Checked(op.n) = 1 .. Chunks
    BY <1>1, <1>4, AllChecked DEF Checked
  <2> QED BY <1>1, <1>2, <1>4, <2>3, <2>4 DEF Whole
<1>5. ASSUME NEW x \in finished, x.kind = "readback", x.n > Gone, x.n <= Full PROVE mem'.hFound[x.s] = Whole(x.n)
  <2>1. mem.hFound[x.s] = Whole(x.n) /\ ~ IsSync(x) /\ x.s \in SlotNo
    BY <1>1, <1>5, EnqueuedPlaced DEF Data, HitsAre, IsSync
  <2>2. ASSUME op.kind = "readback", op.s = x.s PROVE FALSE
    <3>1. op.n = x.n
      BY <1>1, <1>3, <1>5, <2>1, <2>2, SlotTells
    <3>2. op.c = x.c
      BY <1>1, <1>5, <2>2 DEF Placed
    <3> QED BY <1>1, <1>5, <2>2, <3>1, <3>2, OneOver
  <2> QED BY <1>2, <2>1, <2>2
<1> QED BY <1>1, <1>4, <1>5 DEF HitsAre, Whole

(* A launch stages its work in a slot that nothing on the card uses.       *)
LEMMA StageData == ASSUME Control, Data, Submit \/ SubmitBreaks PROVE Data'
<1>1. /\ ~ failed /\ Full = batches /\ Gone' = Gone /\ HasRoom /\ head \in SlotNo /\ finished' = finished
      /\ batches + 1 \in Nat /\ inflight \in Nat
  BY StageCounts
<1>2. \A x \in enqueued' : x \in enqueued \/ (x.n = batches + 1 /\ x \notin finished /\ (~ IsSync(x) => x.s = head))
  BY StagePlans
<1>3. mem' = [mem EXCEPT !.hWork[head] = batches + 1] /\ MemTypeOK
  BY DEF Submit, SubmitBreaks, Stage, Data
<1>4. /\ mem' = [hWork |-> [mem.hWork EXCEPT ![head] = batches + 1], dWork |-> mem.dWork, dFound |-> mem.dFound,
                 hFound |-> mem.hFound, texts |-> mem.texts, sa |-> mem.sa, next |-> mem.next]
      /\ mem.hWork \in [SlotNo -> Nat]
  <2>1. mem = [hWork |-> mem.hWork, dWork |-> mem.dWork, dFound |-> mem.dFound, hFound |-> mem.hFound,
               texts |-> mem.texts, sa |-> mem.sa, next |-> mem.next]
    BY <1>3 DEF MemTypeOK
  <2> QED BY <1>3, <2>1 DEF MemTypeOK
<1>5. MemTypeOK'
  <2>2. /\ mem.hWork \in [SlotNo -> Nat] /\ mem.dWork \in [SlotNo -> Nat]
        /\ mem.dFound \in [SlotNo -> SUBSET (Nat \X Text)] /\ mem.hFound \in [SlotNo -> SUBSET (Nat \X Text)]
        /\ mem.texts \in [Bank -> Text] /\ mem.sa \in [Bank -> Text] /\ mem.next \in [Bank -> {0, 1}]
    BY <1>3 DEF MemTypeOK
  <2>3. [mem.hWork EXCEPT ![head] = batches + 1] \in [SlotNo -> Nat]
    BY <1>1, <2>2
  <2>1. mem' \in [hWork : [SlotNo -> Nat], dWork : [SlotNo -> Nat],
                  dFound : [SlotNo -> SUBSET (Nat \X Text)], hFound : [SlotNo -> SUBSET (Nat \X Text)],
                  texts : [Bank -> Text], sa : [Bank -> Text], next : [Bank -> {0, 1}]]
    BY <1>4, <2>2, <2>3
  <2> QED BY <2>1, Zenon DEF MemTypeOK
<1>6. StagedIs'
  <2>1. SUFFICES ASSUME NEW x \in enqueued', x.kind = "upload", x \notin finished PROVE mem'.hWork[x.s] = x.n
    BY <1>1 DEF StagedIs
  <2>2. ~ IsSync(x)
    BY <2>1 DEF IsSync
  <2>3. CASE x \in enqueued
    <3>1. x \in Pending
      BY <2>1, <2>3 DEF Pending
    <3>2. x.n - Gone \in 1 .. inflight /\ x.s = Position(x.n - Gone)
      BY <1>1, <2>2, <3>1, PendingSlot
    <3>3. x.s # head /\ x.s \in SlotNo
      BY <1>1, <3>2, HeadIsFree DEF Control
    <3>4. mem.hWork[x.s] = x.n
      BY <2>1, <2>3 DEF Data, StagedIs
    <3> QED BY <1>4, <3>3, <3>4
  <2>4. CASE x \notin enqueued
    BY <1>1, <1>2, <1>4, <2>2, <2>4
  <2> QED BY <2>3, <2>4
<1>7. UNCHANGED <<mem.dWork, mem.dFound, mem.hFound, mem.texts, mem.sa, mem.next>>
  BY <1>4
<1>8. \A k, n, c : Over(k, n, c)' <=> Over(k, n, c)
  BY <1>1 DEF Over
<1>9. \A n : Checked(n)' = Checked(n) /\ Whole(n)' = Whole(n)
  BY <1>8 DEF Checked, Whole
<1>10. \A x \in finished : x.n <= Full
  BY <1>1, PlanOf DEF Control, Ordered, StreamsTypeOK
<1> QED BY <1>1, <1>5, <1>6, <1>7, <1>8, <1>9, <1>10 DEF Data, UploadedIs, TextsAre, CounterIs, SuffixesAre, HitsAre

(* A step that leaves the memory alone and is through with no copy or      *)
(* kernel.                                                                 *)
LEMMA QuietData ==
  ASSUME Control, Data, mem' = mem, enqueued' = enqueued, Gone' \in {Gone, Gone + 1}, Full' = Full,
         finished \subseteq finished', \A x \in finished' : x \in finished \/ IsSync(x)
  PROVE  Data'
<1>1. \A k, n, c : k \notin {"record", "wait"} => (Over(k, n, c)' <=> Over(k, n, c))
  BY DEF Over, IsSync
<1>2. \A n : Checked(n)' = Checked(n) /\ Whole(n)' = Whole(n)
  BY <1>1 DEF Checked, Whole
<1>3. \A x \in finished' : x.kind \in {"upload", "stage1", "clear", "sort", "readback"} => x \in finished
  BY DEF IsSync
<1>4. MemTypeOK'
  BY Zenon DEF Data, MemTypeOK
<1>5. StagedIs' /\ UploadedIs' /\ TextsAre' /\ CounterIs' /\ SuffixesAre'
  BY <1>1, <1>2, <1>3 DEF Data, StagedIs, UploadedIs, TextsAre, CounterIs, SuffixesAre
<1>6. HitsAre'
  <2>1. Gone \in Nat /\ \A x \in finished : x.n \in Nat
    BY PlanOf DEF Control, GoneIsOver, Ordered, StreamsTypeOK
  <2>2. \A x \in finished' : x.kind = "readback" /\ x.n > Gone' => x \in finished /\ x.n > Gone
    BY <1>3, <2>1
  <2> QED BY <1>2, <2>2 DEF Data, HitsAre
<1> QED BY <1>4, <1>5, <1>6 DEF Data

LEMMA DataStep == ASSUME Control, Data, [Next]_vars PROVE Data'
<1>1. CASE Submit \/ SubmitBreaks
  BY <1>1, StageData
<1>2. CASE Collect
  <2>1. mem' = mem /\ enqueued' = enqueued /\ finished' = finished
    BY <1>2 DEF Collect, card
  <2>2. Gone' = Gone + 1 /\ Full' = Full
    <3>1. inflight \in Nat /\ inflight > 0 /\ Gone \in Nat /\ Full = Gone + inflight
      BY <1>2, CollectedIsOver
    <3>2. Full' = Full /\ inflight' = inflight - 1
      BY <1>2 DEF Collect, CollectOk, Full
    <3> QED BY <3>1, <3>2 DEF Gone
  <2> QED BY <2>1, <2>2, QuietData
<1>3. CASE Free \/ UNCHANGED vars
  <2>1. mem' = mem /\ enqueued' = enqueued /\ finished' = finished /\ Gone' = Gone /\ Full' = Full
    BY <1>3 DEF Free, vars, card, ring, Gone, Full
  <2> QED BY <2>1, QuietData
<1>4. ASSUME NEW op \in Pending, Pass(op) \/ Start(op) PROVE Data'
  <2>1. /\ mem' = mem /\ enqueued' = enqueued /\ Gone' = Gone /\ Full' = Full /\ finished \subseteq finished'
        /\ \A x \in finished' : x \in finished \/ IsSync(x)
    BY <1>4 DEF Pass, Start, ring, Gone, Full
  <2> QED BY <2>1, QuietData
<1>5. ASSUME NEW op \in Pending, Finish(op) PROVE Data'
  BY <1>5, FinishStaged, FinishUploaded, FinishTexts, FinishSuffixes, FinishHits DEF Data
<1> QED BY <1>1, <1>2, <1>3, <1>4, <1>5 DEF Next, CardStep

(* A collect takes what the readback of its batch has put there.           *)
LEMMA CollectsWhole == ASSUME Control, Data, CollectedWhole, [Next]_vars PROVE CollectedWhole'
<1>1. CASE Collect
  <2> DEFINE n == Gone + 1
             r == Readback(n, tail)
  <2>1. r \in finished /\ slot[tail] = n /\ Gone \in Nat /\ n <= Full
    BY <1>1, CollectedIsOver
  <2>2. r.kind = "readback" /\ r.n = n /\ r.s = tail
    BY SlotFields DEF At
  <2> HIDE DEF r
  <2>3. mem.hFound[tail] = Whole(n)
    BY <2>1, <2>2 DEF Data, HitsAre
  <2>4. out' = <<n>> /\ got' = Whole(n)
    BY <1>1, <2>1, <2>3 DEF Collect, CollectOk
  <2> QED BY <2>4 DEF CollectedWhole, Whole
<1>2. CASE ~ Collect
  <2>1. UNCHANGED <<out, got>>
    BY <1>2 DEF Next, Submit, SubmitBreaks, Stage, SubmitOk, SubmitFails, Free, CardStep, Pass,
                     Start, Finish, vars, ring
  <2> QED BY <2>1 DEF CollectedWhole
<1> QED BY <1>1, <1>2

LEMMA InitHolds == Init => StreamsInv
<1> SUFFICES ASSUME Init PROVE StreamsInv
  OBVIOUS
<1>1. Control
  BY StreamsInit
<1>2. enqueued = {} /\ finished = {} /\ out = <<>>
  BY DEF Init, RingInit
<1>3. MemTypeOK
  <2>1. \A b \in Bank : <<0, 0>> \in Text
    BY DEF Text
  <2> QED BY <2>1 DEF Init, MemTypeOK
<1>4. StagedIs /\ UploadedIs /\ TextsAre /\ CounterIs /\ SuffixesAre /\ HitsAre /\ CollectedWhole
  BY <1>2 DEF StagedIs, UploadedIs, TextsAre, CounterIs, SuffixesAre, HitsAre, CollectedWhole
<1> QED BY <1>1, <1>3, <1>4 DEF StreamsInv, Data

(* Whatever the card and the host do first, whatever submit fails half way *)
(* and for any number of banks, slots, chunks and batches: a collect       *)
(* returns every hit of its batch and no other, and the slot for the next  *)
(* batch is free.                                                          *)
THEOREM BatchesAreWhole == Spec => []BatchesWhole
<1>1. Init => StreamsInv
  BY InitHolds
<1>2. StreamsInv /\ [Next]_vars => StreamsInv'
  BY ControlStep, DataStep, CollectsWhole DEF StreamsInv
<1>3. StreamsInv => BatchesWhole
  BY ControlIsEnough DEF StreamsInv, Control, Ordered, BatchesWhole
<1> QED BY <1>1, <1>2, <1>3, PTL DEF Spec

(* The ring under the streams is the header's queue.                       *)
THEOREM StreamsKeepTheQueue == Spec => ImplementsQueue
<1>1. Init => RingInit
  BY DEF Init
<1>2. Init => Control
  BY StreamsInit
<1>3. Control /\ [Next]_vars => Control'
  BY ControlStep
<1>4. Control /\ [Next]_vars => [RingNext]_ring
  BY RingMoves
<1>5. Spec => RingSpec
  BY <1>1, <1>2, <1>3, <1>4, PTL DEF Spec, RingSpec
<1> QED BY <1>5, RingImplementsQueue, PTL
=============================================================================
