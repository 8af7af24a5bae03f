-------------------------- MODULE GpuStreams --------------------------
(***************************************************************************)
(* What the card does with the batches of gpu/derostorm_gpu.cu: the copies *)
(* and kernels dsg_submit and runChunk enqueue on one stream per bank, the *)
(* events that order the streams, dsg_collect's wait and dsg_free.  The    *)
(* host enqueues a batch in one step, which hides nothing: an operation    *)
(* not yet enqueued is one that the card has not started.                  *)
(*                                                                         *)
(* An operation knows its place in the order of the host's calls, so the   *)
(* queues of the streams are one set: a stream runs what it was given in   *)
(* that order, one at a time, and two streams run side by side but for the *)
(* waits.                                                                  *)
(*                                                                         *)
(* A batch is its number.  Memory holds which batch and chunk the data is  *)
(* of, so that what a collect returns says which kernels it came from.     *)
(***************************************************************************)
EXTENDS GpuRing, Integers

CONSTANTS
  DSG_BANKS,
  Chunks,            \* chunks a batch is cut into, ctx->batch over ctx->chunk
  MaxBatches         \* bound: batches submitted

ASSUME StreamsAssumption ==
  /\ DSG_BANKS \in Nat \ {0}
  /\ Chunks \in Nat \ {0} /\ MaxBatches \in Nat /\ Batch = 1 .. MaxBatches

VARIABLES
  DSG_OVERLAP_SHA,   \* of the build: a SHA check may run beside the next sort
  batches,   \* how many batches were submitted, the one that failed included
  failed,    \* a submit failed: the caller collects what is left and closes
  nextBank,  \* ctx->nextBank
  enqueued,  \* the operations given to the streams
  finished,  \* those of them the card is through with
  running,   \* those it works on
  mem,       \* the buffers
  got,       \* the hits the last collect returned
  freed      \* how many of the steps of dsg_free are done

build == <<DSG_OVERLAP_SHA, nextBank>>
card == <<enqueued, finished, running, mem>>
vars == <<ring, batches, failed, build, card, got, freed>>

Bank    == 0 .. DSG_BANKS - 1
Others  == Bank \ {0}

(* An operation: the batch n it is of, the chunk c, which is 0 for what    *)
(* comes before the first and Chunks + 1 for what comes after the last,    *)
(* and its place i there; its stream, which is the number of the bank that *)
(* a kernel works in; the slot it is for, or the event.                    *)
Op(n, c, i, st, kind, s)    == [n |-> n, c |-> c, i |-> i, st |-> st, kind |-> kind, s |-> s, ev |-> <<"none", 0>>]
Sync(n, c, i, st, kind, ev) == [n |-> n, c |-> c, i |-> i, st |-> st, kind |-> kind, s |-> 0, ev |-> ev]
Record(n, c, i, st, ev)     == Sync(n, c, i, st, "record", ev)
Wait(n, c, i, st, ev)       == Sync(n, c, i, st, "wait", ev)
IsSync(op)                  == op.kind \in {"record", "wait"}
(* The kernels: their launch returns no error, cudaGetLastError does.      *)
Launched                    == {"stage1", "sort", "sha"}

-----------------------------------------------------------------------------
(* What is enqueued, with the slips that leave one ordering out.           *)

NoUploadOrder(n)    == {}
(* The other banks wait until the lead bank's stream has the work.         *)
UploadOrder(n)      ==
  {Record(n, 0, 1, 0, <<"drained", 0>>)} \cup {Wait(n, 0, b + 1, b, <<"drained", 0>>) : b \in Others}

NoDrainOrder(n)     == {}
(* The lead stream waits for every other bank's last kernel.               *)
DrainOrder(n)       ==
  {Record(n, Chunks + 1, 2 * b, b, <<"drained", b>>) : b \in Others}
    \cup {Wait(n, Chunks + 1, 2 * b + 1, 0, <<"drained", b>>) : b \in Others}

NoSortOrder(n, c, b) == {}
(* A chunk's sort waits for the last sort of every other bank.             *)
SortOrder(n, c, b)  == {Wait(n, c, o + 2, b, <<"sorted", o>>) : o \in Bank \ {b}}

AfterSort(k)        == DSG_BANKS + 2 + k
SortThenRelease(n, c, b, s) ==
  {Op(n, c, AfterSort(0), b, "sort", s), Record(n, c, AfterSort(1), b, <<"sorted", b>>),
   Op(n, c, AfterSort(2), b, "sha", s)}
(* `sorted` is recorded after the sort or after the SHA check.             *)
SortAndCheck(n, c, b, s) ==
  IF DSG_OVERLAP_SHA
  THEN SortThenRelease(n, c, b, s)
  ELSE {Op(n, c, AfterSort(0), b, "sort", s), Op(n, c, AfterSort(1), b, "sha", s),
        Record(n, c, AfterSort(2), b, <<"sorted", b>>)}

RunChunk(n, c, b, s) ==
  {Op(n, c, 0, b, "stage1", s), Op(n, c, 1, b, "clear", s)}
    \cup SortOrder(n, c, b) \cup SortAndCheck(n, c, b, s)

BankOfChunk(first, c) == (first + c - 1) % DSG_BANKS

RunChunks(n, s, first) == UNION {RunChunk(n, c, BankOfChunk(first, c), s) : c \in 1 .. Chunks}

(* Batch n in slot s, when ctx->nextBank is first.                         *)
Enqueued(n, s, first) ==
  {Op(n, 0, 0, 0, "upload", s)}
    \cup UploadOrder(n)
    \cup RunChunks(n, s, first)
    \cup DrainOrder(n)
    \cup {Op(n, Chunks + 1, 2 * DSG_BANKS, 0, "readback", s),
          Record(n, Chunks + 1, 2 * DSG_BANKS + 1, 0, <<"done", s>>)}

(* The order of the calls.                                                 *)
Earlier(x, y) ==
  \/ x.n < y.n
  \/ x.n = y.n /\ x.c < y.c
  \/ x.n = y.n /\ x.c = y.c /\ x.i < y.i

-----------------------------------------------------------------------------
(* What an operation touches.  A SHA check adds to the counter atomically, *)
(* so two of them may do it at once.                                       *)
Reads(op) ==
  CASE op.kind = "upload"   -> {<<"hWork", op.s>>}
    [] op.kind = "stage1"   -> {<<"dWork", op.s>>}
    [] op.kind = "sort"     -> {<<"texts", op.st>>}
    [] op.kind = "sha"      -> {<<"sa", op.st>>, <<"dWork", op.s>>}
    [] op.kind = "readback" -> {<<"dFound", op.s>>}
    [] OTHER -> {}
Writes(op) ==
  CASE op.kind = "upload"   -> {<<"dWork", op.s>>, <<"dFound", op.s>>}
    [] op.kind = "stage1"   -> {<<"texts", op.st>>}
    [] op.kind = "clear"    -> {<<"next", op.st>>}
    [] op.kind = "sort"     -> {<<"sa", op.st>>, <<"next", op.st>>, <<"pool", 0>>}
    [] op.kind = "readback" -> {<<"hFound", op.s>>}
    [] OTHER -> {}
Adds(op) == IF op.kind = "sha" THEN {<<"dFound", op.s>>} ELSE {}

(* Its effect once it is done.  A sort whose work counter was not reset    *)
(* finds no text left to sort.                                             *)
Effect(op, m) ==
  CASE op.kind = "upload" ->
         [m EXCEPT !.dWork[op.s] = m.hWork[op.s], !.dFound[op.s] = {}]
    [] op.kind = "stage1" -> [m EXCEPT !.texts[op.st] = <<m.dWork[op.s], op.c>>]
    [] op.kind = "clear"  -> [m EXCEPT !.next[op.st] = 0]
    [] op.kind = "sort"   ->
         IF m.next[op.st] = 0
         THEN [m EXCEPT !.sa[op.st] = m.texts[op.st], !.next[op.st] = 1] ELSE m
    [] op.kind = "sha"    ->
         [m EXCEPT !.dFound[op.s] = @ \cup {<<m.dWork[op.s], m.sa[op.st]>>}]
    [] op.kind = "readback" -> [m EXCEPT !.hFound[op.s] = m.dFound[op.s]]

-----------------------------------------------------------------------------
Init ==
  /\ RingInit /\ DSG_OVERLAP_SHA \in BOOLEAN
  /\ batches = 0 /\ failed = FALSE /\ nextBank = 0
  /\ enqueued = {} /\ finished = {} /\ running = {}
  /\ mem = [hWork |-> [s \in SlotNo |-> 0], dWork |-> [s \in SlotNo |-> 0],
            dFound |-> [s \in SlotNo |-> {}], hFound |-> [s \in SlotNo |-> {}],
            texts |-> [b \in Bank |-> <<0, 0>>], sa |-> [b \in Bank |-> <<0, 0>>],
            next |-> [b \in Bank |-> 0]]
  /\ got = {} /\ freed = 0

Pending == enqueued \ finished

(* The host's side of a batch, and the work staged in the slot's buffer.   *)
Stage ==
  /\ ~failed /\ freed = 0 /\ batches < MaxBatches
  /\ batches' = batches + 1
  /\ mem' = [mem EXCEPT !.hWork[head] = batches + 1]
  /\ UNCHANGED <<DSG_OVERLAP_SHA, finished, running, got, freed>>

(* dsg_submit *)
Submit ==
  /\ Stage /\ SubmitOk(batches + 1)
  /\ enqueued' = enqueued \cup Enqueued(batches + 1, head, nextBank)
  /\ nextBank' = (nextBank + Chunks) % DSG_BANKS
  /\ UNCHANGED failed

(* The calls made when one of them fails: a copy or an event ends the      *)
(* submit there, a launch is only asked about when its chunk is through.   *)
Called(ops, call) ==
  IF call.kind \in Launched THEN {op \in ops : op.c <= call.c} ELSE {op \in ops : Earlier(op, call)}

(* A call into the runtime failed, and any launch of the same chunk may    *)
(* have: all that was called but these is enqueued.                        *)
SubmitBreaks ==
  /\ Stage /\ SubmitFails(batches + 1)
  /\ failed' = TRUE
  /\ LET ops == Enqueued(batches + 1, head, nextBank)
     IN  \E call \in ops : \E lost \in SUBSET {op \in ops : op.kind \in Launched /\ op.c = call.c} :
           /\ enqueued' = enqueued \cup (Called(ops, call) \ (lost \cup {call}))
           /\ nextBank' = (nextBank + (IF call.c <= Chunks THEN call.c ELSE Chunks)) % DSG_BANKS

NoWait              == TRUE
(* cudaEventSynchronize(sl->done)                                          *)
DoneFired           == \A op \in Pending : op.ev # <<"done", tail>>

(* dsg_collect *)
Collect ==
  /\ freed = 0 /\ DoneFired /\ CollectOk
  /\ got' = mem.hFound[tail]
  /\ UNCHANGED <<batches, failed, build, card, freed>>

LeadOnly(b)         == b # 0 \/ \A op \in Pending : op.st # b
(* cudaStreamSynchronize(ctx->bank[b].stream)                              *)
Synchronised(b)     == \A op \in Pending : op.st # b

(* dsg_free: each bank in turn is waited for and freed, then the rest.     *)
Free ==
  /\ freed <= DSG_BANKS
  /\ freed < DSG_BANKS => Synchronised(freed)
  /\ freed' = freed + 1
  /\ UNCHANGED <<ring, batches, failed, build, card, got>>

-----------------------------------------------------------------------------
(* The card *)

(* What has to be over before y begins: all that is earlier in its stream, *)
(* and for a wait the earlier records of its event, wherever they are.  An *)
(* event is always recorded in one stream, so that the last of these, for  *)
(* which the runtime waits, is through when they all are.                  *)
Before(x, y) ==
  /\ Earlier(x, y)
  /\ x.st = y.st \/ (y.kind = "wait" /\ x.kind = "record" /\ x.ev = y.ev)

Ready(op) == op \notin running /\ \A x \in Pending : ~ Before(x, op)

(* A record is reached, or a wait for one that was.                        *)
Pass(op) ==
  /\ IsSync(op) /\ Ready(op)
  /\ finished' = finished \cup {op}
  /\ UNCHANGED <<ring, batches, failed, build, enqueued, running, mem, got, freed>>

Start(op) ==
  /\ ~ IsSync(op) /\ Ready(op)
  /\ running' = running \cup {op}
  /\ UNCHANGED <<ring, batches, failed, build, enqueued, finished, mem, got, freed>>

Finish(op) ==
  /\ op \in running
  /\ running' = running \ {op} /\ finished' = finished \cup {op}
  /\ mem' = Effect(op, mem)
  /\ UNCHANGED <<ring, batches, failed, build, enqueued, got, freed>>

CardStep(op) == Pass(op) \/ Start(op) \/ Finish(op)

Next == Submit \/ SubmitBreaks \/ Collect \/ Free \/ \E op \in Pending : CardStep(op)

Spec == Init /\ [][Next]_vars

-----------------------------------------------------------------------------
StreamsTypeOK ==
  /\ RingTypeOK
  /\ DSG_OVERLAP_SHA \in BOOLEAN /\ batches \in 0 .. MaxBatches /\ failed \in BOOLEAN /\ nextBank \in Bank
  /\ finished \subseteq enqueued /\ running \subseteq Pending
  /\ freed \in 0 .. DSG_BANKS + 1

(* No two operations running at once touch the same memory but to read it  *)
(* or to add to it: no chunk's texts are overwritten under its sort, no    *)
(* two sorts share the scratch pool, no counter is read while it grows.    *)
NoConflict ==
  \A x, y \in running : x # y =>
    /\ Writes(x) \cap (Reads(y) \cup Writes(y) \cup Adds(y)) = {}
    /\ Adds(x) \cap (Reads(y) \cup Writes(y)) = {}

(* A collect returns the hits of every chunk of the batch it is for, each  *)
(* hashed from that batch's work and checked against its target, and       *)
(* nothing else.                                                           *)
CollectedWhole ==
  out # <<>> => got = {<<out[1], <<out[1], c>>>> : c \in 1 .. Chunks}

(* derostorm_gpu.cu:1087: while another batch can be submitted nothing on  *)
(* the card uses the buffers of the slot it will be staged in.             *)
SlotFreeWhenRoom ==
  inflight < DSG_SLOTS /\ ~failed => \A op \in Pending : IsSync(op) \/ op.s # head

(* dsg_free never frees memory that an operation still to run will touch:  *)
(* a bank's buffers go while the other banks' streams may be working.      *)
FreedIsIdle ==
  \A op \in Pending : ~IsSync(op) =>
    /\ op.kind \in {"stage1", "clear", "sort", "sha"} => op.st >= freed
    /\ freed <= DSG_BANKS

(* derostorm_gpu.cu:131: without DSG_OVERLAP_SHA no SHA check runs beside  *)
(* a sort.                                                                 *)
ShaKeptApart ==
  ~DSG_OVERLAP_SHA => \A x, y \in running : ~ (x.kind = "sort" /\ y.kind = "sha")

(* derostorm_gpu.cu:149: a batch's first kernel starts only when the last  *)
(* kernel of every batch before it has finished.  It holds although the    *)
(* banks have streams of their own: a batch's work goes up on the lead     *)
(* stream, behind the readback of the batch before, and every bank waits   *)
(* for it.  So a bank does not start on the next batch while this one      *)
(* drains, which the comment at 1087-1094 gives as the reason for there    *)
(* being no barrier after the readback: the waits at 1037-1044 are one.    *)
OneBatchAtATime ==
  \A x \in running, i \in 2 .. inflight :
    x.kind = "stage1" /\ x.s = Position(i) =>
      \A y \in Pending :
        y.kind \in {"stage1", "sort", "sha"} => \A j \in 1 .. i - 1 : y.s # Position(j)

(* What only waits for events of other streams keep apart never meets on   *)
(* the card: two users of one buffer, a sort and a check that share the    *)
(* arithmetic units, two batches, and a kernel with memory that was freed. *)
KeptApart == NoConflict /\ ShaKeptApart /\ OneBatchAtATime /\ FreedIsIdle

(* Every batch is collected whole, and as long as the library takes        *)
(* another one the slot for it is free, whatever submits failed half way.  *)
BatchesWhole == StreamsTypeOK /\ CollectedWhole /\ SlotFreeWhenRoom
=============================================================================
