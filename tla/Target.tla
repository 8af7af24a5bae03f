---------------------------- MODULE Target ----------------------------
(***************************************************************************)
(* The difficulty check of cmd/derostorm: the target a worker derives from *)
(* a job's difficulty and compares every hash with (target.go), the        *)
(* big-integer check it replaces (difficulty.go), and the difficulty a     *)
(* share is credited with (engine.go).                                     *)
(*                                                                         *)
(* Integers keep their width: a hash is 4 * WordBytes bytes, a limb is     *)
(* WordBytes of them.  The code has 8 bytes a limb and 256 values a byte.  *)
(***************************************************************************)
EXTENDS Integers

CONSTANTS
  ByteBase,     \* values of a byte
  WordBytes,    \* bytes of a limb
  WordBase,     \* values of a limb, 2^64
  Difficulty    \* the difficulties a job may name

(* What n bytes can hold.                                                  *)
ValuesOf(n) ==
  LET upto[i \in 0 .. n] == IF i = 0 THEN 1 ELSE upto[i - 1] * ByteBase
  IN  upto[n]

ASSUME TargetAssumption ==
  /\ ByteBase \in Nat \ {0, 1} /\ WordBytes \in Nat \ {0}
  /\ WordBase \in Nat \ {0, 1} /\ WordBase = ValuesOf(WordBytes)
  /\ Difficulty \subseteq Int

LimbNo == 0 .. 3
Word   == 0 .. WordBase - 1
ByteNo == 0 .. 4 * WordBytes - 1
Hash   == [ByteNo -> 0 .. ByteBase - 1]

(* oneLsh256 *)
Size   == WordBase * (WordBase * (WordBase * WordBase))

(* The first n elements of b read as one number, the first or the last of  *)
(* them as its highest digit.                                              *)
BigEndian(b, n) ==
  LET upto[i \in 0 .. n] == IF i = 0 THEN 0 ELSE upto[i - 1] * ByteBase + b[i - 1]
  IN  upto[n]
LittleEndian(b, n) == BigEndian([i \in 0 .. n - 1 |-> b[n - 1 - i]], n)

-----------------------------------------------------------------------------
(* difficulty.go: the hash reversed and read big-endian, against           *)
(* floor(2^256 / difficulty).                                              *)
HashToBig(h) ==
  BigEndian([i \in ByteNo |-> h[4 * WordBytes - 1 - i]], 4 * WordBytes)

CheckPowHashBig(h, d) == HashToBig(h) <= Size \div d

-----------------------------------------------------------------------------
(* target.go *)

(* The limbs of a number, least significant first.                         *)
Limb(t, i) ==
  CASE i = 0 -> t % WordBase
    [] i = 1 -> (t \div WordBase) % WordBase
    [] i = 2 -> ((t \div WordBase) \div WordBase) % WordBase
    [] i = 3 -> (((t \div WordBase) \div WordBase) \div WordBase) % WordBase

NeverAll(t) == FALSE
(* t.BitLen() > 256 *)
TooWide(t)  == t >= Size

NewTarget(d) ==
  LET t == Size \div d
  IN  [all |-> TooWide(t), limb |-> [i \in LimbNo |-> IF TooWide(t) THEN 0 ELSE Limb(t, i)]]

(* binary.LittleEndian.Uint64 of the bytes of limb i.                      *)
Loaded(h) == [i \in LimbNo |-> LittleEndian([j \in 0 .. WordBytes - 1 |-> h[i * WordBytes + j]], WordBytes)]

(* The number four limbs stand for.                                        *)
Number(l) == l[0] + WordBase * (l[1] + WordBase * (l[2] + WordBase * l[3]))

(* The limbs loaded from a hash are words, and together the number the     *)
(* big-integer check reads.                                                *)
ReadingsAgree ==
  \A h \in Hash : Loaded(h) \in [LimbNo -> Word] /\ HashToBig(h) = Number(Loaded(h))

(* Slip: equality is left out. *)
StrictBelow(v, l) ==
  \/ v[3] < l[3]
  \/ v[3] = l[3] /\ v[2] < l[2]
  \/ v[3] = l[3] /\ v[2] = l[2] /\ v[1] < l[1]
  \/ v[3] = l[3] /\ v[2] = l[2] /\ v[1] = l[1] /\ v[0] < l[0]

(* The comparison limb by limb, most significant first.                    *)
AtMost(v, l) ==
  \/ v[3] < l[3]
  \/ v[3] = l[3] /\ v[2] < l[2]
  \/ v[3] = l[3] /\ v[2] = l[2] /\ v[1] < l[1]
  \/ v[3] = l[3] /\ v[2] = l[2] /\ v[1] = l[1] /\ v[0] <= l[0]

Meets(t, h) == t.all \/ AtMost(Loaded(h), t.limb)

(* Slip: the high bits are cut off. *)
Truncated(d) == d % WordBase

(* engine.go: what a share is credited with, floor(2^256 / hash) in 64     *)
(* bits.                                                                   *)
Saturated(d) == IF d < WordBase THEN d ELSE WordBase - 1
shareDifficulty(h) ==
  IF HashToBig(h) = 0 THEN 0 ELSE Saturated(Size \div HashToBig(h))

-----------------------------------------------------------------------------
VARIABLES
  diff,       \* the difficulty of the job that is mined, 0 for none
  target,     \* the target made from it
  hash,       \* the last hash, <<>> before the first of a job
  accepted,   \* what Meets said of it
  credited    \* the shareDifficulty submit() took it for, 0 if it was none

vars == <<diff, target, hash, accepted, credited>>

NoTarget == [all |-> FALSE, limb |-> [i \in LimbNo |-> 0]]

Init ==
  /\ diff = 0 /\ target = NoTarget
  /\ hash = <<>> /\ accepted = FALSE /\ credited = 0

(* Slip: a negative difficulty passes. *)
AnySign(d) == d # 0

(* diff.Sign() <= 0 sends the worker to sleep on the job.                  *)
Positive(d) == d > 0

NewJob(d) ==
  /\ diff' = IF Positive(d) THEN d ELSE 0
  /\ target' = IF Positive(d) THEN NewTarget(d) ELSE NoTarget
  /\ hash' = <<>> /\ accepted' = FALSE /\ credited' = 0

TryHash(h) ==
  /\ diff # 0
  /\ hash' = h
  /\ accepted' = Meets(target, h)
  /\ credited' = IF Meets(target, h) THEN shareDifficulty(h) ELSE 0
  /\ UNCHANGED <<diff, target>>

Next == (\E d \in Difficulty : NewJob(d)) \/ (\E h \in Hash : TryHash(h))

Spec == Init /\ [][Next]_vars

-----------------------------------------------------------------------------
TargetTypeOK ==
  /\ diff \in {0} \cup {d \in Difficulty : d > 0}
  /\ target \in [all : BOOLEAN, limb : [LimbNo -> Word]]
  /\ accepted \in BOOLEAN
  /\ credited \in Word

(* The four-limb comparison of the hashing loop accepts exactly the hashes *)
(* the big-integer check accepts, for every difficulty, 1 included.        *)
AcceptsAsReference ==
  hash # <<>> => (accepted <=> CheckPowHashBig(hash, diff))

(* A share is credited with at least the difficulty it was mined for, as   *)
(* far as 64 bits can say; only a hash of zero, which has no quotient, is  *)
(* credited with nothing.                                                  *)
CreditCoversDifficulty ==
  accepted /\ HashToBig(hash) # 0 => credited >= diff \/ credited = WordBase - 1
=============================================================================
