--------------------------- MODULE Host_proofs ----------------------------
(***************************************************************************)
(* What the miner does with a hash, and what it keeps beside its workers,  *)
(* for every value of the constants.  First what is hashed, what is taken  *)
(* for a share and how it is counted: the check, limb by limb, is the      *)
(* big-integer check, for bytes and limbs of any width; no input is hashed *)
(* twice, for any threads, cards, jobs and restarts; and what the sampler  *)
(* shows accounts for the hashes counted between its reads.  Then the      *)
(* status document, the library cache, the node's sample and the settings, *)
(* one section each, with the inductive invariant that carries what the    *)
(* section's theorems state; then the cards and their rows, for any rig;   *)
(* and what each part of Host keeps by itself, kept where any one of them  *)
(* is followed.                                                            *)
(***************************************************************************)
EXTENDS Host, FiniteSetTheorems, WellFoundedInduction, TLAPS

-----------------------------------------------------------------------------
(* Reading a hash.                                                         *)

(* A set of numbers that holds 0 and with a number its successor holds     *)
(* them all: induction, for what can be collected in a set.                *)
LEMMA Induction ==
  ASSUME NEW T, 0 \in T, \A n \in Nat : n \in T => n + 1 \in T
  PROVE  Nat \subseteq T
<1> DEFINE Missing == Nat \ T
           Below == {p \in Nat \X Nat : p[1] < p[2]}
<1>1. Below = OpToRel(<, Nat)
  BY DEF OpToRel
<1>2. \A m, n \in Nat : m < n => <<m, n>> \in Below
  OBVIOUS
<1> HIDE DEF Below
<1>3. IsWellFoundedOn(Below, Nat)
  BY <1>1, NatLessThanWellFounded
<1>4. ASSUME Missing # {} PROVE FALSE
  <2>1. PICK n \in Missing : \A m \in Missing : ~ (<<m, n>> \in Below)
    BY <1>3, <1>4, WFMin
  <2>2. n \in Nat /\ n \notin T /\ n # 0
    OBVIOUS
  <2>3. n - 1 \in Nat /\ (n - 1) + 1 = n /\ n - 1 < n
    BY <2>2
  <2>4. n - 1 \notin Missing
    BY <1>2, <2>1, <2>2, <2>3
  <2> QED BY <2>2, <2>3, <2>4
<1> QED BY <1>4

(* u reads the first digits of b, more and more of them.                   *)
ReadsTo(u, b, n) ==
  u = [i \in 0 .. n |-> IF i = 0 THEN 0 ELSE u[i - 1] * ByteBase + b[i - 1]]

LEMMA ReadsBy ==
  ASSUME NEW u, NEW b, NEW n \in Nat, ReadsTo(u, b, n)
  PROVE  u[0] = 0 /\ \A i \in 0 .. n - 1 : u[i + 1] = u[i] * ByteBase + b[i]
<1>1. u[0] = 0
  BY DEF ReadsTo
<1>2. ASSUME NEW i \in 0 .. n - 1 PROVE u[i + 1] = u[i] * ByteBase + b[i]
  <2>1. i + 1 \in 0 .. n /\ i + 1 # 0 /\ (i + 1) - 1 = i
    OBVIOUS
  <2> QED BY <2>1 DEF ReadsTo
<1> QED BY <1>1, <1>2

(* The equations that define the readings have a solution, so the readings *)
(* satisfy them.                                                           *)
LEMMA BigEndianIs ==
  ASSUME NEW b, NEW n \in Nat
  PROVE  \E f : BigEndian(b, n) = f[n] /\ ReadsTo(f, b, n)
<1> DEFINE Solves(f, m) ==
             f = [i \in 0 .. m |-> IF i = 0 THEN 0 ELSE f[i - 1] * ByteBase + b[i - 1]]
           T == {m \in Nat : \E f : Solves(f, m)}
<1>1. 0 \in T
  <2>1. Solves([i \in 0 .. 0 |-> 0], 0)
    OBVIOUS
  <2> QED BY <2>1
<1>2. ASSUME NEW m \in Nat, m \in T PROVE m + 1 \in T
  <2>1. PICK f : Solves(f, m)
    BY <1>2
  <2> DEFINE g == [i \in 0 .. m + 1 |-> IF i <= m THEN f[i] ELSE f[m] * ByteBase + b[m]]
  <2>2. \A i \in 0 .. m + 1 :
          g[i] = IF i = 0 THEN 0 ELSE g[i - 1] * ByteBase + b[i - 1]
    <3> TAKE i \in 0 .. m + 1
    <3>1. CASE i <= m
      <4>1. g[i] = f[i] /\ (i # 0 => g[i - 1] = f[i - 1])
        BY <3>1
      <4>2. f[i] = IF i = 0 THEN 0 ELSE f[i - 1] * ByteBase + b[i - 1]
        BY <2>1, <3>1
      <4> QED BY <4>1, <4>2
    <3>2. CASE i = m + 1
      BY <3>2
    <3> QED BY <3>1, <3>2
  <2>3. g = [i \in 0 .. m + 1 |-> g[i]]
    OBVIOUS
  <2> HIDE DEF g
  <2>4. Solves(g, m + 1)
    BY <2>2, <2>3, Zenon
  <2> QED BY <2>4
<1>3. n \in T
  <2> HIDE DEF T
  <2> QED BY <1>1, <1>2, Induction
<1>4. PICK f : Solves(f, n)
  BY <1>3
<1>5. Solves(CHOOSE g : Solves(g, n), n)
  BY <1>4
<1>6. BigEndian(b, n) = (CHOOSE g : Solves(g, n))[n]
  BY DEF BigEndian
<1> QED BY <1>5, <1>6 DEF ReadsTo

LEMMA ValuesOfIs ==
  ASSUME NEW n \in Nat
  PROVE  \E f : /\ ValuesOf(n) = f[n]
                /\ f = [i \in 0 .. n |-> IF i = 0 THEN 1 ELSE f[i - 1] * ByteBase]
<1> DEFINE Solves(f, m) == f = [i \in 0 .. m |-> IF i = 0 THEN 1 ELSE f[i - 1] * ByteBase]
           T == {m \in Nat : \E f : Solves(f, m)}
<1>1. 0 \in T
  <2>1. Solves([i \in 0 .. 0 |-> 1], 0)
    OBVIOUS
  <2> QED BY <2>1
<1>2. ASSUME NEW m \in Nat, m \in T PROVE m + 1 \in T
  <2>1. PICK f : Solves(f, m)
    BY <1>2
  <2> DEFINE g == [i \in 0 .. m + 1 |-> IF i <= m THEN f[i] ELSE f[m] * ByteBase]
  <2>2. \A i \in 0 .. m + 1 : g[i] = IF i = 0 THEN 1 ELSE g[i - 1] * ByteBase
    <3> TAKE i \in 0 .. m + 1
    <3>1. CASE i <= m
      <4>1. g[i] = f[i] /\ (i # 0 => g[i - 1] = f[i - 1])
        BY <3>1
      <4>2. f[i] = IF i = 0 THEN 1 ELSE f[i - 1] * ByteBase
        BY <2>1, <3>1
      <4> QED BY <4>1, <4>2
    <3>2. CASE i = m + 1
      BY <3>2
    <3> QED BY <3>1, <3>2
  <2>3. g = [i \in 0 .. m + 1 |-> g[i]]
    OBVIOUS
  <2> HIDE DEF g
  <2>4. Solves(g, m + 1)
    BY <2>2, <2>3, Zenon
  <2> QED BY <2>4
<1>3. n \in T
  <2> HIDE DEF T
  <2> QED BY <1>1, <1>2, Induction
<1>4. PICK f : Solves(f, n)
  BY <1>3
<1>5. Solves(CHOOSE g : Solves(g, n), n)
  BY <1>4
<1>6. ValuesOf(n) = (CHOOSE g : Solves(g, n))[n]
  BY DEF ValuesOf
<1> QED BY <1>5, <1>6

Digit == 0 .. ByteBase - 1
Digits(b, n) == \A i \in 0 .. n - 1 : b[i] \in Digit
(* d is the run of WordBytes digits of b that begins at from.              *)
RunOf(d, b, from) == \A j \in 0 .. WordBytes - 1 : d[j] = b[from + j]

(* A reading is a number, whatever digits it is of.                        *)
LEMMA ReadingsAreNumbers ==
  ASSUME NEW n \in Nat, NEW b, Digits(b, n), NEW u,
         ReadsTo(u, b, n)
  PROVE  \A k \in 0 .. n : u[k] \in Nat
<1>0. ByteBase \in Nat
  BY TargetAssumption
<1> DEFINE T == {k \in Nat : k <= n => u[k] \in Nat}
<1>1. 0 \in T
  BY ReadsBy
<1>2. ASSUME NEW k \in Nat, k \in T PROVE k + 1 \in T
  <2> SUFFICES ASSUME k + 1 <= n PROVE u[k + 1] \in Nat
    OBVIOUS
  <2>1. u[k] \in Nat /\ b[k] \in Nat
    BY <1>0, <1>2 DEF Digits, Digit
  <2>2. u[k + 1] = u[k] * ByteBase + b[k]
    BY ReadsBy
  <2> QED BY <1>0, <2>1, <2>2
<1>3. Nat \subseteq T
  <2> HIDE DEF T
  <2> QED BY <1>1, <1>2, Induction
<1>4. \A k \in T : k <= n => u[k] \in Nat
  OBVIOUS
<1> HIDE DEF T
<1> QED BY <1>3, <1>4

(* Reading on through a run of the digits multiplies what was read before  *)
(* it by what the run can hold, and adds what the run reads by itself,     *)
(* which is less.                                                          *)
LEMMA RunIsRead ==
  ASSUME NEW n \in Nat, NEW b, Digits(b, n), NEW u,
         ReadsTo(u, b, n),
         NEW from \in Nat, from + WordBytes <= n,
         NEW d, RunOf(d, b, from)
  PROVE  /\ u[from] \in Nat /\ BigEndian(d, WordBytes) \in Word
         /\ u[from + WordBytes] = u[from] * WordBase + BigEndian(d, WordBytes)
<1>0. ByteBase \in Nat /\ ByteBase >= 1 /\ WordBytes \in Nat /\ WordBase = ValuesOf(WordBytes)
  BY TargetAssumption
<1>1. PICK p : /\ ValuesOf(WordBytes) = p[WordBytes]
               /\ p = [i \in 0 .. WordBytes |-> IF i = 0 THEN 1 ELSE p[i - 1] * ByteBase]
  BY <1>0, ValuesOfIs
<1>2. PICK r : BigEndian(d, WordBytes) = r[WordBytes] /\ ReadsTo(r, d, WordBytes)
  BY <1>0, BigEndianIs
<1>3. \A k \in 0 .. n : u[k] \in Nat
  BY ReadingsAreNumbers
<1>4. u[from] \in Nat
  BY <1>0, <1>3
<1> DEFINE Holds(k) == /\ p[k] \in Nat /\ r[k] \in Nat /\ r[k] < p[k]
                       /\ u[from + k] = u[from] * p[k] + r[k]
           T == {k \in Nat : k <= WordBytes => Holds(k)}
<1>5. 0 \in T
  BY <1>0, <1>1, <1>2, <1>4, ReadsBy
<1>6. ASSUME NEW k \in Nat, k \in T PROVE k + 1 \in T
  <2> SUFFICES ASSUME k + 1 <= WordBytes PROVE Holds(k + 1)
    OBVIOUS
  <2>1. /\ p[k] \in Nat /\ r[k] \in Nat /\ r[k] < p[k] /\ u[from + k] = u[from] * p[k] + r[k]
    BY <1>0, <1>6
  <2>2. d[k] = b[from + k] /\ b[from + k] \in Nat /\ b[from + k] < ByteBase
    BY <1>0 DEF Digits, RunOf, Digit
  <2>3. p[k + 1] = p[k] * ByteBase
    BY <1>0, <1>1
  <2>4. r[k + 1] = r[k] * ByteBase + d[k]
    BY <1>0, <1>2, ReadsBy
  <2>7. u[from + (k + 1)] = u[from + k] * ByteBase + b[from + k]
    <3>1. from + k \in 0 .. n - 1 /\ from + (k + 1) = (from + k) + 1
      BY <1>0
    <3> QED BY <3>1, ReadsBy
  <2> HIDE DEF T
  <2>5. /\ p[k] * ByteBase \in Nat /\ r[k] * ByteBase + d[k] \in Nat
        /\ r[k] * ByteBase + d[k] < p[k] * ByteBase
    <3>1. ASSUME NEW x \in Nat, NEW y \in Nat, x < y, NEW z \in Nat, NEW m \in Nat, z < m
          PROVE  y * m \in Nat /\ x * m + z \in Nat /\ x * m + z < y * m
      <4>1. PICK e \in Nat : y = x + 1 + e
        BY <3>1, y - x - 1 \in Nat, y = x + 1 + (y - x - 1)
      <4>2. y * m = x * m + m + e * m /\ e * m \in Nat /\ x * m \in Nat
        BY <4>1, SMT
      <4> QED BY <3>1, <4>2
    <3> QED BY <1>0, <2>1, <2>2, <3>1
  <2>6. u[from + (k + 1)] = u[from] * (p[k] * ByteBase) + (r[k] * ByteBase + d[k])
    <3>1. ASSUME NEW a \in Nat, NEW x \in Nat, NEW y \in Nat, NEW z \in Nat, NEW m \in Nat
          PROVE  (a * y + x) * m + z = a * (y * m) + (x * m + z)
      <4>1. a * y \in Nat /\ x * m \in Nat /\ y * m \in Nat /\ a * (y * m) \in Nat
        BY SMT
      <4>2. (a * y) * m = a * (y * m)
        BY SMT
      <4>3. ASSUME NEW t \in Nat PROVE (t + x) * m = t * m + x * m
        BY SMT
      <4>4. (a * y + x) * m = (a * y) * m + x * m
        BY <4>1, <4>3
      <4> QED BY <4>1, <4>2, <4>4
    <3> QED BY <1>0, <1>4, <2>1, <2>2, <2>7, <3>1
  <2> QED BY <2>3, <2>4, <2>5, <2>6
<1>7. Nat \subseteq T
  <2> HIDE DEF T
  <2> QED BY <1>5, <1>6, Induction
<1>8. Holds(WordBytes)
  <2>1. \A k \in T : k <= WordBytes => Holds(k)
    OBVIOUS
  <2> HIDE DEF T, Holds
  <2> QED BY <1>0, <1>7, <2>1
<1> QED BY <1>0, <1>1, <1>2, <1>4, <1>8 DEF Word

(* The four limbs that are loaded from a hash and the number its bytes are *)
(* reversed and read as agree, whatever the width of a byte and of a limb. *)
THEOREM ReadingsAreOne == ReadingsAgree
<1> SUFFICES ASSUME NEW h \in Hash
             PROVE  Loaded(h) \in [LimbNo -> Word] /\ HashToBig(h) = Number(Loaded(h))
  BY DEF ReadingsAgree
<1> DEFINE W == WordBytes
           b == [i \in ByteNo |-> h[4 * WordBytes - 1 - i]]
           Bytes(i) == [j \in 0 .. WordBytes - 1 |-> h[i * WordBytes + j]]
           Turned(i) == [j \in 0 .. WordBytes - 1 |-> Bytes(i)[WordBytes - 1 - j]]
<1>0. W \in Nat /\ 4 * W \in Nat /\ WordBase \in Nat
  BY TargetAssumption
<1>1. PICK u : BigEndian(b, 4 * W) = u[4 * W] /\ ReadsTo(u, b, 4 * W)
  BY <1>0, BigEndianIs
<1>2. Digits(b, 4 * W)
  BY <1>0 DEF ByteNo, Hash, Digits, Digit
<1>3. \A i \in LimbNo : Loaded(h)[i] = BigEndian(Turned(i), W)
  BY DEF Loaded, LittleEndian
<1>4. /\ RunOf(Turned(3), b, 0)
      /\ RunOf(Turned(2), b, W)
      /\ RunOf(Turned(1), b, 2 * W)
      /\ RunOf(Turned(0), b, 3 * W)
  BY <1>0 DEF ByteNo, RunOf
<1> HIDE DEF b, Turned
<1> DEFINE l == Loaded(h)
<1>5. l[3] = BigEndian(Turned(3), W) /\ l[2] = BigEndian(Turned(2), W)
      /\ l[1] = BigEndian(Turned(1), W) /\ l[0] = BigEndian(Turned(0), W)
  BY <1>3 DEF LimbNo
<1>6. u[0] = 0
  BY <1>0, <1>1, ReadsBy
<1>7. l[3] \in Word /\ u[W] = l[3]
  <2>1. u[0] \in Nat /\ l[3] \in Word /\ u[0 + W] = u[0] * WordBase + l[3]
    <3>1. 0 \in Nat /\ 0 + W <= 4 * W
      BY <1>0
    <3> QED BY <1>0, <1>1, <1>2, <1>4, <1>5, <3>1, RunIsRead
  <2> QED BY <1>0, <1>6, <2>1 DEF Word
<1>8. l[2] \in Word /\ u[2 * W] = u[W] * WordBase + l[2]
  <2>1. l[2] \in Word /\ u[W + W] = u[W] * WordBase + l[2]
    <3>1. W \in Nat /\ W + W <= 4 * W
      BY <1>0
    <3> QED BY <1>0, <1>1, <1>2, <1>4, <1>5, <3>1, RunIsRead
  <2> QED BY <1>0, <2>1, W + W = 2 * W
<1>9. l[1] \in Word /\ u[3 * W] = u[2 * W] * WordBase + l[1]
  <2>1. l[1] \in Word /\ u[2 * W + W] = u[2 * W] * WordBase + l[1]
    <3>1. 2 * W \in Nat /\ 2 * W + W <= 4 * W
      BY <1>0
    <3> QED BY <1>0, <1>1, <1>2, <1>4, <1>5, <3>1, RunIsRead
  <2> QED BY <1>0, <2>1, 2 * W + W = 3 * W
<1>10. l[0] \in Word /\ u[4 * W] = u[3 * W] * WordBase + l[0]
  <2>1. l[0] \in Word /\ u[3 * W + W] = u[3 * W] * WordBase + l[0]
    <3>1. 3 * W \in Nat /\ 3 * W + W <= 4 * W
      BY <1>0
    <3> QED BY <1>0, <1>1, <1>2, <1>4, <1>5, <3>1, RunIsRead
  <2> QED BY <1>0, <2>1, 3 * W + W = 4 * W
<1>11. l \in [LimbNo -> Word]
  <2>1. l = [i \in LimbNo |-> l[i]]
    BY DEF Loaded
  <2> QED BY <1>7, <1>8, <1>9, <1>10, <2>1 DEF LimbNo
<1>12. u[4 * W] = Number(l)
  <2>1. /\ l[0] \in Nat /\ l[1] \in Nat /\ l[2] \in Nat /\ l[3] \in Nat
    BY <1>0, <1>7, <1>8, <1>9, <1>10 DEF Word
  <2>2. ASSUME NEW v \in Nat, NEW x \in Nat, NEW y \in Nat, NEW z \in Nat, NEW m \in Nat
        PROVE  ((v * m + z) * m + y) * m + x = x + m * (y + m * (z + m * v))
    BY SMT
  <2>3. u[4 * W] = ((l[3] * WordBase + l[2]) * WordBase + l[1]) * WordBase + l[0]
    BY <1>7, <1>8, <1>9, <1>10
  <2> HIDE DEF l
  <2> QED BY <1>0, <2>1, <2>2, <2>3 DEF Number
<1>13. HashToBig(h) = u[4 * W]
  BY <1>1 DEF HashToBig, b
<1> QED BY <1>11, <1>12, <1>13

-----------------------------------------------------------------------------
(* Comparing and crediting it.                                             *)

(* Two-digit numbers compare by their high digit, then by the low one.     *)
LEMMA Lexicographic ==
  ASSUME NEW b \in Nat \ {0}, NEW x \in Nat, NEW y \in Nat,
         NEW p \in 0 .. b - 1, NEW q \in 0 .. b - 1
  PROVE  /\ p + b * x <= q + b * y <=> x < y \/ (x = y /\ p <= q)
         /\ b * x \in Nat
<1>1. b * x \in Nat /\ b * y \in Nat
  BY SMT
<1>2. CASE x < y
  <2>1. PICK k \in Nat : y = x + 1 + k
    BY <1>2, y - x - 1 \in Nat, y = x + 1 + (y - x - 1)
  <2>2. b * y = b * x + b + b * k /\ b * k \in Nat
    BY <2>1, SMT
  <2> QED BY <1>1, <1>2, <2>2
<1>3. CASE x = y
  BY <1>1, <1>3
<1>4. CASE y < x
  <2>1. PICK k \in Nat : x = y + 1 + k
    BY <1>4, x - y - 1 \in Nat, x = y + 1 + (x - y - 1)
  <2>2. b * x = b * y + b + b * k /\ b * k \in Nat
    BY <2>1, SMT
  <2> QED BY <1>1, <1>4, <2>2
<1> QED BY <1>1, <1>2, <1>3, <1>4

(* A number is its remainder and its quotient.                             *)
LEMMA Division ==
  ASSUME NEW b \in Nat \ {0}, NEW t \in Nat
  PROVE  /\ t \div b \in Nat /\ t % b \in 0 .. b - 1
         /\ t = (t % b) + b * (t \div b)
  BY SMT

(* Limb by limb comparison is comparison of the numbers.                   *)
LEMMA AtMostCompares ==
  ASSUME NEW v \in [LimbNo -> Word], NEW l \in [LimbNo -> Word]
  PROVE  AtMost(v, l) <=> Number(v) <= Number(l)
<1> DEFINE B == WordBase
           V3 == v[3]            L3 == l[3]
           V2 == v[2] + B * V3   L2 == l[2] + B * L3
           V1 == v[1] + B * V2   L1 == l[1] + B * L2
<1>1. B \in Nat \ {0} /\ \A i \in 0 .. 3 : v[i] \in 0 .. B - 1 /\ l[i] \in 0 .. B - 1
  BY TargetAssumption DEF LimbNo, Word
<1>2. /\ v[0] \in 0 .. B - 1 /\ v[1] \in 0 .. B - 1 /\ v[2] \in 0 .. B - 1 /\ v[3] \in 0 .. B - 1
      /\ l[0] \in 0 .. B - 1 /\ l[1] \in 0 .. B - 1 /\ l[2] \in 0 .. B - 1 /\ l[3] \in 0 .. B - 1
  BY <1>1
<1>3. V3 \in Nat /\ L3 \in Nat
  BY <1>1, <1>2
<1>4. V2 \in Nat /\ L2 \in Nat /\ (V2 <= L2 <=> V3 < L3 \/ (V3 = L3 /\ v[2] <= l[2]))
                               /\ (L2 <= V2 <=> L3 < V3 \/ (L3 = V3 /\ l[2] <= v[2]))
  <2> HIDE DEF B, V3, L3
  <2> QED BY <1>1, <1>2, <1>3, Lexicographic
<1>5. V1 \in Nat /\ L1 \in Nat /\ (V1 <= L1 <=> V2 < L2 \/ (V2 = L2 /\ v[1] <= l[1]))
                               /\ (L1 <= V1 <=> L2 < V2 \/ (L2 = V2 /\ l[1] <= v[1]))
  <2> HIDE DEF B, V2, L2
  <2> QED BY <1>1, <1>2, <1>4, Lexicographic
<1>6. v[0] + B * V1 <= l[0] + B * L1 <=> V1 < L1 \/ (V1 = L1 /\ v[0] <= l[0])
  <2> HIDE DEF B, V1, L1
  <2> QED BY <1>1, <1>2, <1>5, Lexicographic
<1>7. Number(v) = v[0] + B * V1 /\ Number(l) = l[0] + B * L1
  BY DEF Number
<1>8. /\ V2 = L2 <=> V3 = L3 /\ v[2] = l[2]
      /\ V2 < L2 <=> V3 < L3 \/ (V3 = L3 /\ v[2] < l[2])
  <2> HIDE DEF B, V3, L3, V2, L2
  <2> QED BY <1>1, <1>2, <1>3, <1>4
<1>9. /\ V1 = L1 <=> V2 = L2 /\ v[1] = l[1]
      /\ V1 < L1 <=> V2 < L2 \/ (V2 = L2 /\ v[1] < l[1])
  <2> HIDE DEF B, V2, L2, V1, L1
  <2> QED BY <1>1, <1>2, <1>4, <1>5
<1> HIDE DEF V1, L1, V2, L2
<1> QED BY <1>6, <1>7, <1>8, <1>9 DEF AtMost

(* Appending a digit in front of a bounded number keeps it bounded.        *)
LEMMA DigitBound ==
  ASSUME NEW b \in Nat \ {0}, NEW m \in Nat, NEW x \in Nat, x < m, NEW p \in 0 .. b - 1
  PROVE  p + b * x \in Nat /\ p + b * x < b * m
<1>1. PICK k \in Nat : m = x + 1 + k
  BY m - x - 1 \in Nat, m = x + 1 + (m - x - 1)
<1>2. b * m = b * x + b + b * k /\ b * k \in Nat /\ b * x \in Nat
  BY <1>1, SMT
<1> QED BY <1>2

LEMMA NumberBounded ==
  ASSUME NEW l \in [LimbNo -> Word]
  PROVE  Number(l) \in Nat /\ Number(l) < Size
<1> DEFINE B == WordBase
           B2 == B * B
           B3 == B * B2
           L2 == l[2] + B * l[3]
           L1 == l[1] + B * L2
<1>1. /\ B \in Nat \ {0}
      /\ l[0] \in 0 .. B - 1 /\ l[1] \in 0 .. B - 1 /\ l[2] \in 0 .. B - 1 /\ l[3] \in 0 .. B - 1
      /\ l[3] \in Nat /\ l[3] < B
  BY TargetAssumption DEF LimbNo, Word
<1>2. L2 \in Nat /\ L2 < B2 /\ B2 \in Nat
  <2>1. B * B \in Nat
    BY <1>1, SMT
  <2> HIDE DEF B
  <2> QED BY <1>1, <2>1, DigitBound
<1>3. L1 \in Nat /\ L1 < B3 /\ B3 \in Nat
  <2> HIDE DEF B, B2, L2
  <2>1. B * B2 \in Nat
    BY <1>1, <1>2, SMT
  <2> QED BY <1>1, <1>2, <2>1, DigitBound
<1>4. l[0] + B * L1 \in Nat /\ l[0] + B * L1 < B * B3
  <2> HIDE DEF B, B3, L1
  <2> QED BY <1>1, <1>3, DigitBound
<1> QED BY <1>4 DEF Number, Size

(* A quotient is as much smaller than the number as the divisor says.      *)
LEMMA QuotientBound ==
  ASSUME NEW b \in Nat \ {0}, NEW m \in Nat, NEW t \in Nat, t < b * m
  PROVE  t \div b \in Nat /\ t \div b < m
<1> DEFINE q == t \div b
<1>1. q \in Nat /\ b * q <= t
  BY SMT
<1> HIDE DEF q
<1>2. ASSUME m <= q PROVE FALSE
  <2>1. PICK k \in Nat : q = m + k
    BY <1>1, <1>2, q - m \in Nat, q = m + (q - m)
  <2>2. b * q = b * m + b * k /\ b * k \in Nat /\ b * m \in Nat
    BY <2>1, SMT
  <2> QED BY <1>1, <2>2
<1>3. q < m
  BY <1>1, <1>2
<1> QED BY <1>1, <1>3 DEF q

Limbs(t) == [i \in LimbNo |-> Limb(t, i)]

(* The limbs of a number that fits in four of them stand for it.           *)
LEMMA LimbsExact ==
  ASSUME NEW t \in Nat, t < Size
  PROVE  Limbs(t) \in [LimbNo -> Word] /\ Number(Limbs(t)) = t
<1> DEFINE B == WordBase
           q1 == t \div B
           q2 == q1 \div B
           q3 == q2 \div B
<1>1. B \in Nat \ {0} /\ B * B \in Nat /\ B * (B * B) \in Nat
  BY TargetAssumption, SMT
<1>2. q1 \in Nat /\ q1 < B * (B * B)
  BY <1>1, QuotientBound DEF Size
<1>3. q2 \in Nat /\ q2 < B * B
  <2> HIDE DEF B, q1
  <2> QED BY <1>1, <1>2, QuotientBound
<1>4. q3 \in Nat /\ q3 < B
  <2> HIDE DEF B, q2
  <2> QED BY <1>1, <1>3, QuotientBound
<1>5. /\ t = (t % B) + B * q1 /\ t % B \in 0 .. B - 1
      /\ q1 = (q1 % B) + B * q2 /\ q1 % B \in 0 .. B - 1
      /\ q2 = (q2 % B) + B * q3 /\ q2 % B \in 0 .. B - 1
  BY <1>1, <1>2, <1>3, Division
<1>6. q3 % B = q3
  <2> HIDE DEF B, q3
  <2> QED BY <1>1, <1>4
<1>7. /\ Limbs(t)[0] = t % B /\ Limbs(t)[1] = q1 % B
      /\ Limbs(t)[2] = q2 % B /\ Limbs(t)[3] = q3
  BY <1>6 DEF Limbs, Limb, LimbNo
<1>8. Limbs(t) = [i \in LimbNo |-> Limbs(t)[i]]
  BY DEF Limbs
<1>9. Limbs(t) \in [LimbNo -> Word]
  <2> HIDE DEF B, q1, q2, q3
  <2>1. Word = 0 .. B - 1 /\ \A i \in LimbNo : i = 0 \/ i = 1 \/ i = 2 \/ i = 3
    BY DEF Word, LimbNo, B
  <2>2. /\ Limbs(t)[0] \in 0 .. B - 1 /\ Limbs(t)[1] \in 0 .. B - 1
        /\ Limbs(t)[2] \in 0 .. B - 1
    BY <1>5, <1>7
  <2>3. Limbs(t)[3] \in 0 .. B - 1
    BY <1>1, <1>4, <1>7
  <2> QED BY <1>8, <2>1, <2>2, <2>3
<1>10. Number(Limbs(t)) = (t % B) + B * ((q1 % B) + B * ((q2 % B) + B * q3))
  BY <1>7 DEF Number
<1> HIDE DEF B, q1, q2, q3
<1> QED BY <1>5, <1>9, <1>10

-----------------------------------------------------------------------------
(* The largest difficulty a number meets is the quotient: v meets d        *)
(* exactly when d does not exceed s over v.                                *)
LEMMA QuotientsAgree ==
  ASSUME NEW s \in Nat, NEW d \in Nat \ {0}, NEW v \in Nat \ {0}, v <= s \div d
  PROVE  s \div v \in Nat /\ d <= s \div v
<1> DEFINE q == s \div d  r == s \div v
<1>1. q \in Nat /\ d * q <= s
  BY SMT
<1>2. r \in Nat /\ s < v * r + v
  BY SMT
<1>3. v <= q
  OBVIOUS
<1> HIDE DEF q, r
<1>4. d * v <= s
  <2>1. PICK k \in Nat : q = v + k
    BY <1>1, <1>3, q - v \in Nat, q = v + (q - v)
  <2>2. d * q = d * v + d * k /\ d * k \in Nat /\ d * v \in Nat
    BY <2>1, SMT
  <2> QED BY <1>1, <2>2
<1>5. ASSUME r < d PROVE FALSE
  <2>1. PICK k \in Nat : d = r + 1 + k
    BY <1>2, <1>5, d - r - 1 \in Nat, d = r + 1 + (d - r - 1)
  <2>2. d * v = v * r + v + v * k /\ v * k \in Nat /\ v * r \in Nat
    BY <2>1, <1>2, SMT
  <2> QED BY <1>2, <1>4, <2>2
<1> QED BY <1>2, <1>5 DEF r

(* The check of the hashing loop and the check of difficulty.go agree on   *)
(* every hash and every positive difficulty.                               *)
LEMMA MeetsIsReference ==
  ASSUME NEW d \in Nat \ {0}, NEW h \in Hash
  PROVE  Meets(NewTarget(d), h) <=> CheckPowHashBig(h, d)
<1> DEFINE t == Size \div d
<1>1. Size \in Nat /\ t \in Nat
  <2>1. Size \in Nat
    BY TargetAssumption, SMT DEF Size
  <2> QED BY <2>1, Division
<1>2. Loaded(h) \in [LimbNo -> Word] /\ HashToBig(h) = Number(Loaded(h))
  BY ReadingsAreOne DEF ReadingsAgree
<1>3. Number(Loaded(h)) \in Nat /\ Number(Loaded(h)) < Size
  BY <1>2, NumberBounded
<1>4. CheckPowHashBig(h, d) <=> Number(Loaded(h)) <= t
  BY <1>2 DEF CheckPowHashBig
<1>5. NewTarget(d).all <=> TooWide(t)
  BY DEF NewTarget
<1>6. CASE TooWide(t)
  BY <1>1, <1>3, <1>4, <1>5, <1>6 DEF TooWide, Meets
<1>7. CASE ~TooWide(t)
  <2>1. t < Size
    BY <1>1, <1>7 DEF TooWide
  <2>2. Limbs(t) \in [LimbNo -> Word] /\ Number(Limbs(t)) = t
    BY <1>1, <2>1, LimbsExact
  <2>3. NewTarget(d).limb = Limbs(t)
    BY <1>7 DEF NewTarget, Limbs
  <2>4. AtMost(Loaded(h), Limbs(t)) <=> Number(Loaded(h)) <= Number(Limbs(t))
    BY <1>2, <2>2, AtMostCompares
  <2> QED BY <1>4, <1>5, <1>7, <2>2, <2>3, <2>4 DEF Meets
<1> QED BY <1>6, <1>7

(* A hash that meets a difficulty is credited with no less, but for the    *)
(* width of the credit and the hash of zero.                               *)
LEMMA CreditEnough ==
  ASSUME NEW d \in Nat \ {0}, NEW h \in Hash,
         Meets(NewTarget(d), h), HashToBig(h) # 0
  PROVE  shareDifficulty(h) >= d \/ shareDifficulty(h) = WordBase - 1
<1> DEFINE v == HashToBig(h)
<1>1. v \in Nat \ {0} /\ Size \in Nat
  <2>1. Size \in Nat
    BY TargetAssumption, SMT DEF Size
  <2>2. v \in Nat
    BY NumberBounded, ReadingsAreOne DEF ReadingsAgree
  <2> QED BY <2>1, <2>2
<1>2. v <= Size \div d
  BY MeetsIsReference DEF CheckPowHashBig
<1>3. Size \div v \in Nat /\ d <= Size \div v
  <2> HIDE DEF v
  <2> QED BY <1>1, <1>2, QuotientsAgree
<1>4. shareDifficulty(h) = Saturated(Size \div v)
  BY DEF shareDifficulty
<1> HIDE DEF v
<1> QED BY <1>3, <1>4, TargetAssumption DEF Saturated

-----------------------------------------------------------------------------
(* What is true of the job, the target and the last hash together.         *)
JobInv ==
  /\ diff \in Nat
  /\ diff # 0 => target = NewTarget(diff)
  /\ hash # <<>> =>
       /\ diff # 0 /\ hash \in Hash /\ (accepted <=> Meets(target, hash))
  /\ accepted =>
       /\ diff # 0 /\ hash \in Hash /\ Meets(target, hash)
       /\ credited = shareDifficulty(hash)

LEMMA InitJob == Init => JobInv
  BY DEF Init, JobInv

LEMMA StepJob ==
  ASSUME JobInv, [Next]_vars
  PROVE  JobInv'
<1>1. ASSUME NEW d \in Difficulty, NewJob(d) PROVE JobInv'
  BY <1>1, TargetAssumption DEF NewJob, Positive, JobInv
<1>2. ASSUME NEW h \in Hash, TryHash(h) PROVE JobInv'
  <2>1. diff' = diff /\ target' = target /\ hash' = h /\ diff # 0
    BY <1>2 DEF TryHash
  <2>2. accepted' <=> Meets(target, h)
    BY <1>2 DEF TryHash
  <2>3. Meets(target, h) => credited' = shareDifficulty(h)
    BY <1>2 DEF TryHash
  <2>4. shareDifficulty(hash)' = shareDifficulty(h) /\ Meets(target, hash)' = Meets(target, h)
    BY <2>1
  <2> QED BY <2>1, <2>2, <2>3, <2>4 DEF JobInv
<1>3. CASE UNCHANGED vars
  BY <1>3 DEF vars, JobInv
<1> QED BY <1>1, <1>2, <1>3 DEF Next

(* The target is that of the job's difficulty, which is positive while a   *)
(* job is mined, and the verdict and the credit are those of the last hash *)
(* (engine.go, 341-419).                                                   *)
THEOREM JobInvariant == Spec => []JobInv
  BY InitJob, StepJob, PTL DEF Spec

(* target.go: "Target.Meets is asserted bit-for-bit identical to           *)
(* CheckPowHashBig".  For limbs of any width and every positive            *)
(* difficulty, what the hashing loop accepts is what the big-integer check *)
(* accepts.                                                                *)
THEOREM AcceptsExactly ==
  Spec => []AcceptsAsReference
<1>1. JobInv => AcceptsAsReference
  BY MeetsIsReference DEF JobInv, AcceptsAsReference
<1> QED BY <1>1, JobInvariant, PTL

(* A share is never credited with less than the difficulty of its job,     *)
(* short of the width of e.bestShare and of a hash of zero.                *)
THEOREM CreditedInFull ==
  Spec => []CreditCoversDifficulty
<1>1. JobInv => CreditCoversDifficulty
  BY CreditEnough DEF JobInv, CreditCoversDifficulty
<1> QED BY <1>1, JobInvariant, PTL

-----------------------------------------------------------------------------
(* The inputs.  Two workers are told apart by their tags; for one worker   *)
(* the inputs it tried of its job lie behind the counter, no further back  *)
(* than what it has searched of the job, and a pass stays ahead of them.   *)

(* How far behind the newest nonce that w tried x lies.                    *)
Behind(w, x) ==
  LET newest == NonceOf(w, 0)
  IN  IF x <= newest THEN newest - x ELSE newest - x + NonceSize

Input == [job : Nat, random : Nat, nonce : 0 .. NonceSize - 1, tag : Nat]

(* The values the variables take.                                          *)
NonceTypeOK ==
  /\ published \in Nat /\ again \in BOOLEAN
  /\ starts \in [Searcher -> Nat] /\ mining \in [Searcher -> Nat]
  /\ nonce \in [Searcher -> 0 .. NonceSize - 1] /\ searched \in [Searcher -> 0 .. NonceSize]
  /\ tried \subseteq [who : Searcher, input : Input]

(* What was tried carries its worker's tag, and is of no later worker of   *)
(* the slot and no later job than the present ones.                        *)
TriedIsPast ==
  /\ \A w \in Searcher : mining[w] <= published
  /\ \A a \in tried :
       /\ a.input.tag = TagOf(a.who) /\ a.input.random <= starts[a.who]
       /\ a.input.random = starts[a.who] => a.input.job <= mining[a.who]

(* What the present worker tried of its present job lies behind its        *)
(* counter, within what it has searched.                                   *)
TriedIsBehind ==
  \A a \in tried :
    a.input.random = starts[a.who] /\ a.input.job = mining[a.who] =>
      Behind(a.who, a.input.nonce) < searched[a.who]

NonceInv == NonceTypeOK /\ TriedIsPast /\ TriedIsBehind /\ ~ again

-----------------------------------------------------------------------------
(* A remainder once round.                                                 *)
LEMMA OnceRound ==
  ASSUME NEW n \in Nat \ {0}, NEW x \in 0 .. 2 * n - 1
  PROVE  x % n = IF x < n THEN x ELSE x - n
<1>1. PICK q \in Nat, r \in 0 .. n - 1 : x = r + n * q /\ x % n = r
  <2>1. x \div n \in Nat /\ x % n \in 0 .. n - 1 /\ x = (x % n) + n * (x \div n)
    BY SMT
  <2> QED BY <2>1
<1>2. q < 2
  <2> SUFFICES ASSUME q >= 2 PROVE FALSE
    BY <1>1
  <2>1. PICK k \in Nat : q = 2 + k
    BY q - 2 \in Nat, q = 2 + (q - 2)
  <2>2. n * q = 2 * n + n * k /\ n * k \in Nat
    BY <2>1, SMT
  <2> QED BY <1>1, <2>2
<1> QED BY <1>1, <1>2, SMT

(* Tags tell workers apart but for a thread past the 240th and its card.   *)
LEMMA TagsApart ==
  ASSUME NEW v \in Searcher, NEW w \in Searcher, TagOf(v) = TagOf(w), v # w
  PROVE  \E t, d \in {v, w} : t.kind = "cpu" /\ d.kind = "gpu" /\ t.id = GpuTag + d.id
<1>1. \A u \in Searcher :
        \/ u.kind = "cpu" /\ u = [kind |-> "cpu", id |-> u.id] /\ u.id \in 0 .. TagSize - 1
        \/ u.kind = "gpu" /\ u = [kind |-> "gpu", id |-> u.id] /\ u.id \in 0 .. TagSize - GpuTag - 1
  BY NonceAssumption DEF Searcher
<1>2. TagSize \in Nat \ {0} /\ GpuTag \in Nat
  BY NonceAssumption
<1>3. \A u \in Searcher : TagOf(u) = IF u.kind = "gpu" THEN GpuTag + u.id ELSE u.id
  <2> SUFFICES ASSUME NEW u \in Searcher
               PROVE  TagOf(u) = IF u.kind = "gpu" THEN GpuTag + u.id ELSE u.id
    OBVIOUS
  <2>1. \A x \in 0 .. TagSize - 1 : x % TagSize = x
    BY <1>2, OnceRound
  <2>2. CASE u.kind = "gpu"
    BY <1>1, <1>2, <2>1, <2>2, GpuTag + u.id \in 0 .. TagSize - 1 DEF TagOf, gpuNonceTag
  <2>3. CASE u.kind = "cpu"
    BY <1>1, <2>1, <2>3 DEF TagOf
  <2> QED BY <1>1, <2>2, <2>3
<1>4. v.kind # w.kind
  <2> SUFFICES ASSUME v.kind = w.kind PROVE FALSE
    OBVIOUS
  <2>1. v.id = w.id
    BY <1>1, <1>2, <1>3
  <2> QED BY <1>1, <2>1
<1> QED BY <1>1, <1>3, <1>4

(* The nonces of a pass are those after the newest, once round.            *)
LEMMA NoncesOfAPass ==
  ASSUME NonceTypeOK, NEW w \in Searcher, NEW k \in 1 .. NonceSize
  PROVE  LET newest == NonceOf(w, 0)
         IN  /\ newest \in -1 .. NonceSize - 1
             /\ NonceOf(w, k) = newest + k
             /\ NonceOf(w, k) % NonceSize = IF newest + k < NonceSize THEN newest + k ELSE newest + k - NonceSize
             /\ NonceOf(w, k) % NonceSize \in 0 .. NonceSize - 1
             /\ Behind(w, NonceOf(w, k) % NonceSize) = NonceSize - k
<1>1. NonceSize \in Nat \ {0} /\ nonce[w] \in 0 .. NonceSize - 1
  BY NonceAssumption DEF NonceTypeOK
<1>2. NonceOf(w, 0) \in -1 .. NonceSize - 1 /\ NonceOf(w, k) = NonceOf(w, 0) + k
  BY <1>1 DEF NonceOf
<1>3. NonceOf(w, k) \in 0 .. 2 * NonceSize - 1
  BY <1>1, <1>2
<1>4. NonceOf(w, k) % NonceSize = IF NonceOf(w, 0) + k < NonceSize THEN NonceOf(w, 0) + k
                                                                   ELSE NonceOf(w, 0) + k - NonceSize
  BY <1>1, <1>2, <1>3, OnceRound
<1> QED BY <1>1, <1>2, <1>4 DEF Behind

(* The inputs of a pass that fits are as many as its nonces.               *)
LEMMA InputsOfAPass ==
  ASSUME NonceTypeOK, NEW w \in Searcher, Share(w) \in 1 .. NonceSize
  PROVE  Cardinality(Inputs(w)) = Share(w)
<1> DEFINE S == 1 .. Share(w)
           Nth(k) == [job |-> mining[w], random |-> starts[w], nonce |-> NonceOf(w, k) % NonceSize, tag |-> TagOf(w)]
           f == [k \in S |-> Nth(k)]
<1>1. NonceSize \in Nat /\ Share(w) \in Nat
  BY NonceAssumption
<1>2. \A j, k \in S : Nth(j).nonce = Nth(k).nonce => j = k
  <2> SUFFICES ASSUME NEW j \in S, NEW k \in S, NonceOf(w, j) % NonceSize = NonceOf(w, k) % NonceSize
               PROVE  j = k
    OBVIOUS
  <2>1. j \in 1 .. NonceSize /\ k \in 1 .. NonceSize
    BY <1>1
  <2>2. NonceSize - j = NonceSize - k
    BY <2>1, NoncesOfAPass
  <2> QED BY <1>1, <2>1, <2>2
<1>3. f \in Bijection(S, Inputs(w))
  <2>1. f \in [S -> Inputs(w)] /\ \A input \in Inputs(w) : \E k \in S : f[k] = input
    BY DEF Inputs
  <2>2. \A j, k \in S : f[j] = f[k] => j = k
    BY <1>2
  <2> QED BY <2>1, <2>2 DEF Bijection, Injection, Surjection, IsInjective
<1>4. IsFiniteSet(S) /\ Cardinality(S) = Share(w)
  BY <1>1, FS_Interval
<1> QED BY <1>3, <1>4, FS_Bijection DEF ExistsBijection

-----------------------------------------------------------------------------
(* What a search of w leaves behind the counter.                           *)
LEMMA SearchesKeepsBehind ==
  ASSUME NonceInv, NEW w \in Searcher, Searches(w),
         nonce' \in [Searcher -> 0 .. NonceSize - 1]
  PROVE  /\ Share(w) \in 1 .. NonceSize - searched[w]
         /\ \A x \in 0 .. NonceSize - 1 :
              Behind(w, x) < searched[w] \/ (\E k \in 1 .. Share(w) : x = NonceOf(w, k) % NonceSize)
                => Behind(w, x)' < searched[w]'
         /\ \A v \in Searcher \ {w} : \A x \in 0 .. NonceSize - 1 : Behind(v, x)' = Behind(v, x)
<1>1. NonceSize \in Nat \ {0} /\ nonce[w] \in 0 .. NonceSize - 1 /\ searched[w] \in 0 .. NonceSize
  BY NonceAssumption DEF NonceInv, NonceTypeOK
<1>2. Share(w) \in 1 .. NonceSize - searched[w]
  BY <1>1, NonceAssumption DEF Share, Searches
<1>3. searched'[w] = searched[w] + Share(w) /\ nonce'[w] = (nonce[w] + Share(w)) % NonceSize
  BY DEF Searches, NonceInv, NonceTypeOK
<1>4. \/ nonce[w] + Share(w) < NonceSize /\ nonce'[w] = nonce[w] + Share(w)
      \/ nonce[w] + Share(w) >= NonceSize /\ nonce'[w] = nonce[w] + Share(w) - NonceSize
  <2> DEFINE y == nonce[w] + Share(w)
  <2>1. y \in 0 .. 2 * NonceSize - 1
    BY <1>1, <1>2
  <2>2. y % NonceSize = IF y < NonceSize THEN y ELSE y - NonceSize
    <3> HIDE DEF y
    <3> QED BY <1>1, <2>1, OnceRound
  <2> QED BY <1>1, <1>2, <1>3, <2>2
<1>5. /\ NonceOf(w, 0) \in -1 .. NonceSize - 1
      /\ \/ NonceOf(w, 0)' = NonceOf(w, 0) + Share(w)
         \/ NonceOf(w, 0)' = NonceOf(w, 0) + Share(w) - NonceSize
      /\ NonceOf(w, 0)' \in -1 .. NonceSize - 1
  BY <1>1, <1>2, <1>4 DEF NonceOf
<1>6. ASSUME NEW x \in 0 .. NonceSize - 1, NEW k \in 1 .. Share(w), x = NonceOf(w, k) % NonceSize
      PROVE  Behind(w, x)' < searched[w]'
  <2>1. /\ x = IF NonceOf(w, 0) + k < NonceSize THEN NonceOf(w, 0) + k ELSE NonceOf(w, 0) + k - NonceSize
        /\ x \in 0 .. NonceSize - 1
    BY <1>1, <1>2, <1>6, NoncesOfAPass, k \in 1 .. NonceSize DEF NonceInv
  <2>2. k \in Nat /\ Share(w) \in Nat
    BY <1>1, <1>2
  <2>3. Behind(w, x)' = Share(w) - k
    <3>1. Behind(w, x)' = IF x <= NonceOf(w, 0)' THEN NonceOf(w, 0)' - x ELSE NonceOf(w, 0)' - x + NonceSize
      BY DEF Behind
    <3> QED BY <1>1, <1>2, <1>5, <2>1, <2>2, <3>1
  <2> QED BY <1>1, <1>2, <1>3, <2>2, <2>3
<1>7. ASSUME NEW x \in 0 .. NonceSize - 1, Behind(w, x) < searched[w]
      PROVE  Behind(w, x)' < searched[w]'
  <2>1. Behind(w, x)' = IF x <= NonceOf(w, 0)' THEN NonceOf(w, 0)' - x ELSE NonceOf(w, 0)' - x + NonceSize
    BY DEF Behind
  <2>2. Behind(w, x) = IF x <= NonceOf(w, 0) THEN NonceOf(w, 0) - x ELSE NonceOf(w, 0) - x + NonceSize
    BY DEF Behind
  <2>3. Behind(w, x)' = Behind(w, x) + Share(w)
    BY <1>1, <1>2, <1>5, <1>7, <2>1, <2>2
  <2> QED BY <1>1, <1>2, <1>3, <1>7, <2>2, <2>3, <1>5
<1>8. ASSUME NEW v \in Searcher \ {w}, NEW x \in 0 .. NonceSize - 1 PROVE Behind(v, x)' = Behind(v, x)
  <2>1. nonce'[v] = nonce[v]
    BY DEF Searches, NonceInv, NonceTypeOK
  <2> QED BY <2>1 DEF Behind, NonceOf
<1> QED BY <1>2, <1>6, <1>7, <1>8

-----------------------------------------------------------------------------
LEMMA NonceInvInit == NonceInit => NonceInv
<1> SUFFICES ASSUME NonceInit PROVE NonceInv
  OBVIOUS
<1>1. NonceSize \in Nat \ {0}
  BY NonceAssumption
<1>2. 0 \in 0 .. NonceSize - 1 /\ 0 \in 0 .. NonceSize
  BY <1>1
<1>3. NonceTypeOK
  BY <1>2 DEF NonceInit, NonceTypeOK
<1>4. TriedIsPast
  BY DEF NonceInit, TriedIsPast
<1>5. TriedIsBehind /\ ~ again
  BY DEF NonceInit, TriedIsBehind
<1> QED BY <1>3, <1>4, <1>5 DEF NonceInv

(* A job published is newer than any that was taken.                       *)
LEMMA PublishKeepsInv == NonceInv /\ NoncePublish => NonceInv'
<1> SUFFICES ASSUME NonceInv, NoncePublish PROVE NonceInv'
  OBVIOUS
<1> USE DEF NonceInv, NoncePublish
<1>1. NonceTypeOK'
  BY DEF NonceTypeOK
<1>2. TriedIsPast'
  BY DEF NonceTypeOK, TriedIsPast, TagOf
<1>3. TriedIsBehind'
  BY DEF TriedIsBehind, Behind, NonceOf
<1> QED BY <1>1, <1>2, <1>3

(* A worker started on a slot follows those that tried anything there.     *)
LEMMA StartKeepsInv == \A w \in Searcher : NonceInv /\ StartSearcher(w) => NonceInv'
<1> SUFFICES ASSUME NEW w \in Searcher, NonceInv, StartSearcher(w) PROVE NonceInv'
  OBVIOUS
<1>1. NonceSize \in Nat \ {0}
  BY NonceAssumption
<1>2. /\ starts' = [starts EXCEPT ![w] = @ + 1] /\ mining' = [mining EXCEPT ![w] = 0]
      /\ nonce' = [nonce EXCEPT ![w] = 0] /\ searched' = [searched EXCEPT ![w] = 0]
      /\ UNCHANGED <<published, tried, again>>
  BY DEF StartSearcher
<1>3. NonceTypeOK'
  BY <1>1, <1>2 DEF NonceInv, NonceTypeOK
<1>4. \A a \in tried : a.who \in Searcher /\ a.input.random \in Nat /\ starts[a.who] \in Nat /\ published \in Nat
  BY DEF NonceInv, NonceTypeOK, Input
<1>5. \A a \in tried : /\ a.input.random <= starts'[a.who]
                       /\ a.input.random = starts'[a.who] => a.who # w
  BY <1>2, <1>4 DEF NonceInv, NonceTypeOK, TriedIsPast
<1>6. TriedIsPast'
  <2>1. \A v \in Searcher : mining'[v] <= published'
    BY <1>2 DEF NonceInv, NonceTypeOK, TriedIsPast
  <2>2. \A a \in tried : a.input.random = starts'[a.who] => a.input.job <= mining'[a.who]
    BY <1>2, <1>4, <1>5 DEF NonceInv, NonceTypeOK, TriedIsPast
  <2>3. \A a \in tried : a.input.tag = TagOf(a.who)
    BY DEF NonceInv, TriedIsPast
  <2> QED BY <1>2, <1>5, <2>1, <2>2, <2>3 DEF TriedIsPast, TagOf, gpuNonceTag
<1>7. TriedIsBehind'
  <2> SUFFICES ASSUME NEW a \in tried, a.input.random = starts'[a.who], a.input.job = mining'[a.who]
               PROVE  Behind(a.who, a.input.nonce)' < searched'[a.who]
    BY <1>2 DEF TriedIsBehind
  <2>1. a.who # w /\ a.who \in Searcher
    BY <1>4, <1>5
  <2>2. /\ starts'[a.who] = starts[a.who] /\ mining'[a.who] = mining[a.who]
        /\ nonce'[a.who] = nonce[a.who] /\ searched'[a.who] = searched[a.who]
    BY <1>2, <2>1 DEF NonceInv, NonceTypeOK
  <2> QED BY <2>2 DEF NonceInv, TriedIsBehind, Behind, NonceOf
<1> QED BY <1>2, <1>3, <1>6, <1>7 DEF NonceInv

(* A job taken is newer than any the worker tried an input of.             *)
LEMMA TakesKeepsInv == \A w \in Searcher : NonceInv /\ TakesJob(w) => NonceInv'
<1> SUFFICES ASSUME NEW w \in Searcher, NonceInv, TakesJob(w) PROVE NonceInv'
  OBVIOUS
<1>1. NonceSize \in Nat \ {0}
  BY NonceAssumption
<1>2. /\ mining[w] # published /\ mining' = [mining EXCEPT ![w] = published]
      /\ searched' = [searched EXCEPT ![w] = 0] /\ UNCHANGED <<published, starts, nonce, tried, again>>
  BY DEF TakesJob
<1>3. NonceTypeOK'
  BY <1>1, <1>2 DEF NonceInv, NonceTypeOK
<1>4. \A a \in tried : a.who \in Searcher /\ a.input.job \in Nat /\ mining[a.who] \in Nat /\ published \in Nat
  BY DEF NonceInv, NonceTypeOK, Input
<1>5. mining[w] < published
  BY <1>2 DEF NonceInv, NonceTypeOK, TriedIsPast
<1>6. TriedIsPast'
  <2>1. \A v \in Searcher : mining'[v] <= published' /\ mining[v] <= mining'[v] /\ mining'[v] \in Nat
    BY <1>2, <1>5 DEF NonceInv, NonceTypeOK, TriedIsPast
  <2>2. \A a \in tried : a.input.random = starts[a.who] => a.input.job <= mining'[a.who]
    BY <1>4, <2>1 DEF NonceInv, TriedIsPast
  <2>3. \A a \in tried : a.input.tag = TagOf(a.who) /\ a.input.random <= starts[a.who]
    BY DEF NonceInv, TriedIsPast
  <2> QED BY <1>2, <2>1, <2>2, <2>3 DEF TriedIsPast, TagOf, gpuNonceTag
<1>7. TriedIsBehind'
  <2> SUFFICES ASSUME NEW a \in tried, a.input.random = starts[a.who], a.input.job = mining'[a.who]
               PROVE  Behind(a.who, a.input.nonce)' < searched'[a.who]
    BY <1>2 DEF TriedIsBehind
  <2>1. a.who # w
    BY <1>2, <1>4, <1>5 DEF NonceInv, NonceTypeOK, TriedIsPast
  <2>2. mining'[a.who] = mining[a.who] /\ searched'[a.who] = searched[a.who] /\ nonce' = nonce
    BY <1>2, <1>4, <2>1 DEF NonceInv, NonceTypeOK
  <2> QED BY <2>2 DEF NonceInv, TriedIsBehind, Behind, NonceOf
<1> QED BY <1>2, <1>3, <1>6, <1>7 DEF NonceInv

(* A pass or a batch is ahead of all that was tried.                       *)
LEMMA SearchKeepsInv == \A w \in Searcher : NonceInv /\ Searches(w) => NonceInv'
<1> SUFFICES ASSUME NEW w \in Searcher, NonceInv, Searches(w) PROVE NonceInv'
  OBVIOUS
<1>1. NonceSize \in Nat \ {0} /\ Share(w) \in Nat \ {0} /\ searched[w] \in 0 .. NonceSize
      /\ Share(w) \in 1 .. NonceSize
  BY NonceAssumption DEF NonceInv, NonceTypeOK, Searches, Share
<1>2. /\ nonce' = [nonce EXCEPT ![w] = (@ + Share(w)) % NonceSize]
      /\ searched' = [searched EXCEPT ![w] = @ + Share(w)] /\ searched[w] + Share(w) <= NonceSize
      /\ tried' = tried \cup {[who |-> w, input |-> input] : input \in Inputs(w)}
      /\ UNCHANGED <<starts, mining, published>>
  BY DEF Searches
<1>3. nonce' \in [Searcher -> 0 .. NonceSize - 1] /\ searched' \in [Searcher -> 0 .. NonceSize]
  <2>1. (nonce[w] + Share(w)) % NonceSize \in 0 .. NonceSize - 1
    <3>1. nonce[w] + Share(w) \in Nat
      BY <1>1 DEF NonceInv, NonceTypeOK
    <3> QED BY <1>1, <3>1
  <2> QED BY <1>1, <1>2, <2>1 DEF NonceInv, NonceTypeOK
<1>4. ASSUME NEW input \in Inputs(w)
      PROVE  /\ input \in Input /\ input.job = mining[w] /\ input.random = starts[w] /\ input.tag = TagOf(w)
             /\ \E k \in 1 .. Share(w) : input.nonce = NonceOf(w, k) % NonceSize
             /\ [who |-> w, input |-> input] \notin tried
  <2>1. PICK k \in 1 .. Share(w) : input = [job |-> mining[w], random |-> starts[w],
                                           nonce |-> NonceOf(w, k) % NonceSize, tag |-> TagOf(w)]
    BY DEF Inputs
  <2>2. k \in 1 .. NonceSize
    BY <1>1
  <2>3. input.nonce \in 0 .. NonceSize - 1 /\ Behind(w, input.nonce) = NonceSize - k
    BY <2>1, <2>2, NoncesOfAPass DEF NonceInv
  <2>4. TagOf(w) \in Nat
    <3>1. w.id \in Nat
      <4>1. ThreadIds \subseteq Nat /\ GpuIds \subseteq Nat
        BY NonceAssumption
      <4>2. (\E t \in ThreadIds : w = [kind |-> "cpu", id |-> t]) \/ (\E d \in GpuIds : w = [kind |-> "gpu", id |-> d])
        BY Zenon DEF Searcher
      <4> QED BY <4>1, <4>2
    <3> QED BY <3>1, NonceAssumption DEF TagOf, gpuNonceTag
  <2>5. mining[w] \in Nat /\ starts[w] \in Nat
    BY DEF NonceInv, NonceTypeOK
  <2>6. ~ Behind(w, input.nonce) < searched[w]
    BY <1>1, <1>2, <2>2, <2>3
  <2>7. [who |-> w, input |-> input] \notin tried
    BY <2>1, <2>6 DEF NonceInv, TriedIsBehind
  <2> QED BY <2>1, <2>3, <2>4, <2>5, <2>7 DEF Input
<1>5. again' = FALSE
  <2>1. Cardinality(Inputs(w)) = Share(w)
    BY <1>1, InputsOfAPass DEF NonceInv
  <2>2. ~ Cardinality(Inputs(w)) < Share(w)
    BY <1>1, <2>1
  <2>3. ~ \E input \in Inputs(w) : [who |-> w, input |-> input] \in tried
    BY <1>4
  <2> QED BY <2>2, <2>3, Zenon DEF Searches, NonceInv
<1>6. NonceTypeOK'
  <2>1. tried' \subseteq [who : Searcher, input : Input]
    BY <1>2, <1>4 DEF NonceInv, NonceTypeOK
  <2> QED BY <1>2, <1>3, <1>5, <2>1 DEF NonceInv, NonceTypeOK
<1>7. \A a \in tried' : a \in tried \/ (a.who = w /\ a.input \in Inputs(w))
  BY <1>2
<1>8. TriedIsPast'
  <2>1. \A v \in Searcher : mining[v] \in Nat /\ starts[v] \in Nat
    BY DEF NonceInv, NonceTypeOK
  <2>2. \A a \in tried' : /\ a.input.tag = TagOf(a.who) /\ a.input.random <= starts[a.who]
                          /\ a.input.random = starts[a.who] => a.input.job <= mining[a.who]
    <3> SUFFICES ASSUME NEW a \in tried'
                 PROVE  /\ a.input.tag = TagOf(a.who) /\ a.input.random <= starts[a.who]
                        /\ a.input.random = starts[a.who] => a.input.job <= mining[a.who]
      OBVIOUS
    <3>1. CASE a \in tried
      BY <3>1 DEF NonceInv, TriedIsPast
    <3>2. CASE a.who = w /\ a.input \in Inputs(w)
      <4>1. a.input.job = mining[w] /\ a.input.random = starts[w] /\ a.input.tag = TagOf(w)
        BY <1>4, <3>2
      <4> QED BY <2>1, <3>2, <4>1
    <3> QED BY <1>7, <3>1, <3>2
  <2>3. \A v \in Searcher : mining'[v] <= published'
    BY <1>2 DEF NonceInv, TriedIsPast
  <2> QED BY <1>2, <2>2, <2>3 DEF TriedIsPast, TagOf, gpuNonceTag
<1>9. TriedIsBehind'
  <2>1. /\ \A x \in 0 .. NonceSize - 1 :
              Behind(w, x) < searched[w] \/ (\E k \in 1 .. Share(w) : x = NonceOf(w, k) % NonceSize)
                => Behind(w, x)' < searched[w]'
        /\ \A v \in Searcher \ {w} : \A x \in 0 .. NonceSize - 1 : Behind(v, x)' = Behind(v, x)
    BY <1>3, SearchesKeepsBehind
  <2> SUFFICES ASSUME NEW a \in tried', a.input.random = starts[a.who], a.input.job = mining[a.who]
               PROVE  Behind(a.who, a.input.nonce)' < searched'[a.who]
    BY <1>2 DEF TriedIsBehind
  <2>2. a.who \in Searcher /\ a.input.nonce \in 0 .. NonceSize - 1
    BY <1>6 DEF NonceTypeOK, Input
  <2>3. CASE a \in tried /\ a.who = w
    BY <2>1, <2>2, <2>3 DEF NonceInv, TriedIsBehind
  <2>4. CASE a \in tried /\ a.who # w
    <3>1. searched'[a.who] = searched[a.who] /\ Behind(a.who, a.input.nonce)' = Behind(a.who, a.input.nonce)
      BY <1>2, <2>1, <2>2, <2>4 DEF NonceInv, NonceTypeOK
    <3> QED BY <2>4, <3>1 DEF NonceInv, TriedIsBehind
  <2>5. CASE a.who = w /\ a.input \in Inputs(w)
    BY <1>4, <2>1, <2>2, <2>5
  <2> QED BY <1>7, <2>3, <2>4, <2>5
<1> QED BY <1>5, <1>6, <1>8, <1>9 DEF NonceInv

-----------------------------------------------------------------------------
(* What was tried is told apart by its worker's tag.                       *)
LEMMA NonceInvShows == NonceInv => NoInputTwice
<1> SUFFICES ASSUME NonceInv PROVE NoInputTwice
  OBVIOUS
<1>1. ASSUME NEW a \in tried, NEW b \in tried, a.input = b.input, a.who # b.who
      PROVE  \E t, d \in {a.who, b.who} : t.kind = "cpu" /\ d.kind = "gpu" /\ t.id = GpuTag + d.id
  <2>1. a.who \in Searcher /\ b.who \in Searcher /\ TagOf(a.who) = TagOf(b.who)
    BY <1>1 DEF NonceInv, NonceTypeOK, TriedIsPast
  <2> QED BY <1>1, <2>1, TagsApart
<1> QED BY <1>1 DEF NoInputTwice, NonceInv

(* Whatever the number of threads and cards and however they are started   *)
(* and jobs come, no input is hashed twice, but by a thread past the 240th *)
(* and the card that shares its tag (RunMiner, RunGPUMiner).               *)
THEOREM NoInputIsTriedTwice == NonceSpec => []NoInputTwice
<1>1. NonceInv /\ [NonceNext]_nonceVars => NonceInv'
  <2> SUFFICES ASSUME NonceInv, [NonceNext]_nonceVars PROVE NonceInv'
    OBVIOUS
  <2>1. CASE NonceNext
    BY <2>1, PublishKeepsInv, StartKeepsInv, TakesKeepsInv, SearchKeepsInv DEF NonceNext
  <2>2. CASE UNCHANGED nonceVars
    BY <2>2 DEF nonceVars, NonceInv, NonceTypeOK, TriedIsPast, TriedIsBehind, Behind, NonceOf, TagOf, gpuNonceTag
  <2> QED BY <2>1, <2>2
<1> QED BY <1>1, NonceInvInit, NonceInvShows, PTL DEF NonceSpec

-----------------------------------------------------------------------------
(***************************************************************************)
(* The sampler.  Sums first; then, each for itself, the windows of rates,  *)
(* what they account for, the peak and the slots; then the steps of the    *)
(* sampler, which only put these together.                                 *)
(***************************************************************************)

(* Sums.                                                                   *)

(* u adds the numbers of f up, one after the other.                        *)
AddsUp(u, f, n) == u = [i \in 0 .. n |-> IF i = 0 THEN 0 ELSE u[i - 1] + f[i]]

LEMMA SumIs ==
  ASSUME NEW f, NEW n \in Nat
  PROVE  \E u : SumTo(f, n) = u[n] /\ AddsUp(u, f, n)
<1> DEFINE Solves(u, m) == u = [i \in 0 .. m |-> IF i = 0 THEN 0 ELSE u[i - 1] + f[i]]
           T == {m \in Nat : \E u : Solves(u, m)}
<1>1. 0 \in T
  <2>1. Solves([i \in 0 .. 0 |-> 0], 0)
    OBVIOUS
  <2> QED BY <2>1
<1>2. ASSUME NEW m \in Nat, m \in T PROVE m + 1 \in T
  <2>1. PICK u : Solves(u, m)
    BY <1>2
  <2> DEFINE g == [i \in 0 .. m + 1 |-> IF i <= m THEN u[i] ELSE u[m] + f[m + 1]]
  <2>2. \A i \in 0 .. m + 1 : g[i] = IF i = 0 THEN 0 ELSE g[i - 1] + f[i]
    <3> TAKE i \in 0 .. m + 1
    <3>1. CASE i <= m
      <4>1. g[i] = u[i] /\ (i # 0 => g[i - 1] = u[i - 1])
        BY <3>1
      <4>2. u[i] = IF i = 0 THEN 0 ELSE u[i - 1] + f[i]
        BY <2>1, <3>1
      <4> QED BY <4>1, <4>2
    <3>2. CASE i = m + 1
      BY <3>2
    <3> QED BY <3>1, <3>2
  <2>3. g = [i \in 0 .. m + 1 |-> g[i]]
    OBVIOUS
  <2> HIDE DEF g
  <2>4. Solves(g, m + 1)
    BY <2>2, <2>3, Zenon
  <2> QED BY <2>4
<1>3. n \in T
  <2> HIDE DEF T
  <2> QED BY <1>1, <1>2, Induction
<1>4. PICK u : Solves(u, n)
  BY <1>3
<1>5. Solves(CHOOSE g : Solves(g, n), n)
  BY <1>4
<1>6. SumTo(f, n) = (CHOOSE g : Solves(g, n))[n]
  BY DEF SumTo
<1> QED BY <1>5, <1>6 DEF AddsUp

LEMMA AddsBy ==
  ASSUME NEW u, NEW f, NEW n \in Nat, AddsUp(u, f, n)
  PROVE  u[0] = 0 /\ \A i \in 0 .. n - 1 : u[i + 1] = u[i] + f[i + 1]
<1>1. u[0] = 0
  BY DEF AddsUp
<1>2. ASSUME NEW i \in 0 .. n - 1 PROVE u[i + 1] = u[i] + f[i + 1]
  <2>1. i + 1 \in 0 .. n /\ i + 1 # 0 /\ (i + 1) - 1 = i
    OBVIOUS
  <2> QED BY <2>1 DEF AddsUp
<1> QED BY <1>1, <1>2

LEMMA SumBegins == ASSUME NEW f PROVE SumTo(f, 0) = 0
<1>1. PICK u : SumTo(f, 0) = u[0] /\ AddsUp(u, f, 0)
  BY SumIs
<1> QED BY <1>1, AddsBy

LEMMA SumStep == ASSUME NEW f, NEW n \in Nat PROVE SumTo(f, n + 1) = SumTo(f, n) + f[n + 1]
<1>1. PICK u : SumTo(f, n) = u[n] /\ AddsUp(u, f, n)
  BY SumIs
<1>2. PICK v : SumTo(f, n + 1) = v[n + 1] /\ AddsUp(v, f, n + 1)
  BY SumIs
<1>3. u[0] = 0 /\ \A i \in 0 .. n - 1 : u[i + 1] = u[i] + f[i + 1]
  BY <1>1, AddsBy
<1>4. v[0] = 0 /\ \A i \in 0 .. (n + 1) - 1 : v[i + 1] = v[i] + f[i + 1]
  BY <1>2, AddsBy
<1> DEFINE T == {m \in Nat : m <= n => u[m] = v[m]}
<1>5. 0 \in T
  BY <1>3, <1>4
<1>6. ASSUME NEW m \in Nat, m \in T PROVE m + 1 \in T
  <2>1. SUFFICES ASSUME m + 1 <= n PROVE u[m + 1] = v[m + 1]
    OBVIOUS
  <2>2. m \in 0 .. n - 1 /\ m \in 0 .. (n + 1) - 1 /\ u[m] = v[m]
    BY <1>6, <2>1
  <2> QED BY <1>3, <1>4, <2>2
<1>7. n \in T
  <2> HIDE DEF T
  <2> QED BY <1>5, <1>6, Induction
<1>8. n \in 0 .. (n + 1) - 1 /\ u[n] = v[n]
  BY <1>7
<1> QED BY <1>1, <1>2, <1>4, <1>8

Numbers(f, n) == \A i \in 1 .. n : f[i] \in Nat

LEMMA SumNat ==
  ASSUME NEW f, NEW n \in Nat, Numbers(f, n), NEW m \in 0 .. n
  PROVE  SumTo(f, m) \in Nat
<1> DEFINE T == {k \in Nat : k <= n => SumTo(f, k) \in Nat}
<1>1. 0 \in T
  BY SumBegins
<1>2. ASSUME NEW k \in Nat, k \in T PROVE k + 1 \in T
  <2>1. SUFFICES ASSUME k + 1 <= n PROVE SumTo(f, k + 1) \in Nat
    OBVIOUS
  <2>2. k + 1 \in 1 .. n /\ SumTo(f, k) \in Nat
    BY <1>2, <2>1
  <2>3. f[k + 1] \in Nat
    BY <2>2 DEF Numbers
  <2> QED BY <2>2, <2>3, SumStep
<1>3. Nat \subseteq T
  <2> HIDE DEF T
  <2> QED BY <1>1, <1>2, Induction
<1> QED BY <1>3

Shifted(f, g, d, n) == \A i \in 1 .. n : g[i] = f[d + i]

(* What comes after the first d of them adds up to the difference.         *)
LEMMA SumShifts ==
  ASSUME NEW f, NEW g, NEW d \in Nat, NEW n \in Nat, Numbers(f, d + n), Shifted(f, g, d, n), NEW m \in 0 .. n
  PROVE  SumTo(g, m) = SumTo(f, d + m) - SumTo(f, d)
<1> DEFINE T == {k \in Nat : k <= n => SumTo(g, k) = SumTo(f, d + k) - SumTo(f, d)}
<1>1. d \in 0 .. d + n /\ d + n \in Nat
  OBVIOUS
<1>2. SumTo(f, d) \in Nat
  BY <1>1, SumNat
<1>3. 0 \in T
  <2>1. SumTo(g, 0) = 0 /\ d + 0 = d
    BY SumBegins
  <2> QED BY <1>2, <2>1
<1>4. ASSUME NEW k \in Nat, k \in T PROVE k + 1 \in T
  <2>1. SUFFICES ASSUME k + 1 <= n PROVE SumTo(g, k + 1) = SumTo(f, d + (k + 1)) - SumTo(f, d)
    OBVIOUS
  <2>2. /\ k + 1 \in 1 .. n /\ SumTo(g, k) = SumTo(f, d + k) - SumTo(f, d)
        /\ d + k \in Nat /\ d + k \in 0 .. d + n /\ (d + k) + 1 \in 1 .. d + n
        /\ d + (k + 1) = (d + k) + 1
    BY <1>4, <2>1
  <2>3. g[k + 1] = f[(d + k) + 1] /\ f[(d + k) + 1] \in Nat
    BY <2>2 DEF Shifted, Numbers
  <2>4. SumTo(f, d + k) \in Nat
    BY <1>1, <2>2, SumNat
  <2>5. SumTo(g, k + 1) = SumTo(g, k) + g[k + 1]
    BY SumStep
  <2>6. SumTo(f, (d + k) + 1) = SumTo(f, d + k) + f[(d + k) + 1]
    BY <2>2, SumStep
  <2> QED BY <1>2, <2>2, <2>3, <2>4, <2>5, <2>6
<1>5. Nat \subseteq T
  <2> HIDE DEF T
  <2> QED BY <1>3, <1>4, Induction
<1> QED BY <1>5

Climbs(f, t, n) == t[0] \in Int /\ \A i \in 1 .. n : t[i] \in Int /\ f[i] = t[i] - t[i - 1]

(* The steps of a climb add up to its height.                              *)
LEMMA SumClimbs ==
  ASSUME NEW f, NEW t, NEW n \in Nat, Climbs(f, t, n)
  PROVE  SumTo(f, n) = t[n] - t[0]
<1> DEFINE T == {k \in Nat : k <= n => SumTo(f, k) = t[k] - t[0]}
<1>1. 0 \in T
  <2>1. t[0] \in Int
    BY DEF Climbs
  <2> QED BY <2>1, SumBegins
<1>2. ASSUME NEW k \in Nat, k \in T PROVE k + 1 \in T
  <2>1. SUFFICES ASSUME k + 1 <= n PROVE SumTo(f, k + 1) = t[k + 1] - t[0]
    OBVIOUS
  <2>2. k + 1 \in 1 .. n /\ SumTo(f, k) = t[k] - t[0] /\ (k + 1) - 1 = k
    BY <1>2, <2>1
  <2>3. t[k + 1] \in Int /\ f[k + 1] = t[k + 1] - t[k] /\ t[0] \in Int /\ (k # 0 => t[k] \in Int)
    <3>1. k # 0 => k \in 1 .. n
      BY <2>2
    <3> QED BY <2>2, <3>1 DEF Climbs
  <2>4. SumTo(f, k + 1) = SumTo(f, k) + f[k + 1]
    BY SumStep
  <2>5. t[k] \in Int
    BY <2>3
  <2> QED BY <2>2, <2>3, <2>4, <2>5
<1>3. Nat \subseteq T
  <2> HIDE DEF T
  <2> QED BY <1>1, <1>2, Induction
<1> QED BY <1>3

-----------------------------------------------------------------------------
(* The windows.                                                            *)
Sample == [rate : Nat, total : Nat]
Timed  == [rate : Nat, dt : Nat \ {0}]

TotalAt(s, i) == IF i = 0 THEN 0 ELSE s[i].total

(* w is the rates of the latest samples, n of them once there are so many. *)
Latest(w, n, s) ==
  /\ Len(w) = IF Len(s) < n THEN Len(s) ELSE n
  /\ \A j \in 1 .. Len(w) : w[j].rate = s[Len(s) - Len(w) + j].rate

(* Each rate of w stands for what the total rose by in its sample.         *)
Accounts(w, s) ==
  \A j \in 1 .. Len(w) :
    w[j].rate * w[j].dt
      = (TotalAt(s, Len(s) - Len(w) + j) - TotalAt(s, Len(s) - Len(w) + j - 1)) * Unit

LEMMA WindowAddIs ==
  ASSUME NEW w \in Seq(Timed), NEW n \in Nat \ {0}, NEW r \in Timed, Len(w) <= n
  PROVE  \E p \in Seq(Timed), d \in {0, 1} :
           /\ p = WindowAdd(w, n, r) /\ d = Len(w) + 1 - Len(p)
           /\ Len(p) = (IF Len(w) < n THEN Len(w) + 1 ELSE n)
           /\ p[Len(p)] = r
           /\ \A j \in 1 .. Len(p) - 1 : p[j] = w[d + j]
<1> DEFINE p == WindowAdd(w, n, r)
<1>1. CASE Len(w) < n
  <2>1. p = Append(w, r)
    BY <1>1 DEF WindowAdd
  <2>2. /\ p \in Seq(Timed) /\ Len(p) = Len(w) + 1 /\ p[Len(p)] = r
        /\ \A j \in 1 .. Len(p) - 1 : p[j] = w[0 + j]
    BY <2>1
  <2> HIDE DEF p
  <2>3. 0 = Len(w) + 1 - Len(p)
    BY <2>2
  <2> QED BY <1>1, <2>2, <2>3 DEF p
<1>2. CASE Len(w) = n
  <2>1. p = Append(Tail(w), r)
    BY <1>2 DEF WindowAdd
  <2>2. Tail(w) \in Seq(Timed) /\ Len(Tail(w)) = n - 1 /\ \A j \in 1 .. n - 1 : Tail(w)[j] = w[1 + j]
    BY <1>2
  <2>3. /\ p \in Seq(Timed) /\ Len(p) = n /\ p[Len(p)] = r
        /\ \A j \in 1 .. Len(p) - 1 : p[j] = w[1 + j]
    BY <2>1, <2>2
  <2> HIDE DEF p
  <2>4. 1 = Len(w) + 1 - Len(p)
    BY <1>2, <2>3
  <2> QED BY <1>2, <2>3, <2>4 DEF p
<1> QED BY <1>1, <1>2

(* Where the j-th of the window came from.                                 *)
LEMMA Places ==
  ASSUME NEW a \in Nat, NEW b \in Nat, NEW c \in Nat, NEW d \in Nat, NEW e \in Nat,
         a <= b, e = b + 1, c = a + 1 - d, NEW j \in 1 .. c, j # c
  PROVE  /\ j \in 1 .. c - 1 /\ d + j \in 1 .. a /\ e - c + j = b - a + (d + j)
         /\ e - c + j - 1 = b - a + (d + j) - 1
         /\ b - a + (d + j) \in 1 .. b /\ b - a + (d + j) \in 0 .. b /\ b - a + (d + j) - 1 \in 0 .. b
  OBVIOUS

LEMMA LatestGrows ==
  ASSUME NEW w \in Seq(Timed), NEW n \in Nat \ {0}, NEW r \in Timed, NEW s \in Seq(Sample), NEW x \in Sample,
         Latest(w, n, s), r.rate = x.rate
  PROVE  /\ WindowAdd(w, n, r) \in Seq(Timed)
         /\ Latest(WindowAdd(w, n, r), n, Append(s, x))
<1>1. Len(w) = IF Len(s) < n THEN Len(s) ELSE n
  BY DEF Latest
<1>2. Len(w) <= n /\ Len(w) \in Nat /\ Len(s) \in Nat
  BY <1>1
<1>3. PICK p \in Seq(Timed), d \in {0, 1} :
        /\ p = WindowAdd(w, n, r) /\ d = Len(w) + 1 - Len(p)
        /\ Len(p) = (IF Len(w) < n THEN Len(w) + 1 ELSE n)
        /\ p[Len(p)] = r
        /\ \A j \in 1 .. Len(p) - 1 : p[j] = w[d + j]
  BY <1>2, WindowAddIs
<1> DEFINE t == Append(s, x)
<1>4. t \in Seq(Sample) /\ Len(t) = Len(s) + 1 /\ t[Len(s) + 1] = x /\ \A i \in 1 .. Len(s) : t[i] = s[i]
  OBVIOUS
<1> HIDE DEF t
<1>a. Len(p) \in Nat /\ d \in Nat /\ Len(w) <= Len(s) /\ Len(t) = Len(s) + 1 /\ Len(p) = Len(w) + 1 - d
  BY <1>1, <1>2, <1>3, <1>4
<1>5. Len(p) = IF Len(t) < n THEN Len(t) ELSE n
  BY <1>1, <1>2, <1>3, <1>4
<1>6. ASSUME NEW j \in 1 .. Len(p) PROVE p[j].rate = t[Len(t) - Len(p) + j].rate
  <2>1. CASE j = Len(p)
    <3>1. Len(t) - Len(p) + j = Len(s) + 1
      BY <1>2, <1>3, <1>4, <2>1
    <3> QED BY <1>3, <1>4, <2>1, <3>1
  <2>2. CASE j # Len(p)
    <3>1. /\ j \in 1 .. Len(p) - 1 /\ d + j \in 1 .. Len(w)
          /\ Len(t) - Len(p) + j = Len(s) - Len(w) + (d + j)
          /\ Len(s) - Len(w) + (d + j) \in 1 .. Len(s)
      <4>1. Len(t) \in Nat
        BY <1>2, <1>a
      <4> QED BY <1>2, <1>a, <2>2, <4>1, Places
    <3>2. w[d + j].rate = s[Len(s) - Len(w) + (d + j)].rate
      BY <3>1 DEF Latest
    <3> QED BY <1>3, <1>4, <3>1, <3>2
  <2> QED BY <2>1, <2>2
<1>7. Latest(p, n, t)
  BY <1>5, <1>6 DEF Latest
<1> QED BY <1>3, <1>7 DEF t

LEMMA AccountsGrow ==
  ASSUME NEW w \in Seq(Timed), NEW n \in Nat \ {0}, NEW r \in Timed, NEW s \in Seq(Sample), NEW x \in Sample,
         Latest(w, n, s), Accounts(w, s), r.rate * r.dt = (x.total - TotalAt(s, Len(s))) * Unit
  PROVE  Accounts(WindowAdd(w, n, r), Append(s, x))
<1>1. Len(w) = IF Len(s) < n THEN Len(s) ELSE n
  BY DEF Latest
<1>2. Len(w) <= n /\ Len(w) \in Nat /\ Len(s) \in Nat
  BY <1>1
<1>3. PICK p \in Seq(Timed), d \in {0, 1} :
        /\ p = WindowAdd(w, n, r) /\ d = Len(w) + 1 - Len(p)
        /\ Len(p) = (IF Len(w) < n THEN Len(w) + 1 ELSE n)
        /\ p[Len(p)] = r
        /\ \A j \in 1 .. Len(p) - 1 : p[j] = w[d + j]
  BY <1>2, WindowAddIs
<1> DEFINE t == Append(s, x)
<1>4. t \in Seq(Sample) /\ Len(t) = Len(s) + 1 /\ t[Len(s) + 1] = x /\ \A i \in 1 .. Len(s) : t[i] = s[i]
  OBVIOUS
<1> HIDE DEF t
<1>a. Len(p) \in Nat /\ d \in Nat /\ Len(w) <= Len(s) /\ Len(t) = Len(s) + 1 /\ Len(p) = Len(w) + 1 - d
  BY <1>1, <1>2, <1>3, <1>4
<1>5. \A i \in 0 .. Len(s) : TotalAt(t, i) = TotalAt(s, i)
  BY <1>4 DEF TotalAt
<1>6. TotalAt(t, Len(s) + 1) = x.total
  BY <1>2, <1>4 DEF TotalAt
<1>7. ASSUME NEW j \in 1 .. Len(p)
      PROVE  p[j].rate * p[j].dt
               = (TotalAt(t, Len(t) - Len(p) + j) - TotalAt(t, Len(t) - Len(p) + j - 1)) * Unit
  <2>1. CASE j = Len(p)
    <3>1. Len(t) - Len(p) + j = Len(s) + 1 /\ Len(t) - Len(p) + j - 1 = Len(s) /\ Len(s) \in 0 .. Len(s)
      BY <1>2, <1>3, <1>4, <2>1
    <3> QED BY <1>3, <1>5, <1>6, <2>1, <3>1
  <2>2. CASE j # Len(p)
    <3>1. /\ j \in 1 .. Len(p) - 1 /\ d + j \in 1 .. Len(w)
          /\ Len(t) - Len(p) + j = Len(s) - Len(w) + (d + j)
          /\ Len(t) - Len(p) + j - 1 = Len(s) - Len(w) + (d + j) - 1
          /\ Len(s) - Len(w) + (d + j) \in 0 .. Len(s) /\ Len(s) - Len(w) + (d + j) - 1 \in 0 .. Len(s)
      <4>1. Len(t) \in Nat
        BY <1>2, <1>a
      <4> QED BY <1>2, <1>a, <2>2, <4>1, Places
    <3>2. w[d + j].rate * w[d + j].dt
            = (TotalAt(s, Len(s) - Len(w) + (d + j)) - TotalAt(s, Len(s) - Len(w) + (d + j) - 1)) * Unit
      BY <3>1 DEF Accounts
    <3>3. p[j] = w[d + j]
      BY <1>3, <3>1
    <3> QED BY <1>5, <3>1, <3>2, <3>3
  <2> QED BY <2>1, <2>2
<1>8. Accounts(p, t)
  BY <1>7 DEF Accounts
<1> QED BY <1>3, <1>8 DEF t

WindowIn(s, i, n) ==
  LET before == IF i > n THEN i - n ELSE 0 IN [j \in 1 .. i - before |-> s[before + j]]

LEMMA WindowInIs ==
  ASSUME NEW s \in Seq(Sample), NEW i \in 1 .. Len(s), NEW n \in Nat \ {0}
  PROVE  /\ Len(WindowIn(s, i, n)) = (IF i > n THEN n ELSE i)
         /\ Len(WindowIn(s, i, n)) \in 1 .. i
         /\ WindowIn(s, i, n) \in Seq(Sample)
         /\ \A j \in 1 .. Len(WindowIn(s, i, n)) :
              WindowIn(s, i, n)[j] = s[i - Len(WindowIn(s, i, n)) + j]
<1> DEFINE before == IF i > n THEN i - n ELSE 0
           w == WindowIn(s, i, n)
<1>1. before \in 0 .. i - 1 /\ i - before = IF i > n THEN n ELSE i
  OBVIOUS
<1>2. w = [j \in 1 .. i - before |-> s[before + j]]
  BY DEF WindowIn
<1> HIDE DEF before, w
<1>3. \A j \in 1 .. i - before : s[before + j] \in Sample
  <2> TAKE j \in 1 .. i - before
  <2>1. before + j \in 1 .. Len(s)
    BY <1>1
  <2> QED BY <2>1
<1>4. i - before \in Nat
  BY <1>1
<1>5. w \in Seq(Sample) /\ Len(w) = i - before
  BY <1>2, <1>3, <1>4
<1>6. i - Len(w) = before
  BY <1>1, <1>5
<1> QED BY <1>1, <1>2, <1>5, <1>6 DEF w

LEMMA WindowStays ==
  ASSUME NEW s \in Seq(Sample), NEW x \in Sample, NEW i \in 1 .. Len(s), NEW n \in Nat \ {0}
  PROVE  WindowIn(Append(s, x), i, n) = WindowIn(s, i, n)
<1> DEFINE before == IF i > n THEN i - n ELSE 0
<1>1. before \in 0 .. i - 1
  OBVIOUS
<1>2. WindowIn(s, i, n) = [j \in 1 .. i - before |-> s[before + j]]
  BY DEF WindowIn
<1>3. WindowIn(Append(s, x), i, n) = [j \in 1 .. i - before |-> Append(s, x)[before + j]]
  BY DEF WindowIn
<1> HIDE DEF before
<1>4. ASSUME NEW j \in 1 .. i - before PROVE Append(s, x)[before + j] = s[before + j]
  <2>1. before + j \in 1 .. Len(s)
    BY <1>1
  <2> QED BY <2>1
<1> QED BY <1>2, <1>3, <1>4

LEMMA RatesOfWindow ==
  ASSUME NEW w \in Seq(Timed), NEW n \in Nat \ {0}, NEW s \in Seq(Sample), Latest(w, n, s), s # <<>>
  PROVE  /\ Len(WindowIn(s, Len(s), n)) = Len(w) /\ Len(w) \in Nat \ {0}
         /\ Rates(WindowIn(s, Len(s), n)) = Rates(w)
<1> DEFINE k == Len(s)
           v == WindowIn(s, k, n)
<1>1. k \in 1 .. Len(s)
  OBVIOUS
<1>2. /\ Len(v) = (IF k > n THEN n ELSE k) /\ Len(v) \in 1 .. k
      /\ \A j \in 1 .. Len(v) : v[j] = s[k - Len(v) + j]
  <2> HIDE DEF k
  <2> QED BY <1>1, WindowInIs
<1>3. /\ Len(w) = (IF k < n THEN k ELSE n)
      /\ \A j \in 1 .. Len(w) : w[j].rate = s[k - Len(w) + j].rate
  BY DEF Latest
<1>4. Len(v) = Len(w)
  BY <1>1, <1>2, <1>3
<1> HIDE DEF v, k
<1>5. \A j \in 1 .. Len(w) : v[j].rate = w[j].rate
  BY <1>2, <1>3, <1>4
<1>6. Rates(v) = Rates(w)
  BY <1>4, <1>5 DEF Rates
<1> QED BY <1>1, <1>2, <1>4, <1>6 DEF v, k

LEMMA RateSumIs ==
  ASSUME NEW w \in Seq(Timed)
  PROVE  SumOf(Rates(w)) \in Nat
<1>1. Len(w) \in Nat /\ \A i \in 1 .. Len(w) : w[i].rate \in Nat
  <2>1. Len(w) \in Nat /\ \A i \in 1 .. Len(w) : w[i] \in Timed
    OBVIOUS
  <2>2. \A r \in Timed : r.rate \in Nat
    BY DEF Timed
  <2> QED BY <2>1, <2>2
<1>2. Len(Rates(w)) = Len(w) /\ \A i \in 1 .. Len(w) : Rates(w)[i] = w[i].rate
  BY <1>1 DEF Rates
<1>3. Numbers(Rates(w), Len(w)) /\ Len(w) \in 0 .. Len(w)
  BY <1>1, <1>2 DEF Numbers
<1> QED BY <1>1, <1>2, <1>3, SumNat DEF SumOf

LEMMA SampleSumIs ==
  ASSUME NEW w \in Seq(Sample)
  PROVE  SumOf(Rates(w)) \in Nat
<1>1. Len(w) \in Nat /\ \A i \in 1 .. Len(w) : w[i].rate \in Nat
  <2>1. Len(w) \in Nat /\ \A i \in 1 .. Len(w) : w[i] \in Sample
    OBVIOUS
  <2>2. \A r \in Sample : r.rate \in Nat
    BY DEF Sample
  <2> QED BY <2>1, <2>2
<1>2. Len(Rates(w)) = Len(w) /\ \A i \in 1 .. Len(w) : Rates(w)[i] = w[i].rate
  BY <1>1 DEF Rates
<1>3. Numbers(Rates(w), Len(w)) /\ Len(w) \in 0 .. Len(w)
  BY <1>1, <1>2 DEF Numbers
<1> QED BY <1>1, <1>2, <1>3, SumNat DEF SumOf

-----------------------------------------------------------------------------
LEMMA TotalsAre == ASSUME NEW s \in Seq(Sample) PROVE \A i \in 0 .. Len(s) : TotalAt(s, i) \in Nat
<1>1. \A i \in 1 .. Len(s) : s[i] \in Sample
  OBVIOUS
<1>2. \A r \in Sample : r.total \in Nat
  BY DEF Sample
<1>3. \A i \in 0 .. Len(s) : i = 0 \/ i \in 1 .. Len(s)
  OBVIOUS
<1> QED BY <1>1, <1>2, <1>3 DEF TotalAt

(* The rise of the total over a window is what its rates come to.          *)
LEMMA AccountsAdds ==
  ASSUME NEW w \in Seq(Timed), NEW s \in Seq(Sample), Accounts(w, s), Len(w) <= Len(s), Unit \in Nat
  PROVE  SumOf([i \in 1 .. Len(w) |-> w[i].rate * w[i].dt])
           = (TotalAt(s, Len(s)) - TotalAt(s, Len(s) - Len(w))) * Unit
<1> DEFINE k == Len(w)
           b == Len(s) - k
           f == [i \in 1 .. k |-> w[i].rate * w[i].dt]
           t == [i \in 0 .. k |-> TotalAt(s, b + i) * Unit]
<1>1. k \in Nat /\ b \in Nat
  OBVIOUS
<1>2. \A i \in 0 .. Len(s) : TotalAt(s, i) \in Nat
  BY TotalsAre
<1>3. ASSUME NEW i \in 0 .. k PROVE t[i] \in Int
  <2>1. b + i \in 0 .. Len(s)
    BY <1>1
  <2>2. TotalAt(s, b + i) \in Nat
    BY <1>2, <2>1
  <2> QED BY <2>2
<1>4. ASSUME NEW i \in 1 .. k PROVE f[i] = t[i] - t[i - 1]
  <2>1. w[i].rate * w[i].dt = (TotalAt(s, b + i) - TotalAt(s, b + i - 1)) * Unit
    BY DEF Accounts
  <2>2. b + i \in 0 .. Len(s) /\ b + i - 1 \in 0 .. Len(s) /\ b + (i - 1) = b + i - 1 /\ i - 1 \in 0 .. k /\ i \in 0 .. k
    BY <1>1
  <2>3. TotalAt(s, b + i) \in Nat /\ TotalAt(s, b + i - 1) \in Nat
    BY <1>2, <2>2
  <2>4. \A x, y \in Nat : (x - y) * Unit = x * Unit - y * Unit
    OBVIOUS
  <2>5. t[i] = TotalAt(s, b + i) * Unit /\ t[i - 1] = TotalAt(s, b + i - 1) * Unit
    BY <2>2
  <2>6. f[i] = w[i].rate * w[i].dt
    OBVIOUS
  <2> QED BY <2>1, <2>3, <2>4, <2>5, <2>6
<1>5. Len(f) = k
  BY <1>1
<1>6. t[k] = TotalAt(s, Len(s)) * Unit /\ t[0] = TotalAt(s, b) * Unit
  BY <1>1
<1>a. TotalAt(s, Len(s)) \in Nat /\ TotalAt(s, b) \in Nat
  BY <1>1, <1>2
<1> HIDE DEF f, t
<1>7. Climbs(f, t, k)
  <2>1. 0 \in 0 .. k /\ \A i \in 1 .. k : i \in 0 .. k
    BY <1>1
  <2> HIDE DEF k
  <2> QED BY <1>3, <1>4, <2>1 DEF Climbs
<1>8. SumTo(f, k) = t[k] - t[0]
  BY <1>1, <1>7, SumClimbs
<1>9. SumOf(f) = (TotalAt(s, Len(s)) - TotalAt(s, b)) * Unit
  <2>1. \A x, y \in Nat : (x - y) * Unit = x * Unit - y * Unit
    OBVIOUS
  <2> QED BY <1>5, <1>6, <1>8, <1>a, <2>1 DEF SumOf
<1> QED BY <1>9 DEF f

-----------------------------------------------------------------------------
(* The slots of a history.                                                 *)
Slot == [sum : Nat, cnt : Nat]

Cnts(vals) == [i \in 1 .. Len(vals) |-> vals[i].cnt]
Sums(vals) == [i \in 1 .. Len(vals) |-> vals[i].sum]

(* The first j slots hold the f of the samples after the b-th, all of them *)
(* and in order.                                                           *)
Filled(vals, b, f) ==
  \A j \in 0 .. Len(vals) :
    SumTo(Sums(vals), j) = SumTo(f, b + SumTo(Cnts(vals), j)) - SumTo(f, b)

(* Of n samples the slots hold those after the b-th, all but the last cnt, *)
(* which are in acc.                                                       *)
Holds(vals, acc, cnt, n, b, f) ==
  /\ b + SumTo(Cnts(vals), Len(vals)) + cnt = n
  /\ Filled(vals, b, f)
  /\ acc = SumTo(f, n) - SumTo(f, n - cnt)

LEMMA SumGrows ==
  ASSUME NEW f, NEW n \in Nat, Numbers(f, n), NEW m \in 0 .. n
  PROVE  SumTo(f, m) <= SumTo(f, n) /\ SumTo(f, m) \in Nat /\ SumTo(f, n) \in Nat
<1> DEFINE k == n - m
           g == [i \in 1 .. k |-> f[m + i]]
<1>1. k \in Nat /\ k \in 0 .. k /\ m \in Nat /\ m + k = n /\ n \in 0 .. n
  OBVIOUS
<1>2. \A i \in 1 .. k : m + i \in 1 .. n /\ g[i] = f[m + i]
  OBVIOUS
<1> HIDE DEF g, k
<1>3. Numbers(g, k) /\ Shifted(f, g, m, k) /\ Numbers(f, m + k)
  BY <1>1, <1>2 DEF Numbers, Shifted
<1>4. SumTo(g, k) = SumTo(f, n) - SumTo(f, m)
  BY <1>1, <1>3, SumShifts
<1>5. SumTo(g, k) \in Nat
  BY <1>1, <1>3, SumNat
<1>6. SumTo(f, m) \in Nat /\ SumTo(f, n) \in Nat
  BY <1>1, SumNat
<1> QED BY <1>4, <1>5, <1>6

LEMMA SlotNumbers ==
  ASSUME NEW vals \in Seq(Slot)
  PROVE  /\ Len(vals) \in Nat /\ Numbers(Cnts(vals), Len(vals)) /\ Numbers(Sums(vals), Len(vals))
         /\ \A i \in 1 .. Len(vals) : Cnts(vals)[i] = vals[i].cnt /\ Sums(vals)[i] = vals[i].sum
<1>1. Len(vals) \in Nat /\ \A i \in 1 .. Len(vals) : vals[i] \in Slot
  OBVIOUS
<1>2. \A r \in Slot : r.cnt \in Nat /\ r.sum \in Nat
  BY DEF Slot
<1> QED BY <1>1, <1>2 DEF Numbers, Cnts, Sums

LEMMA CntsGrow ==
  ASSUME NEW vals \in Seq(Slot), NEW j \in 0 .. Len(vals)
  PROVE  /\ SumTo(Cnts(vals), j) \in Nat /\ SumTo(Sums(vals), j) \in Nat
         /\ SumTo(Cnts(vals), Len(vals)) \in Nat
         /\ SumTo(Cnts(vals), j) <= SumTo(Cnts(vals), Len(vals))
  BY SlotNumbers, SumGrows

(* One slot more leaves the others.                                        *)
LEMMA SlotAdded ==
  ASSUME NEW vals \in Seq(Slot), NEW x \in Slot
  PROVE  /\ Append(vals, x) \in Seq(Slot) /\ Len(Append(vals, x)) = Len(vals) + 1
         /\ \A j \in 0 .. Len(vals) :
              /\ SumTo(Cnts(Append(vals, x)), j) = SumTo(Cnts(vals), j)
              /\ SumTo(Sums(Append(vals, x)), j) = SumTo(Sums(vals), j)
         /\ SumTo(Cnts(Append(vals, x)), Len(vals) + 1) = SumTo(Cnts(vals), Len(vals)) + x.cnt
         /\ SumTo(Sums(Append(vals, x)), Len(vals) + 1) = SumTo(Sums(vals), Len(vals)) + x.sum
<1> DEFINE v == Append(vals, x)
           m == Len(vals)
<1>1. v \in Seq(Slot) /\ Len(v) = m + 1 /\ v[m + 1] = x /\ \A i \in 1 .. m : v[i] = vals[i]
  OBVIOUS
<1>2. m \in Nat /\ 0 + m = m
  OBVIOUS
<1> HIDE DEF v
<1>3. /\ \A i \in 1 .. m : Cnts(v)[i] = Cnts(vals)[i] /\ Sums(v)[i] = Sums(vals)[i]
      /\ Cnts(v)[m + 1] = x.cnt /\ Sums(v)[m + 1] = x.sum
  BY <1>1, <1>2, SlotNumbers DEF Cnts, Sums
<1>4. Shifted(Cnts(vals), Cnts(v), 0, m) /\ Shifted(Sums(vals), Sums(v), 0, m)
  BY <1>2, <1>3 DEF Shifted
<1>5. Numbers(Cnts(vals), 0 + m) /\ Numbers(Sums(vals), 0 + m)
  BY <1>2, SlotNumbers
<1>6. ASSUME NEW j \in 0 .. m
      PROVE  SumTo(Cnts(v), j) = SumTo(Cnts(vals), j) /\ SumTo(Sums(v), j) = SumTo(Sums(vals), j)
  <2>1. 0 \in Nat /\ j \in Nat /\ 0 + j = j
    BY <1>2
  <2>2. SumTo(Cnts(vals), j) \in Nat /\ SumTo(Sums(vals), j) \in Nat
    BY CntsGrow
  <2>3. SumTo(Cnts(v), j) = SumTo(Cnts(vals), 0 + j) - SumTo(Cnts(vals), 0)
    BY <1>2, <1>4, <1>5, <2>1, SumShifts
  <2>4. SumTo(Sums(v), j) = SumTo(Sums(vals), 0 + j) - SumTo(Sums(vals), 0)
    BY <1>2, <1>4, <1>5, <2>1, SumShifts
  <2>5. SumTo(Cnts(vals), 0) = 0 /\ SumTo(Sums(vals), 0) = 0
    BY SumBegins
  <2> QED BY <2>1, <2>2, <2>3, <2>4, <2>5
<1>7. m \in 0 .. m
  BY <1>2
<1>8. /\ SumTo(Cnts(v), m + 1) = SumTo(Cnts(v), m) + Cnts(v)[m + 1]
      /\ SumTo(Sums(v), m + 1) = SumTo(Sums(v), m) + Sums(v)[m + 1]
  BY <1>2, SumStep
<1>9. /\ SumTo(Cnts(v), m + 1) = SumTo(Cnts(vals), m) + x.cnt
      /\ SumTo(Sums(v), m + 1) = SumTo(Sums(vals), m) + x.sum
  BY <1>3, <1>6, <1>7, <1>8
<1> QED BY <1>1, <1>6, <1>9 DEF v

(* The first slot goes: the others begin where it ended.                   *)
LEMMA SlotDropped ==
  ASSUME NEW vals \in Seq(Slot), vals # <<>>
  PROVE  /\ Tail(vals) \in Seq(Slot) /\ Len(Tail(vals)) = Len(vals) - 1
         /\ \A j \in 0 .. Len(vals) - 1 :
              /\ SumTo(Cnts(Tail(vals)), j) = SumTo(Cnts(vals), 1 + j) - SumTo(Cnts(vals), 1)
              /\ SumTo(Sums(Tail(vals)), j) = SumTo(Sums(vals), 1 + j) - SumTo(Sums(vals), 1)
<1> DEFINE v == Tail(vals)
           m == Len(vals) - 1
<1>1. v \in Seq(Slot) /\ Len(v) = m /\ (\A i \in 1 .. m : v[i] = vals[1 + i])
  OBVIOUS
<1>2. m \in Nat /\ 1 + m = Len(vals)
  OBVIOUS
<1> HIDE DEF v, m
<1>3. \A i \in 1 .. m : Cnts(v)[i] = Cnts(vals)[1 + i] /\ Sums(v)[i] = Sums(vals)[1 + i]
  BY <1>1, <1>2, SlotNumbers DEF Cnts, Sums
<1>4. Shifted(Cnts(vals), Cnts(v), 1, m) /\ Shifted(Sums(vals), Sums(v), 1, m)
  BY <1>3 DEF Shifted
<1>5. Numbers(Cnts(vals), 1 + m) /\ Numbers(Sums(vals), 1 + m)
  BY <1>2, SlotNumbers
<1>6. ASSUME NEW j \in 0 .. m
      PROVE  /\ SumTo(Cnts(v), j) = SumTo(Cnts(vals), 1 + j) - SumTo(Cnts(vals), 1)
             /\ SumTo(Sums(v), j) = SumTo(Sums(vals), 1 + j) - SumTo(Sums(vals), 1)
  <2>1. 1 \in Nat
    OBVIOUS
  <2>2. SumTo(Cnts(v), j) = SumTo(Cnts(vals), 1 + j) - SumTo(Cnts(vals), 1)
    BY <1>2, <1>4, <1>5, <2>1, SumShifts
  <2>3. SumTo(Sums(v), j) = SumTo(Sums(vals), 1 + j) - SumTo(Sums(vals), 1)
    BY <1>2, <1>4, <1>5, <2>1, SumShifts
  <2> QED BY <2>2, <2>3
<1> QED BY <1>1, <1>2, <1>6 DEF v, m

LEMMA SumSame ==
  ASSUME NEW f, NEW g, NEW n \in Nat, Numbers(f, n), Shifted(f, g, 0, n), NEW k \in 0 .. n
  PROVE  SumTo(g, k) = SumTo(f, k) /\ SumTo(f, k) \in Nat
<1>1. 0 \in Nat /\ 0 + n = n /\ 0 + k = k
  OBVIOUS
<1>2. SumTo(g, k) = SumTo(f, 0 + k) - SumTo(f, 0)
  BY <1>1, SumShifts
<1>3. SumTo(f, k) \in Nat /\ SumTo(f, 0) = 0
  BY SumNat, SumBegins
<1> QED BY <1>1, <1>2, <1>3

(* Where the slots end in the samples.                                     *)
LEMMA HoldsTo ==
  ASSUME NEW vals \in Seq(Slot), NEW acc, NEW cnt \in Nat, NEW n \in Nat, NEW b \in Nat, NEW f, Numbers(f, n),
         Holds(vals, acc, cnt, n, b, f)
  PROVE  /\ SumTo(Cnts(vals), Len(vals)) \in Nat /\ b + SumTo(Cnts(vals), Len(vals)) = n - cnt
         /\ n - cnt \in 0 .. n /\ b \in 0 .. n
         /\ \A j \in 0 .. Len(vals) : b + SumTo(Cnts(vals), j) \in 0 .. n
         /\ acc = SumTo(f, n) - SumTo(f, n - cnt) /\ acc \in Nat
<1>1. Len(vals) \in Nat /\ Len(vals) \in 0 .. Len(vals)
  OBVIOUS
<1>2. SumTo(Cnts(vals), Len(vals)) \in Nat
  BY <1>1, CntsGrow
<1>3. b + SumTo(Cnts(vals), Len(vals)) + cnt = n /\ acc = SumTo(f, n) - SumTo(f, n - cnt)
  BY DEF Holds
<1>4. n - cnt \in 0 .. n /\ b \in 0 .. n /\ b + SumTo(Cnts(vals), Len(vals)) = n - cnt
  BY <1>2, <1>3
<1>5. ASSUME NEW j \in 0 .. Len(vals) PROVE b + SumTo(Cnts(vals), j) \in 0 .. n
  <2>1. SumTo(Cnts(vals), j) \in Nat /\ SumTo(Cnts(vals), j) <= SumTo(Cnts(vals), Len(vals))
    BY CntsGrow
  <2> QED BY <1>2, <1>4, <2>1
<1>6. acc \in Nat
  <2>1. SumTo(f, n - cnt) <= SumTo(f, n) /\ SumTo(f, n - cnt) \in Nat /\ SumTo(f, n) \in Nat
    BY <1>4, SumGrows
  <2> QED BY <1>3, <2>1
<1> QED BY <1>2, <1>3, <1>4, <1>5, <1>6

(* A sample more that goes to acc.                                         *)
LEMMA HoldsOne ==
  ASSUME NEW vals \in Seq(Slot), NEW acc, NEW cnt \in Nat, NEW n \in Nat, NEW b \in Nat, NEW f, Numbers(f, n),
         Holds(vals, acc, cnt, n, b, f), NEW g, Numbers(g, n + 1), Shifted(f, g, 0, n)
  PROVE  Holds(vals, acc + g[n + 1], cnt + 1, n + 1, b, g)
<1>1. /\ SumTo(Cnts(vals), Len(vals)) \in Nat /\ b + SumTo(Cnts(vals), Len(vals)) = n - cnt
      /\ n - cnt \in 0 .. n /\ b \in 0 .. n
      /\ \A j \in 0 .. Len(vals) : b + SumTo(Cnts(vals), j) \in 0 .. n
      /\ acc = SumTo(f, n) - SumTo(f, n - cnt) /\ acc \in Nat
  BY HoldsTo
<1>2. ASSUME NEW j \in 0 .. Len(vals)
      PROVE  SumTo(Sums(vals), j) = SumTo(g, b + SumTo(Cnts(vals), j)) - SumTo(g, b)
  <2>1. b + SumTo(Cnts(vals), j) \in 0 .. n
    BY <1>1
  <2>2. SumTo(Sums(vals), j) = SumTo(f, b + SumTo(Cnts(vals), j)) - SumTo(f, b)
    BY DEF Holds, Filled
  <2>3. SumTo(g, b + SumTo(Cnts(vals), j)) = SumTo(f, b + SumTo(Cnts(vals), j))
    BY <2>1, SumSame
  <2>4. SumTo(g, b) = SumTo(f, b)
    BY <1>1, SumSame
  <2> QED BY <2>2, <2>3, <2>4
<1>3. Filled(vals, b, g)
  BY <1>2 DEF Filled
<1>4. b + SumTo(Cnts(vals), Len(vals)) + (cnt + 1) = n + 1
  BY <1>1
<1>5. acc + g[n + 1] = SumTo(g, n + 1) - SumTo(g, (n + 1) - (cnt + 1))
  <2>1. (n + 1) - (cnt + 1) = n - cnt /\ n \in 0 .. n /\ n + 1 \in 1 .. n + 1
    OBVIOUS
  <2>2. g[n + 1] \in Nat
    BY <2>1 DEF Numbers
  <2>3. SumTo(g, n) = SumTo(f, n) /\ SumTo(f, n) \in Nat
    BY <2>1, SumSame
  <2>4. SumTo(g, n - cnt) = SumTo(f, n - cnt) /\ SumTo(f, n - cnt) \in Nat
    BY <1>1, SumSame
  <2>5. SumTo(g, n + 1) = SumTo(g, n) + g[n + 1]
    BY SumStep
  <2> QED BY <1>1, <2>1, <2>2, <2>3, <2>4, <2>5
<1> QED BY <1>3, <1>4, <1>5 DEF Holds

(* A sample more that fills a slot.                                        *)
LEMMA HoldsSlot ==
  ASSUME NEW vals \in Seq(Slot), NEW acc, NEW cnt \in Nat, NEW n \in Nat, NEW b \in Nat, NEW f, Numbers(f, n),
         Holds(vals, acc, cnt, n, b, f), NEW x \in Slot, x = [sum |-> acc, cnt |-> cnt]
  PROVE  Holds(Append(vals, x), 0, 0, n, b, f)
<1>1. /\ SumTo(Cnts(vals), Len(vals)) \in Nat /\ b + SumTo(Cnts(vals), Len(vals)) = n - cnt
      /\ n - cnt \in 0 .. n /\ b \in 0 .. n
      /\ \A j \in 0 .. Len(vals) : b + SumTo(Cnts(vals), j) \in 0 .. n
      /\ acc = SumTo(f, n) - SumTo(f, n - cnt) /\ acc \in Nat
  BY HoldsTo
<1> DEFINE v == Append(vals, x)
           m == Len(vals)
<1>2. /\ v \in Seq(Slot) /\ Len(v) = m + 1
      /\ \A j \in 0 .. m : /\ SumTo(Cnts(v), j) = SumTo(Cnts(vals), j)
                           /\ SumTo(Sums(v), j) = SumTo(Sums(vals), j)
      /\ SumTo(Cnts(v), m + 1) = SumTo(Cnts(vals), m) + cnt
      /\ SumTo(Sums(v), m + 1) = SumTo(Sums(vals), m) + acc
  <2>1. x.sum = acc /\ x.cnt = cnt
    OBVIOUS
  <2> QED BY <2>1, SlotAdded
<1>3. m \in Nat
  OBVIOUS
<1> HIDE DEF v, m
<1>a. b + SumTo(Cnts(v), m + 1) = n
  <2>1. SumTo(Cnts(v), m + 1) = SumTo(Cnts(vals), m) + cnt
    BY <1>2
  <2>2. SumTo(Cnts(vals), m) \in Nat /\ b + SumTo(Cnts(vals), m) = n - cnt
    BY <1>1 DEF m
  <2> QED BY <2>1, <2>2
<1>4. SumTo(f, n) \in Nat /\ SumTo(f, n - cnt) \in Nat /\ SumTo(f, b) \in Nat
  <2>1. n \in 0 .. n
    OBVIOUS
  <2> QED BY <1>1, <2>1, SumNat
<1>5. ASSUME NEW j \in 0 .. m + 1
      PROVE  SumTo(Sums(v), j) = SumTo(f, b + SumTo(Cnts(v), j)) - SumTo(f, b)
  <2>1. CASE j \in 0 .. m
    <3>1. SumTo(Sums(vals), j) = SumTo(f, b + SumTo(Cnts(vals), j)) - SumTo(f, b)
      BY <2>1 DEF Holds, Filled, m
    <3> QED BY <1>2, <2>1, <3>1
  <2>2. CASE j = m + 1
    <3>1. SumTo(Sums(vals), m) = SumTo(f, b + SumTo(Cnts(vals), m)) - SumTo(f, b)
      <4>1. m \in 0 .. Len(vals)
        BY <1>3 DEF m
      <4> QED BY <4>1 DEF Holds, Filled
    <3>2. SumTo(Sums(vals), m) = SumTo(f, n - cnt) - SumTo(f, b)
      BY <1>1, <3>1 DEF m
    <3>3. b + SumTo(Cnts(v), m + 1) = n
      BY <1>a
    <3>4. SumTo(Sums(v), m + 1) = SumTo(f, n) - SumTo(f, b)
      BY <1>1, <1>2, <1>4, <3>2
    <3> QED BY <2>2, <3>3, <3>4
  <2> QED BY <1>3, <2>1, <2>2
<1>6. Filled(v, b, f)
  BY <1>2, <1>5 DEF Filled
<1>7. b + SumTo(Cnts(v), Len(v)) + 0 = n
  <2>1. n + 0 = n
    OBVIOUS
  <2> QED BY <1>2, <1>a, <2>1
<1>8. 0 = SumTo(f, n) - SumTo(f, n - 0)
  BY <1>4
<1> QED BY <1>6, <1>7, <1>8 DEF Holds, v

(* The first slot is left out: those that follow hold what came after it.  *)
LEMMA HoldsRest ==
  ASSUME NEW vals \in Seq(Slot), vals # <<>>, NEW n \in Nat, NEW b \in Nat, NEW f, Numbers(f, n),
         Holds(vals, 0, 0, n, b, f)
  PROVE  /\ b + SumTo(Cnts(vals), 1) \in Nat
         /\ Holds(Tail(vals), 0, 0, n, b + SumTo(Cnts(vals), 1), f)
<1> DEFINE v == Tail(vals)
           m == Len(vals) - 1
           c == SumTo(Cnts(vals), 1)
<1>1. /\ SumTo(Cnts(vals), Len(vals)) \in Nat /\ b + SumTo(Cnts(vals), Len(vals)) = n
      /\ \A j \in 0 .. Len(vals) : b + SumTo(Cnts(vals), j) \in 0 .. n
  <2> DEFINE z == 0
  <2>1. n - z = n /\ z \in Nat /\ Holds(vals, z, z, n, b, f)
    OBVIOUS
  <2> HIDE DEF z
  <2>2. /\ SumTo(Cnts(vals), Len(vals)) \in Nat /\ b + SumTo(Cnts(vals), Len(vals)) = n - z
        /\ n - z \in 0 .. n /\ b \in 0 .. n
        /\ \A j \in 0 .. Len(vals) : b + SumTo(Cnts(vals), j) \in 0 .. n
        /\ z = SumTo(f, n) - SumTo(f, n - z) /\ z \in Nat
    <3>1. Numbers(f, n)
      OBVIOUS
    <3> QED BY <2>1, <3>1, HoldsTo
  <2> QED BY <2>1, <2>2
<1>2. m \in Nat /\ Len(vals) = m + 1 /\ 1 \in 0 .. Len(vals)
  OBVIOUS
<1>3. /\ v \in Seq(Slot) /\ Len(v) = m
      /\ \A j \in 0 .. m : /\ SumTo(Cnts(v), j) = SumTo(Cnts(vals), 1 + j) - SumTo(Cnts(vals), 1)
                           /\ SumTo(Sums(v), j) = SumTo(Sums(vals), 1 + j) - SumTo(Sums(vals), 1)
  BY SlotDropped
<1>4. c \in Nat /\ b + c \in 0 .. n
  BY <1>1, <1>2, CntsGrow
<1> HIDE DEF v, m
<1>5. ASSUME NEW j \in 0 .. m
      PROVE  SumTo(Sums(v), j) = SumTo(f, (b + c) + SumTo(Cnts(v), j)) - SumTo(f, b + c)
  <2>1. 1 + j \in 0 .. Len(vals)
    BY <1>2
  <2>2. SumTo(Cnts(vals), 1 + j) \in Nat
    BY <2>1, CntsGrow
  <2>3. SumTo(Sums(vals), 1 + j) = SumTo(f, b + SumTo(Cnts(vals), 1 + j)) - SumTo(f, b)
    BY <2>1 DEF Holds, Filled
  <2>4. SumTo(Sums(vals), 1) = SumTo(f, b + SumTo(Cnts(vals), 1)) - SumTo(f, b)
    BY <1>2 DEF Holds, Filled
  <2>5. (b + c) + SumTo(Cnts(v), j) = b + SumTo(Cnts(vals), 1 + j)
    BY <1>3, <1>4, <2>2
  <2>6. SumTo(f, b) \in Nat /\ SumTo(f, b + c) \in Nat /\ SumTo(f, b + SumTo(Cnts(vals), 1 + j)) \in Nat
    <3>1. b \in 0 .. n /\ b + SumTo(Cnts(vals), 1 + j) \in 0 .. n
      BY <1>1, <1>4, <2>1
    <3> QED BY <1>4, <3>1, SumNat
  <2>7. SumTo(Sums(v), j) = SumTo(Sums(vals), 1 + j) - SumTo(Sums(vals), 1)
    BY <1>3
  <2> QED BY <2>3, <2>4, <2>5, <2>6, <2>7
<1>6. Filled(v, b + c, f)
  BY <1>3, <1>5 DEF Filled
<1>7. (b + c) + SumTo(Cnts(v), Len(v)) + 0 = n
  <2>1. m \in 0 .. m /\ 1 + m = Len(vals)
    BY <1>2
  <2>2. SumTo(Cnts(v), m) = SumTo(Cnts(vals), Len(vals)) - c
    BY <1>3, <2>1
  <2> QED BY <1>1, <1>3, <1>4, <2>2
<1>8. 0 = SumTo(f, n) - SumTo(f, n - 0)
  <2>1. n \in 0 .. n /\ n - 0 = n
    OBVIOUS
  <2>2. SumTo(f, n) \in Nat
    BY <2>1, SumNat
  <2> QED BY <2>1, <2>2
<1> QED BY <1>4, <1>6, <1>7, <1>8 DEF Holds, v

-----------------------------------------------------------------------------
(* What the history is given, sample by sample.                            *)
SecondIn(s, i) == SumOf(Rates(WindowIn(s, i, InstTicks))) \div Len(WindowIn(s, i, InstTicks))
Ones(s) == [i \in 1 .. Len(s) |-> SecondIn(s, i)]

LEMMA OnesAre ==
  ASSUME NEW s \in Seq(Sample)
  PROVE  Len(s) \in Nat /\ Len(Ones(s)) = Len(s) /\ Numbers(Ones(s), Len(s)) /\ Ones(s) \in Seq(Nat)
<1>1. Len(s) \in Nat
  OBVIOUS
<1>2. ASSUME NEW i \in 1 .. Len(s) PROVE SecondIn(s, i) \in Nat
  <2>1. WindowIn(s, i, InstTicks) \in Seq(Sample) /\ Len(WindowIn(s, i, InstTicks)) \in 1 .. i
    BY SamplerAssumption, WindowInIs
  <2>2. SumOf(Rates(WindowIn(s, i, InstTicks))) \in Nat
    BY <2>1, SampleSumIs
  <2>3. \A a \in Nat, b \in Nat \ {0} : a \div b \in Nat
    OBVIOUS
  <2>4. Len(WindowIn(s, i, InstTicks)) \in Nat \ {0}
    BY <1>1, <2>1
  <2> QED BY <2>2, <2>3, <2>4 DEF SecondIn
<1>3. Ones(s) \in [1 .. Len(s) -> Nat]
  BY <1>2 DEF Ones
<1>4. \A i \in 1 .. Len(s) : Ones(s)[i] \in Nat
  BY <1>3
<1>5. Ones(s) \in Seq(Nat) /\ Len(Ones(s)) = Len(s)
  BY <1>1, <1>3
<1> QED BY <1>1, <1>4, <1>5 DEF Numbers

LEMMA OnesGrow ==
  ASSUME NEW s \in Seq(Sample), NEW x \in Sample
  PROVE  /\ Append(s, x) \in Seq(Sample) /\ Len(Append(s, x)) = Len(s) + 1
         /\ Shifted(Ones(s), Ones(Append(s, x)), 0, Len(s))
<1>1. Append(s, x) \in Seq(Sample) /\ Len(Append(s, x)) = Len(s) + 1 /\ Len(s) \in Nat
  OBVIOUS
<1>2. ASSUME NEW i \in 1 .. Len(s) PROVE Ones(Append(s, x))[i] = Ones(s)[0 + i]
  <2>1. i \in 1 .. Len(s) + 1 /\ 0 + i = i
    BY <1>1
  <2>2. WindowIn(Append(s, x), i, InstTicks) = WindowIn(s, i, InstTicks)
    BY SamplerAssumption, WindowStays
  <2>3. SecondIn(Append(s, x), i) = SecondIn(s, i)
    BY <2>2 DEF SecondIn
  <2> QED BY <1>1, <2>1, <2>3 DEF Ones
<1> QED BY <1>1, <1>2 DEF Shifted

LEMMA SecondIsLatest ==
  ASSUME NEW s \in Seq(Sample), s # <<>>, NEW w \in Seq(Timed), Latest(w, InstTicks, s)
  PROVE  Ones(s)[Len(s)] = OneSecond(w) /\ OneSecond(w) \in Nat
<1>1. Len(s) \in 1 .. Len(s)
  OBVIOUS
<1>2. /\ Len(WindowIn(s, Len(s), InstTicks)) = Len(w)
      /\ Rates(WindowIn(s, Len(s), InstTicks)) = Rates(w)
  BY SamplerAssumption, RatesOfWindow
<1>3. SecondIn(s, Len(s)) = OneSecond(w)
  BY <1>2 DEF SecondIn, OneSecond
<1>4. Ones(s)[Len(s)] = SecondIn(s, Len(s))
  BY <1>1 DEF Ones
<1>5. Ones(s)[Len(s)] \in Nat
  BY <1>1, OnesAre DEF Numbers
<1> QED BY <1>3, <1>4, <1>5

-----------------------------------------------------------------------------
(* The rate of a sample stands for its rise, without a remainder.          *)
LEMMA RateIsExact ==
  ASSUME NEW x \in Nat, NEW dt \in Late \ {0}
  PROVE  ((x * Unit) \div dt) \in Nat /\ ((x * Unit) \div dt) * dt = x * Unit
<1>1. Unit \in Nat /\ dt \in Nat \ {0}
  BY SamplerAssumption
<1>2. PICK k \in 1 .. Unit : Unit = k * dt
  BY SamplerAssumption
<1>3. k \in Nat
  BY <1>1
<1>4. ASSUME NEW a \in Nat, NEW d \in Nat \ {0} PROVE (a * d) \div d = a
  <2>1. a * d \in Nat
    BY SMT
  <2> DEFINE q == (a * d) \div d
  <2>2. q \in Nat /\ a * d >= q * d /\ a * d < (q + 1) * d
    BY <2>1
  <2> HIDE DEF q
  <2>3. ~ (q < a)
    BY <2>2, SMT
  <2>4. ~ (a < q)
    BY <2>2, SMT
  <2>5. q = a
    BY <2>2, <2>3, <2>4
  <2> QED BY <2>5 DEF q
<1>5. x * k \in Nat
  BY <1>3
<1>6. x * Unit = (x * k) * dt
  BY <1>1, <1>2, <1>3
<1>7. (x * Unit) \div dt = x * k
  BY <1>1, <1>4, <1>5, <1>6
<1> QED BY <1>5, <1>6, <1>7

-----------------------------------------------------------------------------
(* The peak.                                                               *)
NoneAbove(s, p) ==
  \A i \in 1 .. Len(s) :
    SumOf(Rates(WindowIn(s, i, RecentTicks))) * p.cnt <= p.sum * Len(WindowIn(s, i, RecentTicks))

Means == [sum : Nat, cnt : Nat \ {0}]

LEMMA Crosswise ==
  ASSUME NEW a \in Nat, NEW b \in Nat, NEW p \in Nat, NEW q \in Nat \ {0}, NEW m \in Nat, NEW n \in Nat,
         a * q <= p * b, m * q > p * n
  PROVE  a * n <= m * b
<1>1. (a * q) * n <= (p * b) * n
  BY SMT
<1>2. (p * n) * b <= (m * q) * b
  BY SMT
<1>3. (p * b) * n = (p * n) * b
  BY SMT
<1>4. (a * n) * q <= (m * b) * q
  BY <1>1, <1>2, <1>3, SMT
<1>5. a * n \in Nat /\ m * b \in Nat
  BY SMT
<1>6. \A x, y \in Nat : x * q <= y * q => x <= y
  BY SMT
<1> QED BY <1>4, <1>5, <1>6

LEMMA PeakGrows ==
  ASSUME NEW s \in Seq(Sample), NEW x \in Sample, NEW p \in Means, NoneAbove(s, p),
         NEW w \in Seq(Timed), Latest(w, RecentTicks, Append(s, x))
  PROVE  LET q == IF Higher(Mean(w), p) THEN Mean(w) ELSE p
         IN  q \in Means /\ NoneAbove(Append(s, x), q)
<1> DEFINE t == Append(s, x)
           q == IF Higher(Mean(w), p) THEN Mean(w) ELSE p
           shown(i) == WindowIn(t, i, RecentTicks)
<1>1. t \in Seq(Sample) /\ Len(t) = Len(s) + 1 /\ t # <<>> /\ Len(s) \in Nat
  OBVIOUS
<1>2. p.sum \in Nat /\ p.cnt \in Nat \ {0}
  BY DEF Means
<1> HIDE DEF t
<1>3. Latest(w, RecentTicks, t)
  BY DEF t
<1>4. /\ Len(WindowIn(t, Len(t), RecentTicks)) = Len(w) /\ Len(w) \in Nat \ {0}
      /\ Rates(WindowIn(t, Len(t), RecentTicks)) = Rates(w)
  BY <1>1, <1>3, SamplerAssumption, RatesOfWindow
<1>5. Mean(w) \in Means /\ Mean(w).sum = SumOf(Rates(w)) /\ Mean(w).cnt = Len(w)
  BY <1>4, RateSumIs DEF Mean, Means
<1>6. q \in Means
  BY <1>5
<1>7. ASSUME NEW i \in 1 .. Len(s)
      PROVE  SumOf(Rates(shown(i))) * q.cnt <= q.sum * Len(shown(i))
  <2>1. shown(i) = WindowIn(s, i, RecentTicks)
    BY SamplerAssumption, WindowStays DEF t
  <2>2. SumOf(Rates(shown(i))) * p.cnt <= p.sum * Len(shown(i))
    BY <2>1 DEF NoneAbove
  <2>3. shown(i) \in Seq(Sample) /\ Len(shown(i)) \in Nat
    <3>1. RecentTicks \in Nat \ {0}
      BY SamplerAssumption
    <3>2. WindowIn(s, i, RecentTicks) \in Seq(Sample)
      BY <3>1, WindowInIs, Zenon
    <3> HIDE DEF shown
    <3>3. shown(i) \in Seq(Sample)
      BY <2>1, <3>2, Zenon
    <3> QED BY <3>3
  <2>4. SumOf(Rates(shown(i))) \in Nat
    BY <2>3, SampleSumIs
  <2> HIDE DEF shown
  <2>5. CASE Higher(Mean(w), p)
    <3>1. SumOf(Rates(w)) * p.cnt > p.sum * Len(w)
      BY <1>5, <2>5 DEF Higher
    <3>2. SumOf(Rates(w)) \in Nat /\ Len(w) \in Nat
      BY <1>4, RateSumIs
    <3>3. SumOf(Rates(shown(i))) * Len(w) <= SumOf(Rates(w)) * Len(shown(i))
      BY <1>2, <2>2, <2>3, <2>4, <3>1, <3>2, Crosswise
    <3> QED BY <1>5, <2>5, <3>3
  <2>6. CASE ~ Higher(Mean(w), p)
    BY <2>2, <2>6
  <2> QED BY <2>5, <2>6
<1>8. SumOf(Rates(shown(Len(t)))) * q.cnt <= q.sum * Len(shown(Len(t)))
  <2>1. SumOf(Rates(w)) \in Nat /\ Len(w) \in Nat
    BY <1>4, RateSumIs
  <2>2. CASE Higher(Mean(w), p)
    <3>1. q.sum = SumOf(Rates(w)) /\ q.cnt = Len(w)
      BY <1>5, <2>2
    <3>2. SumOf(Rates(w)) * Len(w) <= SumOf(Rates(w)) * Len(w)
      BY <2>1, SMT
    <3> QED BY <1>4, <3>1, <3>2
  <2>3. CASE ~ Higher(Mean(w), p)
    <3>1. ~ (SumOf(Rates(w)) * p.cnt > p.sum * Len(w))
      BY <1>5, <2>3 DEF Higher
    <3>2. SumOf(Rates(w)) * p.cnt \in Nat /\ p.sum * Len(w) \in Nat
      BY <1>2, <2>1, SMT
    <3>3. SumOf(Rates(w)) * p.cnt <= p.sum * Len(w)
      BY <3>1, <3>2
    <3> QED BY <1>4, <2>3, <3>3
  <2> QED BY <2>2, <2>3
<1>9. \A i \in 1 .. Len(t) : i \in 1 .. Len(s) \/ i = Len(t)
  BY <1>1
<1>10. NoneAbove(t, q)
  <2> HIDE DEF q
  <2> QED BY <1>7, <1>8, <1>9 DEF NoneAbove
<1> QED BY <1>6, <1>10 DEF t

-----------------------------------------------------------------------------
SmTypes ==
  /\ cpuHashes \in Nat /\ gpuHashes \in Nat /\ smPC \in {"idle", "total", "gpu", "add"}
  /\ smAt \in Nat /\ smTotal \in Nat /\ smGpu \in Nat
  /\ lastAt \in Nat /\ lastTotal \in Nat /\ lastGPU \in Nat
  /\ slotAcc \in Nat /\ slotCnt \in Nat /\ slotNext \in Nat
  /\ recent \in Seq(Timed) /\ inst \in Seq(Timed) /\ samples \in Seq(Sample)
  /\ peak \in Means /\ slotVals \in Seq(Slot)

(* What a tick has read so far is no less than the sample before, and not  *)
(* more than was counted; and only time the ticker takes has passed.       *)
ReadsInOrder ==
  /\ smPC = "idle" => lastTotal <= cpuHashes + gpuHashes /\ smAt = lastAt
  /\ smPC # "idle" => smAt - lastAt \in Late
  /\ smPC = "total" => lastTotal <= smTotal + gpuHashes /\ smTotal <= cpuHashes
  /\ smPC \in {"gpu", "add"} => lastTotal <= smTotal /\ smTotal <= cpuHashes + gpuHashes
  /\ smPC = "add" => smTotal <= smGpu + cpuHashes
  /\ CpuNotCredited

WindowsAgree ==
  /\ Latest(recent, RecentTicks, samples) /\ Accounts(recent, samples)
  /\ Latest(inst, InstTicks, samples)
  /\ lastTotal = TotalAt(samples, Len(samples))

SlotsAgree ==
  /\ Len(slotVals) <= SlotCount
  /\ \E b \in Nat : /\ Holds(slotVals, slotAcc, slotCnt, Len(samples), b, Ones(samples))
                    /\ Len(slotVals) < SlotCount => b = 0

SmInv == SmTypes /\ ReadsInOrder /\ WindowsAgree /\ SlotsAgree /\ NoneAbove(samples, peak)

LEMMA SmInvInit == SmInit => SmInv
<1> SUFFICES ASSUME SmInit PROVE SmInv
  OBVIOUS
<1>1. SmTypes
  <2>1. [sum |-> 0, cnt |-> 1] \in Means
    BY DEF Means
  <2>2. <<>> \in Seq(Timed) /\ <<>> \in Seq(Sample) /\ <<>> \in Seq(Slot)
    OBVIOUS
  <2> QED BY <2>1, <2>2, SamplerAssumption DEF SmInit, SmTypes
<1>2. ReadsInOrder
  BY DEF SmInit, ReadsInOrder, CpuNotCredited
<1>3. Len(<<>>) = 0
  OBVIOUS
<1>4. WindowsAgree
  BY <1>3, SamplerAssumption DEF SmInit, WindowsAgree, Latest, Accounts, TotalAt
<1>5. SlotsAgree
  <2>1. Holds(<<>>, 0, 0, 0, 0, Ones(<<>>))
    <3>1. SumTo(Cnts(<<>>), 0) = 0 /\ SumTo(Sums(<<>>), 0) = 0 /\ SumTo(Ones(<<>>), 0) = 0
      BY SumBegins
    <3>2. \A j \in 0 .. 0 : j = 0
      OBVIOUS
    <3> HIDE <1>3
    <3>3. Filled(<<>>, 0, Ones(<<>>))
      BY <1>3, <3>1, <3>2 DEF Filled
    <3> QED BY <1>3, <3>1, <3>3 DEF Holds
  <2>2. Len(<<>>) <= SlotCount
    BY <1>3, SamplerAssumption
  <2> QED BY <1>3, <2>1, <2>2 DEF SmInit, SlotsAgree
<1>6. NoneAbove(samples, peak)
  BY <1>3 DEF SmInit, NoneAbove
<1> QED BY <1>1, <1>2, <1>4, <1>5, <1>6 DEF SmInv

LEMMA MoreOfOne ==
  ASSUME NEW a \in Nat, NEW b \in Nat, a <= b, NEW e \in Nat
  PROVE  (e <= a => e <= b) /\ \A f \in Nat : e <= f + a => e <= f + b
  BY SMT

LEMMA MoreOfBoth ==
  ASSUME NEW a \in Nat, NEW b \in Nat, NEW c \in Nat, NEW d \in Nat, a <= b, c <= d, NEW e \in Nat
  PROVE  e <= a + c => e <= b + d
  BY SMT

LEMMA CountsKeep == ASSUME SmInv, WorkerCounts PROVE SmInv'
<1>1. cpuHashes' \in Nat /\ gpuHashes' \in Nat /\ cpuHashes <= cpuHashes' /\ gpuHashes <= gpuHashes'
  BY SamplerAssumption DEF SmInv, SmTypes, WorkerCounts
<1>2. /\ smPC' = smPC /\ smAt' = smAt /\ smTotal' = smTotal /\ smGpu' = smGpu
      /\ lastAt' = lastAt /\ lastTotal' = lastTotal /\ lastGPU' = lastGPU
      /\ UNCHANGED <<recent, inst, peak, slotVals, slotAcc, slotCnt, slotNext, samples>>
  BY DEF WorkerCounts, smLast, smShown, smSeries
<1>3. SmTypes'
  BY <1>1, <1>2 DEF SmInv, SmTypes
<1>4. ReadsInOrder'
  <2>1. /\ cpuHashes \in Nat /\ gpuHashes \in Nat /\ smTotal \in Nat /\ smGpu \in Nat
        /\ lastTotal \in Nat /\ lastGPU \in Nat
    BY DEF SmInv, SmTypes
  <2>2. ReadsInOrder
    BY DEF SmInv
  <2>3. lastTotal' - lastGPU' <= cpuHashes'
    BY <1>1, <1>2, <2>1, <2>2 DEF ReadsInOrder, CpuNotCredited
  <2>4. smPC = "add" => smTotal <= smGpu + cpuHashes'
    <3>1. smPC = "add" => smTotal <= smGpu + cpuHashes
      BY <2>2 DEF ReadsInOrder
    <3> QED BY <1>1, <2>1, <3>1, MoreOfOne, Zenon
  <2>5. smPC \in {"gpu", "add"} => lastTotal <= smTotal /\ smTotal <= cpuHashes' + gpuHashes'
    <3>1. smPC \in {"gpu", "add"} => lastTotal <= smTotal /\ smTotal <= cpuHashes + gpuHashes
      BY <2>2 DEF ReadsInOrder
    <3> QED BY <1>1, <2>1, <3>1, MoreOfBoth, Zenon
  <2>6. smPC = "total" => lastTotal <= smTotal + gpuHashes' /\ smTotal <= cpuHashes'
    <3>1. smPC = "total" => lastTotal <= smTotal + gpuHashes /\ smTotal <= cpuHashes
      BY <2>2 DEF ReadsInOrder
    <3> QED BY <1>1, <2>1, <3>1, MoreOfOne, Zenon
  <2>7. smPC = "idle" => lastTotal <= cpuHashes' + gpuHashes' /\ smAt = lastAt
    <3>1. smPC = "idle" => lastTotal <= cpuHashes + gpuHashes /\ smAt = lastAt
      BY <2>2 DEF ReadsInOrder
    <3> QED BY <1>1, <2>1, <3>1, MoreOfBoth, Zenon
  <2>8. smPC' # "idle" => smAt' - lastAt' \in Late
    BY <1>2, <2>2 DEF ReadsInOrder
  <2> QED BY <1>2, <2>3, <2>4, <2>5, <2>6, <2>7, <2>8, Zenon DEF ReadsInOrder, CpuNotCredited
<1>5. WindowsAgree' /\ SlotsAgree' /\ NoneAbove(samples, peak)'
  BY <1>2 DEF SmInv, WindowsAgree, SlotsAgree
<1> QED BY <1>3, <1>4, <1>5 DEF SmInv

LEMMA ReadsKeep == ASSUME SmInv, TickBegins \/ TotalRead \/ GpuRead PROVE SmInv'
<1>1. /\ UNCHANGED <<cpuHashes, gpuHashes, lastAt, lastTotal, lastGPU>>
      /\ UNCHANGED <<recent, inst, peak, slotVals, slotAcc, slotCnt, slotNext, samples>>
  BY DEF TickBegins, TotalRead, GpuRead, smCounters, smLast, smShown, smSeries
<1>2. WindowsAgree' /\ SlotsAgree' /\ NoneAbove(samples, peak)'
  BY <1>1 DEF SmInv, WindowsAgree, SlotsAgree
<1>3. SmTypes' /\ ReadsInOrder'
  <2>1. CASE TickBegins
    <3>1. PICK dt \in Late : smAt' = smAt + dt
      BY <2>1 DEF TickBegins
    <3>2. dt \in Nat
      BY SamplerAssumption
    <3>3. smPC = "idle" /\ smPC' = "total" /\ smTotal' = cpuHashes /\ smGpu' = smGpu
      BY <2>1 DEF TickBegins
    <3>4. SmTypes'
      BY <1>1, <3>1, <3>2, <3>3 DEF SmInv, SmTypes
    <3>5. smAt' - lastAt' = dt
      BY <1>1, <3>1, <3>2, <3>3 DEF SmInv, SmTypes, ReadsInOrder
    <3>6. ReadsInOrder'
      BY <1>1, <3>3, <3>5 DEF SmInv, SmTypes, ReadsInOrder, CpuNotCredited
    <3> QED BY <3>4, <3>6
  <2>2. CASE TotalRead
    <3>1. smPC = "total" /\ smPC' = "gpu" /\ smTotal' = smTotal + gpuHashes /\ smAt' = smAt /\ smGpu' = smGpu
      BY <2>2 DEF TotalRead
    <3>2. SmTypes'
      BY <1>1, <3>1 DEF SmInv, SmTypes
    <3>3. ReadsInOrder'
      BY <1>1, <3>1 DEF SmInv, SmTypes, ReadsInOrder, CpuNotCredited
    <3> QED BY <3>2, <3>3
  <2>3. CASE GpuRead
    <3>1. smPC = "gpu" /\ smPC' = "add" /\ smGpu' = gpuHashes /\ smAt' = smAt /\ smTotal' = smTotal
      BY <2>3 DEF GpuRead, GPUHashes
    <3>2. SmTypes'
      BY <1>1, <3>1 DEF SmInv, SmTypes
    <3>3. ReadsInOrder'
      BY <1>1, <3>1 DEF SmInv, SmTypes, ReadsInOrder, CpuNotCredited
    <3> QED BY <3>2, <3>3
  <2> QED BY <2>1, <2>2, <2>3
<1> QED BY <1>2, <1>3 DEF SmInv

LEMMA TrimmedIs ==
  ASSUME NEW v \in Seq(Slot), Len(v) <= SlotCount + 1
  PROVE  /\ Len(v) <= SlotCount => Trimmed(v) = v
         /\ Len(v) > SlotCount => v # <<>> /\ Trimmed(v) = Tail(v) /\ Len(Tail(v)) = SlotCount
<1>1. SlotCount \in Nat \ {0}
  BY SamplerAssumption
<1>2. CASE Len(v) <= SlotCount
  BY <1>1, <1>2 DEF Trimmed
<1>3. CASE Len(v) = SlotCount + 1
  <2>1. Trimmed(v) = SubSeq(v, 2, Len(v)) /\ v # <<>>
    <3>1. Len(v) - SlotCount + 1 = 2
      BY <1>1, <1>3
    <3> QED BY <1>1, <1>3, <3>1 DEF Trimmed, LastOf
  <2>2. Tail(v) = SubSeq(v, 2, Len(v))
    <3>1. Len(Tail(v)) = SlotCount /\ \A i \in 1 .. SlotCount : Tail(v)[i] = v[i + 1]
      BY <1>1, <1>3
    <3>2. Len(SubSeq(v, 2, Len(v))) = SlotCount /\ \A i \in 1 .. SlotCount : SubSeq(v, 2, Len(v))[i] = v[i + 1]
      BY <1>1, <1>3
    <3>3. Tail(v) \in Seq(Slot) /\ SubSeq(v, 2, Len(v)) \in Seq(Slot)
      BY <1>1, <1>3
    <3> DEFINE a == Tail(v)
               b == SubSeq(v, 2, Len(v))
    <3>4. a \in Seq(Slot) /\ b \in Seq(Slot) /\ Len(a) = Len(b) /\ \A i \in 1 .. Len(a) : a[i] = b[i]
      BY <3>1, <3>2, <3>3
    <3> HIDE DEF a, b
    <3>5. a = b
      BY <3>4
    <3> QED BY <3>5 DEF a, b
  <2> QED BY <1>1, <1>3, <2>1, <2>2
<1> QED BY <1>1, <1>2, <1>3

(* A slot takes one sample more, or is full and makes room for the next.   *)
LEMMA SlotsGrow ==
  ASSUME SmTypes, SlotsAgree, NEW x \in Sample, samples' = Append(samples, x), NEW v \in Nat,
         v = Ones(samples')[Len(samples')], SeriesAdd(v)
  PROVE  /\ slotAcc' \in Nat /\ slotCnt' \in Nat /\ slotNext' \in Nat /\ slotVals' \in Seq(Slot)
         /\ SlotsAgree'
<1> DEFINE n == Len(samples)
           f == Ones(samples)
           g == Ones(samples')
<1>1. /\ samples \in Seq(Sample) /\ slotVals \in Seq(Slot) /\ slotAcc \in Nat /\ slotCnt \in Nat
      /\ slotNext \in Nat /\ smAt \in Nat /\ SlotTime \in Nat /\ SlotCount \in Nat \ {0}
  BY SamplerAssumption DEF SmTypes
<1>2. n \in Nat /\ Numbers(f, n)
  BY <1>1, OnesAre
<1>3. samples' \in Seq(Sample) /\ Len(samples') = n + 1 /\ Shifted(f, g, 0, n)
  BY <1>1, OnesGrow
<1>4. Numbers(g, n + 1)
  BY <1>3, OnesAre
<1>5. v = g[n + 1]
  BY <1>3
<1> HIDE DEF f, g, n
<1>6. PICK b \in Nat : Holds(slotVals, slotAcc, slotCnt, n, b, f) /\ (Len(slotVals) < SlotCount => b = 0)
  BY DEF SlotsAgree, n, f
<1>7. Holds(slotVals, slotAcc + v, slotCnt + 1, n + 1, b, g)
  BY <1>1, <1>2, <1>3, <1>4, <1>5, <1>6, HoldsOne
<1>8. Len(slotVals) <= SlotCount /\ Len(slotVals) \in Nat
  BY <1>1 DEF SlotsAgree
<1>9. slotAcc + v \in Nat /\ slotCnt + 1 \in Nat /\ n + 1 \in Nat
  BY <1>1, <1>2
<1>10. SlotsAgree' <=> /\ Len(slotVals') <= SlotCount
                       /\ \E c \in Nat : /\ Holds(slotVals', slotAcc', slotCnt', n + 1, c, g)
                                         /\ Len(slotVals') < SlotCount => c = 0
  BY <1>3 DEF SlotsAgree, g
<1>11. CASE smAt < slotNext
  <2>1. slotAcc' = slotAcc + v /\ slotCnt' = slotCnt + 1 /\ slotVals' = slotVals /\ slotNext' = slotNext
    BY <1>11 DEF SeriesAdd
  <2>2. SlotsAgree'
    BY <1>6, <1>7, <1>8, <1>10, <2>1, Zenon
  <2> QED BY <1>1, <1>9, <2>1, <2>2
<1>12. CASE ~ (smAt < slotNext)
  <2> DEFINE x1 == SlotMean(v)
             w == Append(slotVals, x1)
  <2>1. slotVals' = Trimmed(w) /\ slotAcc' = 0 /\ slotCnt' = 0 /\ slotNext' = smAt + SlotTime
    BY <1>12 DEF SeriesAdd
  <2>2. x1 = [sum |-> slotAcc + v, cnt |-> slotCnt + 1] /\ x1 \in Slot
    BY <1>9 DEF SlotMean, Slot
  <2> HIDE DEF x1
  <2>3. w \in Seq(Slot) /\ Len(w) = Len(slotVals) + 1
    BY <1>1, <2>2
  <2>4. Holds(w, 0, 0, n + 1, b, g)
    BY <1>1, <1>4, <1>7, <1>9, <2>2, HoldsSlot
  <2> HIDE DEF w
  <2>5. Len(w) <= SlotCount + 1
    BY <1>1, <1>8, <2>3
  <2>6. CASE Len(w) <= SlotCount
    <3>1. Trimmed(w) = w
      BY <2>3, <2>5, <2>6, TrimmedIs
    <3>2. b = 0
      BY <1>1, <1>6, <1>8, <2>3, <2>6
    <3>3. Holds(slotVals', slotAcc', slotCnt', n + 1, b, g) /\ Len(slotVals') <= SlotCount
      BY <2>1, <2>4, <2>6, <3>1, Zenon
    <3>4. SlotsAgree'
      BY <1>10, <3>2, <3>3, Zenon
    <3> QED BY <1>1, <2>1, <2>3, <3>1, <3>4
  <2>7. CASE Len(w) > SlotCount
    <3>1. w # <<>> /\ Trimmed(w) = Tail(w) /\ Len(Tail(w)) = SlotCount
      BY <2>3, <2>5, <2>7, TrimmedIs
    <3>2. /\ b + SumTo(Cnts(w), 1) \in Nat
          /\ Holds(Tail(w), 0, 0, n + 1, b + SumTo(Cnts(w), 1), g)
      BY <1>4, <1>9, <2>3, <2>4, <3>1, HoldsRest
    <3>3. Len(slotVals') = SlotCount /\ slotVals' = Tail(w)
      BY <2>1, <3>1
    <3>4. Len(slotVals') <= SlotCount /\ ~ (Len(slotVals') < SlotCount)
      BY <1>1, <3>3
    <3>5. Holds(slotVals', slotAcc', slotCnt', n + 1, b + SumTo(Cnts(w), 1), g)
      BY <2>1, <3>2, <3>3, Zenon
    <3>6. SlotsAgree'
      BY <1>10, <3>2, <3>4, <3>5, Zenon
    <3>7. Tail(w) \in Seq(Slot)
      BY <2>3, <3>1
    <3> QED BY <1>1, <2>1, <3>3, <3>6, <3>7
  <2>8. Len(w) \in Nat
    BY <2>3
  <2> QED BY <1>1, <2>6, <2>7, <2>8
<1> QED BY <1>11, <1>12

LEMMA TickKeeps == ASSUME SmInv, TickEnds PROVE SmInv'
<1>1. smPC = "add" /\ smPC' = "idle" /\ UNCHANGED <<cpuHashes, gpuHashes, smAt, smTotal, smGpu>>
  BY DEF TickEnds, smCounters
<1>2. /\ cpuHashes \in Nat /\ gpuHashes \in Nat /\ smAt \in Nat /\ smTotal \in Nat /\ smGpu \in Nat
      /\ lastAt \in Nat /\ lastTotal \in Nat /\ lastGPU \in Nat
      /\ recent \in Seq(Timed) /\ inst \in Seq(Timed) /\ samples \in Seq(Sample) /\ peak \in Means
  BY DEF SmInv, SmTypes
<1>3. /\ smAt - lastAt \in Late /\ lastTotal <= smTotal /\ smTotal <= cpuHashes + gpuHashes
      /\ smTotal <= smGpu + cpuHashes /\ lastTotal - lastGPU <= cpuHashes
  BY <1>1 DEF SmInv, ReadsInOrder, CpuNotCredited
<1>4. CASE smAt = lastAt
  <2>1. /\ UNCHANGED <<lastAt, lastTotal, lastGPU>>
        /\ UNCHANGED <<recent, inst, peak, slotVals, slotAcc, slotCnt, slotNext, samples>>
    BY <1>4 DEF TickEnds, smLast, smShown, smSeries
  <2>2. SmTypes'
    BY <1>1, <2>1 DEF SmInv, SmTypes
  <2>3. lastTotal <= cpuHashes + gpuHashes
    BY <1>2, <1>3
  <2>4. ReadsInOrder'
    BY <1>1, <1>3, <1>4, <2>1, <2>3 DEF ReadsInOrder, CpuNotCredited
  <2>5. WindowsAgree' /\ SlotsAgree' /\ NoneAbove(samples, peak)'
    BY <2>1 DEF SmInv, WindowsAgree, SlotsAgree
  <2> QED BY <2>2, <2>4, <2>5 DEF SmInv
<1>5. CASE smAt # lastAt
  <2> DEFINE dt == smAt - lastAt
             rise == smTotal - lastTotal
             rate == (rise * Unit) \div dt
             r == [rate |-> rate, dt |-> dt]
             x == [rate |-> rate, total |-> smTotal]
  <2>1. dt \in Late \ {0} /\ rise \in Nat /\ dt \in Nat \ {0}
    BY <1>2, <1>3, <1>5, SamplerAssumption
  <2>2. /\ recent' = WindowAdd(recent, RecentTicks, r) /\ inst' = WindowAdd(inst, InstTicks, r)
        /\ peak' = IF Higher(Mean(recent'), peak) THEN Mean(recent') ELSE peak
        /\ lastAt' = smAt /\ lastTotal' = smTotal /\ lastGPU' = smGpu
        /\ SeriesAdd(OneSecond(inst')) /\ samples' = Append(samples, x)
    BY <1>5 DEF TickEnds, Keep
  <2>3. rate \in Nat /\ rate * dt = rise * Unit
    <3> HIDE DEF dt, rise
    <3> QED BY <2>1, RateIsExact
  <2>4. rise = smTotal - lastTotal
    OBVIOUS
  <2> HIDE DEF dt, rise, rate
  <2>5. r \in Timed /\ x \in Sample /\ r.rate = x.rate /\ r.rate = rate /\ r.dt = dt /\ x.total = smTotal
    BY <1>2, <2>1, <2>3 DEF Timed, Sample
  <2> HIDE DEF r, x
  <2>6. /\ Latest(recent, RecentTicks, samples) /\ Accounts(recent, samples)
        /\ Latest(inst, InstTicks, samples) /\ lastTotal = TotalAt(samples, Len(samples))
    BY DEF SmInv, WindowsAgree
  <2>7. recent' \in Seq(Timed) /\ Latest(recent', RecentTicks, samples')
    BY <1>2, <2>2, <2>5, <2>6, SamplerAssumption, LatestGrows
  <2>8. inst' \in Seq(Timed) /\ Latest(inst', InstTicks, samples')
    BY <1>2, <2>2, <2>5, <2>6, SamplerAssumption, LatestGrows
  <2>9. Accounts(recent', samples')
    <3>1. r.rate * r.dt = (x.total - TotalAt(samples, Len(samples))) * Unit
      BY <2>3, <2>4, <2>5, <2>6
    <3> QED BY <1>2, <2>2, <2>5, <2>6, <3>1, SamplerAssumption, AccountsGrow
  <2>10. samples' \in Seq(Sample) /\ samples' # <<>> /\ lastTotal' = TotalAt(samples', Len(samples'))
    <3>1. /\ samples' \in Seq(Sample) /\ Len(samples') = Len(samples) + 1 /\ Len(samples) \in Nat
          /\ samples'[Len(samples) + 1] = x
      BY <1>2, <2>2, <2>5
    <3>2. Len(samples') # 0 /\ samples' # <<>>
      BY <3>1
    <3> QED BY <2>2, <2>5, <3>1, <3>2 DEF TotalAt
  <2>11. WindowsAgree'
    BY <2>7, <2>8, <2>9, <2>10 DEF WindowsAgree
  <2>12. peak' \in Means /\ NoneAbove(samples', peak')
    <3>1. Latest(recent', RecentTicks, Append(samples, x)) /\ NoneAbove(samples, peak)
      BY <2>2, <2>7 DEF SmInv
    <3> DEFINE p == IF Higher(Mean(recent'), peak) THEN Mean(recent') ELSE peak
    <3>2. p \in Means /\ NoneAbove(Append(samples, x), p)
      BY <1>2, <2>5, <2>7, <3>1, PeakGrows
    <3>3. peak' = p
      BY <2>2
    <3> HIDE DEF p
    <3> QED BY <2>2, <3>2, <3>3
  <2>13. Ones(samples')[Len(samples')] = OneSecond(inst') /\ OneSecond(inst') \in Nat
    BY <2>8, <2>10, SecondIsLatest
  <2>14. /\ slotAcc' \in Nat /\ slotCnt' \in Nat /\ slotNext' \in Nat /\ slotVals' \in Seq(Slot)
         /\ SlotsAgree'
    BY <2>2, <2>5, <2>13, SlotsGrow DEF SmInv
  <2>15. SmTypes'
    BY <1>1, <1>2, <2>2, <2>7, <2>8, <2>10, <2>12, <2>14 DEF SmTypes
  <2>16. ReadsInOrder'
    <3>1. smTotal - smGpu <= cpuHashes
      BY <1>2, <1>3
    <3> QED BY <1>1, <1>3, <2>2, <3>1 DEF ReadsInOrder, CpuNotCredited
  <2> QED BY <2>11, <2>12, <2>14, <2>15, <2>16 DEF SmInv
<1> QED BY <1>4, <1>5

LEMMA SmInductive == SmInv /\ [SmNext]_smVars => SmInv'
<1> SUFFICES ASSUME SmInv, [SmNext]_smVars PROVE SmInv'
  OBVIOUS
<1>1. CASE SmNext
  BY <1>1, CountsKeep, ReadsKeep, TickKeeps DEF SmNext
<1>2. CASE UNCHANGED smVars
  BY <1>2 DEF smVars, SmInv, SmTypes, ReadsInOrder, CpuNotCredited, WindowsAgree, SlotsAgree
<1> QED BY <1>1, <1>2

LEMMA SamplerTyped == SmInv => SmTypeOK
<1> SUFFICES ASSUME SmInv PROVE SmTypeOK
  OBVIOUS
<1>1. SmTypes /\ WindowsAgree /\ SlotsAgree
  BY DEF SmInv
<1>2. Len(recent) <= RecentTicks /\ Len(inst) <= InstTicks
  <2>1. Len(samples) \in Nat
    BY <1>1 DEF SmTypes
  <2> QED BY <1>1, <2>1, SamplerAssumption DEF WindowsAgree, Latest
<1>3. \A i \in 1 .. Len(recent) : recent[i].rate >= 0 /\ recent[i].dt > 0
  <2>1. \A i \in 1 .. Len(recent) : recent[i] \in Timed
    BY <1>1 DEF SmTypes
  <2>2. \A r \in Timed : r.rate >= 0 /\ r.dt > 0
    BY DEF Timed
  <2> QED BY <2>1, <2>2
<1> QED BY <1>1, <1>2, <1>3 DEF SmTypeOK, SmTypes, SlotsAgree

LEMMA WindowIsAccounted == SmInv => WindowAccounts
<1> SUFFICES ASSUME SmInv PROVE WindowAccounts
  OBVIOUS
<1>1. /\ recent \in Seq(Timed) /\ samples \in Seq(Sample) /\ Accounts(recent, samples)
      /\ Latest(recent, RecentTicks, samples) /\ lastTotal = TotalAt(samples, Len(samples))
  BY DEF SmInv, SmTypes, WindowsAgree
<1>2. Len(recent) <= Len(samples)
  <2>1. Len(samples) \in Nat
    BY <1>1
  <2> QED BY <1>1, <2>1, SamplerAssumption DEF Latest
<1>3. SumOf([i \in 1 .. Len(recent) |-> recent[i].rate * recent[i].dt])
        = (TotalAt(samples, Len(samples)) - TotalAt(samples, Len(samples) - Len(recent))) * Unit
  BY <1>1, <1>2, SamplerAssumption, AccountsAdds
<1>4. SumOf([i \in 1 .. Len(recent) |-> recent[i].rate * recent[i].dt])
        = (lastTotal - TotalAt(samples, Len(samples) - Len(recent))) * Unit
  BY <1>1, <1>3, Zenon
<1> QED BY <1>4, Zenon DEF WindowAccounts, TotalAt

(* The latest of them, as many as the slots hold, are those after the b-th.*)
LEMMA LatestAre ==
  ASSUME NEW f \in Seq(Nat), NEW held \in Nat, NEW b \in Nat, b + held = Len(f)
  PROVE  SumOf(LastOf(f, held)) = SumTo(f, Len(f)) - SumTo(f, b)
<1> DEFINE g == LastOf(f, held)
<1>1. Len(f) \in Nat /\ Len(f) - held + 1 = b + 1
  OBVIOUS
<1>2. g = SubSeq(f, b + 1, Len(f))
  BY <1>1 DEF LastOf
<1> HIDE DEF g
<1>3. Len(g) = held /\ \A i \in 1 .. held : g[i] = f[b + i]
  <2>1. Len(f) = b + held /\ b + 1 \in 1 .. b + held + 1
    BY <1>1
  <2>2. Len(g) = held
    BY <1>2, <2>1
  <2>3. ASSUME NEW i \in 1 .. held
        PROVE  g[i] = f[b + i]
    <3>1. i \in Nat /\ b + 1 + i - 1 = b + i
      OBVIOUS
    <3> QED BY <1>2, <2>1, <3>1
  <2> QED BY <2>2, <2>3
<1>4. Shifted(f, g, b, held)
  BY <1>3 DEF Shifted
<1>5. Numbers(f, b + held)
  BY <1>1 DEF Numbers
<1>6. held \in 0 .. held
  OBVIOUS
<1>7. SumTo(g, held) = SumTo(f, b + held) - SumTo(f, b)
  BY <1>4, <1>5, <1>6, SumShifts
<1>8. SumOf(g) = SumTo(f, Len(f)) - SumTo(f, b)
  BY <1>3, <1>7 DEF SumOf
<1> QED BY <1>8 DEF g

LEMMA HeldAddsUp ==
  ASSUME NEW vals \in Seq(Slot), NEW acc, NEW cnt \in Nat, NEW n \in Nat, NEW b \in Nat, NEW f, Numbers(f, n),
         Holds(vals, acc, cnt, n, b, f)
  PROVE  /\ b + (cnt + SumTo(Cnts(vals), Len(vals))) = n
         /\ cnt + SumTo(Cnts(vals), Len(vals)) \in Nat
         /\ acc + SumTo(Sums(vals), Len(vals)) = SumTo(f, n) - SumTo(f, b)
<1>1. /\ SumTo(Cnts(vals), Len(vals)) \in Nat /\ b + SumTo(Cnts(vals), Len(vals)) = n - cnt
      /\ n - cnt \in 0 .. n /\ b \in 0 .. n
      /\ \A j \in 0 .. Len(vals) : b + SumTo(Cnts(vals), j) \in 0 .. n
      /\ acc = SumTo(f, n) - SumTo(f, n - cnt) /\ acc \in Nat
  BY HoldsTo
<1>2. Len(vals) \in 0 .. Len(vals) /\ n \in 0 .. n
  OBVIOUS
<1>3. SumTo(Sums(vals), Len(vals)) = SumTo(f, b + SumTo(Cnts(vals), Len(vals))) - SumTo(f, b)
  BY <1>2 DEF Holds, Filled
<1>4. SumTo(f, n) \in Nat /\ SumTo(f, n - cnt) \in Nat /\ SumTo(f, b) \in Nat
  BY <1>1, <1>2, SumNat
<1>5. SumTo(Sums(vals), Len(vals)) = SumTo(f, n - cnt) - SumTo(f, b)
  BY <1>1, <1>3
<1>6. acc + SumTo(Sums(vals), Len(vals)) = SumTo(f, n) - SumTo(f, b)
  BY <1>1, <1>4, <1>5
<1>7. /\ b + (cnt + SumTo(Cnts(vals), Len(vals))) = n
      /\ cnt + SumTo(Cnts(vals), Len(vals)) \in Nat
  <2>1. SumTo(Cnts(vals), Len(vals)) \in Nat /\ b + SumTo(Cnts(vals), Len(vals)) = n - cnt
    BY <1>1
  <2>2. \A s \in Nat : b + s = n - cnt => b + (cnt + s) = n /\ cnt + s \in Nat
    OBVIOUS
  <2> QED BY <2>1, <2>2
<1> QED BY <1>6, <1>7

LEMMA SlotsAreTrue == SmInv => SlotsHoldSamples
<1> SUFFICES ASSUME SmInv PROVE SlotsHoldSamples
  OBVIOUS
<1> DEFINE n == Len(samples)
           f == Ones(samples)
           m == Len(slotVals)
           c == SumTo(Cnts(slotVals), m)
           held == slotCnt + SumOf([i \in 1 .. Len(slotVals) |-> slotVals[i].cnt])
           sums == SumOf([i \in 1 .. Len(slotVals) |-> slotVals[i].sum])
           ones == [i \in 1 .. Len(samples) |-> SecondAt(i)]
<1>1. /\ samples \in Seq(Sample) /\ slotVals \in Seq(Slot) /\ slotAcc \in Nat /\ slotCnt \in Nat
      /\ SlotCount \in Nat \ {0}
  BY SamplerAssumption DEF SmInv, SmTypes
<1>2. ones = f
  BY DEF SecondAt, WindowAt, SecondIn, WindowIn, Ones
<1>3. n \in Nat /\ Len(f) = n /\ Numbers(f, n) /\ f \in Seq(Nat)
  BY <1>1, OnesAre
<1>4. m \in Nat /\ Len(Cnts(slotVals)) = m /\ Len(Sums(slotVals)) = m
  BY <1>1 DEF Cnts, Sums
<1>5. held = slotCnt + c /\ sums = SumTo(Sums(slotVals), m)
  <2>1. held = slotCnt + SumOf(Cnts(slotVals)) /\ sums = SumOf(Sums(slotVals))
    BY DEF Cnts, Sums
  <2> HIDE DEF held, sums
  <2> QED BY <1>4, <2>1 DEF SumOf
<1> HIDE DEF n, f, ones, held, sums
<1>6. PICK b \in Nat : Holds(slotVals, slotAcc, slotCnt, n, b, f) /\ (m < SlotCount => b = 0)
  BY DEF SmInv, SlotsAgree, n, f
<1>7. /\ b + (slotCnt + SumTo(Cnts(slotVals), Len(slotVals))) = n
      /\ slotCnt + SumTo(Cnts(slotVals), Len(slotVals)) \in Nat
      /\ slotAcc + SumTo(Sums(slotVals), Len(slotVals)) = SumTo(f, n) - SumTo(f, b)
  <2>1. Holds(slotVals, slotAcc, slotCnt, n, b, f)
    BY <1>6
  <2> QED BY <1>1, <1>3, <2>1, HeldAddsUp
<1> HIDE DEF c
<1>8. b + held = n /\ held \in Nat
  BY <1>5, <1>7 DEF c
<1>11. slotAcc + sums = SumTo(f, n) - SumTo(f, b)
  BY <1>5, <1>7
<1>12. slotAcc + sums = SumOf(LastOf(ones, held))
  BY <1>2, <1>3, <1>8, <1>11, LatestAre
<1>13. held <= n /\ (m < SlotCount => held = n)
  BY <1>3, <1>6, <1>8
<1> QED BY <1>12, <1>13, Zenon DEF SlotsHoldSamples, n, ones, held, sums, m

LEMMA PeakIsTrue == NoneAbove(samples, peak) => PeakIsHighest
  BY DEF NoneAbove, PeakIsHighest, WindowAt, WindowIn

LEMMA SmInvShows == SmInv => SamplesAccount
<1> SUFFICES ASSUME SmInv PROVE SamplesAccount
  OBVIOUS
<1>1. CpuNotCredited /\ PeakIsHighest
  BY PeakIsTrue DEF SmInv, ReadsInOrder
<1> QED BY <1>1, SamplerTyped, WindowIsAccounted, SlotsAreTrue DEF SamplesAccount

(* No hash is lost, counted twice or credited to the wrong device between  *)
(* the counters and what is shown, for any ticker, window, history, batch  *)
(* and interleaving of the workers with the reads (runloop.go: tick).      *)
THEOREM SamplesAreWhole == SmSpec => []SamplesAccount
  BY SmInvInit, SmInductive, SmInvShows, PTL DEF SmSpec

-----------------------------------------------------------------------------
(* The status document.  One read twice may be two documents; what makes   *)
(* either acceptable is that the one at path and the one about to take its *)
(* place are both no older than the script accepted when it looked.        *)

(* Documents come from the past, and the one that waits for its rename is  *)
(* no older than the one it replaces.                                      *)
InOrder ==
  /\ statsPath <= now /\ lookedAt <= now
  /\ statsPC = "rename" => statsTmp \in 0 .. now /\ statsPath <= statsTmp

(* What a script under way may still read is fresh enough for it.          *)
FreshForReader ==
  readPC # "away" =>
    /\ statsPath # NoFile => lookedAt - statsPath <= StaleAfter
    /\ statsPC = "rename" => lookedAt - statsTmp <= StaleAfter

(* The document goes first, then what was left beside it.                  *)
RemovedInOrder == statsPC \in {"removetmp", "left"} => statsPath = NoFile

StatsInv == DocumentTrue /\ InOrder /\ FreshForReader /\ RemovedInOrder

LEMMA StatsInvInit == StatsInit => StatsInv
  BY StatsAssumption DEF StatsInit, StatsInv, DocumentTrue, StatsTypeOK, WholeDocument, NeverFrozen, GoneAfterExit,
     InOrder, FreshForReader, RemovedInOrder, NoFile, Torn

-----------------------------------------------------------------------------
(* The clock and the miner's own steps leave what was read alone.          *)
LEMMA MinerStep ==
  ASSUME StatsInv,
         \/ StatsClock \/ WriteBegins \/ WriteStarted \/ WriteFinished \/ StatsRename
         \/ StatsUndo \/ StatsRemove \/ StatsRemoveTmp \/ StatsKilled \/ newStatsWriter
  PROVE  StatsInv'
<1> USE StatsAssumption DEF StatsInv, DocumentTrue, StatsTypeOK, WholeDocument, NeverFrozen, GoneAfterExit,
     InOrder, FreshForReader, RemovedInOrder, NoFile, Torn, statsFiles, statsReader
<1>1. CASE StatsClock
  BY <1>1 DEF StatsClock
<1>2. CASE WriteBegins
  BY <1>2 DEF WriteBegins
<1>3. CASE WriteStarted
  BY <1>3 DEF WriteStarted, Aside
<1>4. CASE WriteFinished
  BY <1>4 DEF WriteFinished, Aside
<1>5. CASE StatsRename
  <2>1. CASE statsPath' = statsTmp /\ statsTmp' = NoFile /\ statsPC' = "wait"
    BY <1>5, <2>1 DEF StatsRename
  <2>2. CASE UNCHANGED statsFiles /\ statsPC' = "undo"
    BY <1>5, <2>2 DEF StatsRename
  <2> QED BY <1>5, <2>1, <2>2 DEF StatsRename
<1>6. CASE StatsUndo
  BY <1>6 DEF StatsUndo, TmpRemoved
<1>7. CASE StatsRemove
  BY <1>7 DEF StatsRemove, StatsRemoves
<1>8. CASE StatsRemoveTmp
  BY <1>8 DEF StatsRemoveTmp, TmpRemoved
<1>9. CASE StatsKilled
  BY <1>9 DEF StatsKilled
<1>10. CASE newStatsWriter
  BY <1>10 DEF newStatsWriter
<1> QED BY <1>1, <1>2, <1>3, <1>4, <1>5, <1>6, <1>7, <1>8, <1>9, <1>10

(* The script's steps leave the files alone.                               *)
LEMMA ReaderStep ==
  ASSUME StatsInv, ReaderLooks \/ ReaderChecks \/ ReadsKhs \/ ReadsRows
  PROVE  StatsInv'
<1> USE StatsAssumption DEF StatsInv, DocumentTrue, StatsTypeOK, WholeDocument, NeverFrozen, GoneAfterExit,
     InOrder, FreshForReader, RemovedInOrder, NoFile, Torn, statsFiles
<1>1. CASE ReaderLooks
  BY <1>1 DEF ReaderLooks, FreshEnough
<1>2. CASE ReaderChecks
  BY <1>2 DEF ReaderChecks
<1>3. CASE ReadsKhs
  BY <1>3 DEF ReadsKhs
<1>4. CASE ReadsRows
  BY <1>4 DEF ReadsRows
<1> QED BY <1>1, <1>2, <1>3, <1>4

-----------------------------------------------------------------------------
(* Whatever call fails and wherever the miner is killed and started again, *)
(* h-stats.sh reads whole documents no older than it accepts, and after a  *)
(* clean exit there is none.                                               *)
THEOREM ReadersSeeWholeDocuments == StatsSpec => []DocumentTrue
<1>1. StatsInv /\ [StatsNextStep]_statsVars => StatsInv'
  <2> SUFFICES ASSUME StatsInv, [StatsNextStep]_statsVars PROVE StatsInv'
    OBVIOUS
  <2>1. CASE StatsNextStep
    BY <2>1, MinerStep, ReaderStep DEF StatsNextStep
  <2>2. CASE UNCHANGED statsVars
    BY <2>2 DEF statsVars, StatsInv, DocumentTrue, StatsTypeOK, WholeDocument, NeverFrozen, GoneAfterExit,
       InOrder, FreshForReader, RemovedInOrder
  <2> QED BY <2>1, <2>2
<1>2. StatsInv => DocumentTrue
  BY DEF StatsInv
<1> QED BY <1>1, <1>2, StatsInvInit, PTL DEF StatsSpec

(* The document at path is replaced by a later one or removed on purpose:  *)
(* no failed write takes it away.                                          *)
THEOREM FailuresKeepTheDocument == StatsSpec => OnlyNewer
<1>1. StatsInv /\ [StatsNextStep]_statsVars =>
        (statsPath' # statsPath => statsPath' > statsPath \/ (statsPC = "wait" /\ statsPC' = "removetmp"))
  BY DEF StatsInv, InOrder, DocumentTrue, StatsTypeOK, StatsNextStep, statsVars, statsFiles, StatsClock, WriteBegins,
     WriteStarted, WriteFinished, Aside, StatsRename, StatsUndo, TmpRemoved, StatsRemove, StatsRemoves, StatsRemoveTmp,
     StatsKilled, newStatsWriter, ReaderLooks, ReaderChecks, ReadsKhs, ReadsRows
<1>2. StatsInv /\ [StatsNextStep]_statsVars => StatsInv'
  BY MinerStep, ReaderStep DEF StatsNextStep, statsVars, StatsInv, DocumentTrue, StatsTypeOK, WholeDocument,
     NeverFrozen, GoneAfterExit, InOrder, FreshForReader, RemovedInOrder
<1> QED BY <1>1, <1>2, StatsInvInit, PTL DEF StatsSpec, OnlyNewer

-----------------------------------------------------------------------------
(* The library cache.  A name in it only ever comes to hold the whole of a *)
(* library, because it is renamed there from a name of one's own, and that *)
(* is what a process finds when it goes on to open it.                     *)

(* The values the variables take; a name of the cache holds no part.       *)
LibTypes ==
  /\ libFile \in [Lib -> {None, Whole}] /\ libTmp \in [LibProc -> {None, Part, Whole}]
  /\ libPC \in [LibProc -> {"embedded", "stat", "create", "write", "rename", "lost", "open", "bind",
                            "done", "killed"}]
  /\ libAt \in [LibProc -> Nat] /\ \A p \in LibProc : libAt[p] \in 1 .. Len(Candidates[p])
  /\ libErr \in [LibProc -> {"absent", "unpack", "load", "symbol", "nil", "avx2", "probe"}]
  /\ libOpened \in [LibProc -> Seq({Whole})] /\ libDied \subseteq LibProc

(* What a process has unpacked when it goes on.                            *)
Ready(p) ==
  /\ libPC[p] = "open" => libFile[Candidate(p)] = Whole
  /\ libPC[p] = "rename" => libTmp[p] = Whole
  /\ libPC[p] \notin {"write", "rename", "lost", "killed"} => libTmp[p] = None

(* What it will have said of the candidates it has passed.                 *)
SaysTrue(p) ==
  p \notin SaProc =>
    /\ libPC[p] = "embedded" =>
         (libErr[p] = "absent" <=> \A i \in 1 .. libAt[p] - 1 : Candidates[p][i] \notin Embedded)
    /\ libPC[p] \in {"stat", "create", "write", "rename", "lost", "open", "bind"} => Candidate(p) \in Embedded
    /\ libPC[p] = "done" =>
         (libErr[p] = "absent" <=> \A i \in 1 .. Len(Candidates[p]) : Candidates[p][i] \notin Embedded)

LibInv == LibTypes /\ \A p \in LibProc : Ready(p) /\ SaysTrue(p)

LEMMA LibInvInit == LibInit => LibInv
<1> SUFFICES ASSUME LibInit PROVE LibInv
  OBVIOUS
<1>1. \A p \in LibProc : 1 \in 1 .. Len(Candidates[p])
  <2> SUFFICES ASSUME NEW p \in LibProc PROVE 1 \in 1 .. Len(Candidates[p])
    OBVIOUS
  <2>1. Candidates[p] \in Seq(Lib) /\ Len(Candidates[p]) > 0
    BY LibAssumption
  <2>2. Len(Candidates[p]) \in Nat
    BY <2>1
  <2> QED BY <2>1, <2>2
<1>2. LibTypes
  BY <1>1 DEF LibInit, LibTypes
<1>3. \A p \in LibProc : Ready(p) /\ SaysTrue(p)
  <2> SUFFICES ASSUME NEW p \in LibProc PROVE Ready(p) /\ SaysTrue(p)
    OBVIOUS
  <2>1. libPC[p] = "embedded" /\ libTmp[p] = None /\ libAt[p] = 1 /\ libErr[p] = "absent"
    BY DEF LibInit
  <2>2. 1 .. libAt[p] - 1 = {}
    BY <2>1
  <2> QED BY <2>1, <2>2 DEF Ready, SaysTrue
<1> QED BY <1>2, <1>3 DEF LibInv

LEMMA LibInvShows == LibInv => LibrariesSound
<1> SUFFICES ASSUME LibInv PROVE LibrariesSound
  OBVIOUS
<1>1. LibTypeOK
  BY DEF LibInv, LibTypes, LibTypeOK
<1>2. LoadsWhole
  BY DEF LibInv, LibTypes, LoadsWhole
<1>3. NoLitter
  BY DEF LibInv, Ready, NoLitter
<1>4. AbsentMeansAbsent
  BY DEF LibInv, SaysTrue, AbsentMeansAbsent
<1> QED BY <1>1, <1>2, <1>3, <1>4 DEF LibrariesSound

-----------------------------------------------------------------------------
(* The candidate a process is at is one of the libraries.                  *)
LEMMA CandidateIsLib ==
  ASSUME LibInv, NEW p \in LibProc
  PROVE  Candidate(p) \in Lib /\ Len(Candidates[p]) \in Nat
  BY LibAssumption DEF LibInv, LibTypes, Candidate

(* A step of p changes nothing of another process, but for a library that  *)
(* comes to be whole.                                                      *)
LEMMA OthersKeep ==
  ASSUME LibInv, NEW p \in LibProc, NEW q \in LibProc \ {p},
         libPC'[q] = libPC[q], libTmp'[q] = libTmp[q], libAt'[q] = libAt[q], libErr'[q] = libErr[q],
         \A l \in Lib : libFile[l] = Whole => libFile'[l] = Whole
  PROVE  (Ready(q) /\ SaysTrue(q))'
  BY CandidateIsLib DEF LibInv, Ready, SaysTrue, Candidate

(* The next candidate, or the end of the list.                             *)
LEMMA NextKeeps ==
  ASSUME LibInv, NEW p \in LibProc, NextCandidate(p), libTmp[p] = None, libTmp'[p] = None,
         libErr' \in [LibProc -> {"absent", "unpack", "load", "symbol", "nil", "avx2", "probe"}],
         libErr'[p] = "absent" <=> \A i \in 1 .. libAt[p] : Candidates[p][i] \notin Embedded
  PROVE  (Ready(p) /\ SaysTrue(p))'
<1>1. libAt[p] \in 1 .. Len(Candidates[p]) /\ Len(Candidates[p]) \in Nat
  BY CandidateIsLib DEF LibInv, LibTypes
<1>2. CASE libAt[p] < Len(Candidates[p])
  <2>1. libPC'[p] = "embedded" /\ libAt'[p] = libAt[p] + 1
    BY <1>2 DEF NextCandidate, LibGoto, LibInv, LibTypes
  <2> QED BY <1>1, <2>1 DEF Ready, SaysTrue
<1>3. CASE libAt[p] = Len(Candidates[p])
  <2>1. libPC'[p] = "done" /\ libAt'[p] = libAt[p]
    BY <1>1, <1>3 DEF NextCandidate, LibGoto, LibInv, LibTypes
  <2> QED BY <1>1, <1>3, <2>1 DEF Ready, SaysTrue
<1> QED BY <1>1, <1>2, <1>3

(* A process that ends at a candidate that is there says another thing.    *)
LEMMA FailsKeeps ==
  ASSUME LibInv, NEW p \in LibProc, NEW why \in {"unpack", "symbol", "probe", "nil"}, Fails(p, why),
         p \in SaProc \/ Candidate(p) \in Embedded, libTmp'[p] = None
  PROVE  (Ready(p) /\ SaysTrue(p))'
<1>1. libPC'[p] = "done" /\ libErr'[p] # "absent"
  BY DEF Fails, LibGoto, LibInv, LibTypes
<1>2. p \notin SaProc => \E i \in 1 .. Len(Candidates[p]) : Candidates[p][i] \in Embedded
  BY DEF Candidate, LibInv, LibTypes
<1> QED BY <1>1, <1>2 DEF Ready, SaysTrue

-----------------------------------------------------------------------------
LEMMA LibStepKeepsInv == \A p \in LibProc : LibInv /\ LibStep(p) => LibInv'
<1> SUFFICES ASSUME NEW p \in LibProc, LibInv, LibStep(p) PROVE LibInv'
  OBVIOUS
<1>1. Candidate(p) \in Lib /\ Len(Candidates[p]) \in Nat /\ libAt[p] \in 1 .. Len(Candidates[p]) /\ libAt[p] \in Nat
  BY CandidateIsLib DEF LibInv, LibTypes
<1>2. \A q \in LibProc \ {p} : /\ libPC'[q] = libPC[q] /\ libTmp'[q] = libTmp[q]
                             /\ libAt'[q] = libAt[q] /\ libErr'[q] = libErr[q]
  BY DEF LibInv, LibTypes, LibStep, NoAVX2, IsEmbedded, StatTarget, CreateTemp, WriteTemp, RenameTemp, LostRename,
         OpenLibrary, BindSymbols, LibKilled, LibGoto, Fails, NextCandidate, InTemp, RemoveTemp, LoadError
<1>3. libFile' \in [Lib -> {None, Whole}] /\ \A l \in Lib : libFile[l] = Whole => libFile'[l] = Whole
  BY <1>1 DEF LibInv, LibTypes, Ready, LibStep, NoAVX2, IsEmbedded, StatTarget, CreateTemp, WriteTemp, RenameTemp,
         LostRename, OpenLibrary, BindSymbols, LibKilled, InTemp
<1>4. libOpened' \in [LibProc -> Seq({Whole})]
  <2>1. CASE OpenLibrary(p)
    <3>1. libFile[Candidate(p)] = Whole
      BY <2>1 DEF OpenLibrary, LibInv, Ready
    <3>2. libOpened' = [libOpened EXCEPT ![p] = Append(@, Whole)]
      BY <2>1, <3>1 DEF OpenLibrary
    <3>3. Append(libOpened[p], Whole) \in Seq({Whole})
      BY DEF LibInv, LibTypes
    <3> QED BY <3>2, <3>3 DEF LibInv, LibTypes
  <2>2. CASE ~ OpenLibrary(p)
    <3>1. UNCHANGED libOpened
      BY <2>2 DEF LibStep, NoAVX2, IsEmbedded, StatTarget, CreateTemp, WriteTemp, RenameTemp, LostRename,
                  BindSymbols, LibKilled
    <3> QED BY <3>1 DEF LibInv, LibTypes
  <2> QED BY <2>1, <2>2
<1>5. LibTypes'
  <2>1. libAt' \in [LibProc -> Nat] /\ \A q \in LibProc : libAt'[q] \in 1 .. Len(Candidates[q])
    <3>1. \/ UNCHANGED libAt
          \/ libAt[p] < Len(Candidates[p]) /\ libAt' = [libAt EXCEPT ![p] = @ + 1]
      BY DEF LibStep, NoAVX2, IsEmbedded, StatTarget, CreateTemp, WriteTemp, RenameTemp, LostRename, OpenLibrary,
             BindSymbols, LibKilled, NextCandidate
    <3>2. CASE UNCHANGED libAt
      BY <3>2 DEF LibInv, LibTypes
    <3>3. CASE libAt[p] < Len(Candidates[p]) /\ libAt' = [libAt EXCEPT ![p] = @ + 1]
      <4>1. libAt[p] + 1 \in 1 .. Len(Candidates[p]) /\ libAt[p] + 1 \in Nat
        BY <1>1, <3>3
      <4> QED BY <3>3, <4>1 DEF LibInv, LibTypes
    <3> QED BY <3>1, <3>2, <3>3
  <2>2. libPC' \in [LibProc -> {"embedded", "stat", "create", "write", "rename", "lost", "open", "bind",
                                "done", "killed"}]
    BY DEF LibInv, LibTypes, LibStep, NoAVX2, IsEmbedded, StatTarget, CreateTemp, WriteTemp, RenameTemp, LostRename,
           OpenLibrary, BindSymbols, LibKilled, LibGoto, Fails, NextCandidate
  <2>3. libErr' \in [LibProc -> {"absent", "unpack", "load", "symbol", "nil", "avx2", "probe"}]
    BY DEF LibInv, LibTypes, LibStep, NoAVX2, IsEmbedded, StatTarget, CreateTemp, WriteTemp, RenameTemp, LostRename,
           OpenLibrary, BindSymbols, LibKilled, Fails, LoadError
  <2>4. libTmp' \in [LibProc -> {None, Part, Whole}] /\ libDied' \subseteq LibProc
    BY DEF LibInv, LibTypes, LibStep, NoAVX2, IsEmbedded, StatTarget, CreateTemp, WriteTemp, RenameTemp, LostRename,
           OpenLibrary, BindSymbols, LibKilled, InTemp, RemoveTemp
  <2> QED BY <1>3, <1>4, <2>1, <2>2, <2>3, <2>4 DEF LibTypes
<1>6. (Ready(p) /\ SaysTrue(p))'
  <2>1. CASE NoAVX2(p)
    BY <2>1 DEF NoAVX2, Fails, LibGoto, LibInv, LibTypes, Ready, SaysTrue
  <2>2. CASE IsEmbedded(p)
    <3>1. libPC[p] = "embedded" /\ libTmp[p] = None /\ UNCHANGED libTmp
      BY <2>2 DEF IsEmbedded, LibInv, Ready
    <3>2. CASE Candidate(p) \in Embedded /\ LibGoto(p, "stat") /\ UNCHANGED <<libAt, libErr>>
      BY <3>1, <3>2 DEF LibGoto, LibInv, LibTypes, Ready, SaysTrue, Candidate
    <3>3. CASE Candidate(p) \notin Embedded /\ p \notin SaProc /\ NextCandidate(p) /\ UNCHANGED libErr
      <4>1. libErr'[p] = "absent" <=> \A i \in 1 .. libAt[p] : Candidates[p][i] \notin Embedded
        BY <1>1, <3>1, <3>3 DEF LibInv, SaysTrue, Candidate
      <4> QED BY <1>5, <3>1, <3>3, <4>1, NextKeeps DEF LibTypes
    <3>4. CASE p \in SaProc /\ Fails(p, "unpack")
      BY <3>1, <3>4 DEF Fails, LibGoto, LibInv, LibTypes, Ready, SaysTrue
    <3> QED BY <2>2, <3>2, <3>3, <3>4 DEF IsEmbedded
  <2>3. CASE StatTarget(p)
    BY <1>1, <2>3 DEF StatTarget, Unpacked, LibGoto, LibInv, LibTypes, Ready, SaysTrue, Candidate
  <2>4. CASE CreateTemp(p)
    <3>1. CASE InTemp(p, Part) /\ LibGoto(p, "write") /\ UNCHANGED libErr
      BY <2>4, <3>1 DEF CreateTemp, InTemp, LibGoto, LibInv, LibTypes, Ready, SaysTrue, Candidate
    <3>2. CASE Fails(p, "unpack") /\ UNCHANGED <<libFile, libTmp>>
      BY <2>4, <3>2, FailsKeeps DEF CreateTemp, LibInv, Ready, SaysTrue
    <3> QED BY <2>4, <3>1, <3>2 DEF CreateTemp
  <2>5. CASE WriteTemp(p)
    BY <1>1, <2>5 DEF WriteTemp, InTemp, RemoveTemp, Fails, LibGoto, LibInv, LibTypes, Ready, SaysTrue, Candidate
  <2>6. CASE RenameTemp(p)
    BY <1>1, <2>6 DEF RenameTemp, LibGoto, LibInv, LibTypes, Ready, SaysTrue, Candidate
  <2>7. CASE LostRename(p)
    BY <1>1, <2>7 DEF LostRename, WonByOther, RemoveTemp, Fails, LibGoto, LibInv, LibTypes, Ready, SaysTrue, Candidate
  <2>8. CASE OpenLibrary(p)
    <3>1. libPC[p] = "open" /\ libTmp[p] = None /\ UNCHANGED libTmp
      BY <2>8 DEF OpenLibrary, LibInv, Ready
    <3>2. CASE LibGoto(p, "bind") /\ UNCHANGED <<libAt, libErr>>
      BY <3>1, <3>2 DEF LibGoto, LibInv, LibTypes, Ready, SaysTrue, Candidate
    <3>3. CASE NextCandidate(p) /\ LoadError(p)
      <4>1. libErr'[p] = "load"
        BY <3>3 DEF LoadError, LibInv, LibTypes
      <4>2. CASE p \in SaProc
        <5>1. libPC'[p] \in {"embedded", "done"}
          BY <3>3 DEF NextCandidate, LibGoto, LibInv, LibTypes
        <5> QED BY <3>1, <4>2, <5>1 DEF Ready, SaysTrue
      <4>3. CASE p \notin SaProc
        <5>1. Candidates[p][libAt[p]] \in Embedded /\ libAt[p] \in 1 .. libAt[p]
          BY <1>1, <3>1, <4>3 DEF LibInv, SaysTrue, Candidate
        <5>2. libErr'[p] = "absent" <=> \A i \in 1 .. libAt[p] : Candidates[p][i] \notin Embedded
          BY <4>1, <5>1
        <5> QED BY <1>5, <3>1, <3>3, <5>2, NextKeeps DEF LibTypes
      <4> QED BY <4>2, <4>3
    <3> QED BY <2>8, <3>2, <3>3 DEF OpenLibrary
  <2>9. CASE BindSymbols(p)
    <3>1. libTmp[p] = None /\ UNCHANGED libTmp /\ (p \in SaProc \/ Candidate(p) \in Embedded)
      BY <2>9 DEF BindSymbols, LibInv, Ready, SaysTrue
    <3>2. PICK why \in {"symbol", "probe", "nil"} : Fails(p, why)
      BY <2>9 DEF BindSymbols, Fails
    <3> QED BY <3>1, <3>2, FailsKeeps
  <2>10. CASE LibKilled(p)
    BY <2>10 DEF LibKilled, LibGoto, LibInv, LibTypes, Ready, SaysTrue
  <2> QED BY <2>1, <2>2, <2>3, <2>4, <2>5, <2>6, <2>7, <2>8, <2>9, <2>10 DEF LibStep
<1>7. \A q \in LibProc \ {p} : (Ready(q) /\ SaysTrue(q))'
  BY <1>2, <1>3, OthersKeep
<1> QED BY <1>5, <1>6, <1>7 DEF LibInv

(* Any number of miners unpacking and loading the libraries at once, each  *)
(* failed or killed anywhere, load only whole ones, leave the cache clean  *)
(* and say that there is no library only when there is none                *)
(* (extractEmbeddedLib, load, loadSA).                                     *)
THEOREM LibrariesAreSound == LibSpec => []LibrariesSound
<1>1. LibInv /\ [LibNext]_libVars => LibInv'
  <2> SUFFICES ASSUME LibInv, [LibNext]_libVars PROVE LibInv'
    OBVIOUS
  <2>1. CASE LibNext
    BY <2>1, LibStepKeepsInv DEF LibNext
  <2>2. CASE UNCHANGED libVars
    BY <2>2 DEF libVars, LibInv, LibTypes, Ready, SaysTrue, Candidate
  <2> QED BY <2>1, <2>2
<1> QED BY <1>1, LibInvInit, LibInvShows, PTL DEF LibSpec

-----------------------------------------------------------------------------
(* The node watcher.                                                       *)

(* While no node has answered the whole list is walked, and from the first *)
(* answer on the one that gave it.                                         *)
Place == nodeAt \in 1 .. Len(PollList)

NodeInv == NodeTypeOK /\ NoteTellsTheSource /\ Place

LEMMA EndpointsAre ==
  /\ Len(endpoints) \in Nat /\ Len(endpoints) >= 1
  /\ \A i \in 1 .. Len(endpoints) : endpoints[i] \in Endpoint
  /\ NoNode \notin Endpoint /\ "unset" \notin Endpoint /\ "none" \notin Endpoint
<1>1. endpoints \in Seq(Endpoint) /\ Len(endpoints) > 0
  BY NodeAssumption
<1>2. Len(endpoints) \in Nat /\ Len(endpoints) >= 1
  BY <1>1
<1>3. \A i \in 1 .. Len(endpoints) : endpoints[i] \in Endpoint
  BY <1>1
<1>4. \A e \in Endpoint : e # NoNode /\ e # "unset" /\ e # "none"
  BY NodeAssumption, Zenon DEF Endpoint
<1> QED BY <1>2, <1>3, <1>4

(* There is a first place in whatever list is asked.                       *)
LEMMA FirstInList == 1 \in 1 .. Len(endpoints) /\ 1 \in 1 .. Len(PollList)
<1>1. 1 \in 1 .. Len(endpoints)
  BY EndpointsAre, SMT
<1>2. CASE nodeCur = NoNode
  BY <1>1, <1>2 DEF PollList
<1>3. CASE nodeCur # NoNode
  <2>1. PollList = <<nodeCur>>
    BY <1>3 DEF PollList
  <2>2. Len(PollList) = 1
    BY <2>1
  <2> QED BY <1>1, <2>2
<1> QED BY <1>1, <1>2, <1>3

LEMMA NodeInvInit == NodeInit => NodeInv
<1> SUFFICES ASSUME NodeInit PROVE NodeInv
  OBVIOUS
<1>1. nodeInfoRetry \in Nat /\ MaxNodeNow \in Nat
  BY NodeAssumption
<1>2. NodeTypeOK
  <2>1. LongAgo \in Int /\ 0 \in 0 .. MaxNodeNow
    BY <1>1 DEF LongAgo
  <2>2. nodeTick \in BOOLEAN /\ nodeClosed \in BOOLEAN
    BY DEF NodeInit
  <2>3. nodeNow = 0 /\ nodeAt = 1 /\ nodeWalks = 0 /\ lastFail = LongAgo /\ nodeFailedAt = LongAgo
    BY DEF NodeInit
  <2>4. nodePC = "poll" /\ nodeCur = NoNode /\ nodeNote = "unset" /\ nodeSaid = "unset"
    BY DEF NodeInit
  <2>5. 1 \in 1 .. Len(endpoints)
    BY FirstInList
  <2> QED BY <2>1, <2>2, <2>3, <2>4, <2>5 DEF NodeTypeOK
<1>3. NoteTellsTheSource
  BY EndpointsAre DEF NodeInit, NoteTellsTheSource
<1>4. Place
  BY EndpointsAre DEF NodeInit, Place, PollList
<1> QED BY <1>2, <1>3, <1>4 DEF NodeInv

(* What a poll asks is an endpoint of the list, and the one it has if it   *)
(* has one.                                                                *)
LEMMA PollAsks ==
  ASSUME NodeInv
  PROVE  /\ PollList[nodeAt] \in Endpoint
         /\ nodeCur # NoNode => PollList[nodeAt] = nodeCur
<1>1. CASE nodeCur = NoNode
  BY <1>1, EndpointsAre DEF NodeInv, Place, PollList
<1>2. CASE nodeCur # NoNode
  <2>1. nodeAt = 1
    BY <1>2 DEF NodeInv, Place, PollList
  <2> QED BY <1>2, <2>1 DEF PollList, NodeInv, NodeTypeOK
<1> QED BY <1>1, <1>2

-----------------------------------------------------------------------------
LEMMA NodeStepKeepsInv == NodeInv /\ NodeNext => NodeInv'
<1> SUFFICES ASSUME NodeInv, NodeNext PROVE NodeInv'
  OBVIOUS
<1> USE DEF NodeInv
<1>1. CASE PollAnswered
  <2>1. /\ nodeCur' = PollList[nodeAt] /\ nodeCur' \in Endpoint /\ nodeAt' = 1 /\ nodePC' = "select"
        /\ nodeNote' = GoodNote(nodeCur')
        /\ UNCHANGED <<nodeNow, nodeTick, nodeClosed, lastFail, nodeSaid, nodeHistory>>
    BY <1>1, PollAsks DEF PollAnswered
  <2>2. nodeNote' = nodeCur'
    <3>1. CASE nodeNote \in Endpoint
      BY <2>1, <3>1, PollAsks, EndpointsAre DEF GoodNote, NoteTellsTheSource
    <3>2. CASE nodeNote \notin Endpoint
      BY <2>1, <3>2 DEF GoodNote
    <3> QED BY <3>1, <3>2
  <2>3. NodeTypeOK'
    BY <2>1, <2>2, EndpointsAre DEF NodeTypeOK, nodeHistory
  <2>4. NoteTellsTheSource'
    BY <2>2 DEF NoteTellsTheSource
  <2>5. Place'
    BY <2>1, EndpointsAre DEF Place, PollList
  <2> QED BY <2>3, <2>4, <2>5
<1>2. CASE PollTriesNext
  <2>1. nodeCur = NoNode
    BY <1>2 DEF PollTriesNext, MoreToTry, Place, PollList
  <2> QED BY <1>2, <2>1, EndpointsAre
          DEF PollTriesNext, MoreToTry, NodeTypeOK, NoteTellsTheSource, Place, PollList, nodeHistory
<1>3. CASE PollFailed
  <2>1. NodeTypeOK'
    BY <1>3, EndpointsAre DEF PollFailed, KeptSample, NodeTypeOK
  <2>2. NoteTellsTheSource'
    BY <1>3, EndpointsAre DEF PollFailed, KeptSample, NoteTellsTheSource, NodeTypeOK
  <2>3. Place'
    BY <1>3, EndpointsAre DEF PollFailed, KeptSample, Place, PollList
  <2> QED BY <2>1, <2>2, <2>3
<1>4. CASE NodeClock
  BY <1>4, NodeAssumption DEF NodeClock, NodeTypeOK, NoteTellsTheSource, Place, PollList, nodeHistory
<1>5. CASE NodeTicks
  BY <1>5 DEF NodeTicks, NodeTypeOK, NoteTellsTheSource, Place, PollList, nodeHistory
<1>6. CASE NodeEnds
  BY <1>6 DEF NodeEnds, NodeTypeOK, NoteTellsTheSource, Place, PollList, nodeHistory
<1>7. CASE NodeClose
  BY <1>7 DEF NodeClose, NodeTypeOK, NoteTellsTheSource, Place, PollList, nodeHistory
<1>8. CASE NodeNoteLogged
  BY <1>8 DEF NodeNoteLogged, NodeTypeOK, NoteTellsTheSource, Place, PollList, nodeHistory
<1> QED BY <1>1, <1>2, <1>3, <1>4, <1>5, <1>6, <1>7, <1>8 DEF NodeNext, NodeLoop

LEMMA NodeInductive == NodeInv /\ [NodeNext]_nodeVars => NodeInv'
  BY NodeStepKeepsInv
     DEF nodeVars, nodeHistory, NodeInv, NodeTypeOK, NoteTellsTheSource, Place, PollList

(* The note names the endpoint the sample is from, and says that there is  *)
(* none only while there is no sample (poll in nodeinfo.go).               *)
THEOREM NoteNamesTheSource == NodeSpec => []NoteIsTrue
<1>1. NodeInv => NoteIsTrue
  BY DEF NodeInv, NoteIsTrue
<1> QED BY <1>1, NodeInvInit, NodeInductive, PTL DEF NodeSpec

(* Once a node has answered, its sample is never blanked nor replaced by   *)
(* another node's.                                                         *)
THEOREM SampleIsKept == NodeSpec => SampleStays
<1>1. NodeInv /\ [NodeNext]_nodeVars => (nodeCur # NoNode => nodeCur' = nodeCur)
  BY PollAsks DEF NodeNext, NodeLoop, PollAnswered, PollTriesNext, PollFailed, KeptSample, NodeClock, NodeTicks,
     NodeEnds, NodeClose, NodeNoteLogged, nodeVars
<1> QED BY <1>1, NodeInvInit, NodeInductive, PTL DEF NodeSpec, SampleStays

(* After the second walk of the list, and each one after it, the time it   *)
(* failed is the one the retry counts from.                                *)
FailureTimed == nodeWalks = 2 => lastFail = nodeFailedAt

LEMMA FailureStaysTimed ==
  ASSUME NodeInv, FailureTimed, NodeNext \/ UNCHANGED nodeVars
  PROVE  FailureTimed'
<1>1. CASE PollFailed
  <2>1. CASE FirstPoll
    BY <1>1, <2>1 DEF PollFailed, FirstPoll, FailureTimed
  <2>2. CASE ~FirstPoll
    BY <1>1, <2>2 DEF PollFailed, FailureTimed
  <2> QED BY <2>1, <2>2
<1>2. CASE ~PollFailed
  <2>1. UNCHANGED <<nodeWalks, lastFail, nodeFailedAt>>
    BY <1>2 DEF NodeNext, NodeLoop, PollAnswered, PollTriesNext, NodeClock, NodeTicks, NodeEnds,
       NodeClose, NodeNoteLogged, nodeVars, nodeHistory
  <2> QED BY <2>1 DEF FailureTimed
<1> QED BY <1>1, <1>2

(* While no endpoint answers, every walk of the list but the second begins *)
(* the whole retry time after the last one failed, for any list and any    *)
(* retry time (loop in nodeinfo.go).                                       *)
THEOREM WalksAreSpaced == NodeSpec => WalksSpaced
<1>1. NodeInit => FailureTimed
  BY DEF NodeInit, FailureTimed
<1>2. NodeInv /\ FailureTimed /\ [NodeNext]_nodeVars => FailureTimed'
  BY FailureStaysTimed
<1>3. FailureTimed /\ [NodeNext]_nodeVars =>
        (nodePC = "select" /\ nodePC' = "poll" /\ nodeCur = NoNode /\ nodeWalks = 2
           => nodeNow - nodeFailedAt >= nodeInfoRetry)
  BY DEF FailureTimed, NodeNext, NodeLoop, PollAnswered, PollTriesNext, PollFailed, NodeClock, NodeTicks,
     RetryDue, NodeEnds, NodeClose, NodeNoteLogged, nodeVars
<1> QED BY <1>1, <1>2, <1>3, NodeInvInit, NodeInductive, PTL DEF NodeSpec, WalksSpaced

-----------------------------------------------------------------------------
(* The settings.                                                           *)

(* What was answered waits for the flags unchanged, what a run mines with  *)
(* can be read again, and a run that has just begun mines with what its    *)
(* settings say.                                                           *)
AnswersKept == setPC = "flags" /\ asked => Answers(cfg) /\ testnet = cfg.Testnet
RunInRange  == setPC \in {"begun", "running"} => cfg.Threads \in 0 .. maxThreads /\ cfg.Node
BegunAsSet  == setPC = "begun" => engThreads = cfg.Threads

SetInv == RunsCanBegin /\ AnswersKept /\ RunInRange /\ BegunAsSet

LEMMA ConfigFields ==
  ASSUME NEW c \in Config
  PROVE  /\ c.Wallet \in {NoAddress, "main", "test"} /\ c.Node \in BOOLEAN /\ c.Testnet \in BOOLEAN
         /\ c.Threads \in Unset .. maxThreads /\ c.GPUs \in 0 .. GPUCount
         /\ c.Threads \in Int /\ c.GPUs \in Nat
  BY SettingsAssumption DEF Config, Unset

LEMMA NoConfigIsConfig == NoConfig \in Config
  BY SettingsAssumption DEF NoConfig, Config, NoAddress, Unset

LEMMA PlainIsFlags == Plain \in Flags
  BY SettingsAssumption DEF Plain, Flags, NoAddress, Unset

(* The flags put a number of threads that may run in place of none.        *)
LEMMA OverrideIs ==
  ASSUME NEW c \in Config, NEW flags \in Flags
  PROVE  /\ Override(c, flags) \in Config
         /\ Override(c, flags).Threads \in 0 .. maxThreads /\ Override(c, flags).Node
         /\ flags.threads = Unset /\ c.Threads >= 0 => Override(c, flags).Threads = c.Threads
         /\ flags.gpu = Unset => Override(c, flags).GPUs = c.GPUs
         /\ flags.wallet = NoAddress => Override(c, flags).Wallet = c.Wallet
<1>1. /\ flags.threads \in Unset .. maxThreads /\ flags.gpu \in Unset .. GPUCount
      /\ flags.wallet \in {NoAddress, "main", "test"}
  BY DEF Flags
<1> QED BY <1>1, ConfigFields, SettingsAssumption DEF Override, Config, Unset

-----------------------------------------------------------------------------
LEMMA SetInvInit == SetInit => SetInv
<1> SUFFICES ASSUME SetInit PROVE SetInv
  OBVIOUS
<1>1. cfgFile \in Config /\ cfg \in Config /\ setFlags \in Flags
  BY NoConfigIsConfig, PlainIsFlags DEF SetInit
<1>2. testnet \in BOOLEAN /\ asked \in BOOLEAN
  BY Zenon DEF SetInit
<1>3. SetTypeOK
  BY <1>1, <1>2, SettingsAssumption DEF SetInit, SetTypeOK
<1>4. ~ asked
  BY Zenon DEF SetInit
<1> QED BY <1>3, <1>4 DEF SetInit, SetInv, RunsCanBegin, BeginsWithWork, SetupIsEnough, SavedInRange, AnswersKept,
                          RunInRange, BegunAsSet

LEMMA StartKeeps == ASSUME SetInv, NEW flags \in Flags, Start(flags) PROVE SetInv'
<1>1. /\ flags.testnet \in BOOLEAN /\ cfgFile.Testnet \in BOOLEAN /\ cfgFile \in Config
      /\ (cfgFile # NoConfig => cfgFile.Threads \in 0 .. maxThreads /\ cfgFile.Node)
  BY ConfigFields DEF Flags, SetInv, RunsCanBegin, SetTypeOK, SavedInRange
<1>2. testnet' \in BOOLEAN /\ asked' \in BOOLEAN
  BY <1>1, Zenon DEF Start
<1>3. cfg' \in Config
  <2>1. CASE cfgFile # NoConfig
    BY <1>1, <2>1 DEF Start
  <2>2. CASE cfgFile = NoConfig
    <3>1. cfg' = [Wallet |-> NoAddress, Node |-> FALSE, Threads |-> DefaultThreads, GPUs |-> 0,
                  Testnet |-> testnet']
      BY <2>2 DEF Start, NoConfig
    <3>2. DefaultThreads \in Unset .. maxThreads /\ 0 \in 0 .. GPUCount
      BY SettingsAssumption DEF Unset
    <3> QED BY <1>2, <3>1, <3>2 DEF Config
  <2> QED BY <2>1, <2>2
<1>4. setPC' \in {"asking", "flags"} /\ setFlags' = flags /\ engThreads' = 0 /\ cfgFile' = cfgFile
  BY DEF Start
<1>5. ~ asked'
  BY Zenon DEF Start
<1>6. SetTypeOK'
  <2>1. engThreads' \in 0 .. maxThreads
    BY <1>4, SettingsAssumption
  <2> QED BY <1>1, <1>2, <1>3, <1>4, <2>1 DEF SetTypeOK
<1>7. BeginsWithWork' /\ RunInRange' /\ BegunAsSet'
  BY <1>4 DEF BeginsWithWork, RunInRange, BegunAsSet
<1>8. SetupIsEnough' /\ AnswersKept'
  BY <1>5 DEF SetupIsEnough, AnswersKept
<1>9. SavedInRange'
  BY <1>1, <1>4 DEF SavedInRange
<1> QED BY <1>6, <1>7, <1>8, <1>9 DEF SetInv, RunsCanBegin

LEMMA SetupKeeps == ASSUME SetInv, NEW c \in Config, Setup(c) PROVE SetInv'
<1>1. c.Testnet \in BOOLEAN
  BY ConfigFields
<1> QED BY <1>1 DEF Setup, Answers, SetInv, RunsCanBegin, SetTypeOK, BeginsWithWork, SetupIsEnough, SavedInRange,
                    AnswersKept, RunInRange, BegunAsSet

(* Answers that were kept have work in them and fit the network.           *)
LEMMA AnswersWillDo ==
  ASSUME NEW c, Answers(c) PROVE HasWork(c) /\ AddressFits(c, c.Testnet)
  BY SettingsAssumption DEF Answers, HasWork, AddressFits, Mineable, GPUAnswer, Config

LEMMA ApplyFlagsKeeps == ASSUME SetInv, ApplyFlags PROVE SetInv'
<1> DEFINE c == Override(cfg, setFlags)
<1>1. cfg \in Config /\ setFlags \in Flags /\ cfg' = c /\ setFlags' = setFlags /\ testnet' = testnet
  BY DEF ApplyFlags, SetInv, RunsCanBegin, SetTypeOK
<1>2. c \in Config /\ c.Threads \in 0 .. maxThreads /\ c.Node
  BY <1>1, OverrideIs
<1>3. SetTypeOK'
  BY <1>1, <1>2, SettingsAssumption DEF ApplyFlags, SetInv, RunsCanBegin, SetTypeOK
<1>4. BeginsWithWork'
  <2> HIDE DEF c
  <2>1. c.GPUs \in Nat
    BY <1>2, ConfigFields
  <2> QED BY <1>1, <1>2, <2>1 DEF ApplyFlags, BeginsWithWork, HasWork, AddressFits
<1>5. SetupIsEnough'
  <2> SUFFICES ASSUME asked, setFlags \in {Plain, [Plain EXCEPT !.setup = TRUE]} PROVE setPC' # "refused"
    BY <1>1 DEF ApplyFlags, SetupIsEnough
  <2>1. setFlags.wallet = NoAddress /\ setFlags.threads = Unset /\ setFlags.gpu = Unset
    BY DEF Plain
  <2>2. setPC = "flags" /\ Answers(cfg) /\ testnet = cfg.Testnet
    BY DEF ApplyFlags, SetInv, AnswersKept
  <2>3. cfg.Threads >= 0
    BY <2>2, SettingsAssumption DEF Answers
  <2>4. c.Threads = cfg.Threads /\ c.GPUs = cfg.GPUs /\ c.Wallet = cfg.Wallet
    BY <1>1, <2>1, <2>3, OverrideIs
  <2> HIDE DEF c
  <2>5. HasWork(c) /\ AddressFits(c, testnet)
    BY <2>2, <2>4, AnswersWillDo DEF HasWork, AddressFits
  <2> QED BY <1>1, <2>5 DEF ApplyFlags
<1>6. SavedInRange' /\ AnswersKept' /\ RunInRange' /\ BegunAsSet'
  BY <1>1, <1>2 DEF ApplyFlags, SetInv, RunsCanBegin, SavedInRange, AnswersKept, RunInRange, BegunAsSet
<1> QED BY <1>3, <1>4, <1>5, <1>6 DEF SetInv, RunsCanBegin

LEMMA CommandsKeep ==
  ASSUME SetInv,
         (\E n \in -1 .. maxThreads + 1 : ThreadsCommand(n)) \/ SaveCommand \/ QuitCommand \/ SetupCancelled
  PROVE  SetInv'
<1> USE DEF SetInv, RunsCanBegin, SetTypeOK, BeginsWithWork, SetupIsEnough, SavedInRange, AnswersKept, RunInRange,
            BegunAsSet
<1>1. ASSUME NEW n \in -1 .. maxThreads + 1, ThreadsCommand(n) PROVE SetInv'
  <2>1. n \in 0 .. maxThreads /\ [cfg EXCEPT !.Threads = n] \in Config
    BY <1>1, SettingsAssumption DEF ThreadsCommand, ThreadsFit, Config, Unset
  <2> QED BY <1>1, <2>1 DEF ThreadsCommand, Config
<1>2. CASE SaveCommand
  BY <1>2 DEF SaveCommand
<1>3. CASE QuitCommand
  BY <1>3, SettingsAssumption DEF QuitCommand
<1>4. CASE SetupCancelled
  BY <1>4 DEF SetupCancelled
<1> QED BY <1>1, <1>2, <1>3, <1>4

LEMMA SetInductive == SetInv /\ [SetNext]_setVars => SetInv'
<1> SUFFICES ASSUME SetInv, [SetNext]_setVars PROVE SetInv'
  OBVIOUS
<1>1. CASE SetNext
  BY <1>1, StartKeeps, SetupKeeps, ApplyFlagsKeeps, CommandsKeep DEF SetNext
<1>2. CASE UNCHANGED setVars
  BY <1>2 DEF setVars, SetInv, RunsCanBegin, SetTypeOK, BeginsWithWork, SetupIsEnough, SavedInRange, AnswersKept,
              RunInRange, BegunAsSet
<1> QED BY <1>1, <1>2

(* Over any runs, flags, answers and saves, and for any number of threads  *)
(* and cards: a run that begins can mine, a setup that was answered leads  *)
(* to one, and what was saved can be read (main.go, setup.go).             *)
THEOREM SettingsHold == SetSpec => []RunsCanBegin
<1>1. SetInv => RunsCanBegin
  BY DEF SetInv
<1> QED BY <1>1, SetInvInit, SetInductive, PTL DEF SetSpec

-----------------------------------------------------------------------------
(* The cards and their rows.                                                *)

(* The window's end is as silent as the history says, and no longer.       *)
SilentFor(w, s) ==
  /\ s <= Len(w)
  /\ \A i \in 1 .. Len(w) : i > Len(w) - s => ~ w[i]
  /\ s < Len(w) => w[Len(w) - s]

SilenceCounted == \A d \in DeviceNo : SilentFor(perGPU[d], silent[d])

(* Only a card that is mined has a window, and none before SetGPUs.        *)
WorkersHaveWindows ==
  /\ \A d \in DeviceNo : d \notin gpuWorkers => Len(perGPU[d]) = 0
  /\ cfgGPUs = <<>> => gpuWorkers = {}

(* A reading is of the card with the number it was given.                  *)
SensedOfCard == \A g \in sensed : g.Index \in DOMAIN gpuDeviceList /\ g.card = gpuDeviceList[g.Index]

DevInv == DevTypeOK /\ cfgGPUs \in Seq(Nat) /\ SilenceCounted /\ WorkersHaveWindows /\ SensedOfCard

-----------------------------------------------------------------------------
LEMMA WorkersFinite ==
  ASSUME gpuWorkers \subseteq DeviceNo
  PROVE  /\ IsFiniteSet(gpuWorkers) /\ Cardinality(gpuWorkers) \in Nat
         /\ gpuWorkers \subseteq Nat
         /\ \A d : IsFiniteSet(Before(d)) /\ Cardinality(Before(d)) \in Nat
<1>1. IsFiniteSet(DeviceNo)
  BY FS_Interval, DevicesAssumption DEF DeviceNo
<1>2. IsFiniteSet(gpuWorkers)
  BY <1>1, FS_Subset
<1>3. ASSUME NEW d PROVE IsFiniteSet(Before(d)) /\ Cardinality(Before(d)) \in Nat
  <2>1. Before(d) \in SUBSET gpuWorkers
    BY DEF Before
  <2> QED BY <1>2, <2>1, FS_Subset, FS_CardinalityType
<1> QED BY <1>2, <1>3, FS_CardinalityType DEF DeviceNo

LEMMA CountBelow == ASSUME NEW n \in Nat PROVE IsFiniteSet(0 .. n - 1) /\ Cardinality(0 .. n - 1) = n
<1>1. 0 \in Int /\ n - 1 \in Int
  OBVIOUS
<1>2. IsFiniteSet(0 .. n - 1) /\ Cardinality(0 .. n - 1) = IF 0 > n - 1 THEN 0 ELSE (n - 1) - 0 + 1
  BY <1>1, FS_Interval
<1> QED BY <1>2

(* The numbers of those before them tell the cards apart, and none is left *)
(* out: every place in the list has its card.                              *)
LEMMA PlacesAreTaken ==
  ASSUME gpuWorkers \subseteq DeviceNo, NEW i \in 1 .. Cardinality(gpuWorkers)
  PROVE  \E d \in gpuWorkers : Cardinality(Before(d)) = i - 1
<1> DEFINE n == Cardinality(gpuWorkers)
           place == [d \in gpuWorkers |-> Cardinality(Before(d))]
<1>1. n \in Nat
  BY WorkersFinite
<1>2. ASSUME NEW d \in gpuWorkers PROVE Cardinality(Before(d)) \in 0 .. n - 1
  <2>1. Before(d) \in SUBSET gpuWorkers /\ d \notin Before(d) /\ d \in Nat
    BY WorkersFinite DEF Before
  <2>2. Before(d) # gpuWorkers
    BY <2>1
  <2>3. Cardinality(Before(d)) <= n /\ Cardinality(Before(d)) # n
    BY <2>1, <2>2, WorkersFinite, FS_Subset
  <2> QED BY <1>1, <2>3, WorkersFinite
<1>3. ASSUME NEW d \in gpuWorkers, NEW e \in gpuWorkers, d < e
      PROVE  Cardinality(Before(d)) # Cardinality(Before(e))
  <2>1. Before(d) \in SUBSET Before(e) /\ d \in Before(e) /\ d \notin Before(d)
    BY <1>3, WorkersFinite DEF Before
  <2> QED BY <2>1, WorkersFinite, FS_Subset
<1>4. place \in Injection(gpuWorkers, 0 .. n - 1)
  <2>1. ASSUME NEW d \in gpuWorkers, NEW e \in gpuWorkers, place[d] = place[e] PROVE d = e
    <3>1. d \in Nat /\ e \in Nat
      BY WorkersFinite
    <3>2. ~ (d < e) /\ ~ (e < d)
      BY <1>3, <2>1
    <3> QED BY <3>1, <3>2
  <2>2. place \in [gpuWorkers -> 0 .. n - 1]
    BY <1>2
  <2> HIDE DEF place
  <2> QED BY <2>1, <2>2 DEF Injection, IsInjective
<1>5. IsFiniteSet(0 .. n - 1) /\ Cardinality(0 .. n - 1) = n
  BY <1>1, CountBelow
<1>6. place \in Surjection(gpuWorkers, 0 .. n - 1)
  <2> HIDE DEF place
  <2> QED BY <1>4, <1>5, FS_Injection
<1>7. \E d \in gpuWorkers : place[d] = i - 1
  <2>1. i - 1 \in 0 .. n - 1
    BY <1>1
  <2> HIDE DEF place, n
  <2> QED BY <1>6, <2>1 DEF Surjection
<1> QED BY <1>7

LEMMA ListedIsMined ==
  ASSUME gpuWorkers \subseteq DeviceNo, NEW i \in 1 .. Len(GPUDeviceList)
  PROVE  /\ i \in 1 .. Cardinality(gpuWorkers)
         /\ GPUDeviceList[i] \in gpuWorkers
         /\ Cardinality(Before(GPUDeviceList[i])) = i - 1
<1>1. Cardinality(gpuWorkers) \in Nat
  BY WorkersFinite
<1>2. Len(GPUDeviceList) = Cardinality(gpuWorkers)
  BY <1>1 DEF GPUDeviceList
<1>3. i \in 1 .. Cardinality(gpuWorkers)
  BY <1>2
<1>4. GPUDeviceList[i] = CHOOSE d \in gpuWorkers : Cardinality(Before(d)) = i - 1
  BY <1>3 DEF GPUDeviceList
<1> QED BY <1>3, <1>4, PlacesAreTaken

LEMMA RowsOfList ==
  ASSUME gpuWorkers \subseteq DeviceNo
  PROVE  /\ Len(buildDeviceRows) = Len(GPUDeviceList) /\ Len(statsDevices) = Len(GPUDeviceList)
         /\ \A i \in 1 .. Len(GPUDeviceList) :
              /\ buildDeviceRows[i].device = GPUDeviceList[i]
              /\ buildDeviceRows[i].TempC = gpuByIndex(GPUDeviceList[i])
              /\ buildDeviceRows[i].Ailing <=> Ailing(GPUDeviceList[i])
              /\ statsDevices[i].row.device = GPUDeviceList[i]
              /\ statsDevices[i].FanPct = gpuByIndex(i - 1)
<1>1. Len(GPUDeviceList) \in Nat
  BY WorkersFinite DEF GPUDeviceList
<1>2. Len(buildDeviceRows) = Len(GPUDeviceList)
  BY <1>1 DEF buildDeviceRows
<1>3. Len(statsDevices) = Len(GPUDeviceList)
  BY <1>1, <1>2 DEF statsDevices
<1>4. ASSUME NEW i \in 1 .. Len(GPUDeviceList)
      PROVE  /\ buildDeviceRows[i].device = GPUDeviceList[i]
             /\ buildDeviceRows[i].TempC = gpuByIndex(GPUDeviceList[i])
             /\ buildDeviceRows[i].Ailing <=> Ailing(GPUDeviceList[i])
             /\ statsDevices[i].row.device = GPUDeviceList[i]
             /\ statsDevices[i].FanPct = gpuByIndex(i - 1)
  <2> DEFINE d == GPUDeviceList[i]
             a == Ailing(d)
             c == gpuByIndex(d)
  <2>1. buildDeviceRows[i] = [device |-> d, Ailing |-> a, TempC |-> c]
    BY <1>1 DEF buildDeviceRows
  <2>2. buildDeviceRows[i].device = d /\ buildDeviceRows[i].TempC = c /\ buildDeviceRows[i].Ailing = a
    <3> HIDE DEF d, a, c
    <3> QED BY <2>1
  <2>3. statsDevices[i] = [row |-> buildDeviceRows[i], Index |-> i - 1, FanPct |-> gpuByIndex(i - 1)]
    BY <1>1, <1>2 DEF statsDevices
  <2>4. statsDevices[i].row = buildDeviceRows[i] /\ statsDevices[i].FanPct = gpuByIndex(i - 1)
    BY <2>3
  <2>5. buildDeviceRows[i].Ailing <=> Ailing(GPUDeviceList[i])
    BY <2>2, Zenon
  <2> QED BY <2>2, <2>4, <2>5
<1> QED BY <1>2, <1>3, <1>4

LEMMA WindowIs ==
  ASSUME NEW w \in Windows
  PROVE  /\ Len(w) \in 0 .. RateTicks /\ w \in [1 .. Len(w) -> BOOLEAN] /\ w \in Seq(BOOLEAN)
         /\ RateTicks \in Nat /\ RateTicks > 0
<1>1. PICK n \in 0 .. RateTicks : w \in [1 .. n -> BOOLEAN]
  BY DEF Windows
<1>2. Len(w) = n
  BY <1>1
<1> QED BY <1>1, <1>2, DevicesAssumption

LEMMA ReadingOfCard ==
  ASSUME SensedOfCard, NEW i, gpuByIndex(i) # NoReading
  PROVE  i \in DOMAIN gpuDeviceList /\ gpuByIndex(i) = gpuDeviceList[i]
<1>1. \E g \in sensed : g.Index = i
  BY DEF gpuByIndex
<1>2. PICK g \in sensed : g = (CHOOSE h \in sensed : h.Index = i) /\ g.Index = i
  BY <1>1
<1>3. gpuByIndex(i) = g.card
  BY <1>1, <1>2 DEF gpuByIndex
<1> QED BY <1>2, <1>3 DEF SensedOfCard

-----------------------------------------------------------------------------
LEMMA RowsFromInv == DevInv => RowsAreTrue
<1> SUFFICES ASSUME DevInv PROVE RowsAreTrue
  OBVIOUS
<1>1. gpuWorkers \subseteq DeviceNo
  BY DEF DevInv, DevTypeOK
<1> DEFINE L == GPUDeviceList
<1>2. RowIsOneCard
  <2> SUFFICES ASSUME NEW i \in 1 .. Len(L), gpuByIndex(L[i]) # NoReading
               PROVE  L[i] \in DOMAIN gpuDeviceList /\ gpuByIndex(L[i]) = gpuDeviceList[L[i]]
    BY <1>1, RowsOfList DEF RowIsOneCard
  <2> QED BY ReadingOfCard DEF DevInv
<1>3. AilingIsSilent
  <2> SUFFICES ASSUME NEW i \in 1 .. Len(L) PROVE Ailing(L[i]) <=> silent[L[i]] = RateTicks
    BY <1>1, RowsOfList DEF AilingIsSilent
  <2> DEFINE d == L[i]
  <2>1. d \in DeviceNo
    BY <1>1, ListedIsMined
  <2> HIDE DEF d, L
  <2> DEFINE n == Len(perGPU[d])
  <2>2. perGPU[d] \in Windows /\ silent[d] \in 0 .. RateTicks /\ SilentFor(perGPU[d], silent[d])
    BY <2>1 DEF DevInv, DevTypeOK, SilenceCounted
  <2>3. n \in 0 .. RateTicks /\ RateTicks \in Nat /\ RateTicks > 0
    BY <2>2, WindowIs
  <2>4. /\ silent[d] <= n /\ (\A k \in 1 .. n : k > n - silent[d] => ~ perGPU[d][k])
        /\ (silent[d] < n => perGPU[d][n - silent[d]])
    BY <2>2 DEF SilentFor
  <2>5. ASSUME Ailing(d) PROVE silent[d] = RateTicks
    <3>1. n = RateTicks /\ (silent[d] < n => n - silent[d] \in 1 .. n)
      BY <2>2, <2>3, <2>5 DEF Ailing
    <3>2. ~ (silent[d] < n)
      BY <2>3, <2>4, <2>5, <3>1 DEF Ailing
    <3> QED BY <2>2, <2>3, <2>4, <3>1, <3>2
  <2>6. ASSUME silent[d] = RateTicks PROVE Ailing(d)
    BY <2>2, <2>3, <2>4, <2>6 DEF Ailing
  <2> QED BY <2>5, <2>6 DEF d
<1>4. DocRowIsOneCard
  <2> SUFFICES ASSUME gpuWorkers = 0 .. Len(L) - 1, NEW i \in 1 .. Len(L), gpuByIndex(i - 1) # NoReading
               PROVE  gpuByIndex(i - 1) = gpuDeviceList[L[i]]
    BY <1>1, RowsOfList DEF DocRowIsOneCard
  <2>1. L[i] \in gpuWorkers /\ Cardinality(Before(L[i])) = i - 1
    BY <1>1, ListedIsMined
  <2>2. Len(L) \in Nat
    BY <1>1, WorkersFinite DEF GPUDeviceList
  <2> HIDE DEF L
  <2>3. L[i] \in Nat /\ Before(L[i]) = 0 .. L[i] - 1
    BY <2>1, <2>2 DEF Before
  <2>4. Cardinality(0 .. L[i] - 1) = L[i]
    BY <2>3, CountBelow
  <2>5. L[i] = i - 1
    BY <2>1, <2>3, <2>4
  <2> QED BY <2>5, ReadingOfCard DEF DevInv
<1> QED BY <1>2, <1>3, <1>4 DEF RowsAreTrue, DevInv

-----------------------------------------------------------------------------
LEMMA DevInvInit == DevInit => DevInv
<1> SUFFICES ASSUME DevInit PROVE DevInv
  OBVIOUS
<1>1. <<>> \in Windows
  BY DevicesAssumption DEF Windows
<1>2. DevTypeOK
  BY <1>1, DevicesAssumption DEF DevInit, DevTypeOK
<1> QED BY <1>2, DevicesAssumption DEF DevInit, DevInv, SilentFor, SilenceCounted, WorkersHaveWindows, SensedOfCard

(* One sample more: the window moves on.                                   *)
LEMMA PushedIs ==
  ASSUME NEW w \in Windows, NEW v \in BOOLEAN
  PROVE  /\ Pushed(w, v) \in Windows
         /\ Len(Pushed(w, v)) = (IF Len(w) < RateTicks THEN Len(w) + 1 ELSE RateTicks)
         /\ Pushed(w, v)[Len(Pushed(w, v))] = v
         /\ Len(w) < RateTicks => \A i \in 1 .. Len(w) : Pushed(w, v)[i] = w[i]
         /\ Len(w) = RateTicks => \A i \in 1 .. RateTicks - 1 : Pushed(w, v)[i] = w[i + 1]
<1> DEFINE p == Pushed(w, v)
           n == Len(w)
           m == IF n < RateTicks THEN n + 1 ELSE RateTicks
<1>1. n \in 0 .. RateTicks /\ RateTicks \in Nat /\ RateTicks > 0 /\ w \in Seq(BOOLEAN)
  BY WindowIs
<1>2. /\ p \in Seq(BOOLEAN) /\ Len(p) = m /\ m \in 1 .. RateTicks /\ p[m] = v
      /\ n < RateTicks => \A i \in 1 .. n : p[i] = w[i]
      /\ n = RateTicks => \A i \in 1 .. RateTicks - 1 : p[i] = w[i + 1]
  <2>1. CASE n < RateTicks
    <3>1. p = Append(w, v)
      BY <1>1, <2>1 DEF Pushed
    <3> QED BY <1>1, <2>1, <3>1
  <2>2. CASE n = RateTicks
    <3>1. p = Append(Tail(w), v)
      BY <1>1, <2>2 DEF Pushed
    <3>2. Tail(w) \in Seq(BOOLEAN) /\ Len(Tail(w)) = n - 1 /\ \A i \in 1 .. n - 1 : Tail(w)[i] = w[i + 1]
      BY <1>1, <2>2
    <3> QED BY <1>1, <2>2, <3>1, <3>2
  <2> QED BY <1>1, <2>1, <2>2
<1>3. p \in Windows
  <2>1. p \in [1 .. m -> BOOLEAN]
    BY <1>2
  <2> HIDE DEF p, m
  <2> QED BY <1>2, <2>1 DEF Windows
<1> HIDE DEF p
<1> QED BY <1>2, <1>3 DEF p

(* A sample with hashes in it ends the silence, one without prolongs it.   *)
LEMMA SilenceEnds ==
  ASSUME NEW w \in Windows
  PROVE  Pushed(w, TRUE) \in Windows /\ SilentFor(Pushed(w, TRUE), 0)
<1> DEFINE p == Pushed(w, TRUE)
<1>1. p \in Windows /\ p[Len(p)] = TRUE
  BY PushedIs, Zenon
<1> HIDE DEF p
<1>2. p[Len(p)]
  BY <1>1, Zenon
<1>3. SilentFor(p, 0)
  BY <1>1, <1>2, WindowIs DEF SilentFor
<1> QED BY <1>1, <1>3 DEF p

LEMMA SilenceGrows ==
  ASSUME NEW w \in Windows, NEW s \in 0 .. RateTicks, SilentFor(w, s)
  PROVE  /\ Pushed(w, FALSE) \in Windows
         /\ SilentFor(Pushed(w, FALSE), IF s < RateTicks THEN s + 1 ELSE RateTicks)
<1> DEFINE p == Pushed(w, FALSE)
           n == Len(w)
           m == IF n < RateTicks THEN n + 1 ELSE RateTicks
           t == IF s < RateTicks THEN s + 1 ELSE RateTicks
<1>1. n \in 0 .. RateTicks /\ RateTicks \in Nat /\ RateTicks > 0 /\ s \in Nat /\ s <= n
  BY WindowIs DEF SilentFor
<1>2. /\ p \in Windows /\ Len(p) = m /\ p[Len(p)] = FALSE
      /\ n < RateTicks => \A i \in 1 .. n : p[i] = w[i]
      /\ n = RateTicks => \A i \in 1 .. RateTicks - 1 : p[i] = w[i + 1]
  BY PushedIs, Zenon
<1> HIDE DEF p
<1>3. t <= m /\ m \in 1 .. RateTicks
  BY <1>1
<1>4. ASSUME NEW i \in 1 .. m, i > m - t PROVE ~ p[i]
  <2>1. CASE i = m
    BY <1>2, <2>1
  <2>2. CASE i < m /\ n < RateTicks
    <3>1. i \in 1 .. n /\ i > n - s /\ p[i] = w[i]
      BY <1>1, <1>2, <1>4, <2>2
    <3> QED BY <3>1 DEF SilentFor
  <2>3. CASE i < m /\ n = RateTicks
    <3>1. i + 1 \in 1 .. n /\ i + 1 > n - s /\ p[i] = w[i + 1]
      BY <1>1, <1>2, <1>4, <2>3
    <3> QED BY <3>1 DEF SilentFor
  <2> QED BY <1>1, <1>3, <2>1, <2>2, <2>3
<1>5. ASSUME t < m PROVE p[m - t]
  <2>1. s < RateTicks /\ t = s + 1 /\ s < n
    BY <1>1, <1>5
  <2>2. w[n - s]
    BY <2>1 DEF SilentFor
  <2>3. CASE n < RateTicks
    <3>1. m - t = n - s /\ n - s \in 1 .. n
      BY <1>1, <2>1, <2>3
    <3> QED BY <1>2, <2>2, <2>3, <3>1
  <2>4. CASE n = RateTicks
    <3>1. m - t + 1 = n - s /\ m - t \in 1 .. RateTicks - 1
      BY <1>1, <1>5, <2>1, <2>4
    <3> QED BY <1>2, <2>2, <2>4, <3>1
  <2>5. n < RateTicks \/ n = RateTicks
    BY <1>1
  <2> QED BY <2>3, <2>4, <2>5, Zenon
<1> HIDE DEF m, t
<1>6. SilentFor(p, t)
  BY <1>2, <1>3, <1>4, <1>5 DEF SilentFor
<1> QED BY <1>2, <1>6 DEF p, t

LEMMA SamplerTickKeeps == ASSUME DevInv, SamplerTick PROVE DevInv'
<1>1. perGPU \in [DeviceNo -> Windows] /\ silent \in [DeviceNo -> 0 .. RateTicks]
  BY DEF DevInv, DevTypeOK
<1>2. ASSUME NEW d \in DeviceNo
      PROVE  perGPU'[d] \in Windows /\ silent'[d] \in 0 .. RateTicks /\ SilentFor(perGPU'[d], silent'[d])
  <2>1. perGPU[d] \in Windows /\ silent[d] \in 0 .. RateTicks /\ SilentFor(perGPU[d], silent[d])
    BY <1>1 DEF DevInv, SilenceCounted
  <2>2. CASE d \in gpuWorkers /\ perGPU[d] # <<>> /\ d \in gpuFresh
    <3>1. perGPU'[d] = Pushed(perGPU[d], TRUE) /\ silent'[d] = 0
      BY <2>2, Zenon DEF SamplerTick
    <3>2. Pushed(perGPU[d], TRUE) \in Windows /\ SilentFor(Pushed(perGPU[d], TRUE), 0)
      BY <2>1, SilenceEnds, Zenon
    <3>3. 0 \in 0 .. RateTicks
      BY DevicesAssumption
    <3> QED BY <3>1, <3>2, <3>3, Zenon
  <2>3. CASE d \in gpuWorkers /\ ~ (perGPU[d] # <<>> /\ d \in gpuFresh)
    <3>1. perGPU'[d] = Pushed(perGPU[d], FALSE)
      BY <2>3, Zenon DEF SamplerTick
    <3>2. silent'[d] = IF silent[d] < RateTicks THEN silent[d] + 1 ELSE RateTicks
      BY <2>3, Zenon DEF SamplerTick
    <3>3. silent'[d] \in 0 .. RateTicks
      BY <2>1, <3>2, DevicesAssumption
    <3> QED BY <2>1, <3>1, <3>2, <3>3, SilenceGrows
  <2>4. CASE d \notin gpuWorkers
    <3>1. perGPU'[d] = perGPU[d] /\ silent'[d] = 0 /\ Len(perGPU[d]) = 0
      BY <2>4 DEF SamplerTick, DevInv, WorkersHaveWindows
    <3> QED BY <2>1, <3>1, DevicesAssumption DEF SilentFor
  <2> QED BY <2>2, <2>3, <2>4
<1>3. /\ gpuWorkers' = gpuWorkers /\ gpuLive' = gpuLive /\ gpuFresh' = {} /\ sensed' = sensed /\ cfgGPUs' = cfgGPUs
      /\ DOMAIN perGPU' = DeviceNo /\ DOMAIN silent' = DeviceNo
      /\ perGPU' = [d \in DeviceNo |-> perGPU'[d]] /\ silent' = [d \in DeviceNo |-> silent'[d]]
  BY DEF SamplerTick
<1>4. perGPU' \in [DeviceNo -> Windows] /\ silent' \in [DeviceNo -> 0 .. RateTicks]
  BY <1>2, <1>3
<1>5. \A d \in DeviceNo : d \notin gpuWorkers => Len(perGPU'[d]) = 0
  BY DEF SamplerTick, DevInv, WorkersHaveWindows
<1> QED BY <1>2, <1>3, <1>4, <1>5 DEF DevInv, DevTypeOK, SilenceCounted, WorkersHaveWindows, SensedOfCard

(* Back finds the card that was asked.                                     *)
LEMMA BackIsCard ==
  ASSUME NEW devices \in Seq(Nat), NEW ref, ref.local \in AskedOf(ref.backend, devices),
         ref = [backend |-> ref.backend, local |-> ref.local]
  PROVE  Back(ref.backend, ref.local, devices) \in DOMAIN gpuDeviceList
         /\ gpuDeviceList[Back(ref.backend, ref.local, devices)] = ref
<1>1. PICK c \in Present(devices) : gpuDeviceList[c].backend = ref.backend /\ gpuDeviceList[c].local = ref.local
  BY DEF AskedOf
<1>2. c \in DOMAIN gpuDeviceList
  BY <1>1 DEF Present
<1>3. gpuDeviceList[c] = [backend |-> gpuDeviceList[c].backend, local |-> gpuDeviceList[c].local]
  BY <1>2 DEF gpuDeviceList
<1>4. gpuDeviceList[c] = ref
  BY <1>1, <1>3
<1>5. Back(ref.backend, ref.local, devices) \in Present(devices)
      /\ gpuDeviceList[Back(ref.backend, ref.local, devices)] = ref
  BY <1>1, <1>4 DEF Back
<1> QED BY <1>5 DEF Present

LEMMA SensorPollKeeps == ASSUME DevInv, SensorPoll PROVE DevInv'
<1>1. PICK answers \in SUBSET {gpuDeviceList[d] : d \in Present(cfgGPUs)} :
        sensed' = readGPUSensors(cfgGPUs, answers)
  BY DEF SensorPoll
<1>2. ASSUME NEW g \in sensed' PROVE g.Index \in DOMAIN gpuDeviceList /\ g.card = gpuDeviceList[g.Index]
  <2>1. PICK ref \in answers : /\ ref.local \in AskedOf(ref.backend, cfgGPUs)
                               /\ g = [Index |-> Back(ref.backend, ref.local, cfgGPUs), card |-> ref]
    BY <1>1, <1>2 DEF readGPUSensors
  <2>2. PICK d \in Present(cfgGPUs) : ref = gpuDeviceList[d]
    BY <1>1, <2>1
  <2>3. ref = [backend |-> ref.backend, local |-> ref.local]
    BY <2>2 DEF Present, gpuDeviceList
  <2>4. /\ Back(ref.backend, ref.local, cfgGPUs) \in DOMAIN gpuDeviceList
        /\ gpuDeviceList[Back(ref.backend, ref.local, cfgGPUs)] = ref
    BY <2>1, <2>3, BackIsCard DEF DevInv
  <2> QED BY <2>1, <2>4
<1>3. UNCHANGED <<cfgGPUs, gpuWorkers, gpuLive, gpuFresh, perGPU, silent>>
  BY DEF SensorPoll
<1>4. DevTypeOK'
  <2>1. \A g \in sensed' : g.Index \in Nat
    <3>1. DOMAIN gpuDeviceList \subseteq Nat
      BY DEF gpuDeviceList
    <3> QED BY <1>2, <3>1
  <2> QED BY <1>3, <2>1 DEF DevInv, DevTypeOK
<1> QED BY <1>2, <1>3, <1>4 DEF DevInv, SilenceCounted, WorkersHaveWindows, SensedOfCard

LEMMA OtherDevStepsKeep ==
  ASSUME DevInv,
         (\E list \in GPULists : SetGPUs(list)) \/ (\E d \in DeviceNo : WorkerGivesUp(d) \/ BatchCounted(d))
  PROVE  DevInv'
<1>1. ASSUME NEW list \in GPULists, SetGPUs(list) PROVE DevInv'
  <2>1. gpuWorkers' \subseteq DeviceNo /\ gpuLive' = gpuWorkers' /\ gpuFresh = {} /\ cfgGPUs' # <<>>
    BY <1>1 DEF SetGPUs, Supported, DevInv, DevTypeOK, WorkersHaveWindows
  <2>2. \A d \in DeviceNo : Len(perGPU[d]) = 0
    BY <1>1 DEF SetGPUs, DevInv, WorkersHaveWindows
  <2>3. UNCHANGED <<gpuFresh, perGPU, sensed, silent>>
    BY <1>1 DEF SetGPUs
  <2>4. cfgGPUs' \in Seq(Nat)
    BY <1>1, DevicesAssumption DEF SetGPUs
  <2> QED BY <2>1, <2>2, <2>3, <2>4 DEF DevInv, DevTypeOK, SilenceCounted, WorkersHaveWindows, SensedOfCard
<1>2. ASSUME NEW d \in DeviceNo, WorkerGivesUp(d) PROVE DevInv'
  BY <1>2 DEF WorkerGivesUp, DevInv, DevTypeOK, SilenceCounted, WorkersHaveWindows, SensedOfCard
<1>3. ASSUME NEW d \in DeviceNo, BatchCounted(d) PROVE DevInv'
  BY <1>3 DEF BatchCounted, DevInv, DevTypeOK, SilenceCounted, WorkersHaveWindows, SensedOfCard
<1> QED BY <1>1, <1>2, <1>3

LEMMA DevInductive == DevInv /\ [DevNext]_devVars => DevInv'
<1> SUFFICES ASSUME DevInv, [DevNext]_devVars PROVE DevInv'
  OBVIOUS
<1>1. CASE DevNext
  BY <1>1, OtherDevStepsKeep, SensorPollKeeps, SamplerTickKeeps DEF DevNext
<1>2. CASE UNCHANGED devVars
  BY <1>2 DEF devVars, DevInv, DevTypeOK, SilenceCounted, WorkersHaveWindows, SensedOfCard
<1> QED BY <1>1, <1>2

(* Over any cards of either vendor, any of them left out, mute or given    *)
(* up, and a window of any length: a row is of one card and its mark is    *)
(* true (gpu_backend.go, gpu_sensors.go, sampler.tick, main.go).           *)
THEOREM RowsHold == DevSpec => []RowsAreTrue
<1> QED BY DevInvInit, DevInductive, RowsFromInv, PTL DEF DevSpec

-----------------------------------------------------------------------------
(* Host follows one part: to each of the others its steps are stutters.    *)

HostPartsInit ==
  StatsInit /\ LibInit /\ NodeInit /\ DevInit /\ SetInit /\ SmInit /\ Init /\ NonceInit
HostPartsStep ==
  /\ [StatsNextStep]_statsVars /\ [LibNext]_libVars /\ [NodeNext]_nodeVars /\ [DevNext]_devVars
  /\ [SetNext]_setVars /\ [SmNext]_smVars /\ [Next]_vars /\ [NonceNext]_nonceVars

LEMMA PartsBegin == HostInit => HostPartsInit
  BY DEF HostInit, HostPartsInit

LEMMA StepIsOfOnePart == [HostNext]_hostVars => HostPartsStep
<1> SUFFICES ASSUME [HostNext]_hostVars PROVE HostPartsStep
  OBVIOUS
<1>1. CASE UNCHANGED hostVars
  BY <1>1, Zenon DEF hostVars, HostPartsStep
<1>2. CASE HostNext
  BY <1>2, Zenon DEF HostNext, HostPartsStep
<1> QED BY <1>1, <1>2

(* Each part's specification is implemented by Host's, with no mapping.    *)
THEOREM HostKeepsItsParts ==
  HostSpec => StatsSpec /\ LibSpec /\ NodeSpec /\ DevSpec /\ SetSpec /\ SmSpec /\ Spec /\ NonceSpec
<1>1. ASSUME HostPartsInit
      PROVE  StatsInit /\ LibInit /\ NodeInit /\ DevInit /\ SetInit /\ SmInit /\ Init /\ NonceInit
  BY <1>1 DEF HostPartsInit
<1>2. ASSUME HostPartsStep
      PROVE  /\ [StatsNextStep]_statsVars /\ [LibNext]_libVars /\ [NodeNext]_nodeVars /\ [DevNext]_devVars
             /\ [SetNext]_setVars /\ [SmNext]_smVars /\ [Next]_vars /\ [NonceNext]_nonceVars
  BY <1>2 DEF HostPartsStep
<1> QED BY <1>1, <1>2, PartsBegin, StepIsOfOnePart, PTL
           DEF HostSpec, StatsSpec, LibSpec, NodeSpec, DevSpec, SetSpec, SmSpec, Spec, NonceSpec

(* Whichever part is followed: the document is whole and of now, a library *)
(* is what was embedded, the note names the sample's source, a row is of   *)
(* one card, what is run was set, a hash is accepted and credited as the   *)
(* reference does, and no input is tried twice.                            *)
THEOREM HostHolds ==
  HostSpec => [](/\ DocumentTrue /\ LibrariesSound /\ NoteIsTrue /\ RowsAreTrue /\ RunsCanBegin
                 /\ SamplesAccount /\ AcceptsAsReference /\ CreditCoversDifficulty /\ NoInputTwice)
  BY HostKeepsItsParts, ReadersSeeWholeDocuments, LibrariesAreSound, NoteNamesTheSource, RowsHold, SettingsHold,
     SamplesAreWhole, AcceptsExactly, CreditedInFull, NoInputIsTriedTwice, PTL

(* A call that fails takes nothing away: the last good document and the    *)
(* last sample stay, and a node that did not answer is left alone a while. *)
THEOREM FailuresCostNothing == HostSpec => FailuresTakeNothing
  BY HostKeepsItsParts, FailuresKeepTheDocument, SampleIsKept, WalksAreSpaced, PTL DEF FailuresTakeNothing
=============================================================================
