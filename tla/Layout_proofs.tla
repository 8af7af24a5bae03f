--------------------------- MODULE Layout_proofs --------------------------
(***************************************************************************)
(* Proofs about rectangles and how they are cut up (Rects), the plan of    *)
(* the dashboard (Layout) and the screens (Screens): first induction for   *)
(* what can be collected in a set, lists and sums; then columns and rows   *)
(* next to each other; the packing of a band's panels into rows, the rows  *)
(* that are kept, the order they are visited in and what each is given;    *)
(* the dashboard, which tiles its region, and the other screens, whose     *)
(* panels keep apart; at last what is drawn: marks that keep to a region,  *)
(* the header, the banner and the widgets (Widgets).                       *)
(***************************************************************************)
EXTENDS Frame, TLAPS, FiniteSetTheorems, WellFoundedInduction, NaturalsInduction

-----------------------------------------------------------------------------
(* Reasoning by induction, for what can be collected in a set.             *)
LEMMA Least == ASSUME NEW S, S \subseteq Nat, S # {} PROVE \E n \in S : \A m \in S : n <= m
<1> DEFINE Smaller == {p \in Nat \X Nat : p[1] < p[2]}
<1>1. Smaller = OpToRel(<, Nat)
  BY DEF OpToRel
<1>2. \A m, n \in Nat : m < n => <<m, n>> \in Smaller
  OBVIOUS
<1> HIDE DEF Smaller
<1>3. IsWellFoundedOn(Smaller, Nat)
  BY <1>1, NatLessThanWellFounded
<1>4. PICK n \in S : \A m \in S : ~ (<<m, n>> \in Smaller)
  BY <1>3, WFMin, Zenon
<1>5. ASSUME NEW m \in S PROVE n <= m
  <2>1. m \in Nat /\ n \in Nat /\ ~ (m < n)
    BY <1>2, <1>4
  <2> QED BY <2>1
<1> QED BY <1>4, <1>5

LEMMA Induction ==
  ASSUME NEW T, 0 \in T, \A n \in Nat : n \in T => n + 1 \in T
  PROVE  Nat \subseteq T
<1> DEFINE Missing == Nat \ T
<1>1. ASSUME Missing # {} PROVE FALSE
  <2>1. PICK n \in Missing : \A m \in Missing : n <= m
    BY <1>1, Least
  <2>2. n \in Nat /\ n \notin T /\ n # 0
    OBVIOUS
  <2>3. n - 1 \in Nat /\ (n - 1) + 1 = n /\ n - 1 < n
    BY <2>2
  <2> QED BY <2>1, <2>2, <2>3
<1> QED BY <1>1

-----------------------------------------------------------------------------
(* FlattenSeq, from the first element on.                                  *)
Flattens(f, ss) == f = [i \in 1 .. Len(ss) |-> IF i = 1 THEN ss[i] ELSE f[i - 1] \o ss[i]]

LEMMA FlattenIs ==
  ASSUME NEW ss, Len(ss) \in Nat \ {0}
  PROVE  \E f : FlattenSeq(ss) = f[Len(ss)] /\ Flattens(f, ss)
<1> DEFINE Solves(f, m) == \A i \in 1 .. m : f[i] = IF i = 1 THEN ss[i] ELSE f[i - 1] \o ss[i]
           T == {m \in Nat : \E f : Solves(f, m)}
<1>1. 0 \in T
  OBVIOUS
<1>2. ASSUME NEW m \in Nat, m \in T PROVE m + 1 \in T
  <2>1. PICK f : Solves(f, m)
    BY <1>2
  <2> DEFINE g == [i \in 1 .. m + 1 |-> IF i <= m THEN f[i] ELSE IF i = 1 THEN ss[i] ELSE f[m] \o ss[i]]
  <2>2. Solves(g, m + 1)
    <3> SUFFICES ASSUME NEW i \in 1 .. m + 1 PROVE g[i] = IF i = 1 THEN ss[i] ELSE g[i - 1] \o ss[i]
      OBVIOUS
    <3>1. CASE i <= m
      <4>1. i \in 1 .. m /\ g[i] = f[i] /\ (i # 1 => g[i - 1] = f[i - 1])
        BY <3>1
      <4> QED BY <2>1, <4>1
    <3>2. CASE i = m + 1
      BY <3>2
    <3> QED BY <3>1, <3>2
  <2> HIDE DEF g
  <2> QED BY <2>2
<1>3. Len(ss) \in T
  <2> HIDE DEF T
  <2> QED BY <1>1, <1>2, Induction
<1>4. PICK f : Solves(f, Len(ss))
  BY <1>3
<1> DEFINE g == [i \in 1 .. Len(ss) |-> f[i]]
<1>5. Flattens(g, ss)
  <2>1. \A i \in 1 .. Len(ss) : g[i] = f[i] /\ (i # 1 => g[i - 1] = f[i - 1])
    OBVIOUS
  <2>2. \A i \in 1 .. Len(ss) : g[i] = IF i = 1 THEN ss[i] ELSE g[i - 1] \o ss[i]
    BY <1>4, <2>1
  <2>3. g = [i \in 1 .. Len(ss) |-> g[i]]
    OBVIOUS
  <2> HIDE DEF g
  <2> QED BY <2>2, <2>3, Zenon DEF Flattens
<1> HIDE DEF g
<1>6. Flattens(CHOOSE h : Flattens(h, ss), ss)
  BY <1>5
<1>7. FlattenSeq(ss) = (CHOOSE h : Flattens(h, ss))[Len(ss)]
  BY DEF FlattenSeq, Flattens
<1> QED BY <1>6, <1>7

-----------------------------------------------------------------------------
(* Sums.                                                                   *)
Sums(u, s, n) == u = [i \in 0 .. n |-> IF i = 0 THEN 0 ELSE u[i - 1] + s[i]]

LEMMA SumIs ==
  ASSUME NEW s, NEW k \in Nat
  PROVE  \E u : Before(s, k + 1) = u[k] /\ Sums(u, s, k)
<1> DEFINE T == {m \in Nat : \E u : Sums(u, s, m)}
<1>1. 0 \in T
  <2>1. Sums([i \in 0 .. 0 |-> 0], s, 0)
    BY DEF Sums
  <2> QED BY <2>1
<1>2. ASSUME NEW m \in Nat, m \in T PROVE m + 1 \in T
  <2>1. PICK u : Sums(u, s, m)
    BY <1>2
  <2> DEFINE g == [i \in 0 .. m + 1 |-> IF i <= m THEN u[i] ELSE u[m] + s[m + 1]]
  <2>2. \A i \in 0 .. m + 1 : g[i] = IF i = 0 THEN 0 ELSE g[i - 1] + s[i]
    <3> TAKE i \in 0 .. m + 1
    <3>1. CASE i <= m
      <4>1. g[i] = u[i] /\ (i # 0 => g[i - 1] = u[i - 1])
        BY <3>1
      <4>2. u[i] = IF i = 0 THEN 0 ELSE u[i - 1] + s[i]
        BY <2>1, <3>1 DEF Sums
      <4> QED BY <4>1, <4>2
    <3>2. CASE i = m + 1
      BY <3>2
    <3> QED BY <3>1, <3>2
  <2>3. g = [i \in 0 .. m + 1 |-> g[i]]
    OBVIOUS
  <2> HIDE DEF g
  <2>4. Sums(g, s, m + 1)
    BY <2>2, <2>3, Zenon DEF Sums
  <2> QED BY <2>4
<1>3. k \in T
  <2> HIDE DEF T
  <2> QED BY <1>1, <1>2, Induction
<1>4. PICK u : Sums(u, s, k)
  BY <1>3
<1>5. Sums(CHOOSE g : Sums(g, s, k), s, k)
  BY <1>4
<1>6. (k + 1) - 1 = k
  OBVIOUS
<1>7. Before(s, k + 1) = (CHOOSE g : Sums(g, s, k))[k]
  BY <1>6 DEF Before, Sums
<1> QED BY <1>5, <1>7

LEMMA BeforeFirst == ASSUME NEW s PROVE Before(s, 1) = 0
<1>1. PICK u : Before(s, 0 + 1) = u[0] /\ Sums(u, s, 0)
  BY SumIs
<1> QED BY <1>1 DEF Sums

LEMMA BeforeStep == ASSUME NEW s, NEW k \in Nat \ {0} PROVE Before(s, k + 1) = Before(s, k) + s[k]
<1>0. k - 1 \in Nat /\ (k - 1) + 1 = k
  OBVIOUS
<1>1. PICK u : Before(s, (k - 1) + 1) = u[k - 1] /\ Sums(u, s, k - 1)
  BY <1>0, SumIs
<1>2. PICK v : Before(s, k + 1) = v[k] /\ Sums(v, s, k)
  BY SumIs
<1> DEFINE T == {m \in Nat : m <= k - 1 => u[m] = v[m]}
<1>3. 0 \in T
  BY <1>0, <1>1, <1>2 DEF Sums
<1>4. ASSUME NEW m \in Nat, m \in T PROVE m + 1 \in T
  <2>1. SUFFICES ASSUME m + 1 <= k - 1 PROVE u[m + 1] = v[m + 1]
    OBVIOUS
  <2>2. m + 1 \in 0 .. k - 1 /\ m + 1 \in 0 .. k /\ m + 1 # 0 /\ (m + 1) - 1 = m /\ u[m] = v[m]
    BY <1>4, <2>1
  <2>3. u[m + 1] = u[m] + s[m + 1]
    BY <1>1, <2>2 DEF Sums
  <2>4. v[m + 1] = v[m] + s[m + 1]
    BY <1>2, <2>2 DEF Sums
  <2> QED BY <2>2, <2>3, <2>4
<1>5. k - 1 \in T
  <2> HIDE DEF T
  <2> QED BY <1>0, <1>3, <1>4, Induction
<1>6. u[k - 1] = v[k - 1]
  BY <1>0, <1>5
<1>7. v[k] = v[k - 1] + s[k]
  <2>1. k \in 0 .. k /\ k # 0
    OBVIOUS
  <2> QED BY <1>2, <2>1 DEF Sums
<1> QED BY <1>0, <1>1, <1>2, <1>6, <1>7

Ints(s, n) == \A i \in 1 .. n : s[i] \in Int
Nats(s, n) == \A i \in 1 .. n : s[i] \in Nat

LEMMA BeforeInt ==
  ASSUME NEW s, NEW n \in Nat, Ints(s, n), NEW k \in 1 .. n + 1 PROVE Before(s, k) \in Int
<1> DEFINE T == {m \in Nat : m <= n => Before(s, m + 1) \in Int}
<1>1. 0 \in T
  BY BeforeFirst
<1>2. ASSUME NEW m \in Nat, m \in T PROVE m + 1 \in T
  <2>1. m + 1 <= n => s[m + 1] \in Int
    BY DEF Ints
  <2>2. Before(s, (m + 1) + 1) = Before(s, m + 1) + s[m + 1]
    BY BeforeStep
  <2> QED BY <1>2, <2>1, <2>2
<1>3. Nat \subseteq T
  <2> HIDE DEF T
  <2> QED BY <1>1, <1>2, Induction
<1>4. k - 1 \in T /\ k - 1 <= n /\ (k - 1) + 1 = k
  BY <1>3
<1> QED BY <1>4

(* What is added one by one.                                               *)
LEMMA BeforeLeq ==
  ASSUME NEW s, NEW t, NEW n \in Nat, Ints(s, n), Ints(t, n), \A i \in 1 .. n : s[i] <= t[i], NEW k \in 1 .. n + 1
  PROVE  Before(s, k) <= Before(t, k)
<1> DEFINE T == {m \in Nat : m <= n => Before(s, m + 1) <= Before(t, m + 1)}
<1>1. 0 \in T
  BY BeforeFirst
<1>2. ASSUME NEW m \in Nat, m \in T PROVE m + 1 \in T
  <2>1. SUFFICES ASSUME m + 1 <= n PROVE Before(s, (m + 1) + 1) <= Before(t, (m + 1) + 1)
    OBVIOUS
  <2>2. s[m + 1] \in Int /\ t[m + 1] \in Int /\ s[m + 1] <= t[m + 1]
    BY <2>1 DEF Ints
  <2>3. Before(s, (m + 1) + 1) = Before(s, m + 1) + s[m + 1] /\ Before(t, (m + 1) + 1) = Before(t, m + 1) + t[m + 1]
    BY BeforeStep
  <2>4. Before(s, m + 1) \in Int /\ Before(t, m + 1) \in Int
    BY <2>1, BeforeInt
  <2> QED BY <1>2, <2>1, <2>2, <2>3, <2>4
<1>3. Nat \subseteq T
  <2> HIDE DEF T
  <2> QED BY <1>1, <1>2, Induction
<1>4. k - 1 \in T /\ k - 1 <= n /\ (k - 1) + 1 = k
  BY <1>3
<1> QED BY <1>4

LEMMA BeforeSame ==
  ASSUME NEW s, NEW t, NEW n \in Nat, Ints(s, n), \A i \in 1 .. n : s[i] = t[i], NEW k \in 1 .. n + 1
  PROVE  Before(s, k) = Before(t, k)
<1>1. Ints(t, n) /\ (\A i \in 1 .. n : s[i] <= t[i]) /\ (\A i \in 1 .. n : t[i] <= s[i])
  BY DEF Ints
<1>2. Before(s, k) <= Before(t, k) /\ Before(t, k) <= Before(s, k)
  BY <1>1, BeforeLeq
<1>3. Before(s, k) \in Int /\ Before(t, k) \in Int
  BY <1>1, BeforeInt
<1> QED BY <1>2, <1>3

LEMMA BeforeAdds ==
  ASSUME NEW s, NEW t, NEW u, NEW n \in Nat, Ints(s, n), Ints(t, n), \A i \in 1 .. n : u[i] = s[i] + t[i],
         NEW k \in 1 .. n + 1
  PROVE  Before(u, k) = Before(s, k) + Before(t, k)
<1> DEFINE T == {m \in Nat : m <= n => Before(u, m + 1) = Before(s, m + 1) + Before(t, m + 1)}
<1>1. 0 \in T
  BY BeforeFirst
<1>2. ASSUME NEW m \in Nat, m \in T PROVE m + 1 \in T
  <2>1. SUFFICES ASSUME m + 1 <= n PROVE Before(u, (m + 1) + 1) = Before(s, (m + 1) + 1) + Before(t, (m + 1) + 1)
    OBVIOUS
  <2>2. s[m + 1] \in Int /\ t[m + 1] \in Int /\ u[m + 1] = s[m + 1] + t[m + 1]
    BY <2>1 DEF Ints
  <2>3. Before(s, (m + 1) + 1) = Before(s, m + 1) + s[m + 1] /\ Before(t, (m + 1) + 1) = Before(t, m + 1) + t[m + 1]
        /\ Before(u, (m + 1) + 1) = Before(u, m + 1) + u[m + 1]
    BY BeforeStep
  <2>4. Before(s, m + 1) \in Int /\ Before(t, m + 1) \in Int
    BY <2>1, BeforeInt
  <2> QED BY <1>2, <2>1, <2>2, <2>3, <2>4
<1>3. Nat \subseteq T
  <2> HIDE DEF T
  <2> QED BY <1>1, <1>2, Induction
<1>4. k - 1 \in T /\ k - 1 <= n /\ (k - 1) + 1 = k
  BY <1>3
<1> QED BY <1>4

(* The places sums come to, from left to right.                            *)
LEMMA BeforeGrows ==
  ASSUME NEW s, NEW n \in Nat, Nats(s, n), NEW j \in 1 .. n + 1, NEW k \in j .. n + 1
  PROVE  Before(s, j) <= Before(s, k) /\ Before(s, j) \in Nat
<1>0. Ints(s, n)
  BY DEF Ints, Nats
<1> DEFINE T == {m \in Nat : j + m <= n + 1 => Before(s, j) <= Before(s, j + m)}
<1>1. 0 \in T
  BY <1>0, BeforeInt
<1>2. ASSUME NEW m \in Nat, m \in T PROVE m + 1 \in T
  <2>1. SUFFICES ASSUME j + (m + 1) <= n + 1 PROVE Before(s, j) <= Before(s, j + (m + 1))
    OBVIOUS
  <2>2. j + m \in 1 .. n /\ j + m \in Nat \ {0} /\ j + (m + 1) = (j + m) + 1
    BY <2>1
  <2>3. s[j + m] \in Nat /\ Before(s, (j + m) + 1) = Before(s, j + m) + s[j + m]
    BY <2>2, BeforeStep DEF Nats
  <2>4. Before(s, j) \in Int /\ Before(s, j + m) \in Int
    BY <1>0, <2>2, BeforeInt
  <2> QED BY <1>2, <2>1, <2>2, <2>3, <2>4
<1>3. Nat \subseteq T
  <2> HIDE DEF T
  <2> QED BY <1>1, <1>2, Induction
<1>4. k - j \in T /\ j + (k - j) = k
  BY <1>3
<1>5. Before(s, j) <= Before(s, k)
  BY <1>4
<1> DEFINE Z == [i \in 1 .. n |-> 0]
           U == {m \in Nat : m <= n => Before(s, m + 1) >= 0}
<1>6. 0 \in U
  BY BeforeFirst
<1>7. ASSUME NEW m \in Nat, m \in U PROVE m + 1 \in U
  <2>1. SUFFICES ASSUME m + 1 <= n PROVE Before(s, (m + 1) + 1) >= 0
    OBVIOUS
  <2>2. s[m + 1] \in Nat /\ Before(s, (m + 1) + 1) = Before(s, m + 1) + s[m + 1]
    BY <2>1, BeforeStep DEF Nats
  <2>3. Before(s, m + 1) \in Int
    BY <1>0, <2>1, BeforeInt
  <2> QED BY <1>7, <2>1, <2>2, <2>3
<1>8. Nat \subseteq U
  <2> HIDE DEF U
  <2> QED BY <1>6, <1>7, Induction
<1>9. j - 1 \in U /\ j - 1 <= n /\ (j - 1) + 1 = j
  BY <1>8
<1>10. Before(s, j) \in Int
  BY <1>0, BeforeInt
<1> QED BY <1>5, <1>9, <1>10

(* Every cell below the sum is in one of the parts.                        *)
LEMMA BeforeCovers ==
  ASSUME NEW s, NEW n \in Nat, Nats(s, n), NEW x \in Nat, x < Before(s, n + 1)
  PROVE  \E i \in 1 .. n : Before(s, i) <= x /\ x < Before(s, i) + s[i]
<1>0. Ints(s, n) /\ \A k \in 1 .. n + 1 : Before(s, k) \in Int
  BY BeforeInt DEF Ints, Nats
<1> DEFINE S == {m \in 1 .. n + 1 : x < Before(s, m)}
<1>1. S \subseteq Nat /\ n + 1 \in S
  OBVIOUS
<1>2. PICK m \in S : \A j \in S : m <= j
  BY <1>1, Least
<1>3. m \in 1 .. n + 1 /\ x < Before(s, m) /\ m # 1
  BY BeforeFirst
<1>4. m - 1 \in 1 .. n /\ m - 1 \in Nat \ {0} /\ (m - 1) + 1 = m /\ m - 1 \in 1 .. n + 1 /\ ~ (m <= m - 1)
  BY <1>3
<1>5. ~ (x < Before(s, m - 1))
  BY <1>2, <1>4
<1>6. Before(s, m) = Before(s, m - 1) + s[m - 1]
  BY <1>4, BeforeStep
<1> QED BY <1>0, <1>3, <1>4, <1>5, <1>6

-----------------------------------------------------------------------------
(* Cutting up.                                                             *)
LEMMA DivisionIs ==
  ASSUME NEW b \in Nat \ {0}, NEW t \in Nat
  PROVE  /\ t \div b \in Nat /\ t % b \in 0 .. b - 1
         /\ t = (t % b) + b * (t \div b)
  BY SMT

LEMMA Division ==
  ASSUME NEW a \in Nat, NEW b \in Nat \ {0}
  PROVE  /\ a = b * (a \div b) + (a % b) /\ a \div b \in Nat /\ a % b \in Nat /\ a % b < b
         /\ b * (a \div b) <= a
<1> DEFINE q == a \div b  r == a % b
<1>1. q \in Nat /\ r \in 0 .. b - 1 /\ a = r + b * q
  BY DivisionIs
<1> HIDE DEF q, r
<1>2. b * q \in Int
  BY <1>1
<1>3. a = b * q + r /\ b * q <= a /\ r < b
  <2> DEFINE p == b * q
  <2>1. p \in Int /\ a = r + p /\ r \in 0 .. b - 1
    BY <1>1, <1>2
  <2> HIDE DEF p
  <2>2. a = p + r /\ p <= a /\ r < b
    BY <2>1
  <2> QED BY <2>2 DEF p
<1>4. r \in Nat
  BY <1>1
<1> QED BY <1>1, <1>3, <1>4, Zenon DEF q, r

LEMMA OneMore == \A a, b \in Int : (a + 1) * b = a * b + b /\ b * (a + 1) = b * a + b /\ 0 * b = 0 /\ b * 0 = 0
  OBVIOUS

LEMMA Distributes == \A a, b, c \in Int : a * (b + c) = a * b + a * c
  OBVIOUS

LEMMA Cancels == ASSUME NEW g \in Nat \ {0}, NEW a \in Int, NEW b \in Int, g * a <= b * g PROVE a <= b
  OBVIOUS

LEMMA SpreadIs ==
  ASSUME NEW n \in Nat \ {0}, NEW w, Len(w) = n, Nats(w, n), NEW total \in Nat, Total(w) <= total
  PROVE  /\ Len(Spread(total, w)) = n /\ DOMAIN Spread(total, w) = 1 .. n /\ Nats(Spread(total, w), n)
         /\ \A i \in 1 .. n : Spread(total, w)[i] >= w[i]
         /\ Before(Spread(total, w), n + 1) = total
<1> DEFINE over == total - Total(w)
           q == over \div n
           r == over % n
           s == [i \in 1 .. n |-> w[i] + q + (IF i <= r THEN 1 ELSE 0)]
<1>0. Ints(w, n) /\ Total(w) = Before(w, n + 1) /\ n \in Nat /\ n \in 1 .. n + 1 /\ n + 1 \in 1 .. n + 1
  BY DEF Ints, Nats, Total
<1>1. Total(w) \in Int /\ over \in Nat
  BY <1>0, BeforeInt
<1>2. Greater(over, 0) = over
  BY <1>1 DEF Greater
<1>3. Spread(total, w) = s
  BY <1>2 DEF Spread
<1> HIDE DEF over
<1>4. over = n * q + r /\ q \in Nat /\ r \in Nat /\ r < n
  BY <1>1, Division
<1> HIDE DEF q, r
<1>5. Len(s) = n /\ DOMAIN s = 1 .. n
  BY <1>0
<1>6. \A i \in 1 .. n : s[i] = w[i] + q + (IF i <= r THEN 1 ELSE 0) /\ w[i] \in Nat
  BY DEF Nats
<1> HIDE DEF s
<1>7. Nats(s, n) /\ Ints(s, n) /\ \A i \in 1 .. n : s[i] >= w[i]
  <2>1. ASSUME NEW i \in 1 .. n PROVE s[i] \in Nat /\ s[i] >= w[i]
    <3>1. w[i] \in Nat /\ q \in Nat /\ s[i] = w[i] + q + (IF i <= r THEN 1 ELSE 0)
      BY <1>4, <1>6
    <3>2. (IF i <= r THEN 1 ELSE 0) \in {0, 1}
      OBVIOUS
    <3> QED BY <3>1, <3>2
  <2> QED BY <2>1 DEF Nats, Ints
<1> DEFINE T == {m \in Nat : m <= n => Before(s, m + 1) = Before(w, m + 1) + m * q + (IF m <= r THEN m ELSE r)}
<1>8. 0 \in T
  BY <1>4, BeforeFirst, OneMore
<1>9. ASSUME NEW m \in Nat, m \in T PROVE m + 1 \in T
  <2>1. SUFFICES ASSUME m + 1 <= n
                 PROVE  Before(s, (m + 1) + 1) = Before(w, (m + 1) + 1) + (m + 1) * q + (IF m + 1 <= r THEN m + 1 ELSE r)
    OBVIOUS
  <2>2. s[m + 1] = w[m + 1] + q + (IF m + 1 <= r THEN 1 ELSE 0) /\ w[m + 1] \in Nat
    BY <1>6, <2>1
  <2>3. Before(s, (m + 1) + 1) = Before(s, m + 1) + s[m + 1] /\ Before(w, (m + 1) + 1) = Before(w, m + 1) + w[m + 1]
    BY BeforeStep
  <2>4. Before(s, m + 1) \in Int /\ Before(w, m + 1) \in Int
    BY <1>0, <1>7, <2>1, BeforeInt
  <2>5. (m + 1) * q = m * q + q /\ m * q \in Int
    BY <1>4, OneMore
  <2>6. Before(s, m + 1) = Before(w, m + 1) + m * q + (IF m <= r THEN m ELSE r)
    BY <1>9, <2>1
  <2> DEFINE p == m * q
             p1 == (m + 1) * q
             had == IF m <= r THEN m ELSE r
             now == IF m + 1 <= r THEN m + 1 ELSE r
             one == IF m + 1 <= r THEN 1 ELSE 0
             sm == Before(s, m + 1)
             sn == Before(s, (m + 1) + 1)
             wm == Before(w, m + 1)
             wn == Before(w, (m + 1) + 1)
             x == s[m + 1]
             y == w[m + 1]
  <2>7. p1 = p + q /\ p \in Int
    BY <2>5
  <2>8. sm = wm + p + had /\ x = y + q + one /\ sn = sm + x /\ wn = wm + y
    BY <2>2, <2>3, <2>6
  <2>9. wm \in Int /\ y \in Int
    BY <2>2, <2>4
  <2>10. now = had + one /\ had \in Int /\ one \in Int /\ q \in Int
    BY <1>4
  <2> HIDE DEF p, p1, had, now, one, sm, sn, wm, wn, x, y, T
  <2>11. sn = wn + p1 + now
    BY <2>7, <2>8, <2>9, <2>10
  <2> QED BY <2>11 DEF sn, wn, p1, now
<1>10. n \in T
  <2> HIDE DEF T
  <2> QED BY <1>0, <1>8, <1>9, Induction
<1>11. Before(s, n + 1) = Before(w, n + 1) + n * q + r
  BY <1>4, <1>10
<1>12. Before(s, n + 1) = total
  BY <1>0, <1>1, <1>4, <1>11 DEF over
<1> QED BY <1>3, <1>5, <1>7, <1>12

(* Shares of a, by weight, do not come to more than a.                     *)
LEMMA SharesFit ==
  ASSUME NEW n \in Nat \ {0}, NEW a \in Nat, NEW wt, Nats(wt, n), NEW g \in Nat \ {0}, g = Before(wt, n + 1),
         NEW s, \A i \in 1 .. n : s[i] = (a * wt[i]) \div g
  PROVE  Nats(s, n) /\ Before(s, n + 1) <= a
<1>0. Ints(wt, n) /\ n \in Nat /\ n + 1 \in 1 .. n + 1
  BY DEF Ints, Nats
<1>1. ASSUME NEW i \in 1 .. n PROVE s[i] \in Nat /\ g * s[i] <= a * wt[i] /\ a * wt[i] \in Int /\ g * s[i] \in Int
  <2>1. wt[i] \in Nat /\ s[i] = (a * wt[i]) \div g
    BY DEF Nats
  <2>2. a * wt[i] \in Nat
    BY <2>1
  <2>3. (a * wt[i]) \div g \in Nat /\ g * ((a * wt[i]) \div g) <= a * wt[i]
    BY <2>2, Division
  <2> QED BY <2>1, <2>2, <2>3
<1>2. Nats(s, n) /\ Ints(s, n)
  BY <1>1 DEF Nats, Ints
<1> DEFINE T == {m \in Nat : m <= n => g * Before(s, m + 1) <= a * Before(wt, m + 1)}
<1>3. 0 \in T
  BY BeforeFirst, OneMore
<1>4. ASSUME NEW m \in Nat, m \in T PROVE m + 1 \in T
  <2>1. SUFFICES ASSUME m + 1 <= n PROVE g * Before(s, (m + 1) + 1) <= a * Before(wt, (m + 1) + 1)
    OBVIOUS
  <2>2. m + 1 \in 1 .. n /\ s[m + 1] \in Int /\ wt[m + 1] \in Int
    BY <1>0, <1>2, <2>1 DEF Ints
  <2>3. Before(s, (m + 1) + 1) = Before(s, m + 1) + s[m + 1] /\ Before(wt, (m + 1) + 1) = Before(wt, m + 1) + wt[m + 1]
    BY BeforeStep
  <2>4. Before(s, m + 1) \in Int /\ Before(wt, m + 1) \in Int
    BY <1>0, <1>2, <2>1, BeforeInt
  <2>5. /\ g * (Before(s, m + 1) + s[m + 1]) = g * Before(s, m + 1) + g * s[m + 1]
        /\ a * (Before(wt, m + 1) + wt[m + 1]) = a * Before(wt, m + 1) + a * wt[m + 1]
        /\ g * Before(s, m + 1) \in Int /\ a * Before(wt, m + 1) \in Int
    BY <2>2, <2>4, Distributes
  <2>6. g * s[m + 1] <= a * wt[m + 1] /\ a * wt[m + 1] \in Int /\ g * s[m + 1] \in Int
    BY <1>1, <2>2
  <2>7. g * Before(s, m + 1) <= a * Before(wt, m + 1)
    BY <1>4, <2>1
  <2>8. \A p, q, u, v \in Int : p <= u /\ q <= v => p + q <= u + v
    OBVIOUS
  <2> QED BY <2>3, <2>5, <2>6, <2>7, <2>8
<1>5. n \in T
  <2> HIDE DEF T
  <2> QED BY <1>0, <1>3, <1>4, Induction
<1>6. g * Before(s, n + 1) <= a * g
  BY <1>5
<1>7. Before(s, n + 1) \in Int
  BY <1>0, <1>2, BeforeInt
<1> QED BY <1>2, <1>6, <1>7, Cancels

(* Regions that stand side by side across r, or below each other down it.  *)
Region == [X : Int, Y : Int, W : Nat, H : Nat]

Across(cs, n, r) ==
  /\ Len(cs) = n /\ DOMAIN cs = 1 .. n
  /\ \A i \in 1 .. n : cs[i] \in Region /\ cs[i].Y = r.Y /\ cs[i].H = r.H /\ cs[i].X >= r.X /\ Right(cs[i]) <= Right(r)
  /\ \A i, j \in 1 .. n : i < j => Right(cs[i]) <= cs[j].X
  /\ \A x \in Int : r.X <= x /\ x < Right(r) => \E i \in 1 .. n : cs[i].X <= x /\ x < Right(cs[i])

LEMMA RectIs ==
  ASSUME NEW x, NEW y, NEW w, NEW h
  PROVE  /\ Rect(x, y, w, h).X = x /\ Rect(x, y, w, h).Y = y /\ Rect(x, y, w, h).W = w /\ Rect(x, y, w, h).H = h
         /\ x \in Int /\ y \in Int /\ w \in Nat /\ h \in Nat => Rect(x, y, w, h) \in Region
  BY DEF Rect, Region

LEMMA SideBySideIs ==
  ASSUME NEW r \in Region, NEW n \in Nat, NEW w, DOMAIN w = 1 .. n, Nats(w, n), Before(w, n + 1) = r.W
  PROVE  /\ Across(SideBySide(r, w), n, r)
         /\ \A i \in 1 .. n : SideBySide(r, w)[i].W = w[i]
<1> DEFINE cs == [i \in 1 .. n |-> Rect(r.X + Before(w, i), r.Y, w[i], r.H)]
<1>1. SideBySide(r, w) = cs
  BY DEF SideBySide
<1>2. r.X \in Int /\ r.Y \in Int /\ r.W \in Nat /\ r.H \in Nat
  BY DEF Region
<1>3. ASSUME NEW i \in 1 .. n PROVE w[i] \in Nat /\ Before(w, i + 1) = Before(w, i) + w[i]
  <2>1. i \in Nat \ {0}
    OBVIOUS
  <2> QED BY <2>1, BeforeStep DEF Nats
<1>4. ASSUME NEW i \in 1 .. n + 1, NEW j \in i .. n + 1 PROVE Before(w, i) \in Nat /\ Before(w, i) <= Before(w, j)
  BY BeforeGrows
<1>5. ASSUME NEW i \in 1 .. n
      PROVE  /\ cs[i] = Rect(r.X + Before(w, i), r.Y, w[i], r.H)
             /\ cs[i] \in Region /\ cs[i].X = r.X + Before(w, i) /\ cs[i].Y = r.Y /\ cs[i].W = w[i] /\ cs[i].H = r.H
             /\ Right(cs[i]) = r.X + Before(w, i + 1)
  <2>1. cs[i] = Rect(r.X + Before(w, i), r.Y, w[i], r.H)
    OBVIOUS
  <2>2. i \in 1 .. n + 1 /\ i \in i .. n + 1
    OBVIOUS
  <2>3. Before(w, i) \in Nat /\ w[i] \in Nat
    BY <1>3, <1>4, <2>2
  <2> HIDE DEF cs
  <2>4. cs[i] \in Region /\ cs[i].X = r.X + Before(w, i) /\ cs[i].Y = r.Y /\ cs[i].W = w[i] /\ cs[i].H = r.H
    BY <1>2, <2>1, <2>3, RectIs
  <2> QED BY <1>2, <1>3, <2>1, <2>3, <2>4 DEF Right
<1>6. Len(cs) = n /\ DOMAIN cs = 1 .. n
  OBVIOUS
<1> HIDE DEF cs
<1>7. ASSUME NEW i \in 1 .. n PROVE cs[i].X >= r.X /\ Right(cs[i]) <= Right(r)
  <2>1. i \in 1 .. n + 1 /\ i \in i .. n + 1 /\ i + 1 \in 1 .. n + 1 /\ n + 1 \in i + 1 .. n + 1
    OBVIOUS
  <2>2. Before(w, i) \in Nat /\ Before(w, i + 1) \in Nat /\ Before(w, i + 1) <= Before(w, n + 1)
    BY <1>4, <2>1
  <2> QED BY <1>2, <1>5, <2>2 DEF Right
<1>8. ASSUME NEW i \in 1 .. n, NEW j \in 1 .. n, i < j PROVE Right(cs[i]) <= cs[j].X
  <2>1. i + 1 \in 1 .. n + 1 /\ j \in i + 1 .. n + 1 /\ j \in 1 .. n + 1 /\ j \in j .. n + 1
    BY <1>8
  <2>2. Before(w, i + 1) <= Before(w, j) /\ Before(w, i + 1) \in Nat /\ Before(w, j) \in Nat
    BY <1>4, <2>1
  <2> QED BY <1>2, <1>5, <2>2
<1>9. ASSUME NEW x \in Int, r.X <= x, x < Right(r) PROVE \E i \in 1 .. n : cs[i].X <= x /\ x < Right(cs[i])
  <2>1. x - r.X \in Nat /\ x - r.X < Before(w, n + 1)
    BY <1>2, <1>9 DEF Right
  <2>2. PICK i \in 1 .. n : Before(w, i) <= x - r.X /\ x - r.X < Before(w, i) + w[i]
    BY <2>1, BeforeCovers
  <2>3. i \in 1 .. n + 1 /\ i \in i .. n + 1
    OBVIOUS
  <2>4. Before(w, i) \in Nat /\ w[i] \in Nat
    BY <1>3, <1>4, <2>3
  <2>5. cs[i].X = r.X + Before(w, i) /\ Right(cs[i]) = r.X + Before(w, i + 1)
    BY <1>5
  <2>6. Before(w, i + 1) = Before(w, i) + w[i]
    BY <1>3
  <2>7. cs[i].X <= x /\ x < Right(cs[i])
    <3> DEFINE b == Before(w, i)
               v == w[i]
               o == r.X
    <3>1. o \in Int /\ b \in Nat /\ v \in Nat /\ b <= x - o /\ x - o < b + v
      BY <1>2, <2>2, <2>4
    <3>2. cs[i].X = o + b /\ Right(cs[i]) = o + (b + v)
      BY <2>5, <2>6
    <3> HIDE DEF b, v, o
    <3>3. o + b <= x /\ x < o + (b + v)
      BY <3>1
    <3> QED BY <3>2, <3>3
  <2> QED BY <2>7
<1> QED BY <1>1, <1>5, <1>6, <1>7, <1>8, <1>9 DEF Across

LEMMA ColsIs ==
  ASSUME NEW r \in Region, NEW n \in Nat \ {0}, NEW wt, DOMAIN wt = 1 .. n, Len(wt) = n, Nats(wt, n),
         Before(wt, n + 1) > 0
  PROVE  Across(Cols(r, wt), n, r)
<1> DEFINE g == Before(wt, n + 1)
           s == [i \in 1 .. n |-> (r.W * wt[i]) \div g]
           c == Spread(r.W, s)
<1>0. Ints(wt, n) /\ n \in Nat /\ n + 1 \in 1 .. n + 1 /\ r.W \in Nat
  BY DEF Ints, Nats, Region
<1>1. g \in Nat \ {0} /\ Total(wt) = g
  <2>1. g \in Int
    BY <1>0, BeforeInt
  <2> QED BY <2>1 DEF Total
<1>2. Cols(r, wt) = SideBySide(r, c)
  BY <1>1 DEF Cols
<1>3. Len(s) = n /\ \A i \in 1 .. n : s[i] = (r.W * wt[i]) \div g
  OBVIOUS
<1> HIDE DEF s, g
<1>4. Nats(s, n) /\ Before(s, n + 1) <= r.W
  BY <1>0, <1>1, <1>3, SharesFit DEF g
<1>5. Total(s) <= r.W
  BY <1>3, <1>4 DEF Total
<1>6. DOMAIN c = 1 .. n /\ Nats(c, n) /\ Before(c, n + 1) = r.W
  BY <1>0, <1>3, <1>4, <1>5, SpreadIs
<1> HIDE DEF c
<1> QED BY <1>0, <1>2, <1>6, SideBySideIs

(* Strips.                                                                 *)
Down(cs, n, r) ==
  /\ Len(cs) = n /\ DOMAIN cs = 1 .. n
  /\ \A i \in 1 .. n : cs[i] \in Region /\ cs[i].X = r.X /\ cs[i].W = r.W /\ cs[i].Y >= r.Y /\ Bottom(cs[i]) <= Bottom(r)
  /\ \A i, j \in 1 .. n : i < j => Bottom(cs[i]) <= cs[j].Y

LEMMA RowsIs ==
  ASSUME NEW r \in Region, NEW n \in Nat, NEW hs, DOMAIN hs = 1 .. n, Len(hs) = n, Ints(hs, n)
  PROVE  Down(Rows(r, hs), n, r)
<1> DEFINE some == [i \in 1 .. n |-> Greater(hs[i], 0)]
           fixed == Total(some)
           want == [i \in 1 .. n |-> IF hs[i] < 0 THEN Greater(r.H - fixed, 0) ELSE hs[i]]
           top(i) == Lesser(Before(want, i), r.H)
           cs == [i \in 1 .. n |-> Rect(r.X, r.Y + top(i), r.W, Lesser(want[i], r.H - top(i)))]
<1>1. Rows(r, hs) = cs
  BY DEF Rows
<1>2. r.X \in Int /\ r.Y \in Int /\ r.W \in Nat /\ r.H \in Nat
  BY DEF Region
<1>3. fixed \in Int
  <2>1. Len(some) = n /\ Ints(some, n)
    BY DEF Ints, Greater
  <2>2. n + 1 \in 1 .. n + 1
    OBVIOUS
  <2> HIDE DEF some
  <2> QED BY <2>1, <2>2, BeforeInt DEF Total
<1> HIDE DEF fixed
<1>4. Nats(want, n)
  <2>1. ASSUME NEW i \in 1 .. n PROVE want[i] \in Nat
    <3>1. hs[i] \in Int
      BY DEF Ints
    <3> QED BY <1>2, <1>3, <3>1 DEF Greater
  <2> QED BY <2>1 DEF Nats
<1>5. Len(cs) = n /\ DOMAIN cs = 1 .. n
  OBVIOUS
<1>6. \A i \in 1 .. n : cs[i] = Rect(r.X, r.Y + top(i), r.W, Lesser(want[i], r.H - top(i)))
  OBVIOUS
<1> HIDE DEF cs, want
<1>7. ASSUME NEW i \in 1 .. n + 1, NEW j \in i .. n + 1
      PROVE  Before(want, i) \in Nat /\ Before(want, i) <= Before(want, j) /\ top(i) \in 0 .. r.H
  <2>1. Before(want, i) \in Nat /\ Before(want, i) <= Before(want, j)
    BY <1>4, BeforeGrows
  <2> QED BY <1>2, <2>1 DEF Lesser
<1>8. ASSUME NEW i \in 1 .. n
      PROVE  /\ cs[i] \in Region /\ cs[i].X = r.X /\ cs[i].W = r.W /\ cs[i].Y = r.Y + top(i)
             /\ Bottom(cs[i]) = r.Y + top(i + 1) /\ top(i) \in 0 .. r.H /\ top(i + 1) \in 0 .. r.H
  <2>1. i \in 1 .. n + 1 /\ i \in i .. n + 1 /\ i + 1 \in 1 .. n + 1 /\ i + 1 \in i + 1 .. n + 1
    OBVIOUS
  <2>2. Before(want, i) \in Nat /\ Before(want, i + 1) \in Nat /\ top(i) \in 0 .. r.H /\ top(i + 1) \in 0 .. r.H
    BY <1>7, <2>1
  <2>3. want[i] \in Nat /\ Before(want, i + 1) = Before(want, i) + want[i]
    BY <1>4, BeforeStep DEF Nats
  <2>4. Lesser(want[i], r.H - top(i)) \in Nat /\ top(i) + Lesser(want[i], r.H - top(i)) = top(i + 1)
    BY <1>2, <2>2, <2>3 DEF Lesser
  <2> HIDE DEF top
  <2>5. cs[i] = Rect(r.X, r.Y + top(i), r.W, Lesser(want[i], r.H - top(i)))
    BY <1>6
  <2>6. cs[i] \in Region /\ cs[i].X = r.X /\ cs[i].W = r.W /\ cs[i].Y = r.Y + top(i)
        /\ cs[i].H = Lesser(want[i], r.H - top(i))
    <3>1. r.Y + top(i) \in Int
      BY <1>2, <2>2
    <3> QED BY <1>2, <2>4, <2>5, <3>1, RectIs
  <2>7. Bottom(cs[i]) = (r.Y + top(i)) + Lesser(want[i], r.H - top(i))
    BY <2>6 DEF Bottom
  <2> QED BY <1>2, <2>2, <2>4, <2>6, <2>7
<1>9. ASSUME NEW i \in 1 .. n, NEW j \in 1 .. n, i < j PROVE Bottom(cs[i]) <= cs[j].Y
  <2>1. i + 1 \in 1 .. n + 1 /\ j \in i + 1 .. n + 1
    BY <1>9
  <2>2. Before(want, i + 1) <= Before(want, j) /\ Before(want, i + 1) \in Nat
    BY <1>7, <2>1
  <2>3. j \in 1 .. n + 1 /\ j \in j .. n + 1
    OBVIOUS
  <2>4. Before(want, j) \in Nat
    BY <1>7, <2>3
  <2>5. top(i + 1) <= top(j)
    BY <1>2, <2>2, <2>4 DEF Lesser
  <2> HIDE DEF top
  <2> QED BY <1>2, <1>8, <2>5
<1>10. \A i \in 1 .. n : cs[i].Y >= r.Y /\ Bottom(cs[i]) <= Bottom(r)
  <2> TAKE i \in 1 .. n
  <2> HIDE DEF top
  <2> QED BY <1>2, <1>8 DEF Bottom
<1> HIDE DEF top
<1> QED BY <1>1, <1>5, <1>8, <1>9, <1>10 DEF Down

-----------------------------------------------------------------------------

LEMMA JoinIs ==
  ASSUME NEW E, NEW a \in Seq(E), NEW b \in Seq(E)
  PROVE  /\ a \o b \in Seq(E) /\ Len(a \o b) = Len(a) + Len(b) /\ Len(a) \in Nat /\ Len(b) \in Nat
         /\ \A x \in 1 .. Len(a) : (a \o b)[x] = a[x]
         /\ \A x \in 1 .. Len(b) : (a \o b)[Len(a) + x] = b[x]
<1>1. a \o b \in Seq(E) /\ Len(a \o b) = Len(a) + Len(b) /\ Len(a) \in Nat /\ Len(b) \in Nat
  OBVIOUS
<1>2. \A x \in 1 .. Len(a) : (a \o b)[x] = a[x]
  OBVIOUS
<1>3. ASSUME NEW x \in 1 .. Len(b) PROVE (a \o b)[Len(a) + x] = b[x]
  OBVIOUS
<1> QED BY <1>1, <1>2, <1>3

(* Where the j-th element of the i-th goes.                                *)
Lens(ss) == [i \in 1 .. Len(ss) |-> Len(ss[i])]
Place(ss, i, j) == Before(Lens(ss), i) + j

LEMMA FlattenPlaces ==
  ASSUME NEW E, NEW ss, Len(ss) \in Nat \ {0}, \A i \in 1 .. Len(ss) : ss[i] \in Seq(E)
  PROVE  /\ FlattenSeq(ss) \in Seq(E)
         /\ Len(FlattenSeq(ss)) = Before(Lens(ss), Len(ss) + 1)
         /\ \A i \in 1 .. Len(ss) : \A j \in 1 .. Len(ss[i]) :
              Place(ss, i, j) \in 1 .. Len(FlattenSeq(ss)) /\ FlattenSeq(ss)[Place(ss, i, j)] = ss[i][j]
         /\ \A k \in 1 .. Len(FlattenSeq(ss)) :
              \E i \in 1 .. Len(ss) : \E j \in 1 .. Len(ss[i]) : k = Place(ss, i, j)
<1> DEFINE n == Len(ss)
           lens == Lens(ss)
<1>1. PICK g : FlattenSeq(ss) = g[n] /\ Flattens(g, ss)
  BY FlattenIs
<1>2. n \in Nat /\ n \in 1 .. n /\ 1 \in 1 .. n
  OBVIOUS
<1>3. ASSUME NEW i \in 1 .. n PROVE lens[i] = Len(ss[i]) /\ lens[i] \in Nat
  BY DEF Lens
<1>4. Nats(lens, n) /\ Ints(lens, n)
  BY <1>3 DEF Nats, Ints
<1> HIDE DEF lens
<1>5. g[1] = ss[1] /\ \A m \in 1 .. n - 1 : g[m + 1] = g[m] \o ss[m + 1]
  <2>0. \A i \in 1 .. n : g[i] = IF i = 1 THEN ss[i] ELSE g[i - 1] \o ss[i]
    BY <1>1, Zenon DEF Flattens
  <2>1. ASSUME NEW m \in 1 .. n - 1 PROVE g[m + 1] = g[m] \o ss[m + 1]
    <3>1. m + 1 \in 1 .. n /\ m + 1 # 1 /\ (m + 1) - 1 = m
      BY <1>2
    <3> QED BY <2>0, <3>1
  <2> QED BY <1>2, <2>0, <2>1
<1> DEFINE P(m) == /\ g[m] \in Seq(E) /\ Len(g[m]) = Before(lens, m + 1)
                   /\ \A i \in 1 .. m : \A j \in 1 .. Len(ss[i]) :
                        Before(lens, i) + j \in 1 .. Len(g[m]) /\ g[m][Before(lens, i) + j] = ss[i][j]
           T == {m \in Nat : m + 1 <= n => P(m + 1)}
<1>6. 0 \in T
  <2>1. Before(lens, 1) = 0 /\ Before(lens, 1 + 1) = Before(lens, 1) + lens[1]
    BY BeforeFirst, BeforeStep
  <2>2. g[1] \in Seq(E) /\ Len(g[1]) = Before(lens, 1 + 1)
    BY <1>2, <1>3, <1>5, <2>1
  <2>3. ASSUME NEW i \in 1 .. 1, NEW j \in 1 .. Len(ss[i])
        PROVE  Before(lens, i) + j \in 1 .. Len(g[1]) /\ g[1][Before(lens, i) + j] = ss[i][j]
    BY <1>5, <2>1
  <2>4. P(1)
    BY <2>2, <2>3
  <2>5. 0 + 1 = 1
    OBVIOUS
  <2> HIDE DEF P
  <2> QED BY <2>4, <2>5
<1>7. ASSUME NEW m \in Nat, m \in T PROVE m + 1 \in T
  <2>1. SUFFICES ASSUME (m + 1) + 1 <= n PROVE P((m + 1) + 1)
    OBVIOUS
  <2> DEFINE k == m + 1
  <2>2. k \in 1 .. n - 1 /\ k + 1 \in 1 .. n /\ k \in Nat \ {0} /\ k + 1 \in Nat \ {0}
    BY <2>1
  <2>3. P(k)
    <3>1. m + 1 <= n
      BY <2>1
    <3> HIDE DEF P
    <3> QED BY <1>7, <3>1
  <2> HIDE DEF k
  <2>4. g[k + 1] = g[k] \o ss[k + 1] /\ ss[k + 1] \in Seq(E) /\ g[k] \in Seq(E)
    BY <1>5, <2>2, <2>3
  <2>5. Before(lens, (k + 1) + 1) = Before(lens, k + 1) + lens[k + 1]
    BY <2>2, BeforeStep
  <2>6. /\ g[k + 1] \in Seq(E) /\ Len(g[k + 1]) = Len(g[k]) + Len(ss[k + 1])
        /\ \A x \in 1 .. Len(g[k]) : g[k + 1][x] = g[k][x]
        /\ \A x \in 1 .. Len(ss[k + 1]) : g[k + 1][Len(g[k]) + x] = ss[k + 1][x]
        /\ Len(g[k]) \in Nat /\ Len(ss[k + 1]) \in Nat
    <3> DEFINE a == g[k]  b == ss[k + 1]
    <3>1. a \in Seq(E) /\ b \in Seq(E) /\ g[k + 1] = a \o b
      BY <2>4
    <3> HIDE DEF a, b
    <3>2. /\ a \o b \in Seq(E) /\ Len(a \o b) = Len(a) + Len(b) /\ Len(a) \in Nat /\ Len(b) \in Nat
          /\ \A x \in 1 .. Len(a) : (a \o b)[x] = a[x]
          /\ \A x \in 1 .. Len(b) : (a \o b)[Len(a) + x] = b[x]
      BY <3>1, JoinIs
    <3> QED BY <3>1, <3>2 DEF a, b
  <2>61. Len(g[k + 1]) = Len(g[k]) + Len(ss[k + 1]) /\ Len(g[k]) \in Nat /\ Len(ss[k + 1]) \in Nat
    BY <2>6
  <2>62. \A a, b \in Nat : (\A x \in 1 .. a : x \in 1 .. a + b) /\ (\A x \in 1 .. b : a + x \in 1 .. a + b)
    OBVIOUS
  <2>7. Len(g[k + 1]) = Before(lens, (k + 1) + 1)
    BY <1>3, <2>2, <2>3, <2>5, <2>6
  <2>8. ASSUME NEW i \in 1 .. k + 1, NEW j \in 1 .. Len(ss[i])
        PROVE  Before(lens, i) + j \in 1 .. Len(g[k + 1]) /\ g[k + 1][Before(lens, i) + j] = ss[i][j]
    <3>1. CASE i \in 1 .. k
      <4>1. Before(lens, i) + j \in 1 .. Len(g[k]) /\ g[k][Before(lens, i) + j] = ss[i][j]
        BY <2>3, <3>1
      <4>2. Before(lens, i) + j \in 1 .. Len(g[k + 1])
        BY <2>61, <2>62, <4>1, Zenon
      <4> QED BY <2>6, <4>1, <4>2
    <3>2. CASE i = k + 1
      <4>1. Before(lens, i) = Len(g[k]) /\ j \in 1 .. Len(ss[k + 1])
        BY <2>3, <3>2
      <4>2. Len(g[k]) + j \in 1 .. Len(g[k + 1])
        BY <2>61, <2>62, <4>1, Zenon
      <4>3. g[k + 1][Len(g[k]) + j] = ss[k + 1][j]
        BY <2>6, <4>1
      <4> QED BY <3>2, <4>1, <4>2, <4>3
    <3> QED BY <2>2, <3>1, <3>2
  <2>9. P(k + 1)
    BY <2>6, <2>7, <2>8
  <2> QED BY <2>9 DEF k
<1>8. n - 1 \in T
  <2> HIDE DEF T
  <2>1. n - 1 \in Nat
    BY <1>2
  <2> QED BY <1>6, <1>7, <2>1, Induction
<1>9. P(n)
  <2>1. (n - 1) + 1 = n
    BY <1>2
  <2> HIDE DEF P
  <2> QED BY <1>2, <1>8, <2>1
<1>10. ASSUME NEW k \in 1 .. Len(g[n])
       PROVE  \E i \in 1 .. n : \E j \in 1 .. Len(ss[i]) : k = Place(ss, i, j)
  <2>1. k - 1 \in Nat /\ k - 1 < Before(lens, n + 1)
    BY <1>9
  <2>2. PICK i \in 1 .. n : Before(lens, i) <= k - 1 /\ k - 1 < Before(lens, i) + lens[i]
    BY <1>2, <1>4, <2>1, BeforeCovers
  <2>3. i \in 1 .. n + 1
    OBVIOUS
  <2>4. Before(lens, i) \in Int /\ lens[i] = Len(ss[i]) /\ Len(ss[i]) \in Nat
    BY <1>2, <1>3, <1>4, <2>3, BeforeInt
  <2>5. k - Before(lens, i) \in 1 .. Len(ss[i]) /\ k = Before(lens, i) + (k - Before(lens, i))
    BY <2>2, <2>4
  <2> QED BY <2>5 DEF Place, lens
<1>11. \A i \in 1 .. n : \A j \in 1 .. Len(ss[i]) : Place(ss, i, j) = Before(lens, i) + j
  BY DEF Place, lens
<1>12. Len(g[n]) = Before(Lens(ss), n + 1)
  BY <1>9 DEF lens
<1> QED BY <1>1, <1>9, <1>10, <1>11, <1>12

(* What is picked, and from where.                                         *)
Picks(f, s, I) ==
  f = [i \in 0 .. Len(s) |->
        IF i = 0 THEN <<>> ELSE IF i \in I THEN Append(f[i - 1], s[i]) ELSE f[i - 1]]

LEMMA PicksIs ==
  ASSUME NEW s, NEW I, Len(s) \in Nat
  PROVE  \E f : Picked(s, I) = f[Len(s)] /\ Picks(f, s, I)
<1> DEFINE n == Len(s)
           Next1(f, i) == IF i = 0 THEN <<>> ELSE IF i \in I THEN Append(f[i - 1], s[i]) ELSE f[i - 1]
           Solves(f, m) == \A i \in 0 .. m : f[i] = Next1(f, i)
           T == {m \in Nat : \E f : Solves(f, m)}
<1>1. 0 \in T
  <2>1. Solves([i \in 0 .. 0 |-> <<>>], 0)
    OBVIOUS
  <2> QED BY <2>1
<1>2. ASSUME NEW m \in Nat, m \in T PROVE m + 1 \in T
  <2>1. PICK f : Solves(f, m)
    BY <1>2
  <2> DEFINE g == [i \in 0 .. m + 1 |-> IF i <= m THEN f[i] ELSE IF i \in I THEN Append(f[m], s[i]) ELSE f[m]]
  <2>2. Solves(g, m + 1)
    <3> SUFFICES ASSUME NEW i \in 0 .. m + 1 PROVE g[i] = Next1(g, i)
      OBVIOUS
    <3>1. CASE i <= m
      <4>1. g[i] = f[i] /\ (i # 0 => g[i - 1] = f[i - 1]) /\ i \in 0 .. m
        BY <3>1
      <4> HIDE DEF g
      <4> QED BY <2>1, <4>1
    <3>2. CASE i = m + 1
      <4>1. g[i - 1] = f[m] /\ i # 0
        BY <3>2
      <4>2. g[i] = IF i \in I THEN Append(f[m], s[i]) ELSE f[m]
        BY <3>2
      <4> HIDE DEF g
      <4> QED BY <4>1, <4>2
    <3> QED BY <3>1, <3>2
  <2> HIDE DEF g
  <2> QED BY <2>2
<1>3. n \in T
  <2> HIDE DEF T
  <2> QED BY <1>1, <1>2, Induction
<1>4. PICK f : Solves(f, n)
  BY <1>3
<1> DEFINE g == [i \in 0 .. n |-> f[i]]
<1>5. Picks(g, s, I)
  <2>1. \A i \in 0 .. n : g[i] = Next1(g, i)
    <3> TAKE i \in 0 .. n
    <3>1. g[i] = f[i] /\ (i # 0 => g[i - 1] = f[i - 1])
      OBVIOUS
    <3> HIDE DEF g
    <3> QED BY <1>4, <3>1
  <2>2. g = [i \in 0 .. n |-> g[i]]
    OBVIOUS
  <2> HIDE DEF g
  <2> QED BY <2>1, <2>2, Zenon DEF Picks
<1> HIDE DEF g
<1>6. Picks(CHOOSE h : Picks(h, s, I), s, I)
  BY <1>5
<1>7. Picked(s, I) = (CHOOSE h : Picks(h, s, I))[n]
  BY DEF Picked, Picks
<1> QED BY <1>6, <1>7

Selects(p, at, s, I, m) ==
  /\ \A k \in 1 .. Len(p) : at[k] \in 1 .. m /\ at[k] \in I /\ p[k] = s[at[k]]
  /\ \A k, l \in 1 .. Len(p) : k < l => at[k] < at[l]
  /\ \A i \in 1 .. m : i \in I => \E k \in 1 .. Len(p) : at[k] = i

LEMMA PickedIs ==
  ASSUME NEW E, NEW s \in Seq(E), NEW I
  PROVE  Picked(s, I) \in Seq(E) /\ \E at : Selects(Picked(s, I), at, s, I, Len(s))
<1> DEFINE n == Len(s)
<1>1. PICK f : Picked(s, I) = f[n] /\ Picks(f, s, I)
  BY PicksIs
<1>0. \A i \in 0 .. n : f[i] = IF i = 0 THEN <<>> ELSE IF i \in I THEN Append(f[i - 1], s[i]) ELSE f[i - 1]
  BY <1>1, Zenon DEF Picks
<1> DEFINE T == {m \in Nat : m <= n => f[m] \in Seq(E) /\ \E at : Selects(f[m], at, s, I, m)}
<1>2. 0 \in T
  <2>0. 0 \in 0 .. n
    OBVIOUS
  <2>1. f[0] = <<>>
    BY <1>0, <2>0, Zenon
  <2>2. Selects(<<>>, <<>>, s, I, 0)
    <3>1. 1 .. Len(<<>>) = {} /\ 1 .. 0 = {}
      OBVIOUS
    <3> QED BY <3>1, Zenon DEF Selects
  <2>3. f[0] \in Seq(E)
    BY <2>1
  <2>4. \E at : Selects(f[0], at, s, I, 0)
    BY <2>1, <2>2, Zenon
  <2>5. 0 \in Nat
    OBVIOUS
  <2> QED BY <2>3, <2>4, <2>5, Zenon
<1>3. ASSUME NEW m \in Nat, m \in T PROVE m + 1 \in T
  <2>1. SUFFICES ASSUME m + 1 <= n PROVE f[m + 1] \in Seq(E) /\ \E at : Selects(f[m + 1], at, s, I, m + 1)
    OBVIOUS
  <2>2. f[m] \in Seq(E) /\ m + 1 \in 1 .. n /\ m + 1 \in 0 .. n /\ (m + 1) - 1 = m
    BY <1>3, <2>1
  <2>3. PICK at : Selects(f[m], at, s, I, m)
    BY <1>3, <2>1
  <2> DEFINE p == f[m]
             L == Len(p)
  <2>4. L \in Nat /\ p \in Seq(E) /\ s[m + 1] \in E
    BY <2>2
  <2>5. CASE m + 1 \in I
    <3> DEFINE q == Append(p, s[m + 1])
               to == [k \in 1 .. L + 1 |-> IF k <= L THEN at[k] ELSE m + 1]
    <3>1. f[m + 1] = q
      <4>1. m + 1 # 0
        BY <2>2
      <4>2. f[m + 1] = Append(f[(m + 1) - 1], s[m + 1])
        BY <1>0, <2>2, <2>5, <4>1, Zenon
      <4> QED BY <2>2, <4>2
    <3>2. q \in Seq(E) /\ Len(q) = L + 1 /\ (\A k \in 1 .. L : q[k] = p[k]) /\ q[L + 1] = s[m + 1]
      BY <2>4
    <3>3. (\A k \in 1 .. L : to[k] = at[k]) /\ to[L + 1] = m + 1
      BY <2>4
    <3> HIDE DEF q, to, p, L
    <3>4. /\ \A k \in 1 .. L : at[k] \in 1 .. m /\ at[k] \in I /\ p[k] = s[at[k]]
          /\ \A k, l \in 1 .. L : k < l => at[k] < at[l]
          /\ \A i \in 1 .. m : i \in I => \E k \in 1 .. L : at[k] = i
      BY <2>3 DEF Selects, p, L
    <3>5. ASSUME NEW k \in 1 .. L + 1 PROVE to[k] \in 1 .. m + 1 /\ to[k] \in I /\ q[k] = s[to[k]]
      <4>1. CASE k \in 1 .. L
        <5>1. to[k] = at[k] /\ at[k] \in 1 .. m /\ at[k] \in I /\ q[k] = s[at[k]]
          BY <3>2, <3>3, <3>4, <4>1
        <5> QED BY <5>1
      <4>2. CASE k = L + 1
        BY <2>5, <3>2, <3>3, <4>2
      <4> QED BY <2>4, <4>1, <4>2
    <3>6. ASSUME NEW k \in 1 .. L + 1, NEW l \in 1 .. L + 1, k < l PROVE to[k] < to[l]
      <4>1. k \in 1 .. L /\ to[k] = at[k] /\ at[k] \in 1 .. m
        BY <2>4, <3>3, <3>4, <3>6
      <4>2. CASE l \in 1 .. L
        BY <3>3, <3>4, <3>6, <4>1, <4>2
      <4>3. CASE l = L + 1
        BY <3>3, <4>1, <4>3
      <4> QED BY <2>4, <4>2, <4>3
    <3>7. ASSUME NEW i \in 1 .. m + 1, i \in I PROVE \E k \in 1 .. L + 1 : to[k] = i
      <4>1. CASE i \in 1 .. m
        <5>1. PICK k \in 1 .. L : at[k] = i
          BY <3>4, <3>7, <4>1
        <5> QED BY <2>4, <3>3, <5>1
      <4>2. CASE i = m + 1
        BY <2>4, <3>3, <4>2
      <4> QED BY <4>1, <4>2
    <3>8. Selects(q, to, s, I, m + 1)
      BY <3>2, <3>5, <3>6, <3>7 DEF Selects
    <3> QED BY <3>1, <3>2, <3>8
  <2>6. CASE m + 1 \notin I
    <3>1. f[m + 1] = f[m]
      BY <1>0, <2>2, <2>6
    <3>2. Selects(f[m], at, s, I, m + 1)
      <4>1. ASSUME NEW i \in 1 .. m + 1, i \in I PROVE \E k \in 1 .. Len(f[m]) : at[k] = i
        <5>1. i \in 1 .. m
          BY <2>6, <4>1
        <5> QED BY <2>3, <4>1, <5>1 DEF Selects
      <4>2. \A k \in 1 .. Len(f[m]) : at[k] \in 1 .. m + 1
        BY <2>3 DEF Selects
      <4> QED BY <2>3, <4>1, <4>2 DEF Selects
    <3> QED BY <2>2, <3>1, <3>2
  <2> QED BY <2>5, <2>6
<1>4. n \in T
  <2> HIDE DEF T
  <2> QED BY <1>2, <1>3, Induction
<1> QED BY <1>1, <1>4

-----------------------------------------------------------------------------
(* The bands of the dashboard and the rows they are packed in.             *)
PanelNames == {"mining", "history", "network", "cpu", "gpu", "shares", "blockchain", "system", "log",
               "threads", "status", "quick", "connection"}
PanelDef == {p \in [name : PanelNames, minW : 16 .. 54, weight : 1 .. 100] : p.name = "gpu" => p.minW >= 27}
BandDef  == [minH : {8}, grow : 1 .. 4, panels : Seq(PanelDef)]
RowDef   == [band : 1 .. 4, ord : Nat \ {0}, panels : Seq(PanelDef)]
PanelsOf(b) == {dashboardBands[b].panels[i] : i \in DOMAIN dashboardBands[b].panels}

LEMMA BandsAre ==
  /\ Len(dashboardBands) = 4 /\ DOMAIN dashboardBands = 1 .. 4
  /\ \A b \in 1 .. 4 : dashboardBands[b] \in BandDef /\ Len(dashboardBands[b].panels) \in 3 .. 4
<1>1. Len(dashboardBands) = 4 /\ DOMAIN dashboardBands = 1 .. 4
  BY DEF dashboardBands
<1>2. ASSUME NEW g \in 1 .. 4, NEW p \in PanelDef, NEW q \in PanelDef, NEW r \in PanelDef
      PROVE  bandDef(8, g, <<p, q, r>>) \in BandDef /\ Len(bandDef(8, g, <<p, q, r>>).panels) = 3
  <2>1. <<p, q, r>> \in Seq(PanelDef) /\ Len(<<p, q, r>>) = 3
    OBVIOUS
  <2> QED BY <2>1 DEF bandDef, BandDef
<1>3. ASSUME NEW g \in 1 .. 4, NEW p \in PanelDef, NEW q \in PanelDef, NEW r \in PanelDef, NEW s \in PanelDef
      PROVE  bandDef(8, g, <<p, q, r, s>>) \in BandDef /\ Len(bandDef(8, g, <<p, q, r, s>>).panels) = 4
  <2>1. <<p, q, r, s>> \in Seq(PanelDef) /\ Len(<<p, q, r, s>>) = 4
    OBVIOUS
  <2> QED BY <2>1 DEF bandDef, BandDef
<1>4. /\ panelDef("mining", 32, 30) \in PanelDef /\ panelDef("history", 30, 34) \in PanelDef
      /\ panelDef("network", 32, 36) \in PanelDef /\ panelDef("cpu", 28, 30) \in PanelDef
      /\ panelDef("gpu", 28, 34) \in PanelDef /\ panelDef("shares", 30, 36) \in PanelDef
      /\ panelDef("blockchain", 26, 26) \in PanelDef /\ panelDef("system", 26, 27) \in PanelDef
      /\ panelDef("log", 36, 47) \in PanelDef /\ panelDef("threads", 24, 28) \in PanelDef
      /\ panelDef("status", 26, 33) \in PanelDef /\ panelDef("quick", 22, 24) \in PanelDef
      /\ panelDef("connection", 16, 15) \in PanelDef
  <2>1. "mining" \in PanelNames /\ "history" \in PanelNames /\ "network" \in PanelNames /\ "cpu" \in PanelNames /\ "gpu" \in PanelNames
        /\ "shares" \in PanelNames /\ "blockchain" \in PanelNames /\ "system" \in PanelNames /\ "log" \in PanelNames
        /\ "threads" \in PanelNames /\ "status" \in PanelNames /\ "quick" \in PanelNames /\ "connection" \in PanelNames
    BY DEF PanelNames
  <2>2. panelDef("mining", 32, 30) \in PanelDef BY <2>1 DEF panelDef, PanelDef
  <2>3. panelDef("history", 30, 34) \in PanelDef BY <2>1 DEF panelDef, PanelDef
  <2>4. panelDef("network", 32, 36) \in PanelDef BY <2>1 DEF panelDef, PanelDef
  <2>5. panelDef("cpu", 28, 30) \in PanelDef BY <2>1 DEF panelDef, PanelDef
  <2>6. panelDef("gpu", 28, 34) \in PanelDef BY <2>1 DEF panelDef, PanelDef
  <2>7. panelDef("shares", 30, 36) \in PanelDef BY <2>1 DEF panelDef, PanelDef
  <2>8. panelDef("blockchain", 26, 26) \in PanelDef BY <2>1 DEF panelDef, PanelDef
  <2>9. panelDef("system", 26, 27) \in PanelDef BY <2>1 DEF panelDef, PanelDef
  <2>10. panelDef("log", 36, 47) \in PanelDef BY <2>1 DEF panelDef, PanelDef
  <2>11. panelDef("threads", 24, 28) \in PanelDef BY <2>1 DEF panelDef, PanelDef
  <2>12. panelDef("status", 26, 33) \in PanelDef BY <2>1 DEF panelDef, PanelDef
  <2>13. panelDef("quick", 22, 24) \in PanelDef BY <2>1 DEF panelDef, PanelDef
  <2>14. panelDef("connection", 16, 15) \in PanelDef BY <2>1 DEF panelDef, PanelDef
  <2> QED BY <2>2, <2>3, <2>4, <2>5, <2>6, <2>7, <2>8, <2>9, <2>10, <2>11, <2>12, <2>13, <2>14
<1>5. /\ dashboardBands[1] = bandDef(8, 3, <<panelDef("mining", 32, 30), panelDef("history", 30, 34), panelDef("network", 32, 36)>>)
      /\ dashboardBands[2] = bandDef(8, 4, <<panelDef("cpu", 28, 30), panelDef("gpu", 28, 34), panelDef("shares", 30, 36)>>)
      /\ dashboardBands[3] = bandDef(8, 3, <<panelDef("blockchain", 26, 26), panelDef("system", 26, 27), panelDef("log", 36, 47)>>)
      /\ dashboardBands[4] = bandDef(8, 2, <<panelDef("threads", 24, 28), panelDef("status", 26, 33), panelDef("quick", 22, 24),
                                             panelDef("connection", 16, 15)>>)
  BY DEF dashboardBands
<1>6. /\ dashboardBands[1] \in BandDef /\ Len(dashboardBands[1].panels) = 3
      /\ dashboardBands[2] \in BandDef /\ Len(dashboardBands[2].panels) = 3
      /\ dashboardBands[3] \in BandDef /\ Len(dashboardBands[3].panels) = 3
      /\ dashboardBands[4] \in BandDef /\ Len(dashboardBands[4].panels) = 4
  BY <1>2, <1>3, <1>4, <1>5
<1>7. \A b \in 1 .. 4 : b = 1 \/ b = 2 \/ b = 3 \/ b = 4
  OBVIOUS
<1> QED BY <1>1, <1>6, <1>7

MinWs(ps) == [i \in 1 .. Len(ps) |-> ps[i].minW]

LEMMA PanelWidth ==
  \A p \in PanelDef :
     /\ p.minW \in 1 .. 54 /\ p.minW \in Nat /\ p.weight \in 1 .. 100 /\ p.name \in PanelNames
     /\ p.minW >= 16 /\ (p.name = "gpu" => p.minW >= 27)
  BY DEF PanelDef

LEMMA WidthIs ==
  ASSUME NEW ps \in Seq(PanelDef)
  PROVE  /\ WidthOf(ps) = Before(MinWs(ps), Len(ps) + 1) /\ Nats(MinWs(ps), Len(ps)) /\ WidthOf(ps) \in Nat
         /\ \A i \in 1 .. Len(ps) : MinWs(ps)[i] = ps[i].minW
<1>1. Len(ps) \in Nat /\ DOMAIN ps = 1 .. Len(ps)
  OBVIOUS
<1>2. ASSUME NEW i \in 1 .. Len(ps) PROVE MinWs(ps)[i] = ps[i].minW /\ ps[i].minW \in Nat
  <2>1. ps[i] \in PanelDef
    OBVIOUS
  <2>2. ps[i].minW \in Nat
    BY <2>1, PanelWidth
  <2> QED BY <2>2 DEF MinWs
<1>3. Nats(MinWs(ps), Len(ps)) /\ Ints(MinWs(ps), Len(ps))
  BY <1>2 DEF Nats, Ints
<1>4. Len(MinWs(ps)) = Len(ps)
  BY <1>1 DEF MinWs
<1>5. WidthOf(ps) = Before(MinWs(ps), Len(ps) + 1)
  BY <1>1, <1>4 DEF WidthOf, Total, MinWs
<1>6. Len(ps) + 1 \in 1 .. Len(ps) + 1 /\ Len(ps) + 1 \in (Len(ps) + 1) .. (Len(ps) + 1)
  BY <1>1
<1>7. Before(MinWs(ps), Len(ps) + 1) \in Nat
  BY <1>1, <1>3, <1>6, BeforeGrows
<1> QED BY <1>2, <1>3, <1>5, <1>7

LEMMA WidthGrows ==
  ASSUME NEW ps \in Seq(PanelDef), NEW p \in PanelDef
  PROVE  WidthOf(Append(ps, p)) = WidthOf(ps) + p.minW
<1> DEFINE qs == Append(ps, p)  n == Len(ps)
<1>1. qs \in Seq(PanelDef) /\ Len(qs) = n + 1 /\ n \in Nat /\ (\A i \in 1 .. n : qs[i] = ps[i]) /\ qs[n + 1] = p
  OBVIOUS
<1> HIDE DEF qs
<1>2. \A i \in 1 .. n : MinWs(qs)[i] = MinWs(ps)[i]
  <2> TAKE i \in 1 .. n
  <2>1. i \in 1 .. Len(qs)
    BY <1>1
  <2> QED BY <1>1, <2>1, WidthIs
<1>3. n + 1 \in 1 .. n + 1 /\ Ints(MinWs(ps), n)
  BY <1>1, WidthIs DEF Nats, Ints
<1>4. Before(MinWs(ps), n + 1) = Before(MinWs(qs), n + 1)
  BY <1>1, <1>2, <1>3, BeforeSame
<1>5. Before(MinWs(qs), (n + 1) + 1) = Before(MinWs(qs), n + 1) + MinWs(qs)[n + 1]
  BY <1>1, BeforeStep
<1>6. MinWs(qs)[n + 1] = p.minW
  <2>1. n + 1 \in 1 .. Len(qs)
    BY <1>1
  <2> QED BY <1>1, <2>1, WidthIs
<1>7. WidthOf(qs) = Before(MinWs(qs), (n + 1) + 1) /\ WidthOf(ps) = Before(MinWs(ps), n + 1)
  BY <1>1, WidthIs
<1> QED BY <1>4, <1>5, <1>6, <1>7 DEF qs

LEMMA WidthOfOne == ASSUME NEW p \in PanelDef PROVE WidthOf(<<p>>) = p.minW
<1>1. <<>> \in Seq(PanelDef) /\ <<p>> = Append(<<>>, p) /\ Len(<<>>) = 0
  OBVIOUS
<1>2. WidthOf(<<>>) = 0
  <2>1. WidthOf(<<>>) = Before(MinWs(<<>>), Len(<<>>) + 1)
    BY <1>1, WidthIs
  <2>2. Len(<<>>) + 1 = 1
    BY <1>1
  <2> QED BY <2>1, <2>2, BeforeFirst
<1>3. p.minW \in Nat
  BY DEF PanelDef
<1>4. WidthOf(Append(<<>>, p)) = WidthOf(<<>>) + p.minW
  BY <1>1, WidthGrows
<1> QED BY <1>1, <1>2, <1>3, <1>4

(* Rows that hold panels of P, each no wider than w.                       *)
Packed(rows, w, P) ==
  /\ rows \in Seq(Seq(P)) /\ Len(rows) >= 1
  /\ \A i \in 1 .. Len(rows) : Len(rows[i]) >= 1 /\ WidthOf(rows[i]) <= w

LEMMA WithPanelKeeps ==
  ASSUME NEW P \in SUBSET PanelDef, NEW w \in Int, NEW rows, Packed(rows, w, P), NEW p \in P, p.minW <= w
  PROVE  Packed(WithPanel(rows, p, w), w, P) /\ WithPanel(rows, p, w)[1][1] = rows[1][1]
<1> DEFINE L == Len(rows)
<1>1. L \in Nat /\ L >= 1 /\ L \in 1 .. L /\ 1 \in 1 .. L /\ rows \in Seq(Seq(P)) /\ p \in PanelDef
  BY DEF Packed
<1>2. \A i \in 1 .. L : rows[i] \in Seq(P) /\ Len(rows[i]) >= 1 /\ WidthOf(rows[i]) <= w
  BY DEF Packed
<1>3. rows # <<>>
  BY <1>1
<1>4. ASSUME NEW ps \in Seq(P) PROVE ps \in Seq(PanelDef)
  OBVIOUS
<1>5. CASE WidthOf(rows[L]) + p.minW <= w
  <2> DEFINE last == Append(rows[L], p)
             new == [rows EXCEPT ![L] = last]
  <2>1. WithPanel(rows, p, w) = new
    BY <1>3, <1>5 DEF WithPanel
  <2>2. rows[L] \in Seq(P) /\ Len(rows[L]) >= 1 /\ rows[L] \in Seq(PanelDef)
    BY <1>1, <1>2, <1>4
  <2>3. last \in Seq(P) /\ Len(last) >= 1 /\ last[1] = rows[L][1]
    BY <2>2
  <2>4. WidthOf(last) <= w
    BY <1>1, <1>5, <2>2, WidthGrows
  <2> HIDE DEF last
  <2>5. new \in Seq(Seq(P)) /\ Len(new) = L /\ new[L] = last /\ \A i \in 1 .. L : i # L => new[i] = rows[i]
    BY <1>1, <2>3
  <2> HIDE DEF new
  <2>6. \A i \in 1 .. L : Len(new[i]) >= 1 /\ WidthOf(new[i]) <= w
    BY <1>2, <2>3, <2>4, <2>5
  <2>7. new[1][1] = rows[1][1]
    BY <1>1, <2>3, <2>5
  <2> QED BY <1>1, <2>1, <2>5, <2>6, <2>7 DEF Packed
<1>6. CASE ~ (WidthOf(rows[L]) + p.minW <= w)
  <2> DEFINE one == <<p>>
             new == Append(rows, one)
  <2>1. WithPanel(rows, p, w) = new
    BY <1>3, <1>6 DEF WithPanel
  <2>2. one \in Seq(P) /\ Len(one) = 1 /\ WidthOf(one) <= w
    BY <1>1, WidthOfOne
  <2> HIDE DEF one
  <2>3. new \in Seq(Seq(P)) /\ Len(new) = L + 1 /\ new[L + 1] = one /\ \A i \in 1 .. L : new[i] = rows[i]
    BY <1>1, <2>2
  <2> HIDE DEF new
  <2>4. \A i \in 1 .. L + 1 : Len(new[i]) >= 1 /\ WidthOf(new[i]) <= w
    <3> TAKE i \in 1 .. L + 1
    <3>1. CASE i \in 1 .. L
      BY <1>2, <2>3, <3>1
    <3>2. CASE i = L + 1
      <4>1. new[i] = one
        BY <2>3, <3>2
      <4>2. Len(one) >= 1 /\ WidthOf(one) <= w
        BY <2>2
      <4> QED BY <4>1, <4>2
    <3> QED BY <1>1, <3>1, <3>2
  <2> QED BY <1>1, <2>1, <2>3, <2>4 DEF Packed
<1> QED BY <1>5, <1>6

Packs(f, panels, w) == f = [k \in 0 .. Len(panels) |-> IF k = 0 THEN <<>> ELSE WithPanel(f[k - 1], panels[k], w)]

LEMMA PacksIs ==
  ASSUME NEW panels, NEW w, Len(panels) \in Nat
  PROVE  \E f : Pack(panels, w) = f[Len(panels)] /\ Packs(f, panels, w)
<1> DEFINE n == Len(panels)
           Solves(f, m) == \A k \in 0 .. m : f[k] = IF k = 0 THEN <<>> ELSE WithPanel(f[k - 1], panels[k], w)
           T == {m \in Nat : \E f : Solves(f, m)}
<1>1. 0 \in T
  <2>1. Solves([i \in 0 .. 0 |-> <<>>], 0)
    OBVIOUS
  <2> QED BY <2>1
<1>2. ASSUME NEW m \in Nat, m \in T PROVE m + 1 \in T
  <2>1. PICK f : Solves(f, m)
    BY <1>2
  <2> DEFINE g == [i \in 0 .. m + 1 |-> IF i <= m THEN f[i] ELSE WithPanel(f[m], panels[m + 1], w)]
  <2>2. Solves(g, m + 1)
    <3> SUFFICES ASSUME NEW i \in 0 .. m + 1 PROVE g[i] = IF i = 0 THEN <<>> ELSE WithPanel(g[i - 1], panels[i], w)
      OBVIOUS
    <3>1. CASE i <= m
      <4>1. g[i] = f[i] /\ (i # 0 => g[i - 1] = f[i - 1]) /\ i \in 0 .. m
        BY <3>1
      <4> HIDE DEF g
      <4> QED BY <2>1, <4>1
    <3>2. CASE i = m + 1
      <4>1. g[i - 1] = f[m] /\ i # 0
        BY <3>2
      <4>2. g[i] = WithPanel(f[m], panels[m + 1], w)
        BY <3>2
      <4> HIDE DEF g
      <4> QED BY <3>2, <4>1, <4>2
    <3> QED BY <3>1, <3>2
  <2> HIDE DEF g
  <2> QED BY <2>2
<1>3. n \in T
  <2> HIDE DEF T
  <2> QED BY <1>1, <1>2, Induction
<1>4. PICK f : Solves(f, n)
  BY <1>3
<1> DEFINE g == [i \in 0 .. n |-> f[i]]
<1>5. Packs(g, panels, w)
  <2>1. \A i \in 0 .. n : g[i] = IF i = 0 THEN <<>> ELSE WithPanel(g[i - 1], panels[i], w)
    <3> TAKE i \in 0 .. n
    <3>1. g[i] = f[i] /\ (i # 0 => g[i - 1] = f[i - 1])
      OBVIOUS
    <3> HIDE DEF g
    <3> QED BY <1>4, <3>1
  <2>2. g = [i \in 0 .. n |-> g[i]]
    OBVIOUS
  <2> HIDE DEF g
  <2> QED BY <2>1, <2>2, Zenon DEF Packs
<1> HIDE DEF g
<1>6. Packs(CHOOSE h : Packs(h, panels, w), panels, w)
  BY <1>5
<1>7. Pack(panels, w) = (CHOOSE h : Packs(h, panels, w))[n]
  BY DEF Pack, Packs
<1> QED BY <1>6, <1>7

LEMMA PackIs ==
  ASSUME NEW P \in SUBSET PanelDef, NEW panels \in Seq(P), Len(panels) >= 1, NEW w \in Int,
         \A i \in 1 .. Len(panels) : panels[i].minW <= w
  PROVE  Packed(Pack(panels, w), w, P) /\ Pack(panels, w)[1][1] = panels[1]
<1> DEFINE n == Len(panels)
<1>0. n \in Nat /\ n - 1 \in Nat /\ (n - 1) + 1 = n /\ \A k \in 1 .. n : panels[k] \in P
  OBVIOUS
<1>1. PICK f : Pack(panels, w) = f[n] /\ Packs(f, panels, w)
  BY <1>0, PacksIs
<1>2. \A k \in 0 .. n : f[k] = IF k = 0 THEN <<>> ELSE WithPanel(f[k - 1], panels[k], w)
  BY <1>1, Zenon DEF Packs
<1>3. f[0] = <<>>
  <2>1. 0 \in 0 .. n
    BY <1>0
  <2> QED BY <1>2, <2>1, Zenon
<1>4. ASSUME NEW k \in 0 .. n - 1 PROVE f[k + 1] = WithPanel(f[k], panels[k + 1], w)
  <2>1. k + 1 \in 0 .. n /\ k + 1 # 0 /\ (k + 1) - 1 = k
    BY <1>0
  <2> QED BY <1>2, <2>1
<1> DEFINE T == {m \in Nat : m + 1 <= n => Packed(f[m + 1], w, P) /\ f[m + 1][1][1] = panels[1]}
<1>5. 0 \in T
  <2> DEFINE one == <<panels[1]>>
  <2>1. 0 \in 0 .. n - 1 /\ 0 + 1 = 1 /\ panels[1] \in P /\ panels[1] \in PanelDef /\ panels[1].minW <= w
    BY <1>0
  <2>2. f[1] = <<one>>
    <3>1. f[1] = WithPanel(<<>>, panels[1], w)
      BY <1>3, <1>4, <2>1
    <3>2. WithPanel(<<>>, panels[1], w) = Append(<<>>, one)
      BY DEF WithPanel
    <3> QED BY <3>1, <3>2
  <2>3. one \in Seq(P) /\ Len(one) = 1 /\ one[1] = panels[1] /\ WidthOf(one) <= w
    BY <2>1, WidthOfOne
  <2> HIDE DEF one
  <2>4. <<one>> \in Seq(Seq(P)) /\ Len(<<one>>) = 1 /\ <<one>>[1] = one
    BY <2>3
  <2>5. Packed(f[1], w, P) /\ f[1][1][1] = panels[1]
    <3> DEFINE rows == <<one>>
    <3>1. rows \in Seq(Seq(P)) /\ Len(rows) = 1 /\ rows[1] = one
      BY <2>4
    <3> HIDE DEF rows
    <3>2. ASSUME NEW i \in 1 .. Len(rows) PROVE Len(rows[i]) >= 1 /\ WidthOf(rows[i]) <= w
      <4>1. i = 1
        BY <3>1
      <4>2. rows[i] = one /\ Len(one) >= 1
        BY <2>3, <3>1, <4>1
      <4> QED BY <2>3, <4>2
    <3>3. Len(rows) >= 1
      BY <3>1
    <3>4. Packed(rows, w, P) /\ rows[1][1] = panels[1]
      BY <2>3, <3>1, <3>2, <3>3 DEF Packed
    <3> QED BY <2>2, <3>4 DEF rows
  <2> QED BY <2>1, <2>5
<1>6. ASSUME NEW m \in Nat, m \in T PROVE m + 1 \in T
  <2>1. SUFFICES ASSUME (m + 1) + 1 <= n PROVE Packed(f[(m + 1) + 1], w, P) /\ f[(m + 1) + 1][1][1] = panels[1]
    OBVIOUS
  <2>2. m + 1 \in 0 .. n - 1 /\ (m + 1) + 1 \in 1 .. n
    BY <1>0, <2>1
  <2>3. Packed(f[m + 1], w, P) /\ f[m + 1][1][1] = panels[1]
    BY <1>6, <2>1
  <2>4. f[(m + 1) + 1] = WithPanel(f[m + 1], panels[(m + 1) + 1], w)
    BY <1>4, <2>2
  <2>5. panels[(m + 1) + 1] \in P /\ panels[(m + 1) + 1].minW <= w
    BY <1>0, <2>2
  <2>6. /\ Packed(WithPanel(f[m + 1], panels[(m + 1) + 1], w), w, P)
        /\ WithPanel(f[m + 1], panels[(m + 1) + 1], w)[1][1] = f[m + 1][1][1]
    BY <2>3, <2>5, WithPanelKeeps
  <2> QED BY <2>3, <2>4, <2>6
<1>7. n - 1 \in T
  <2> HIDE DEF T
  <2> QED BY <1>0, <1>5, <1>6, Induction
<1> QED BY <1>0, <1>1, <1>7

-----------------------------------------------------------------------------
(* The rows of all bands.                                                  *)
LEMMA SeqIs == ASSUME NEW S, NEW n \in Nat, NEW f \in [1 .. n -> S] PROVE f \in Seq(S) /\ Len(f) = n
  OBVIOUS

LEMMA PanelsAre ==
  ASSUME NEW b \in 1 .. 4
  PROVE  /\ PanelsOf(b) \in SUBSET PanelDef /\ dashboardBands[b].panels \in Seq(PanelsOf(b))
         /\ Len(dashboardBands[b].panels) >= 1 /\ \A p \in PanelsOf(b) : p.minW <= 54
<1> DEFINE ps == dashboardBands[b].panels
<1>1. ps \in Seq(PanelDef) /\ Len(ps) >= 1
  <2>1. dashboardBands[b] \in BandDef /\ Len(ps) \in 3 .. 4
    BY BandsAre
  <2>2. \A x \in BandDef : x.panels \in Seq(PanelDef)
    <3> DEFINE S == Seq(PanelDef)
    <3>1. BandDef = [minH : {8}, grow : 1 .. 4, panels : S]
      BY DEF BandDef
    <3> HIDE DEF S
    <3>2. \A x \in BandDef : x.panels \in S
      BY <3>1
    <3> QED BY <3>2 DEF S
  <2>3. ps \in Seq(PanelDef)
    BY <2>1, <2>2
  <2> HIDE DEF ps
  <2>4. Len(ps) >= 1
    <3>1. \A m \in 3 .. 4 : m >= 1
      OBVIOUS
    <3> QED BY <2>1, <3>1
  <2> QED BY <2>3, <2>4
<1>2. PanelsOf(b) = {ps[i] : i \in DOMAIN ps}
  BY DEF PanelsOf
<1> HIDE DEF ps
<1>3. DOMAIN ps = 1 .. Len(ps) /\ \A i \in 1 .. Len(ps) : ps[i] \in PanelDef
  BY <1>1
<1>4. PanelsOf(b) \in SUBSET PanelDef
  BY <1>2, <1>3
<1>5. ps \in Seq(PanelsOf(b))
  <2>1. \A i \in 1 .. Len(ps) : ps[i] \in PanelsOf(b)
    BY <1>2, <1>3
  <2> HIDE DEF PanelsOf
  <2> QED BY <1>1, <1>3, <2>1
<1>6. \A p \in PanelsOf(b) : p.minW <= 54
  BY <1>4, PanelWidth
<1> QED BY <1>1, <1>4, <1>5, <1>6 DEF ps

BandRows(w, b) ==
  LET rows == Pack(dashboardBands[b].panels, w)
  IN  [i \in DOMAIN rows |-> [band |-> b, ord |-> i, panels |-> rows[i]]]

Fits(row, w) ==
  /\ row \in RowDef /\ row.panels \in Seq(PanelsOf(row.band)) /\ Len(row.panels) >= 1
  /\ WidthOf(row.panels) <= w

LEMMA BandRowsAre ==
  ASSUME NEW w \in Nat, w >= 54, NEW b \in 1 .. 4
  PROVE  /\ BandRows(w, b) \in Seq(RowDef) /\ Len(BandRows(w, b)) >= 1
         /\ \A i \in 1 .. Len(BandRows(w, b)) :
              BandRows(w, b)[i].band = b /\ BandRows(w, b)[i].ord = i /\ Fits(BandRows(w, b)[i], w)
         /\ BandRows(w, b)[1].panels[1] = dashboardBands[b].panels[1]
<1> DEFINE P == PanelsOf(b)
           rows == Pack(dashboardBands[b].panels, w)
           n == Len(rows)
           out == [i \in 1 .. n |-> [band |-> b, ord |-> i, panels |-> rows[i]]]
<1>1. P \in SUBSET PanelDef /\ dashboardBands[b].panels \in Seq(P) /\ Len(dashboardBands[b].panels) >= 1
      /\ \A p \in P : p.minW <= 54
  BY PanelsAre
<1> HIDE DEF P
<1>2. \A i \in 1 .. Len(dashboardBands[b].panels) : dashboardBands[b].panels[i].minW <= w
  <2> DEFINE ps == dashboardBands[b].panels
  <2>1. ps \in Seq(P)
    BY <1>1
  <2> HIDE DEF ps
  <2>2. ASSUME NEW i \in 1 .. Len(ps) PROVE ps[i].minW <= w
    <3>1. ps[i] \in P /\ ps[i] \in PanelDef
      BY <1>1, <2>1
    <3>2. ps[i].minW <= 54 /\ ps[i].minW \in Nat
      BY <1>1, <3>1, PanelWidth
    <3> QED BY <3>2
  <2> QED BY <2>2 DEF ps
<1>3. Packed(rows, w, P) /\ rows[1][1] = dashboardBands[b].panels[1]
  BY <1>1, <1>2, PackIs
<1>4. BandRows(w, b) = [i \in DOMAIN rows |-> [band |-> b, ord |-> i, panels |-> rows[i]]]
  BY DEF BandRows
<1> HIDE DEF rows
<1>5. rows \in Seq(Seq(P)) /\ n >= 1 /\ n \in Nat /\ DOMAIN rows = 1 .. n
  BY <1>3 DEF Packed
<1>6. BandRows(w, b) = out
  BY <1>4, <1>5
<1>7. ASSUME NEW i \in 1 .. n
      PROVE  /\ out[i].band = b /\ out[i].ord = i /\ out[i].panels = rows[i] /\ out[i] \in RowDef
             /\ Fits(out[i], w)
  <2> DEFINE x == out[i]
  <2>1. x = [band |-> b, ord |-> i, panels |-> rows[i]]
    OBVIOUS
  <2>2. rows[i] \in Seq(P) /\ Len(rows[i]) >= 1 /\ WidthOf(rows[i]) <= w
    BY <1>3, <1>5 DEF Packed
  <2>3. rows[i] \in Seq(PanelDef)
    BY <1>1, <2>2
  <2>4. x.band = b /\ x.ord = i /\ x.panels = rows[i] /\ i \in Nat \ {0}
    BY <2>1
  <2> HIDE DEF x
  <2>5. x \in RowDef
    BY <2>1, <2>3, <2>4 DEF RowDef
  <2>6. Fits(x, w)
    BY <2>2, <2>4, <2>5 DEF Fits, P
  <2> QED BY <2>4, <2>5, <2>6 DEF x
<1>8. Len(out) = n /\ DOMAIN out = 1 .. n
  BY <1>5
<1>9. out \in Seq(RowDef)
  <2>1. out \in [1 .. n -> RowDef]
    <3>1. out = [i \in 1 .. n |-> out[i]]
      OBVIOUS
    <3> HIDE DEF out
    <3> QED BY <1>7, <3>1
  <2> HIDE DEF out
  <2> QED BY <1>5, <2>1, SeqIs
<1>10. 1 \in 1 .. n
  BY <1>5
<1> HIDE DEF out
<1> QED BY <1>3, <1>5, <1>6, <1>7, <1>8, <1>9, <1>10

(* Every band has a first row that begins with its first panel, no band    *)
(* has two rows of the same order, and every row fits.                     *)
Laid(rows, w) ==
  /\ rows \in Seq(RowDef)
  /\ \A i \in 1 .. Len(rows) : Fits(rows[i], w)
  /\ \A b \in 1 .. 4 : \E i \in 1 .. Len(rows) :
       rows[i].band = b /\ rows[i].ord = 1 /\ rows[i].panels[1] = dashboardBands[b].panels[1]
  /\ \A i, j \in 1 .. Len(rows) : rows[i].band = rows[j].band /\ rows[i].ord = rows[j].ord => i = j

LEMMA PackedRowsAre == ASSUME NEW w \in Nat, w >= 54 PROVE Laid(PackedRows(w, dashboardBands), w)
<1> DEFINE ss == [b \in 1 .. 4 |-> BandRows(w, b)]
           rows == FlattenSeq(ss)
<1>1. PackedRows(w, dashboardBands) = rows
  BY BandsAre DEF PackedRows, BandRows
<1>2. Len(ss) = 4 /\ \A b \in 1 .. 4 : ss[b] = BandRows(w, b)
  OBVIOUS
<1> HIDE DEF ss
<1>3. \A b \in 1 .. Len(ss) : ss[b] \in Seq(RowDef)
  BY <1>2, BandRowsAre
<1>4. /\ rows \in Seq(RowDef)
      /\ \A i \in 1 .. Len(ss) : \A j \in 1 .. Len(ss[i]) :
           Place(ss, i, j) \in 1 .. Len(rows) /\ rows[Place(ss, i, j)] = ss[i][j]
      /\ \A k \in 1 .. Len(rows) : \E i \in 1 .. Len(ss) : \E j \in 1 .. Len(ss[i]) : k = Place(ss, i, j)
  <2>1. Len(ss) \in Nat \ {0}
    BY <1>2
  <2> QED BY <1>3, <2>1, FlattenPlaces
<1> HIDE DEF rows
<1>5. ASSUME NEW k \in 1 .. Len(rows)
      PROVE  /\ Fits(rows[k], w) /\ rows[k].band \in 1 .. 4 /\ rows[k].ord \in 1 .. Len(ss[rows[k].band])
             /\ k = Place(ss, rows[k].band, rows[k].ord)
  <2>1. PICK b \in 1 .. 4 : \E j \in 1 .. Len(ss[b]) : k = Place(ss, b, j)
    BY <1>2, <1>4
  <2>0. PICK j \in 1 .. Len(ss[b]) : k = Place(ss, b, j)
    BY <2>1
  <2>2. rows[k] = ss[b][j]
    BY <1>2, <1>4, <2>0
  <2>3. ss[b][j].band = b /\ ss[b][j].ord = j /\ Fits(ss[b][j], w)
    BY <1>2, BandRowsAre, SMTT(60)
  <2> QED BY <2>0, <2>2, <2>3
<1>6. ASSUME NEW b \in 1 .. 4
      PROVE  \E i \in 1 .. Len(rows) : rows[i].band = b /\ rows[i].ord = 1 /\ rows[i].panels[1] = dashboardBands[b].panels[1]
  <2>1. Len(ss[b]) >= 1 /\ Len(ss[b]) \in Nat /\ 1 \in 1 .. Len(ss[b])
    BY <1>2, BandRowsAre
  <2>2. ss[b][1].band = b /\ ss[b][1].ord = 1 /\ ss[b][1].panels[1] = dashboardBands[b].panels[1]
    BY <1>2, <2>1, BandRowsAre, SMTT(40)
  <2>3. Place(ss, b, 1) \in 1 .. Len(rows) /\ rows[Place(ss, b, 1)] = ss[b][1]
    BY <1>2, <1>4, <2>1
  <2> QED BY <2>2, <2>3
<1>7. ASSUME NEW i \in 1 .. Len(rows), NEW j \in 1 .. Len(rows), rows[i].band = rows[j].band, rows[i].ord = rows[j].ord
      PROVE  i = j
  BY <1>5, <1>7, Zenon
<1> QED BY <1>1, <1>4, <1>5, <1>6, <1>7 DEF Laid

-----------------------------------------------------------------------------
(* The rows that are kept.                                                 *)
Sooner(rows, j, i) == rows[j].ord < rows[i].ord \/ (rows[j].ord = rows[i].ord /\ j < i)

LEMMA TakenIs ==
  ASSUME NEW rows \in Seq(RowDef)
  PROVE  /\ \A i \in 1 .. Len(rows) : TakenBefore(rows, i) \in Nat
         /\ \A i, j \in 1 .. Len(rows) : Sooner(rows, j, i) => TakenBefore(rows, j) < TakenBefore(rows, i)
         /\ \A i \in 1 .. Len(rows) : (\A j \in 1 .. Len(rows) : ~ Sooner(rows, j, i)) => TakenBefore(rows, i) = 0
<1> DEFINE n == Len(rows)
           T(i) == {j \in 1 .. n : Sooner(rows, j, i)}
<1>1. n \in Nat /\ DOMAIN rows = 1 .. n
  OBVIOUS
<1>2. \A i \in 1 .. n : rows[i].ord \in Nat
  <2> TAKE i \in 1 .. n
  <2>1. rows[i] \in RowDef
    OBVIOUS
  <2>2. \A r \in RowDef : r.ord \in Nat
    BY DEF RowDef
  <2> QED BY <2>1, <2>2
<1>3. \A i \in 1 .. n : TakenBefore(rows, i) = Cardinality(T(i))
  <2> TAKE i \in 1 .. n
  <2>1. TakenBefore(rows, i) = Cardinality({j \in DOMAIN rows : Sooner(rows, j, i)})
    BY Zenon DEF TakenBefore, Sooner
  <2> QED BY <1>1, <2>1
<1>4. IsFiniteSet(1 .. n)
  BY <1>1, FS_Interval
<1>5. ASSUME NEW i \in 1 .. n PROVE IsFiniteSet(T(i)) /\ Cardinality(T(i)) \in Nat
  <2>1. T(i) \in SUBSET (1 .. n)
    OBVIOUS
  <2>2. IsFiniteSet(T(i))
    BY <1>4, <2>1, FS_Subset
  <2> QED BY <2>2, FS_CardinalityType
<1>6. ASSUME NEW i \in 1 .. n, NEW j \in 1 .. n, Sooner(rows, j, i)
      PROVE  Cardinality(T(j)) < Cardinality(T(i))
  <2>1. T(j) \in SUBSET T(i)
    <3> SUFFICES ASSUME NEW k \in 1 .. n, Sooner(rows, k, j) PROVE Sooner(rows, k, i)
      OBVIOUS
    <3>1. rows[i].ord \in Nat /\ rows[j].ord \in Nat /\ rows[k].ord \in Nat
      BY <1>2
    <3> QED BY <1>6, <3>1 DEF Sooner
  <2>2. j \in T(i)
    BY <1>6
  <2>3. j \notin T(j)
    <3>1. rows[j].ord \in Nat
      BY <1>2
    <3> QED BY <3>1 DEF Sooner
  <2>4. Cardinality(T(j)) <= Cardinality(T(i)) /\ Cardinality(T(i)) # Cardinality(T(j))
    <3>1. T(i) # T(j)
      BY <2>2, <2>3, Zenon
    <3> QED BY <1>5, <2>1, <3>1, FS_Subset
  <2> HIDE DEF T
  <2>5. Cardinality(T(i)) \in Nat /\ Cardinality(T(j)) \in Nat
    BY <1>5
  <2>6. \A a, b \in Nat : a <= b /\ b # a => a < b
    OBVIOUS
  <2> QED BY <2>4, <2>5, <2>6
<1>7. ASSUME NEW i \in 1 .. n, \A j \in 1 .. n : ~ Sooner(rows, j, i) PROVE Cardinality(T(i)) = 0
  <2>1. T(i) = {}
    BY <1>7, Zenon
  <2> QED BY <2>1, FS_EmptySet
<1> HIDE DEF T
<1>8. \A i \in 1 .. n : TakenBefore(rows, i) \in Nat
  BY <1>3, <1>5
<1>9. \A i, j \in 1 .. n : Sooner(rows, j, i) => TakenBefore(rows, j) < TakenBefore(rows, i)
  BY <1>3, <1>6
<1>10. \A i \in 1 .. n : (\A j \in 1 .. n : ~ Sooner(rows, j, i)) => TakenBefore(rows, i) = 0
  BY <1>3, <1>7
<1> QED BY <1>8, <1>9, <1>10

(* At most a row for every floor there is height for; some row; and no     *)
(* band's second before every band's first.                                *)
KeptRows(rows, w, h) ==
  /\ rows \in Seq(RowDef) /\ Len(rows) >= 1 /\ 5 * Len(rows) <= h
  /\ \A i \in 1 .. Len(rows) : Fits(rows[i], w)
  /\ \A i, j \in 1 .. Len(rows) : rows[i].band = rows[j].band /\ rows[i].ord = rows[j].ord => i = j
  /\ (\E i \in 1 .. Len(rows) : rows[i].ord # 1) =>
       \A b \in 1 .. 4 : \E i \in 1 .. Len(rows) :
         rows[i].band = b /\ rows[i].panels[1] = dashboardBands[b].panels[1]

LEMMA KeptIs ==
  ASSUME NEW w \in Nat, NEW rows, Laid(rows, w), NEW h \in Nat, h >= 5
  PROVE  KeptRows(Kept(rows, h), w, h)
<1> DEFINE n == Len(rows)
           q == h \div 5
           TB(i) == TakenBefore(rows, i)
           I == {i \in 1 .. n : TB(i) < q}
           kept == Kept(rows, h)
           m == Len(kept)
<1>1. /\ rows \in Seq(RowDef) /\ n \in Nat /\ DOMAIN rows = 1 .. n
      /\ \A i \in 1 .. n : Fits(rows[i], w) /\ rows[i] \in RowDef
  BY DEF Laid
<1>2. q \in Nat /\ q >= 1 /\ 5 * q <= h
  <2>1. h = 5 * q + (h % 5) /\ q \in Nat /\ h % 5 \in Nat /\ h % 5 < 5 /\ 5 * q <= h
    BY Division
  <2> QED BY <2>1
<1> HIDE DEF q
<1>3. kept = Picked(rows, I)
  BY <1>1, Zenon DEF Kept, bandFloorH, q
<1>4. PICK at : kept \in Seq(RowDef) /\ Selects(kept, at, rows, I, n)
  BY <1>1, <1>3, PickedIs
<1> HIDE DEF kept
<1>5. m \in Nat /\ \A k \in 1 .. m : at[k] \in 1 .. n /\ TB(at[k]) < q /\ kept[k] = rows[at[k]]
  BY <1>4 DEF Selects
<1>6. \A k, l \in 1 .. m : k < l => at[k] < at[l]
  BY <1>4 DEF Selects
<1>7. \A i \in 1 .. n : TB(i) < q => \E k \in 1 .. m : at[k] = i
  BY <1>4, Zenon DEF Selects
<1>8. /\ \A i \in 1 .. n : TB(i) \in Nat
      /\ \A i, j \in 1 .. n : Sooner(rows, j, i) => TB(j) < TB(i)
      /\ \A i \in 1 .. n : (\A j \in 1 .. n : ~ Sooner(rows, j, i)) => TB(i) = 0
  BY <1>1, TakenIs
<1> HIDE DEF TB
<1>9. \A i \in 1 .. n : rows[i].ord \in Nat \ {0}
  <2>1. \A r \in RowDef : r.ord \in Nat \ {0}
    BY DEF RowDef
  <2> QED BY <1>1, <2>1
<1>10. m >= 1
  <2> DEFINE S == {i \in 1 .. n : rows[i].ord = 1}
  <2>1. PICK i \in 1 .. n : rows[i].ord = 1
    <3>1. 1 \in 1 .. 4
      OBVIOUS
    <3>2. ASSUME NEW b \in 1 .. 4 PROVE \E i \in 1 .. n : rows[i].ord = 1
      BY Zenon DEF Laid
    <3> QED BY <3>1, <3>2
  <2>2. S # {} /\ S \subseteq Nat
    BY <1>1, <2>1
  <2>3. PICK f \in S : \A j \in S : f <= j
    BY <2>2, Least
  <2>4. ASSUME NEW j \in 1 .. n, Sooner(rows, j, f) PROVE FALSE
    <3>1. rows[j].ord \in Nat \ {0} /\ rows[f].ord = 1
      BY <1>9
    <3>2. rows[j].ord = 1 /\ j < f
      BY <2>4, <3>1 DEF Sooner
    <3> QED BY <2>3, <3>2
  <2>5. TB(f) = 0
    BY <1>8, <2>4
  <2>6. PICK k \in 1 .. m : at[k] = f
    BY <1>2, <1>7, <2>5
  <2> QED BY <1>5, <2>6
<1>11. m <= q
  <2> SUFFICES ASSUME q < m PROVE FALSE
    BY <1>2, <1>5
  <2> DEFINE f == [k \in 1 .. m |-> TB(at[k])]
  <2>1. IsFiniteSet(1 .. m) /\ Cardinality(1 .. m) = m
    BY <1>5, <1>10, FS_Interval
  <2>2. IsFiniteSet(0 .. q - 1) /\ Cardinality(0 .. q - 1) = q
    <3>1. q - 1 \in Int /\ 0 \in Int /\ ~ (0 > q - 1) /\ (q - 1) - 0 + 1 = q
      BY <1>2
    <3> QED BY <3>1, FS_Interval
  <2>3. f \in [1 .. m -> 0 .. q - 1]
    <3>1. ASSUME NEW k \in 1 .. m PROVE TB(at[k]) \in 0 .. q - 1
      BY <1>2, <1>5, <1>8
    <3> QED BY <3>1
  <2>4. Cardinality(0 .. q - 1) < Cardinality(1 .. m)
    BY <2>1, <2>2
  <2>0. \A k \in 1 .. m : f[k] = TB(at[k])
    OBVIOUS
  <2> HIDE DEF f
  <2>5. PICK k, l \in 1 .. m : k # l /\ f[k] = f[l]
    BY <2>1, <2>2, <2>3, <2>4, FS_PigeonHole
  <2>6. TB(at[k]) = TB(at[l])
    BY <2>0, <2>5
  <2>7. at[k] \in 1 .. n /\ at[l] \in 1 .. n /\ at[k] # at[l]
    <3>1. at[k] \in 1 .. n /\ at[l] \in 1 .. n
      BY <1>5
    <3>2. CASE k < l
      BY <1>6, <3>1, <3>2
    <3>3. CASE l < k
      BY <1>6, <3>1, <3>3
    <3> QED BY <2>5, <3>1, <3>2, <3>3
  <2>8. Sooner(rows, at[k], at[l]) \/ Sooner(rows, at[l], at[k])
    <3>1. rows[at[k]].ord \in Nat /\ rows[at[l]].ord \in Nat
      BY <1>9, <2>7
    <3>2. at[k] \in Nat /\ at[l] \in Nat
      BY <1>1, <2>7
    <3>3. \A a, b, c, d \in Nat : c # d => (a < b \/ (a = b /\ c < d)) \/ (b < a \/ (b = a /\ d < c))
      OBVIOUS
    <3> QED BY <2>7, <3>1, <3>2, <3>3, Zenon DEF Sooner
  <2>9. TB(at[k]) \in Nat /\ TB(at[l]) \in Nat /\ (TB(at[k]) < TB(at[l]) \/ TB(at[l]) < TB(at[k]))
    BY <1>8, <2>7, <2>8
  <2> QED BY <2>6, <2>9
<1>12. 5 * m <= h
  BY <1>2, <1>5, <1>11
<1>13. ASSUME NEW i \in 1 .. m PROVE Fits(kept[i], w)
  BY <1>1, <1>5
<1>14. ASSUME NEW i \in 1 .. m, NEW j \in 1 .. m, kept[i].band = kept[j].band, kept[i].ord = kept[j].ord PROVE i = j
  <2>1. at[i] = at[j]
    <3>1. at[i] \in 1 .. n /\ at[j] \in 1 .. n /\ kept[i] = rows[at[i]] /\ kept[j] = rows[at[j]]
      BY <1>5
    <3>2. \A x, y \in 1 .. n : rows[x].band = rows[y].band /\ rows[x].ord = rows[y].ord => x = y
      BY Zenon DEF Laid
    <3> QED BY <1>14, <3>1, <3>2
  <2>2. at[i] \in 1 .. n
    BY <1>5
  <2> QED BY <1>6, <2>1, <2>2
<1>15. ASSUME NEW k \in 1 .. m, kept[k].ord # 1, NEW b \in 1 .. 4
       PROVE  \E i \in 1 .. m : kept[i].band = b /\ kept[i].panels[1] = dashboardBands[b].panels[1]
  <2>1. PICK i \in 1 .. n : rows[i].band = b /\ rows[i].ord = 1 /\ rows[i].panels[1] = dashboardBands[b].panels[1]
    BY Zenon DEF Laid
  <2>2. at[k] \in 1 .. n /\ TB(at[k]) < q /\ rows[at[k]].ord # 1 /\ rows[at[k]].ord \in Nat \ {0}
    BY <1>5, <1>9, <1>15
  <2>3. Sooner(rows, i, at[k])
    <3>1. \A x \in Nat \ {0} : x # 1 => 1 < x
      OBVIOUS
    <3>2. rows[i].ord < rows[at[k]].ord
      BY <2>1, <2>2, <3>1
    <3> QED BY <3>2 DEF Sooner
  <2>4. TB(i) < TB(at[k]) /\ TB(i) \in Nat /\ TB(at[k]) \in Nat
    BY <1>8, <2>2, <2>3
  <2>5. TB(i) < q
    BY <1>2, <2>2, <2>4
  <2>6. PICK x \in 1 .. m : at[x] = i
    BY <1>7, <2>5
  <2>7. kept[x] = rows[i]
    BY <1>5, <2>6
  <2> QED BY <2>1, <2>7
<1> QED BY <1>4, <1>10, <1>12, <1>13, <1>14, <1>15 DEF KeptRows, kept

-----------------------------------------------------------------------------
(* What each has and a share of the rest, to the last cell.                *)
LEMMA Apportioned ==
  ASSUME NEW n \in Nat \ {0}, NEW tot \in Nat, NEW a, Nats(a, n), Before(a, n + 1) <= tot,
         NEW wt, \A i \in 1 .. n : wt[i] \in Nat \ {0},
         NEW s, DOMAIN s = 1 .. n, Len(s) = n,
         \A i \in 1 .. n : s[i] = a[i] + (((tot - Before(a, n + 1)) * wt[i]) \div Before(wt, n + 1))
  PROVE  /\ DOMAIN Spread(tot, s) = 1 .. n /\ Len(Spread(tot, s)) = n /\ Nats(Spread(tot, s), n)
         /\ \A i \in 1 .. n : Spread(tot, s)[i] >= a[i]
         /\ Before(Spread(tot, s), n + 1) = tot
<1> DEFINE rest == tot - Before(a, n + 1)
           g == Before(wt, n + 1)
           share == [i \in 1 .. n |-> (rest * wt[i]) \div g]
           c == Spread(tot, s)
<1>1. Ints(a, n) /\ n \in Nat /\ n + 1 \in 1 .. n + 1 /\ 2 \in 1 .. n + 1 /\ n + 1 \in 2 .. n + 1 /\ 1 \in 1 .. n
  BY DEF Ints, Nats
<1>2. Before(a, n + 1) \in Int /\ rest \in Nat
  BY <1>1, BeforeInt
<1>3. Nats(wt, n)
  BY DEF Nats
<1>4. g \in Nat \ {0}
  <2>1. Before(wt, 2) <= Before(wt, n + 1) /\ Before(wt, 2) \in Nat
    BY <1>1, <1>3, BeforeGrows
  <2>2. Before(wt, 1) = 0 /\ Before(wt, 1 + 1) = Before(wt, 1) + wt[1]
    BY BeforeFirst, BeforeStep
  <2>3. wt[1] \in Nat \ {0}
    BY <1>1
  <2>4. Before(wt, n + 1) \in Int
    <3>1. Ints(wt, n)
      BY <1>3 DEF Ints, Nats
    <3> QED BY <1>1, <3>1, BeforeInt
  <2> QED BY <2>1, <2>2, <2>3, <2>4
<1> HIDE DEF rest, g
<1>5. \A i \in 1 .. n : share[i] = (rest * wt[i]) \div g
  OBVIOUS
<1> HIDE DEF share
<1>6. Nats(share, n) /\ Before(share, n + 1) <= rest
  BY <1>2, <1>3, <1>4, <1>5, SharesFit, ZenonT(60) DEF g
<1>7. \A i \in 1 .. n : s[i] = a[i] + share[i]
  BY <1>5 DEF rest, g
<1>8. Ints(share, n) /\ \A i \in 1 .. n : a[i] \in Nat /\ share[i] \in Nat
  BY <1>6 DEF Nats, Ints
<1>9. Nats(s, n) /\ \A i \in 1 .. n : s[i] \in Nat /\ s[i] >= a[i]
  <2>1. ASSUME NEW i \in 1 .. n PROVE s[i] \in Nat /\ s[i] >= a[i]
    <3>1. s[i] = a[i] + share[i] /\ a[i] \in Nat /\ share[i] \in Nat
      BY <1>7, <1>8
    <3> QED BY <3>1
  <2> QED BY <2>1 DEF Nats
<1>10. Before(s, n + 1) = Before(a, n + 1) + Before(share, n + 1)
  <2>1. Ints(a, n) /\ Ints(share, n) /\ n \in Nat /\ n + 1 \in 1 .. n + 1
    BY <1>1, <1>8
  <2> QED BY <1>7, <2>1, BeforeAdds
<1>11. Before(share, n + 1) \in Int
  BY <1>1, <1>8, BeforeInt
<1>12. Total(s) <= tot
  BY <1>2, <1>6, <1>10, <1>11 DEF Total, rest
<1>13. /\ Len(c) = n /\ DOMAIN c = 1 .. n /\ Nats(c, n)
       /\ \A i \in 1 .. n : c[i] >= s[i]
       /\ Before(c, n + 1) = tot
  BY <1>9, <1>12, SpreadIs
<1> HIDE DEF c
<1>14. \A i \in 1 .. n : c[i] >= a[i]
  BY <1>8, <1>9, <1>13 DEF Nats
<1> QED BY <1>13, <1>14 DEF c

(* A function defined step by step inside S.                               *)
Stepwise(S, n, e, step) ==
  \E f \in [0 .. n -> S] : f[0] = e /\ \A i \in 1 .. n : f[i] = step[i][f[i - 1]]

LEMMA Solvable ==
  ASSUME NEW S, NEW n \in Nat, NEW e \in S, NEW step \in [1 .. n -> [S -> S]]
  PROVE  Stepwise(S, n, e, step)
<1> DEFINE Solves(f, m) == f[0] = e /\ \A i \in 1 .. m : f[i] = step[i][f[i - 1]]
           T == {m \in Nat : m <= n => \E f \in [0 .. m -> S] : Solves(f, m)}
<1>1. 0 \in T
  <2> DEFINE f == [i \in 0 .. 0 |-> e]
  <2>1. f \in [0 .. 0 -> S] /\ Solves(f, 0)
    OBVIOUS
  <2> HIDE DEF f
  <2> QED BY <2>1
<1>2. ASSUME NEW m \in Nat, m \in T PROVE m + 1 \in T
  <2>0. SUFFICES ASSUME m + 1 <= n PROVE \E f \in [0 .. m + 1 -> S] : Solves(f, m + 1)
    OBVIOUS
  <2>1. PICK f \in [0 .. m -> S] : Solves(f, m)
    BY <1>2, <2>0
  <2> DEFINE last == step[m + 1][f[m]]
             g == [i \in 0 .. m + 1 |-> IF i <= m THEN f[i] ELSE last]
  <2>2. last \in S
    <3>1. m \in 0 .. m /\ m + 1 \in 1 .. n
      BY <2>0
    <3> QED BY <3>1
  <2>3. g \in [0 .. m + 1 -> S]
    <3>1. ASSUME NEW i \in 0 .. m + 1 PROVE (IF i <= m THEN f[i] ELSE last) \in S
      BY <2>2
    <3> HIDE DEF last
    <3> QED BY <3>1
  <2>4. /\ \A i \in 0 .. m : g[i] = f[i]
        /\ g[m + 1] = last
    <3> HIDE DEF last
    <3> QED OBVIOUS
  <2> HIDE DEF g
  <2>5. g[0] = e
    <3>1. 0 \in 0 .. m
      OBVIOUS
    <3> QED BY <2>1, <2>4, <3>1
  <2>6. ASSUME NEW i \in 1 .. m + 1 PROVE g[i] = step[i][g[i - 1]]
    <3>1. i - 1 \in 0 .. m
      OBVIOUS
    <3>2. CASE i <= m
      BY <2>1, <2>4, <3>1, <3>2
    <3>3. CASE i = m + 1
      <4>1. i - 1 = m /\ g[i - 1] = f[i - 1]
        BY <2>4, <3>1, <3>3
      <4> QED BY <2>4, <3>3, <4>1
    <3> QED BY <3>2, <3>3
  <2> QED BY <2>3, <2>5, <2>6
<1>3. n \in T
  <2> HIDE DEF T
  <2> QED BY <1>1, <1>2, Induction
<1> QED BY <1>3 DEF Stepwise

(* Heights above the floor, no more in all than there are rows.            *)
Heights(n, h) == {hs \in [1 .. n -> Nat] : (\A i \in 1 .. n : hs[i] >= 5) /\ Before(hs, n + 1) <= h}

LEMMA FloorsAre ==
  ASSUME NEW n \in Nat \ {0}, NEW h \in Nat, 5 * n <= h
  PROVE  [i \in 1 .. n |-> 5] \in Heights(n, h)
<1> DEFINE hs == [i \in 1 .. n |-> 5]
           T == {m \in Nat : m <= n => Before(hs, m + 1) = 5 * m}
<1>0. hs \in [1 .. n -> Nat] /\ \A i \in 1 .. n : hs[i] = 5
  OBVIOUS
<1> HIDE DEF hs
<1>1. 0 \in T
  BY BeforeFirst
<1>2. ASSUME NEW m \in Nat, m \in T PROVE m + 1 \in T
  <2>0. SUFFICES ASSUME m + 1 <= n PROVE Before(hs, (m + 1) + 1) = 5 * (m + 1)
    OBVIOUS
  <2>1. Before(hs, (m + 1) + 1) = Before(hs, m + 1) + hs[m + 1]
    BY BeforeStep
  <2>2. Before(hs, m + 1) = 5 * m /\ hs[m + 1] = 5
    BY <1>0, <1>2, <2>0
  <2> QED BY <2>1, <2>2
<1>3. n \in T
  <2> HIDE DEF T
  <2> QED BY <1>1, <1>2, Induction
<1>4. Before(hs, n + 1) <= h
  BY <1>3
<1> QED BY <1>0, <1>4 DEF Heights, hs

LEMMA VisitedKeeps ==
  ASSUME NEW n \in Nat \ {0}, NEW h \in Nat, NEW hs \in Heights(n, h), NEW i \in 1 .. n, NEW minH
  PROVE  Visited(hs, i, h, minH) \in Heights(n, h)
<1> DEFINE new == [hs EXCEPT ![i] = @ + 1]
<1>1. hs \in [1 .. n -> Nat] /\ (\A j \in 1 .. n : hs[j] >= 5 /\ hs[j] \in Nat) /\ Before(hs, n + 1) <= h
  BY DEF Heights
<1>2. Total(hs) = Before(hs, n + 1)
  BY <1>1, SeqIs DEF Total
<1>3. CASE Total(hs) < h
  <2> DEFINE T == {m \in Nat : m <= n => Before(new, m + 1) = Before(hs, m + 1) + (IF i <= m THEN 1 ELSE 0)}
  <2>1. new \in [1 .. n -> Nat] /\ \A j \in 1 .. n : new[j] = hs[j] + (IF j = i THEN 1 ELSE 0)
    BY <1>1
  <2> HIDE DEF new
  <2>2. 0 \in T
    BY BeforeFirst
  <2>3. ASSUME NEW m \in Nat, m \in T PROVE m + 1 \in T
    <3>0. SUFFICES ASSUME m + 1 <= n PROVE Before(new, (m + 1) + 1) = Before(hs, (m + 1) + 1) + (IF i <= m + 1 THEN 1 ELSE 0)
      OBVIOUS
    <3>1. Before(new, (m + 1) + 1) = Before(new, m + 1) + new[m + 1] /\ Before(hs, (m + 1) + 1) = Before(hs, m + 1) + hs[m + 1]
      BY BeforeStep
    <3>2. Before(new, m + 1) = Before(hs, m + 1) + (IF i <= m THEN 1 ELSE 0)
      BY <2>3, <3>0
    <3>3. new[m + 1] = hs[m + 1] + (IF m + 1 = i THEN 1 ELSE 0) /\ hs[m + 1] \in Nat
      BY <1>1, <2>1, <3>0
    <3>4. Before(hs, m + 1) \in Int
      <4>1. Ints(hs, n) /\ m + 1 \in 1 .. n + 1
        BY <1>1, <3>0 DEF Ints
      <4> QED BY <4>1, BeforeInt
    <3> QED BY <3>1, <3>2, <3>3, <3>4
  <2>4. n \in T
    <3> HIDE DEF T
    <3> QED BY <2>2, <2>3, Induction
  <2>5. Before(new, n + 1) = Before(hs, n + 1) + 1
    BY <2>4
  <2>6. Before(hs, n + 1) \in Int
    <3>1. Ints(hs, n) /\ n + 1 \in 1 .. n + 1
      BY <1>1 DEF Ints
    <3> QED BY <3>1, BeforeInt
  <2>7. Before(new, n + 1) <= h
    BY <1>2, <1>3, <2>5, <2>6
  <2>8. \A j \in 1 .. n : new[j] >= 5
    BY <1>1, <2>1
  <2>9. new \in Heights(n, h)
    BY <2>1, <2>7, <2>8 DEF Heights
  <2>10. Visited(hs, i, h, minH) = new \/ Visited(hs, i, h, minH) = hs
    BY DEF Visited, new
  <2> QED BY <2>9, <2>10
<1>4. CASE ~ (Total(hs) < h)
  <2>1. Visited(hs, i, h, minH) = hs
    BY <1>4 DEF Visited
  <2> QED BY <2>1
<1> QED BY <1>3, <1>4

-----------------------------------------------------------------------------
Rounds(f, hs, rows, h, bands) ==
  f = [i \in 0 .. Len(rows) |-> IF i = 0 THEN hs ELSE Visited(f[i - 1], i, h, bands[rows[i].band].minH)]

LEMMA RoundKeeps ==
  ASSUME NEW rows, NEW bands, Len(rows) \in Nat \ {0}, NEW h \in Nat, NEW hs \in Heights(Len(rows), h)
  PROVE  Round(hs, rows, h, bands) \in Heights(Len(rows), h)
<1> DEFINE n == Len(rows)
           G == Heights(n, h)
           M(i) == bands[rows[i].band].minH
           step == [i \in 1 .. n |-> [x \in G |-> Visited(x, i, h, M(i))]]
<1>1. n \in Nat \ {0} /\ n \in Nat /\ n \in 0 .. n /\ hs \in G
  OBVIOUS
<1>2. \A i \in 1 .. n : \A x \in G : Visited(x, i, h, M(i)) \in G
  BY <1>1, VisitedKeeps
<1> HIDE DEF G, n, M
<1>3. step \in [1 .. n -> [G -> G]] /\ \A i \in 1 .. n : \A x \in G : step[i][x] = Visited(x, i, h, M(i))
  <2>1. ASSUME NEW i \in 1 .. n PROVE [x \in G |-> Visited(x, i, h, M(i))] \in [G -> G]
    BY <1>2
  <2>2. ASSUME NEW i \in 1 .. n, NEW x \in G PROVE step[i][x] = Visited(x, i, h, M(i))
    OBVIOUS
  <2> QED BY <2>1, <2>2
<1> HIDE DEF step
<1>4. PICK f \in [0 .. n -> G] : f[0] = hs /\ \A i \in 1 .. n : f[i] = step[i][f[i - 1]]
  <2>1. n \in Nat /\ hs \in G /\ step \in [1 .. n -> [G -> G]]
    BY <1>1, <1>3
  <2>2. Stepwise(G, n, hs, step)
    BY <2>1, Solvable
  <2> QED BY <2>2 DEF Stepwise
<1>5. Rounds(f, hs, rows, h, bands)
  <2>1. ASSUME NEW i \in 0 .. n PROVE f[i] = IF i = 0 THEN hs ELSE Visited(f[i - 1], i, h, M(i))
    <3>1. CASE i = 0
      BY <1>4, <3>1
    <3>2. CASE i # 0
      <4>1. i \in 1 .. n /\ i - 1 \in 0 .. n
        BY <1>1, <3>2
      <4>2. f[i - 1] \in G
        BY <4>1
      <4>3. f[i] = Visited(f[i - 1], i, h, M(i))
        BY <1>3, <1>4, <4>1, <4>2
      <4> QED BY <3>2, <4>3
    <3> QED BY <3>1, <3>2
  <2>2. f = [i \in 0 .. n |-> f[i]]
    OBVIOUS
  <2> QED BY <2>1, <2>2, Zenon DEF Rounds, n, M
<1> DEFINE g == CHOOSE x : Rounds(x, hs, rows, h, bands)
<1>6. Rounds(g, hs, rows, h, bands)
  BY <1>5
<1>7. Round(hs, rows, h, bands) = g[n]
  BY DEF Round, Rounds, n
<1> HIDE DEF g
<1>8. \A i \in 0 .. n : g[i] = IF i = 0 THEN hs ELSE Visited(g[i - 1], i, h, M(i))
  BY <1>6, Zenon DEF Rounds, n, M
<1> DEFINE T == {m \in Nat : m <= n => g[m] \in G}
<1>9. 0 \in T
  <2>1. 0 \in 0 .. n
    BY <1>1
  <2>2. g[0] = hs
    BY <1>8, <2>1, Zenon
  <2> QED BY <1>1, <2>2
<1>10. ASSUME NEW m \in Nat, m \in T PROVE m + 1 \in T
  <2>0. SUFFICES ASSUME m + 1 <= n PROVE g[m + 1] \in G
    OBVIOUS
  <2>1. m + 1 \in 0 .. n /\ m + 1 # 0 /\ (m + 1) - 1 = m /\ m + 1 \in 1 .. n /\ m <= n
    BY <1>1, <2>0
  <2>2. g[m + 1] = Visited(g[m], m + 1, h, M(m + 1))
    BY <1>8, <2>1
  <2>3. g[m] \in G
    BY <1>10, <2>1
  <2> QED BY <1>2, <2>1, <2>2, <2>3
<1>11. n \in T
  <2> HIDE DEF T
  <2> QED BY <1>1, <1>9, <1>10, Induction
<1>12. g[n] \in G
  BY <1>1, <1>11
<1> QED BY <1>7, <1>12 DEF G, n

Raises(f, rows, h, bands) ==
  f = [k \in 0 .. Shortfall(bands) |->
        IF k = 0 THEN [i \in DOMAIN rows |-> bandFloorH] ELSE Round(f[k - 1], rows, h, bands)]

LEMMA RaisedIs ==
  ASSUME NEW rows, NEW bands, Len(rows) \in Nat \ {0}, DOMAIN rows = 1 .. Len(rows),
         NEW h \in Nat, 5 * Len(rows) <= h, Shortfall(bands) \in Nat
  PROVE  Raised(rows, h, bands) \in Heights(Len(rows), h)
<1> DEFINE n == Len(rows)
           G == Heights(n, h)
           k == Shortfall(bands)
           hs == [i \in DOMAIN rows |-> bandFloorH]
           step == [i \in 1 .. k |-> [x \in G |-> Round(x, rows, h, bands)]]
<1>1. n \in Nat \ {0} /\ k \in Nat /\ k \in 0 .. k /\ hs \in G
  <2>1. hs = [i \in 1 .. n |-> 5]
    BY DEF bandFloorH
  <2> HIDE DEF hs
  <2> QED BY <2>1, FloorsAre
<1>2. \A x \in G : Round(x, rows, h, bands) \in G
  BY <1>1, RoundKeeps
<1> HIDE DEF G, n, k
<1>3. step \in [1 .. k -> [G -> G]] /\ \A i \in 1 .. k : \A x \in G : step[i][x] = Round(x, rows, h, bands)
  <2>1. [x \in G |-> Round(x, rows, h, bands)] \in [G -> G]
    BY <1>2
  <2>2. ASSUME NEW i \in 1 .. k, NEW x \in G PROVE step[i][x] = Round(x, rows, h, bands)
    OBVIOUS
  <2> QED BY <2>1, <2>2
<1> HIDE DEF step, hs
<1>4. PICK f \in [0 .. k -> G] : f[0] = hs /\ \A i \in 1 .. k : f[i] = step[i][f[i - 1]]
  <2>1. k \in Nat /\ hs \in G /\ step \in [1 .. k -> [G -> G]]
    BY <1>1, <1>3
  <2>2. Stepwise(G, k, hs, step)
    BY <2>1, Solvable
  <2> QED BY <2>2 DEF Stepwise
<1>5. Raises(f, rows, h, bands)
  <2>1. ASSUME NEW i \in 0 .. k PROVE f[i] = IF i = 0 THEN hs ELSE Round(f[i - 1], rows, h, bands)
    <3>1. CASE i = 0
      BY <1>4, <3>1
    <3>2. CASE i # 0
      <4>1. i \in 1 .. k /\ i - 1 \in 0 .. k
        BY <1>1, <3>2
      <4>2. f[i - 1] \in G
        BY <4>1
      <4>3. f[i] = Round(f[i - 1], rows, h, bands)
        BY <1>3, <1>4, <4>1, <4>2
      <4> QED BY <3>2, <4>3
    <3> QED BY <3>1, <3>2
  <2>2. f = [i \in 0 .. k |-> f[i]]
    OBVIOUS
  <2> QED BY <2>1, <2>2, Zenon DEF Raises, k, hs
<1> DEFINE g == CHOOSE x : Raises(x, rows, h, bands)
<1>6. Raises(g, rows, h, bands)
  BY <1>5
<1>7. Raised(rows, h, bands) = g[k]
  BY DEF Raised, Raises, k
<1> HIDE DEF g
<1>8. \A i \in 0 .. k : g[i] = IF i = 0 THEN hs ELSE Round(g[i - 1], rows, h, bands)
  BY <1>6, Zenon DEF Raises, k, hs
<1> DEFINE T == {m \in Nat : m <= k => g[m] \in G}
<1>9. 0 \in T
  <2>1. 0 \in 0 .. k
    BY <1>1
  <2>2. g[0] = hs
    BY <1>8, <2>1, Zenon
  <2> QED BY <1>1, <2>2
<1>10. ASSUME NEW m \in Nat, m \in T PROVE m + 1 \in T
  <2>0. SUFFICES ASSUME m + 1 <= k PROVE g[m + 1] \in G
    OBVIOUS
  <2>1. m + 1 \in 0 .. k /\ m + 1 # 0 /\ (m + 1) - 1 = m /\ m <= k
    BY <1>1, <2>0
  <2>2. g[m + 1] = Round(g[m], rows, h, bands)
    BY <1>8, <2>1
  <2>3. g[m] \in G
    BY <1>10, <2>1
  <2> QED BY <1>2, <2>2, <2>3
<1>11. k \in T
  <2> HIDE DEF T
  <2> QED BY <1>1, <1>9, <1>10, Induction
<1>12. g[k] \in G
  BY <1>1, <1>11
<1> QED BY <1>7, <1>12 DEF G, n

LEMMA ShortfallIs == Shortfall(dashboardBands) \in Nat
<1> DEFINE short == {Greater(dashboardBands[b].minH - bandFloorH, 0) : b \in DOMAIN dashboardBands}
<1>1. \A b \in DOMAIN dashboardBands : dashboardBands[b].minH = 8
  <2> TAKE b \in DOMAIN dashboardBands
  <2>1. dashboardBands[b] \in BandDef
    BY BandsAre
  <2>2. \A x \in BandDef : x.minH = 8
    BY Zenon DEF BandDef
  <2> QED BY <2>1, <2>2
<1>2. \A b \in DOMAIN dashboardBands : Greater(dashboardBands[b].minH - bandFloorH, 0) = 3
  BY <1>1 DEF Greater, bandFloorH
<1>3. short = {3}
  <2>1. 1 \in DOMAIN dashboardBands
    BY BandsAre
  <2> QED BY <1>2, <2>1
<1>4. Shortfall(dashboardBands) = CHOOSE n \in short : \A m \in short : m <= n
  BY DEF Shortfall
<1> HIDE DEF short
<1>5. \E n \in short : \A m \in short : m <= n
  BY <1>3
<1>6. (CHOOSE n \in short : \A m \in short : m <= n) \in short
  BY <1>5
<1> QED BY <1>3, <1>4, <1>6

LEMMA RowHeightsAre ==
  ASSUME NEW rows \in Seq(RowDef), NEW h \in Nat, Len(rows) >= 1, 5 * Len(rows) <= h
  PROVE  LET hs == RowHeights(rows, h, dashboardBands)
         IN  /\ DOMAIN hs = 1 .. Len(rows) /\ Nats(hs, Len(rows)) /\ Before(hs, Len(rows) + 1) = h
             /\ \A i \in 1 .. Len(rows) : hs[i] >= 5
<1> DEFINE n == Len(rows)
           raised == Raised(rows, h, dashboardBands)
           grow == [i \in 1 .. n |-> dashboardBands[rows[i].band].grow]
           s == [i \in 1 .. n |-> raised[i] + (((h - Before(raised, n + 1)) * grow[i]) \div Before(grow, n + 1))]
           hs == Spread(h, s)
<1>1. n \in Nat \ {0} /\ DOMAIN rows = 1 .. n
  OBVIOUS
<1>2. raised \in Heights(n, h)
  BY <1>1, ShortfallIs, RaisedIs
<1> HIDE DEF raised
<1>3. raised \in [1 .. n -> Nat] /\ (\A i \in 1 .. n : raised[i] >= 5 /\ raised[i] \in Nat) /\ Before(raised, n + 1) <= h
  BY <1>2 DEF Heights
<1>4. Nats(raised, n) /\ Len(raised) = n
  BY <1>1, <1>3, SeqIs DEF Nats
<1>5. \A i \in 1 .. n : grow[i] \in Nat \ {0}
  <2> TAKE i \in 1 .. n
  <2>1. rows[i] \in RowDef
    OBVIOUS
  <2>2. \A r \in RowDef : r.band \in 1 .. 4
    BY DEF RowDef
  <2>3. dashboardBands[rows[i].band] \in BandDef
    BY <2>1, <2>2, BandsAre
  <2>4. \A b \in BandDef : b.grow \in 1 .. 4
    BY Zenon DEF BandDef
  <2> QED BY <2>3, <2>4
<1>6. Len(grow) = n /\ Total(raised) = Before(raised, n + 1) /\ Total(grow) = Before(grow, n + 1)
  BY <1>1, <1>4 DEF Total
<1>7. RowHeights(rows, h, dashboardBands) = hs
  <2>1. [i \in DOMAIN rows |-> dashboardBands[rows[i].band].grow] = grow
    BY <1>1
  <2> HIDE DEF grow
  <2>2. RowHeights(rows, h, dashboardBands) = Spread(h, [i \in DOMAIN rows |-> raised[i] + (((h - Total(raised)) * grow[i]) \div Total(grow))])
    BY <2>1, Zenon DEF RowHeights, raised
  <2> QED BY <1>1, <1>6, <2>2
<1> HIDE DEF grow
<1>8. DOMAIN s = 1 .. n /\ Len(s) = n
      /\ \A i \in 1 .. n : s[i] = raised[i] + (((h - Before(raised, n + 1)) * grow[i]) \div Before(grow, n + 1))
  BY <1>1
<1> HIDE DEF s
<1>9. /\ DOMAIN hs = 1 .. n /\ Nats(hs, n) /\ (\A i \in 1 .. n : hs[i] >= raised[i])
      /\ Before(hs, n + 1) = h
  <2>1. n \in Nat \ {0} /\ h \in Nat /\ Nats(raised, n) /\ Before(raised, n + 1) <= h /\ DOMAIN s = 1 .. n /\ Len(s) = n
    BY <1>1, <1>3, <1>4, <1>8
  <2>2. \A i \in 1 .. n : s[i] = raised[i] + (((h - Before(raised, n + 1)) * grow[i]) \div Before(grow, n + 1))
    BY <1>8
  <2> HIDE DEF n
  <2> QED BY <1>5, <2>1, <2>2, Apportioned
<1> HIDE DEF hs
<1>10. \A i \in 1 .. n : hs[i] >= 5
  BY <1>3, <1>9 DEF Nats
<1> QED BY <1>7, <1>9, <1>10

LEMMA RowWidthsAre ==
  ASSUME NEW ps \in Seq(PanelDef), Len(ps) >= 1, NEW w \in Nat, WidthOf(ps) <= w
  PROVE  LET ws == Spread(w, RowWidths(w, ps))
         IN  /\ DOMAIN ws = 1 .. Len(ps) /\ Nats(ws, Len(ps)) /\ Before(ws, Len(ps) + 1) = w
             /\ \A i \in 1 .. Len(ps) : ws[i] >= ps[i].minW
<1> DEFINE n == Len(ps)
           a == MinWs(ps)
           wt == [i \in 1 .. n |-> ps[i].weight]
           s == [i \in 1 .. n |-> a[i] + (((w - Before(a, n + 1)) * wt[i]) \div Before(wt, n + 1))]
           ws == Spread(w, s)
<1>1. n \in Nat \ {0} /\ DOMAIN ps = 1 .. n
  OBVIOUS
<1>2. WidthOf(ps) = Before(a, n + 1) /\ Nats(a, n) /\ WidthOf(ps) \in Nat /\ \A i \in 1 .. n : a[i] = ps[i].minW
  BY WidthIs
<1> HIDE DEF a
<1>3. \A i \in 1 .. n : wt[i] \in Nat \ {0}
  <2> TAKE i \in 1 .. n
  <2>1. ps[i] \in PanelDef /\ wt[i] = ps[i].weight
    OBVIOUS
  <2>2. ps[i].weight \in Nat \ {0}
    <3>1. ps[i].weight \in 1 .. 100
      BY <2>1, PanelWidth
    <3>2. \A x \in 1 .. 100 : x \in Nat \ {0}
      OBVIOUS
    <3> QED BY <3>1, <3>2
  <2> HIDE DEF wt
  <2> QED BY <2>1, <2>2
<1>4. Len(wt) = n /\ Total(wt) = Before(wt, n + 1)
  BY <1>1 DEF Total
<1>5. RowWidths(w, ps) = s
  <2>1. [i \in DOMAIN ps |-> ps[i].weight] = wt
    BY <1>1
  <2> HIDE DEF wt
  <2>2. ~ (WidthOf(ps) > w)
    BY <1>2
  <2>3. RowWidths(w, ps) = [i \in DOMAIN ps |-> ps[i].minW + (((w - WidthOf(ps)) * ps[i].weight) \div Total(wt))]
    BY <2>1, <2>2 DEF RowWidths
  <2>4. \A i \in 1 .. n : ps[i].weight = wt[i]
    BY DEF wt
  <2> QED BY <1>1, <1>2, <1>4, <2>3, <2>4
<1> HIDE DEF wt
<1>6. DOMAIN s = 1 .. n /\ Len(s) = n
      /\ \A i \in 1 .. n : s[i] = a[i] + (((w - Before(a, n + 1)) * wt[i]) \div Before(wt, n + 1))
  BY <1>1
<1> HIDE DEF s
<1>7. Before(a, n + 1) <= w
  BY <1>2
<1>8. /\ DOMAIN ws = 1 .. n /\ Nats(ws, n) /\ (\A i \in 1 .. n : ws[i] >= a[i])
      /\ Before(ws, n + 1) = w
  <2>1. n \in Nat \ {0} /\ Nats(a, n) /\ DOMAIN s = 1 .. n /\ Len(s) = n
    BY <1>1, <1>2, <1>6
  <2>2. \A i \in 1 .. n : s[i] = a[i] + (((w - Before(a, n + 1)) * wt[i]) \div Before(wt, n + 1))
    BY <1>6
  <2> HIDE DEF n
  <2> QED BY <1>3, <1>7, <2>1, <2>2, Apportioned
<1> QED BY <1>2, <1>5, <1>8

-----------------------------------------------------------------------------
(* The strips and the cells of a plan.                                     *)
Strip(body, hs, i) == Rect(body.X, body.Y + Before(hs, i), body.W, hs[i])

LEMMA StripsAre ==
  ASSUME NEW r \in Region, NEW n \in Nat, NEW hs, Nats(hs, n), Before(hs, n + 1) = r.H
  PROVE  /\ \A i \in 1 .. n : /\ Strip(r, hs, i) \in Region /\ Strip(r, hs, i).X = r.X /\ Strip(r, hs, i).W = r.W
                              /\ Strip(r, hs, i).H = hs[i]
                              /\ Strip(r, hs, i).Y >= r.Y /\ Bottom(Strip(r, hs, i)) <= Bottom(r)
         /\ \A i, j \in 1 .. n : i < j => Bottom(Strip(r, hs, i)) <= Strip(r, hs, j).Y
         /\ \A y \in Int : r.Y <= y /\ y < Bottom(r) =>
              \E i \in 1 .. n : Strip(r, hs, i).Y <= y /\ y < Bottom(Strip(r, hs, i))
<1>1. r.X \in Int /\ r.Y \in Int /\ r.W \in Nat /\ r.H \in Nat
  BY DEF Region
<1>2. ASSUME NEW i \in 1 .. n PROVE hs[i] \in Nat /\ Before(hs, i + 1) = Before(hs, i) + hs[i]
  <2>1. i \in Nat \ {0}
    OBVIOUS
  <2> QED BY <2>1, BeforeStep DEF Nats
<1>3. ASSUME NEW i \in 1 .. n + 1, NEW j \in i .. n + 1 PROVE Before(hs, i) \in Nat /\ Before(hs, i) <= Before(hs, j)
  BY BeforeGrows
<1>4. ASSUME NEW i \in 1 .. n
      PROVE  /\ Strip(r, hs, i) \in Region /\ Strip(r, hs, i).X = r.X /\ Strip(r, hs, i).W = r.W
             /\ Strip(r, hs, i).H = hs[i] /\ Strip(r, hs, i).Y = r.Y + Before(hs, i)
             /\ Bottom(Strip(r, hs, i)) = r.Y + Before(hs, i + 1)
  <2>1. i \in 1 .. n + 1 /\ i \in i .. n + 1
    OBVIOUS
  <2>2. Before(hs, i) \in Nat /\ hs[i] \in Nat
    BY <1>2, <1>3, <2>1
  <2>3. Strip(r, hs, i) \in Region /\ Strip(r, hs, i).X = r.X /\ Strip(r, hs, i).W = r.W
        /\ Strip(r, hs, i).H = hs[i] /\ Strip(r, hs, i).Y = r.Y + Before(hs, i)
    BY <1>1, <2>2, RectIs DEF Strip
  <2> QED BY <1>1, <1>2, <2>2, <2>3 DEF Bottom
<1>5. ASSUME NEW i \in 1 .. n PROVE Strip(r, hs, i).Y >= r.Y /\ Bottom(Strip(r, hs, i)) <= Bottom(r)
  <2>1. i \in 1 .. n + 1 /\ i \in i .. n + 1 /\ i + 1 \in 1 .. n + 1 /\ n + 1 \in i + 1 .. n + 1
    OBVIOUS
  <2>2. Before(hs, i) \in Nat /\ Before(hs, i + 1) \in Nat /\ Before(hs, i + 1) <= Before(hs, n + 1)
    BY <1>3, <2>1
  <2> QED BY <1>1, <1>4, <2>2 DEF Bottom
<1>6. ASSUME NEW i \in 1 .. n, NEW j \in 1 .. n, i < j PROVE Bottom(Strip(r, hs, i)) <= Strip(r, hs, j).Y
  <2>1. i + 1 \in 1 .. n + 1 /\ j \in i + 1 .. n + 1 /\ j \in 1 .. n + 1 /\ j \in j .. n + 1
    BY <1>6
  <2>2. Before(hs, i + 1) <= Before(hs, j) /\ Before(hs, i + 1) \in Nat /\ Before(hs, j) \in Nat
    BY <1>3, <2>1
  <2> QED BY <1>1, <1>4, <2>2
<1>7. ASSUME NEW y \in Int, r.Y <= y, y < Bottom(r)
      PROVE  \E i \in 1 .. n : Strip(r, hs, i).Y <= y /\ y < Bottom(Strip(r, hs, i))
  <2>1. y - r.Y \in Nat /\ y - r.Y < Before(hs, n + 1)
    BY <1>1, <1>7 DEF Bottom
  <2>2. PICK i \in 1 .. n : Before(hs, i) <= y - r.Y /\ y - r.Y < Before(hs, i) + hs[i]
    BY <2>1, BeforeCovers
  <2>3. i \in 1 .. n + 1 /\ i \in i .. n + 1
    OBVIOUS
  <2>4. Before(hs, i) \in Nat /\ hs[i] \in Nat
    BY <1>2, <1>3, <2>3
  <2>5. Strip(r, hs, i).Y = r.Y + Before(hs, i) /\ Bottom(Strip(r, hs, i)) = r.Y + Before(hs, i + 1)
    BY <1>4
  <2>6. Before(hs, i + 1) = Before(hs, i) + hs[i]
    BY <1>2
  <2>7. Strip(r, hs, i).Y <= y /\ y < Bottom(Strip(r, hs, i))
    BY <1>1, <2>2, <2>4, <2>5, <2>6
  <2> QED BY <2>7
<1> QED BY <1>4, <1>5, <1>6, <1>7

CellDef == [p : PanelDef, r : Region]

RowCells(strip, panels) ==
  LET at == splitRow(strip, panels) IN [j \in DOMAIN at |-> [p |-> panels[j], r |-> at[j]]]

LEMMA RowCellsAre ==
  ASSUME NEW strip \in Region, NEW ps \in Seq(PanelDef), Len(ps) >= 1, WidthOf(ps) <= strip.W,
         NEW cs, cs = RowCells(strip, ps)
  PROVE  /\ cs \in Seq(CellDef) /\ Len(cs) = Len(ps)
         /\ \A j \in 1 .. Len(ps) :
              /\ cs[j].p = ps[j] /\ cs[j].r \in Region /\ cs[j].r.Y = strip.Y /\ cs[j].r.H = strip.H
              /\ cs[j].r.W >= ps[j].minW /\ cs[j].r.X >= strip.X /\ Right(cs[j].r) <= Right(strip)
         /\ \A i, j \in 1 .. Len(ps) : i < j => Right(cs[i].r) <= cs[j].r.X
         /\ \A x \in Int : strip.X <= x /\ x < Right(strip) =>
              \E j \in 1 .. Len(ps) : cs[j].r.X <= x /\ x < Right(cs[j].r)
<1> DEFINE n == Len(ps)
           ws == Spread(strip.W, RowWidths(strip.W, ps))
           at == SideBySide(strip, ws)
           f == [j \in 1 .. n |-> [p |-> ps[j], r |-> at[j]]]
<1>1. n \in Nat /\ strip.W \in Nat /\ \A j \in 1 .. n : ps[j] \in PanelDef
  BY DEF Region
<1>2. DOMAIN ws = 1 .. n /\ Nats(ws, n) /\ Before(ws, n + 1) = strip.W /\ \A i \in 1 .. n : ws[i] >= ps[i].minW
  BY <1>1, RowWidthsAre
<1> HIDE DEF ws
<1>3. Across(at, n, strip) /\ \A i \in 1 .. n : at[i].W = ws[i]
  BY <1>1, <1>2, SideBySideIs
<1>4. RowCells(strip, ps) = [j \in DOMAIN at |-> [p |-> ps[j], r |-> at[j]]]
  BY DEF RowCells, splitRow, ws
<1> HIDE DEF at
<1>5. DOMAIN at = 1 .. n /\ \A i \in 1 .. n : at[i] \in Region
  BY <1>3 DEF Across
<1>6. cs = f
  BY <1>4, <1>5
<1>7. \A j \in 1 .. n : cs[j] = [p |-> ps[j], r |-> at[j]] /\ cs[j].p = ps[j] /\ cs[j].r = at[j] /\ cs[j] \in CellDef
  BY <1>1, <1>5, <1>6 DEF CellDef
<1>8. cs \in [1 .. n -> CellDef]
  <2>1. cs = [j \in 1 .. n |-> cs[j]]
    BY <1>6
  <2> QED BY <1>7, <2>1
<1>9. cs \in Seq(CellDef) /\ Len(cs) = n
  BY <1>1, <1>8, SeqIs
<1>10. ASSUME NEW j \in 1 .. n
       PROVE  /\ cs[j].p = ps[j] /\ cs[j].r \in Region /\ cs[j].r.Y = strip.Y /\ cs[j].r.H = strip.H
              /\ cs[j].r.W >= ps[j].minW /\ cs[j].r.X >= strip.X /\ Right(cs[j].r) <= Right(strip)
  <2>1. at[j] \in Region /\ at[j].Y = strip.Y /\ at[j].H = strip.H /\ at[j].X >= strip.X /\ Right(at[j]) <= Right(strip)
    BY <1>3 DEF Across
  <2>2. at[j].W >= ps[j].minW
    BY <1>2, <1>3
  <2>3. cs[j].p = ps[j] /\ cs[j].r = at[j]
    BY <1>7
  <2> QED BY <2>1, <2>2, <2>3
<1>11. ASSUME NEW i \in 1 .. n, NEW j \in 1 .. n, i < j PROVE Right(cs[i].r) <= cs[j].r.X
  <2>1. Right(at[i]) <= at[j].X
    BY <1>3, <1>11 DEF Across
  <2> QED BY <1>7, <2>1
<1>12. ASSUME NEW x \in Int, strip.X <= x, x < Right(strip)
       PROVE  \E j \in 1 .. n : cs[j].r.X <= x /\ x < Right(cs[j].r)
  <2>1. PICK j \in 1 .. n : at[j].X <= x /\ x < Right(at[j])
    BY <1>3, <1>12 DEF Across
  <2> QED BY <1>7, <2>1
<1> QED BY <1>9, <1>10, <1>11, <1>12

-----------------------------------------------------------------------------
(* The band a panel belongs to.                                            *)
Home(n) ==
  IF n \in {"mining", "history", "network"} THEN 1
  ELSE IF n \in {"cpu", "gpu", "shares"} THEN 2
  ELSE IF n \in {"blockchain", "system", "log"} THEN 3 ELSE 4

LEMMA HomeIs == \A b \in 1 .. 4 : \A n \in Names(b) : Home(n) = b
<1>1. /\ dashboardBands[1].panels = <<panelDef("mining", 32, 30), panelDef("history", 30, 34), panelDef("network", 32, 36)>>
      /\ dashboardBands[2].panels = <<panelDef("cpu", 28, 30), panelDef("gpu", 28, 34), panelDef("shares", 30, 36)>>
      /\ dashboardBands[3].panels = <<panelDef("blockchain", 26, 26), panelDef("system", 26, 27), panelDef("log", 36, 47)>>
      /\ dashboardBands[4].panels = <<panelDef("threads", 24, 28), panelDef("status", 26, 33), panelDef("quick", 22, 24),
                                      panelDef("connection", 16, 15)>>
  BY DEF dashboardBands, bandDef
<1>2. \A n, w, g : panelDef(n, w, g).name = n
  BY DEF panelDef
<1>3. ASSUME NEW p, NEW q, NEW r, NEW b, dashboardBands[b].panels = <<p, q, r>>
      PROVE  Names(b) = {p.name, q.name, r.name}
  <2> DEFINE ps == <<p, q, r>>
  <2>1. DOMAIN ps = {1, 2, 3} /\ ps[1] = p /\ ps[2] = q /\ ps[3] = r
    OBVIOUS
  <2>2. Names(b) = {ps[i].name : i \in DOMAIN ps}
    BY <1>3 DEF Names
  <2> HIDE DEF ps
  <2> QED BY <2>1, <2>2
<1>4. ASSUME NEW p, NEW q, NEW r, NEW s, NEW b, dashboardBands[b].panels = <<p, q, r, s>>
      PROVE  Names(b) = {p.name, q.name, r.name, s.name}
  <2> DEFINE ps == <<p, q, r, s>>
  <2>1. DOMAIN ps = {1, 2, 3, 4} /\ ps[1] = p /\ ps[2] = q /\ ps[3] = r /\ ps[4] = s
    OBVIOUS
  <2>2. Names(b) = {ps[i].name : i \in DOMAIN ps}
    BY <1>4 DEF Names
  <2> HIDE DEF ps
  <2> QED BY <2>1, <2>2
<1>5. /\ Names(1) = {"mining", "history", "network"} /\ Names(2) = {"cpu", "gpu", "shares"}
      /\ Names(3) = {"blockchain", "system", "log"}
  BY <1>1, <1>2, <1>3
<1>6. Names(4) = {"threads", "status", "quick", "connection"}
  BY <1>1, <1>2, <1>4
<1>7. /\ \A n \in Names(1) : Home(n) = 1
      /\ \A n \in Names(2) : Home(n) = 2
      /\ \A n \in Names(3) : Home(n) = 3
      /\ \A n \in Names(4) : Home(n) = 4
  BY <1>5, <1>6 DEF Home
<1>8. \A b \in 1 .. 4 : b = 1 \/ b = 2 \/ b = 3 \/ b = 4
  OBVIOUS
<1> QED BY <1>7, <1>8

LEMMA NamesAre ==
  ASSUME NEW b \in 1 .. 4
  PROVE  (\A p \in PanelsOf(b) : p.name \in Names(b)) /\ First(b) \in Names(b)
<1>1. \A p \in PanelsOf(b) : p.name \in Names(b)
  BY DEF PanelsOf, Names
<1>2. 1 \in DOMAIN dashboardBands[b].panels
  <2>1. dashboardBands[b].panels \in Seq(PanelsOf(b)) /\ Len(dashboardBands[b].panels) >= 1
    BY PanelsAre
  <2> DEFINE ps == dashboardBands[b].panels
  <2> HIDE DEF ps
  <2>2. ps \in Seq(PanelsOf(b)) /\ Len(ps) >= 1
    BY <2>1 DEF ps
  <2>3. 1 \in DOMAIN ps
    BY <2>2
  <2> QED BY <2>3 DEF ps
<1> QED BY <1>1, <1>2 DEF First, Names

(* The cells of a plan and where they are: the j-th of the i-th row.       *)
RowOf(body, hs, rows, i) == RowCells(Strip(body, hs, i), rows[i].panels)

Cut(body, rows, hs) ==
  /\ rows \in Seq(RowDef) /\ Nats(hs, Len(rows)) /\ Before(hs, Len(rows) + 1) = body.H
  /\ \A i \in 1 .. Len(rows) : hs[i] >= 5 /\ Fits(rows[i], body.W)

RowFacts(cs, body, rows, hs, i) ==
  LET strip == Strip(body, hs, i)  n == Len(rows[i].panels)
  IN  /\ cs \in Seq(CellDef) /\ Len(cs) = n /\ n \in Nat /\ n >= 1
      /\ \A j \in 1 .. n :
           /\ cs[j].p = rows[i].panels[j] /\ cs[j].p \in PanelsOf(rows[i].band) /\ cs[j].r \in Region
           /\ cs[j].r.Y = strip.Y /\ Bottom(cs[j].r) = Bottom(strip)
           /\ cs[j].r.W >= cs[j].p.minW /\ cs[j].r.H >= 5 /\ Within(cs[j].r, body) /\ ~ Empty(cs[j].r)
      /\ \A j, k \in 1 .. n : j < k => Right(cs[j].r) <= cs[k].r.X
      /\ \A x \in Int : body.X <= x /\ x < Right(body) =>
           \E j \in 1 .. n : cs[j].r.X <= x /\ x < Right(cs[j].r)

LEMMA RowOfIs ==
  ASSUME NEW body \in Region, NEW rows, NEW hs, Cut(body, rows, hs), NEW i \in 1 .. Len(rows),
         NEW cs, cs = RowOf(body, hs, rows, i)
  PROVE  RowFacts(cs, body, rows, hs, i)
<1> DEFINE strip == Strip(body, hs, i)
           ps == rows[i].panels
           n == Len(ps)
<1>1. /\ strip \in Region /\ strip.X = body.X /\ strip.W = body.W /\ strip.H = hs[i] /\ strip.Y >= body.Y
      /\ Bottom(strip) <= Bottom(body)
  <2>1. Len(rows) \in Nat
    BY DEF Cut
  <2> QED BY <2>1, StripsAre DEF Cut
<1>2. rows[i] \in RowDef /\ ps \in Seq(PanelsOf(rows[i].band)) /\ n >= 1 /\ WidthOf(ps) <= body.W /\ hs[i] >= 5
  BY DEF Cut, Fits
<1>3. ps \in Seq(PanelDef) /\ rows[i].band \in 1 .. 4
  BY <1>2, Zenon DEF RowDef
<1>4. cs = RowCells(strip, ps)
  BY DEF RowOf
<1> HIDE DEF strip, ps
<1>5. n \in Nat /\ (\A j \in 1 .. n : ps[j] \in PanelsOf(rows[i].band) /\ ps[j] \in PanelDef)
  BY <1>2, <1>3
<1>6. WidthOf(ps) <= strip.W
  BY <1>1, <1>2
<1>7. /\ cs \in Seq(CellDef) /\ Len(cs) = n
      /\ \A j \in 1 .. n :
           /\ cs[j].p = ps[j] /\ cs[j].r \in Region /\ cs[j].r.Y = strip.Y /\ cs[j].r.H = strip.H
           /\ cs[j].r.W >= ps[j].minW /\ cs[j].r.X >= strip.X /\ Right(cs[j].r) <= Right(strip)
      /\ \A j, k \in 1 .. n : j < k => Right(cs[j].r) <= cs[k].r.X
      /\ \A x \in Int : strip.X <= x /\ x < Right(strip) =>
           \E j \in 1 .. n : cs[j].r.X <= x /\ x < Right(cs[j].r)
  BY <1>1, <1>2, <1>3, <1>4, <1>6, RowCellsAre, ZenonT(60)
<1>8. ASSUME NEW j \in 1 .. n
      PROVE  /\ cs[j].p = ps[j] /\ cs[j].p \in PanelsOf(rows[i].band) /\ cs[j].r \in Region
             /\ cs[j].r.Y = strip.Y /\ Bottom(cs[j].r) = Bottom(strip)
             /\ cs[j].r.W >= cs[j].p.minW /\ cs[j].r.H >= 5 /\ Within(cs[j].r, body) /\ ~ Empty(cs[j].r)
  <2> DEFINE c == cs[j].r
  <2>1. cs[j].p = ps[j] /\ c \in Region /\ c.Y = strip.Y /\ c.H = strip.H /\ c.W >= ps[j].minW /\ c.X >= strip.X
        /\ Right(c) <= Right(strip)
    BY <1>7
  <2>2. ps[j] \in PanelsOf(rows[i].band) /\ ps[j].minW \in 1 .. 54
    BY <1>5, PanelWidth
  <2> HIDE DEF c
  <2>3. c.X \in Int /\ c.Y \in Int /\ c.W \in Nat /\ c.H \in Nat
    BY <2>1 DEF Region
  <2>4. body.X \in Int /\ body.Y \in Int /\ body.W \in Nat /\ body.H \in Nat
    BY DEF Region
  <2>5. c.H >= 5 /\ Bottom(c) = Bottom(strip)
    BY <1>1, <1>2, <2>1 DEF Bottom
  <2>6. Within(c, body)
    <3>1. Right(strip) = Right(body)
      BY <1>1 DEF Right
    <3> QED BY <1>1, <2>1, <2>5, <3>1 DEF Within
  <2>7. ~ Empty(c)
    <3>0. \A m \in 1 .. 54 : \A k \in Nat : k >= m => k > 0
      OBVIOUS
    <3>1. c.W > 0
      BY <2>1, <2>2, <2>3, <3>0
    <3> QED BY <2>3, <2>5, <3>1 DEF Empty
  <2> QED BY <2>1, <2>2, <2>5, <2>6, <2>7 DEF c
<1>9. Right(strip) = Right(body) /\ strip.X = body.X
  BY <1>1 DEF Right
<1>10. \A x \in Int : body.X <= x /\ x < Right(body) => \E j \in 1 .. n : cs[j].r.X <= x /\ x < Right(cs[j].r)
  BY <1>7, <1>9
<1>11. \A j, k \in 1 .. n : j < k => Right(cs[j].r) <= cs[k].r.X
  BY <1>7
<1> QED BY <1>2, <1>5, <1>7, <1>8, <1>10, <1>11, Zenon DEF RowFacts, strip, ps

-----------------------------------------------------------------------------
(* What a plan does.                                                       *)
Inside(x, y, r) == r.X <= x /\ x < Right(r) /\ r.Y <= y /\ y < Bottom(r)

Tiles(cs, body) ==
  /\ cs \in Seq(CellDef)
  /\ \A k \in 1 .. Len(cs) : Within(cs[k].r, body) /\ cs[k].r.W >= cs[k].p.minW /\ cs[k].r.H >= 5
  /\ \A k, l \in 1 .. Len(cs) : k # l => Apart(cs[k].r, cs[l].r)
  /\ \A x, y \in Int : Inside(x, y, body) => \E k \in 1 .. Len(cs) : Inside(x, y, cs[k].r)
  /\ \A b \in 1 .. 4 : \A k, l \in 1 .. Len(cs) :
       cs[k].p.name \in Names(b) /\ cs[l].p.name = First(b) /\ cs[k].r.Y > cs[l].r.Y =>
         \A a \in 1 .. 4 : \E m \in 1 .. Len(cs) : cs[m].p.name = First(a)

LEMMA CellsTile ==
  ASSUME NEW body \in Region, NEW h, NEW rows, KeptRows(rows, body.W, h), NEW hs, Cut(body, rows, hs),
         NEW ss, Len(ss) = Len(rows), \A i \in 1 .. Len(rows) : ss[i] = RowOf(body, hs, rows, i),
         NEW cells, cells = FlattenSeq(ss), NEW cs, cs = Picked(cells, {k \in DOMAIN cells : ~ Empty(cells[k].r)})
  PROVE  Tiles(cs, body)
<1> DEFINE n == Len(rows)
           strip(i) == Strip(body, hs, i)
           m(i) == Len(rows[i].panels)
           C(i, j) == ss[i][j]
<1>1. n \in Nat /\ n >= 1 /\ n \in Nat \ {0}
  BY DEF KeptRows
<1>2. ASSUME NEW i \in 1 .. n
      PROVE  /\ ss[i] \in Seq(CellDef) /\ Len(ss[i]) = m(i) /\ m(i) \in Nat /\ m(i) >= 1
             /\ \A j \in 1 .. m(i) :
                  /\ C(i, j).p = rows[i].panels[j] /\ C(i, j).p \in PanelsOf(rows[i].band) /\ C(i, j).r \in Region
                  /\ C(i, j).r.Y = strip(i).Y /\ Bottom(C(i, j).r) = Bottom(strip(i))
                  /\ C(i, j).r.W >= C(i, j).p.minW /\ C(i, j).r.H >= 5 /\ Within(C(i, j).r, body) /\ ~ Empty(C(i, j).r)
             /\ \A j, k \in 1 .. m(i) : j < k => Right(C(i, j).r) <= C(i, k).r.X
             /\ \A x \in Int : body.X <= x /\ x < Right(body) =>
                  \E j \in 1 .. m(i) : C(i, j).r.X <= x /\ x < Right(C(i, j).r)
  <2>1. ss[i] = RowOf(body, hs, rows, i)
    OBVIOUS
  <2>2. RowFacts(ss[i], body, rows, hs, i)
    BY <2>1, RowOfIs
  <2> QED BY <2>2, Zenon DEF RowFacts
<1>3. /\ cells \in Seq(CellDef)
      /\ \A i \in 1 .. n : \A j \in 1 .. m(i) : Place(ss, i, j) \in 1 .. Len(cells) /\ cells[Place(ss, i, j)] = C(i, j)
      /\ \A k \in 1 .. Len(cells) : \E i \in 1 .. n : \E j \in 1 .. m(i) : k = Place(ss, i, j)
  <2>1. Len(ss) \in Nat \ {0} /\ \A i \in 1 .. Len(ss) : ss[i] \in Seq(CellDef)
    BY <1>1, <1>2
  <2>2. /\ FlattenSeq(ss) \in Seq(CellDef)
        /\ \A i \in 1 .. Len(ss) : \A j \in 1 .. Len(ss[i]) :
             Place(ss, i, j) \in 1 .. Len(FlattenSeq(ss)) /\ FlattenSeq(ss)[Place(ss, i, j)] = ss[i][j]
        /\ \A k \in 1 .. Len(FlattenSeq(ss)) : \E i \in 1 .. Len(ss) : \E j \in 1 .. Len(ss[i]) : k = Place(ss, i, j)
    BY <2>1, FlattenPlaces
  <2>3. \A i \in 1 .. n : Len(ss[i]) = m(i)
    BY <1>2
  <2> HIDE DEF m
  <2> QED BY <2>2, <2>3
<1> DEFINE I == {k \in DOMAIN cells : ~ Empty(cells[k].r)}
<1>4. PICK at : cs \in Seq(CellDef) /\ Selects(cs, at, cells, I, Len(cells))
  BY <1>3, PickedIs
<1>5. ASSUME NEW k \in 1 .. Len(cs)
      PROVE  \E i \in 1 .. n : \E j \in 1 .. m(i) : at[k] = Place(ss, i, j) /\ cs[k] = C(i, j)
  <2>1. at[k] \in 1 .. Len(cells) /\ cs[k] = cells[at[k]]
    BY <1>4 DEF Selects
  <2> HIDE DEF m, C
  <2>2. PICK i \in 1 .. n : \E j \in 1 .. m(i) : at[k] = Place(ss, i, j)
    BY <1>3, <2>1
  <2>3. PICK j \in 1 .. m(i) : at[k] = Place(ss, i, j)
    BY <2>2
  <2> QED BY <1>3, <2>1, <2>3, ZenonT(60)
<1>6. ASSUME NEW i \in 1 .. n, NEW j \in 1 .. m(i) PROVE \E k \in 1 .. Len(cs) : cs[k] = C(i, j)
  <2>1. Place(ss, i, j) \in 1 .. Len(cells) /\ cells[Place(ss, i, j)] = C(i, j) /\ ~ Empty(C(i, j).r)
    BY <1>2, <1>3
  <2>2. DOMAIN cells = 1 .. Len(cells)
    BY <1>3
  <2> HIDE DEF C, m
  <2>3. Place(ss, i, j) \in I
    BY <2>1, <2>2
  <2> HIDE DEF I
  <2>4. PICK k \in 1 .. Len(cs) : at[k] = Place(ss, i, j)
    BY <1>4, <2>1, <2>3 DEF Selects
  <2>5. cs[k] = cells[at[k]]
    BY <1>4 DEF Selects
  <2> QED BY <2>1, <2>4, <2>5
<1>7. \A k, l \in 1 .. Len(cs) : k < l => at[k] < at[l]
  BY <1>4 DEF Selects
<1> HIDE DEF C, m, I
<1>8. ASSUME NEW k \in 1 .. Len(cs) PROVE Within(cs[k].r, body) /\ cs[k].r.W >= cs[k].p.minW /\ cs[k].r.H >= 5
  <2>1. PICK i \in 1 .. n : \E j \in 1 .. m(i) : cs[k] = C(i, j)
    BY <1>5
  <2> QED BY <1>2, <2>1
<1>9. ASSUME NEW i \in 1 .. n, NEW p \in 1 .. m(i), NEW j \in 1 .. n, NEW q \in 1 .. m(j), i # j \/ p # q
      PROVE  Apart(C(i, p).r, C(j, q).r)
  <2>1. /\ \A x, y \in 1 .. n : x < y => Bottom(strip(x)) <= strip(y).Y
    BY <1>1, StripsAre DEF Cut
  <2>2. /\ C(i, p).r.Y = strip(i).Y /\ Bottom(C(i, p).r) = Bottom(strip(i))
        /\ C(j, q).r.Y = strip(j).Y /\ Bottom(C(j, q).r) = Bottom(strip(j))
    BY <1>2
  <2> HIDE DEF strip
  <2>3. CASE i = j
    <3>1. \A x, y \in 1 .. m(i) : x < y => Right(C(i, x).r) <= C(i, y).r.X
      BY <1>2
    <3>2. p \in Nat /\ q \in Nat /\ p # q /\ q \in 1 .. m(i)
      BY <1>2, <1>9, <2>3
    <3>3. p < q \/ q < p
      BY <3>2
    <3> QED BY <2>3, <3>1, <3>2, <3>3 DEF Apart
  <2>4. CASE i < j
    <3>1. Bottom(C(i, p).r) <= C(j, q).r.Y
      BY <2>1, <2>2, <2>4
    <3> QED BY <3>1 DEF Apart
  <2>5. CASE j < i
    <3>1. Bottom(C(j, q).r) <= C(i, p).r.Y
      BY <2>1, <2>2, <2>5
    <3> QED BY <3>1 DEF Apart
  <2> QED BY <2>3, <2>4, <2>5
<1>10. ASSUME NEW k \in 1 .. Len(cs), NEW l \in 1 .. Len(cs), k # l PROVE Apart(cs[k].r, cs[l].r)
  <2>0. Len(cs) \in Nat
    BY <1>4
  <2>1. PICK i \in 1 .. n : \E j \in 1 .. m(i) : at[k] = Place(ss, i, j) /\ cs[k] = C(i, j)
    BY <1>5
  <2>2. PICK p \in 1 .. m(i) : at[k] = Place(ss, i, p) /\ cs[k] = C(i, p)
    BY <2>1
  <2>3. PICK j \in 1 .. n : \E q \in 1 .. m(j) : at[l] = Place(ss, j, q) /\ cs[l] = C(j, q)
    BY <1>5
  <2>4. PICK q \in 1 .. m(j) : at[l] = Place(ss, j, q) /\ cs[l] = C(j, q)
    BY <2>3
  <2>5. at[k] # at[l]
    <3>1. k < l \/ l < k
      BY <1>10, <2>0
    <3>2. at[k] \in 1 .. Len(cells) /\ at[l] \in 1 .. Len(cells)
      BY <1>4 DEF Selects
    <3>3. at[k] < at[l] \/ at[l] < at[k]
      BY <1>7, <3>1
    <3> QED BY <3>2, <3>3
  <2>6. i # j \/ p # q
    BY <2>2, <2>4, <2>5
  <2> QED BY <1>9, <2>2, <2>4, <2>6
<1>11. ASSUME NEW x \in Int, NEW y \in Int, Inside(x, y, body)
       PROVE  \E k \in 1 .. Len(cs) : Inside(x, y, cs[k].r)
  <2>1. PICK i \in 1 .. n : strip(i).Y <= y /\ y < Bottom(strip(i))
    BY <1>1, <1>11, StripsAre DEF Cut, Inside
  <2> HIDE DEF strip
  <2>2. PICK j \in 1 .. m(i) : C(i, j).r.X <= x /\ x < Right(C(i, j).r)
    BY <1>2, <1>11 DEF Inside
  <2>3. PICK k \in 1 .. Len(cs) : cs[k] = C(i, j)
    BY <1>6
  <2>4. Inside(x, y, C(i, j).r)
    BY <1>2, <2>1, <2>2 DEF Inside
  <2> QED BY <2>3, <2>4
<1>12. ASSUME NEW b \in 1 .. 4, NEW k \in 1 .. Len(cs), NEW l \in 1 .. Len(cs), cs[k].p.name \in Names(b),
              cs[l].p.name = First(b), cs[k].r.Y > cs[l].r.Y, NEW a \in 1 .. 4
       PROVE  \E x \in 1 .. Len(cs) : cs[x].p.name = First(a)
  <2>1. PICK i \in 1 .. n : \E j \in 1 .. m(i) : cs[k] = C(i, j)
    BY <1>5
  <2>2. PICK j \in 1 .. n : \E q \in 1 .. m(j) : cs[l] = C(j, q)
    BY <1>5
  <2>3. cs[k].p \in PanelsOf(rows[i].band) /\ cs[k].r.Y = strip(i).Y
    BY <1>2, <2>1
  <2>4. cs[l].p \in PanelsOf(rows[j].band) /\ cs[l].r.Y = strip(j).Y
    BY <1>2, <2>2
  <2>5. i # j
    <3>1. strip(i).Y \in Int
      BY <1>1, StripsAre DEF Cut, Region
    <3> HIDE DEF strip
    <3> QED BY <1>12, <2>3, <2>4, <3>1
  <2> HIDE DEF strip
  <2>6. rows[i].band \in 1 .. 4 /\ rows[j].band \in 1 .. 4
    <3>1. \A r \in RowDef : r.band \in 1 .. 4
      BY DEF RowDef
    <3>2. rows[i] \in RowDef /\ rows[j] \in RowDef
      BY DEF KeptRows
    <3> QED BY <3>1, <3>2
  <2>7. rows[i].band = b /\ rows[j].band = b
    <3>1. cs[k].p.name \in Names(rows[i].band) /\ cs[l].p.name \in Names(rows[j].band) /\ First(b) \in Names(b)
      BY <2>3, <2>4, <2>6, NamesAre
    <3> QED BY <1>12, <2>6, <3>1, HomeIs, SMTT(40)
  <2>8. rows[i].ord # 1 \/ rows[j].ord # 1
    <3>1. \A x, y \in 1 .. n : rows[x].band = rows[y].band /\ rows[x].ord = rows[y].ord => x = y
      BY DEF KeptRows
    <3> QED BY <2>5, <2>7, <3>1
  <2>9. PICK x \in 1 .. n : rows[x].band = a /\ rows[x].panels[1] = dashboardBands[a].panels[1]
    <3>1. \E x \in 1 .. n : rows[x].ord # 1
      BY <2>8
    <3> QED BY <3>1 DEF KeptRows
  <2>10. 1 \in 1 .. m(x)
    BY <1>2
  <2>11. C(x, 1).p = dashboardBands[a].panels[1]
    BY <1>2, <2>9, <2>10
  <2>12. PICK y \in 1 .. Len(cs) : cs[y] = C(x, 1)
    BY <1>6, <2>10
  <2> QED BY <2>11, <2>12 DEF First
<1> QED BY <1>4, <1>8, <1>10, <1>11, <1>12, ZenonT(60) DEF Tiles

LEMMA PlanTiles ==
  ASSUME NEW body \in Region, body.W >= 54, body.H >= 5
  PROVE  Tiles(planBands(body, dashboardBands), body)
<1> DEFINE rows == Kept(PackedRows(body.W, dashboardBands), body.H)
           hs == RowHeights(rows, body.H, dashboardBands)
           ss == [i \in DOMAIN rows |-> RowOf(body, hs, rows, i)]
           cells == FlattenSeq(ss)
           cs == Picked(cells, {k \in DOMAIN cells : ~ Empty(cells[k].r)})
<1>1. body.W \in Nat /\ body.H \in Nat
  BY DEF Region
<1>2. KeptRows(rows, body.W, body.H)
  BY <1>1, PackedRowsAre, KeptIs
<1> HIDE DEF rows
<1>3. rows \in Seq(RowDef) /\ Len(rows) >= 1 /\ 5 * Len(rows) <= body.H /\ DOMAIN rows = 1 .. Len(rows) /\ Len(rows) \in Nat
  BY <1>2 DEF KeptRows
<1>4. Cut(body, rows, hs)
  <2>1. Nats(hs, Len(rows)) /\ Before(hs, Len(rows) + 1) = body.H /\ \A i \in 1 .. Len(rows) : hs[i] >= 5
    BY <1>1, <1>3, RowHeightsAre
  <2> HIDE DEF hs
  <2>2. \A i \in 1 .. Len(rows) : Fits(rows[i], body.W)
    BY <1>2 DEF KeptRows
  <2> QED BY <1>3, <2>1, <2>2 DEF Cut
<1>5. rows # <<>>
  BY <1>3
<1>6. planBands(body, dashboardBands) = cs
  <2> HIDE DEF hs
  <2>1. planBands(body, dashboardBands) = IF rows = <<>> THEN <<>> ELSE cs
    BY Zenon DEF planBands, RowOf, RowCells, Strip, rows, hs
  <2> QED BY <1>5, <2>1
<1> HIDE DEF hs
<1>7. Len(ss) = Len(rows) /\ \A i \in 1 .. Len(rows) : ss[i] = RowOf(body, hs, rows, i)
  BY <1>3
<1> HIDE DEF ss, cells, cs
<1>8. cells = FlattenSeq(ss) /\ cs = Picked(cells, {k \in DOMAIN cells : ~ Empty(cells[k].r)})
  BY DEF cells, cs
<1>9. Tiles(cs, body)
  BY <1>2, <1>4, <1>7, <1>8, CellsTile
<1> QED BY <1>6, <1>9

-----------------------------------------------------------------------------
(* A panel is at the region it was given.                                  *)
LEMMA PanelAt ==
  /\ \A r, s : panelMining(r, s).at = r
  /\ \A r, s : panelHistory(r, s).at = r
  /\ \A r, s : panelNetwork(r, s).at = r
  /\ \A r, s : panelCPU(r, s).at = r
  /\ \A r, s : panelGPU(r, s).at = r
  /\ \A r, s : panelShares(r, s).at = r
  /\ \A r, s : panelBlockchain(r, s).at = r
  /\ \A r, s : panelSystem(r, s).at = r
  /\ \A r, s : panelLog(r, s).at = r
  /\ \A r, s : panelThreads(r, s).at = r
  /\ \A r, s : panelStatus(r, s).at = r
  /\ \A r, s : panelQuick(r, s).at = r
  /\ \A r, s : panelConnection(r, s).at = r
  /\ \A r, s : panelDevices(r, s).at = r
  /\ \A r, s : panelSessionTotals(r, s).at = r
  /\ \A r, s : panelRateSummary(r, s).at = r
  /\ \A r, s : panelNodeDetail(r, s).at = r
  /\ \A r, s : panelJob(r, s).at = r
  /\ \A r, w : panelHint(r, w).at = r
  /\ \A r, s : panelThreadSummary(r, s).at = r
<1>1. \A r, s : panelMining(r, s).at = r BY DEF panelMining, Panel
<1>2. \A r, s : panelHistory(r, s).at = r BY DEF panelHistory, Panel
<1>3. \A r, s : panelNetwork(r, s).at = r BY DEF panelNetwork, Panel
<1>4. \A r, s : panelCPU(r, s).at = r BY DEF panelCPU, Panel
<1>5. \A r, s : panelGPU(r, s).at = r BY DEF panelGPU, Panel
<1>6. \A r, s : panelShares(r, s).at = r BY DEF panelShares, Panel
<1>7. \A r, s : panelBlockchain(r, s).at = r BY DEF panelBlockchain, Panel
<1>8. \A r, s : panelSystem(r, s).at = r BY DEF panelSystem, Panel
<1>9. \A r, s : panelLog(r, s).at = r BY DEF panelLog, Panel
<1>10. \A r, s : panelThreads(r, s).at = r BY DEF panelThreads, Panel
<1>11. \A r, s : panelStatus(r, s).at = r BY DEF panelStatus, Panel
<1>12. \A r, s : panelQuick(r, s).at = r BY DEF panelQuick, Panel
<1>13. \A r, s : panelConnection(r, s).at = r BY DEF panelConnection, Panel
<1>14. \A r, s : panelDevices(r, s).at = r BY DEF panelDevices, Panel
<1>15. \A r, s : panelSessionTotals(r, s).at = r BY DEF panelSessionTotals, Panel
<1>16. \A r, s : panelRateSummary(r, s).at = r BY DEF panelRateSummary, Panel
<1>17. \A r, s : panelNodeDetail(r, s).at = r BY DEF panelNodeDetail, Panel
<1>18. \A r, s : panelJob(r, s).at = r BY DEF panelJob, Panel
<1>19. \A r, w : panelHint(r, w).at = r BY DEF panelHint, Panel
<1>20. \A r, s : panelThreadSummary(r, s).at = r BY DEF panelThreadSummary, Panel
<1> QED BY <1>1, <1>2, <1>3, <1>4, <1>5, <1>6, <1>7, <1>8, <1>9, <1>10, <1>11, <1>12, <1>13, <1>14, <1>15, <1>16, <1>17, <1>18, <1>19, <1>20

-----------------------------------------------------------------------------
(* Panels that are laid out in r: inside of it and clear of each other.    *)
LaidOut(ps, r) ==
  /\ \E E : ps \in Seq(E)
  /\ \A i \in 1 .. Len(ps) : ps[i].at \in Region /\ Within(ps[i].at, r)
  /\ \A i, j \in 1 .. Len(ps) : i < j => Apart(ps[i].at, ps[j].at)

LEMMA RegionIs == \A r \in Region : r.X \in Int /\ r.Y \in Int /\ r.W \in Nat /\ r.H \in Nat
  BY DEF Region

LEMMA WithinTrans ==
  ASSUME NEW a \in Region, NEW b \in Region, NEW c \in Region, Within(a, b), Within(b, c)
  PROVE  Within(a, c)
<1>1. a.X \in Int /\ a.Y \in Int /\ a.W \in Nat /\ a.H \in Nat /\ b.X \in Int /\ b.Y \in Int /\ b.W \in Nat /\ b.H \in Nat
      /\ c.X \in Int /\ c.Y \in Int /\ c.W \in Nat /\ c.H \in Nat
  BY RegionIs
<1> QED BY <1>1 DEF Within, Right, Bottom

LEMMA ApartInside ==
  ASSUME NEW a \in Region, NEW b \in Region, NEW r \in Region, NEW q \in Region,
         Within(a, r), Within(b, q), Apart(r, q)
  PROVE  Apart(a, b)
<1>1. a.X \in Int /\ a.Y \in Int /\ a.W \in Nat /\ a.H \in Nat /\ b.X \in Int /\ b.Y \in Int /\ b.W \in Nat /\ b.H \in Nat
      /\ r.X \in Int /\ r.Y \in Int /\ r.W \in Nat /\ r.H \in Nat /\ q.X \in Int /\ q.Y \in Int /\ q.W \in Nat /\ q.H \in Nat
  BY RegionIs
<1> QED BY <1>1 DEF Within, Apart, Right, Bottom

LEMMA NothingLaid == \A r : LaidOut(<<>>, r)
<1>1. <<>> \in Seq({}) /\ Len(<<>>) = 0 /\ 1 .. 0 = {}
  OBVIOUS
<1> QED BY <1>1, Zenon DEF LaidOut

LEMMA LaidWithin ==
  ASSUME NEW ps, NEW r \in Region, NEW q \in Region, LaidOut(ps, r), Within(r, q) PROVE LaidOut(ps, q)
<1>1. \A i \in 1 .. Len(ps) : ps[i].at \in Region /\ Within(ps[i].at, q)
  BY WithinTrans DEF LaidOut
<1> QED BY <1>1, Zenon DEF LaidOut

LEMMA LaidJoined ==
  ASSUME NEW ps, NEW qs, NEW r \in Region, NEW q \in Region, NEW b \in Region,
         LaidOut(ps, r), LaidOut(qs, q), Apart(r, q), Within(r, b), Within(q, b)
  PROVE  LaidOut(ps \o qs, b)
<1>1. PICK E1 : ps \in Seq(E1)
  BY DEF LaidOut
<1>2. PICK E2 : qs \in Seq(E2)
  BY DEF LaidOut
<1> DEFINE E == E1 \cup E2
           n == Len(ps)
           m == Len(qs)
           all == ps \o qs
<1>3. ps \in Seq(E) /\ qs \in Seq(E)
  BY <1>1, <1>2
<1> HIDE DEF E
<1>4. all \in Seq(E) /\ Len(all) = n + m /\ n \in Nat /\ m \in Nat
      /\ (\A x \in 1 .. n : all[x] = ps[x]) /\ (\A x \in 1 .. m : all[n + x] = qs[x])
  BY <1>3, JoinIs
<1> HIDE DEF all, n, m
<1>5. \A i \in 1 .. n + m : i \in 1 .. n \/ (i - n \in 1 .. m /\ i = n + (i - n))
  BY <1>4
<1>6. \A i \in 1 .. n : all[i].at = ps[i].at /\ ps[i].at \in Region /\ Within(ps[i].at, r)
  BY <1>4 DEF LaidOut, n
<1>7. \A i \in 1 .. m : all[n + i].at = qs[i].at /\ qs[i].at \in Region /\ Within(qs[i].at, q)
  BY <1>4 DEF LaidOut, m
<1>8. ASSUME NEW i \in 1 .. n + m PROVE all[i].at \in Region /\ Within(all[i].at, b)
  <2>1. CASE i \in 1 .. n
    BY <1>6, <2>1, WithinTrans
  <2>2. CASE i - n \in 1 .. m /\ i = n + (i - n)
    BY <1>7, <2>2, WithinTrans
  <2> QED BY <1>5, <2>1, <2>2
<1>9. ASSUME NEW i \in 1 .. n + m, NEW j \in 1 .. n + m, i < j PROVE Apart(all[i].at, all[j].at)
  <2>1. CASE i \in 1 .. n /\ j \in 1 .. n
    <3>1. Apart(ps[i].at, ps[j].at)
      BY <1>9, <2>1 DEF LaidOut, n
    <3> QED BY <1>6, <2>1, <3>1
  <2>2. CASE i \in 1 .. n /\ j - n \in 1 .. m /\ j = n + (j - n)
    BY <1>6, <1>7, <2>2, ApartInside
  <2>3. CASE i - n \in 1 .. m /\ i = n + (i - n) /\ j - n \in 1 .. m /\ j = n + (j - n)
    <3>1. i - n < j - n
      BY <1>4, <1>9
    <3>2. Apart(qs[i - n].at, qs[j - n].at)
      BY <2>3, <3>1 DEF LaidOut, m
    <3> QED BY <1>7, <2>3, <3>2
  <2>4. CASE i - n \in 1 .. m /\ i = n + (i - n) /\ j \in 1 .. n
    BY <1>4, <1>9, <2>4
  <2> QED BY <1>5, <2>1, <2>2, <2>3, <2>4
<1>10. all \in Seq(E) /\ Len(all) = n + m
  BY <1>4
<1> QED BY <1>8, <1>9, <1>10, Zenon DEF LaidOut, all

(* Panels in columns, and rows of them.                                    *)
LEMMA AcrossApart ==
  ASSUME NEW r \in Region, NEW n \in Nat, NEW cs, Across(cs, n, r)
  PROVE  /\ \A i \in 1 .. n : cs[i] \in Region /\ Within(cs[i], r)
         /\ \A i, j \in 1 .. n : i < j => Apart(cs[i], cs[j])
<1>1. ASSUME NEW i \in 1 .. n PROVE cs[i] \in Region /\ Within(cs[i], r)
  <2>1. cs[i] \in Region /\ cs[i].Y = r.Y /\ cs[i].H = r.H /\ cs[i].X >= r.X /\ Right(cs[i]) <= Right(r)
    BY DEF Across
  <2> QED BY <2>1, RegionIs DEF Within, Bottom
<1>2. ASSUME NEW i \in 1 .. n, NEW j \in 1 .. n, i < j PROVE Apart(cs[i], cs[j])
  BY <1>2 DEF Across, Apart
<1> QED BY <1>1, <1>2

LEMMA DownApart ==
  ASSUME NEW r \in Region, NEW n \in Nat, NEW cs, Down(cs, n, r)
  PROVE  /\ \A i \in 1 .. n : cs[i] \in Region /\ Within(cs[i], r)
         /\ \A i, j \in 1 .. n : i < j => Apart(cs[i], cs[j])
<1>1. ASSUME NEW i \in 1 .. n PROVE cs[i] \in Region /\ Within(cs[i], r)
  <2>1. cs[i] \in Region /\ cs[i].X = r.X /\ cs[i].W = r.W /\ cs[i].Y >= r.Y /\ Bottom(cs[i]) <= Bottom(r)
    BY DEF Down
  <2> QED BY <2>1, RegionIs DEF Within, Right
<1>2. ASSUME NEW i \in 1 .. n, NEW j \in 1 .. n, i < j PROVE Apart(cs[i], cs[j])
  BY <1>2 DEF Down, Apart
<1> QED BY <1>1, <1>2

LEMMA OneLaid == ASSUME NEW r \in Region, NEW a, a.at = r PROVE LaidOut(<<a>>, r)
<1> DEFINE ps == <<a>>
<1>1. ps \in Seq({a}) /\ Len(ps) = 1 /\ ps[1] = a
  OBVIOUS
<1> HIDE DEF ps
<1>2. Within(r, r)
  BY RegionIs DEF Within, Right, Bottom
<1>3. \A i \in 1 .. Len(ps) : i = 1
  BY <1>1
<1>4. \A i \in 1 .. Len(ps) : ps[i].at \in Region /\ Within(ps[i].at, r)
  BY <1>1, <1>2, <1>3
<1>5. \A i, j \in 1 .. Len(ps) : ~ (i < j)
  BY <1>1
<1> QED BY <1>1, <1>4, <1>5, Zenon DEF LaidOut, ps

LEMMA TwoLaid ==
  ASSUME NEW r \in Region, NEW cs, Across(cs, 2, r), NEW a, NEW b, a.at = cs[1], b.at = cs[2]
  PROVE  LaidOut(<<a, b>>, r)
<1> DEFINE ps == <<a, b>>
<1>1. ps \in Seq({a, b}) /\ Len(ps) = 2 /\ ps[1] = a /\ ps[2] = b
  OBVIOUS
<1> HIDE DEF ps
<1>2. \A i \in 1 .. 2 : ps[i].at = cs[i]
  <2>1. \A i \in 1 .. 2 : i = 1 \/ i = 2
    OBVIOUS
  <2> QED BY <1>1, <2>1
<1>3. /\ \A i \in 1 .. 2 : cs[i] \in Region /\ Within(cs[i], r)
      /\ \A i, j \in 1 .. 2 : i < j => Apart(cs[i], cs[j])
  BY AcrossApart
<1>4. /\ \A i \in 1 .. Len(ps) : ps[i].at \in Region /\ Within(ps[i].at, r)
      /\ \A i, j \in 1 .. Len(ps) : i < j => Apart(ps[i].at, ps[j].at)
  BY <1>1, <1>2, <1>3
<1> QED BY <1>1, <1>4, Zenon DEF LaidOut, ps

LEMMA ThreeLaid ==
  ASSUME NEW r \in Region, NEW cs, Across(cs, 3, r), NEW a, NEW b, NEW c, a.at = cs[1], b.at = cs[2], c.at = cs[3]
  PROVE  LaidOut(<<a, b, c>>, r)
<1> DEFINE ps == <<a, b, c>>
<1>1. ps \in Seq({a, b, c}) /\ Len(ps) = 3 /\ ps[1] = a /\ ps[2] = b /\ ps[3] = c
  OBVIOUS
<1> HIDE DEF ps
<1>2. \A i \in 1 .. 3 : ps[i].at = cs[i]
  <2>1. \A i \in 1 .. 3 : i = 1 \/ i = 2 \/ i = 3
    OBVIOUS
  <2> QED BY <1>1, <2>1
<1>3. /\ \A i \in 1 .. 3 : cs[i] \in Region /\ Within(cs[i], r)
      /\ \A i, j \in 1 .. 3 : i < j => Apart(cs[i], cs[j])
  BY AcrossApart
<1>4. /\ \A i \in 1 .. Len(ps) : ps[i].at \in Region /\ Within(ps[i].at, r)
      /\ \A i, j \in 1 .. Len(ps) : i < j => Apart(ps[i].at, ps[j].at)
  BY <1>1, <1>2, <1>3
<1> QED BY <1>1, <1>4, Zenon DEF LaidOut, ps

LEMMA ColsOfTwo ==
  ASSUME NEW r \in Region, NEW v \in Nat \ {0}, NEW w \in Nat \ {0} PROVE Across(Cols(r, <<v, w>>), 2, r)
<1> DEFINE wt == <<v, w>>
<1>1. DOMAIN wt = 1 .. 2 /\ Len(wt) = 2 /\ wt[1] = v /\ wt[2] = w
  OBVIOUS
<1> HIDE DEF wt
<1>2. Nats(wt, 2)
  <2>1. \A i \in 1 .. 2 : i = 1 \/ i = 2
    OBVIOUS
  <2> QED BY <1>1, <2>1 DEF Nats
<1>3. Before(wt, 1) = 0 /\ Before(wt, 1 + 1) = Before(wt, 1) + wt[1] /\ Before(wt, 2 + 1) = Before(wt, 2) + wt[2]
  BY BeforeFirst, BeforeStep
<1>4. Before(wt, 2 + 1) > 0
  BY <1>1, <1>3
<1>5. 2 \in Nat \ {0}
  OBVIOUS
<1>6. Across(Cols(r, wt), 2, r)
  BY <1>1, <1>2, <1>4, <1>5, ColsIs
<1> QED BY <1>6 DEF wt

LEMMA ColsOfThree ==
  ASSUME NEW r \in Region, NEW u \in Nat \ {0}, NEW v \in Nat \ {0}, NEW w \in Nat \ {0}
  PROVE  Across(Cols(r, <<u, v, w>>), 3, r)
<1> DEFINE wt == <<u, v, w>>
<1>1. DOMAIN wt = 1 .. 3 /\ Len(wt) = 3 /\ wt[1] = u /\ wt[2] = v /\ wt[3] = w
  OBVIOUS
<1> HIDE DEF wt
<1>2. Nats(wt, 3)
  <2>1. \A i \in 1 .. 3 : i = 1 \/ i = 2 \/ i = 3
    OBVIOUS
  <2> QED BY <1>1, <2>1 DEF Nats
<1>3. Before(wt, 1) = 0 /\ Before(wt, 1 + 1) = Before(wt, 1) + wt[1] /\ Before(wt, 2 + 1) = Before(wt, 2) + wt[2]
      /\ Before(wt, 3 + 1) = Before(wt, 3) + wt[3]
  BY BeforeFirst, BeforeStep
<1>4. Before(wt, 3 + 1) > 0
  BY <1>1, <1>3
<1>5. 3 \in Nat \ {0}
  OBVIOUS
<1>6. Across(Cols(r, wt), 3, r)
  BY <1>1, <1>2, <1>4, <1>5, ColsIs
<1> QED BY <1>6 DEF wt

LEMMA TwoStrips ==
  ASSUME NEW r \in Region, NEW g \in Int, NEW h \in Int
  PROVE  LET rows == Rows(r, <<g, h>>)
         IN  /\ rows[1] \in Region /\ Within(rows[1], r) /\ rows[2] \in Region /\ Within(rows[2], r)
             /\ Apart(rows[1], rows[2])
<1> DEFINE hs == <<g, h>>
<1>1. DOMAIN hs = 1 .. 2 /\ Len(hs) = 2 /\ hs[1] = g /\ hs[2] = h
  OBVIOUS
<1> HIDE DEF hs
<1>2. Ints(hs, 2)
  <2>1. \A i \in 1 .. 2 : i = 1 \/ i = 2
    OBVIOUS
  <2> QED BY <1>1, <2>1 DEF Ints
<1>3. Down(Rows(r, hs), 2, r)
  BY <1>1, <1>2, RowsIs
<1> DEFINE rows == Rows(r, hs)
<1> HIDE DEF rows
<1>4. /\ \A i \in 1 .. 2 : rows[i] \in Region /\ Within(rows[i], r)
      /\ \A i, j \in 1 .. 2 : i < j => Apart(rows[i], rows[j])
  BY <1>3, DownApart DEF rows
<1>5. 1 \in 1 .. 2 /\ 2 \in 1 .. 2 /\ 1 < 2
  OBVIOUS
<1> QED BY <1>4, <1>5 DEF rows, hs

-----------------------------------------------------------------------------
(* The screens.                                                            *)
LEMMA LiveIs == ASSUME NEW s PROVE Live(s) \in Seq(1 .. 5) /\ Len(Live(s)) >= 1
<1> DEFINE I == {i \in 1 .. 5 : s.hist[i] >= 2}
           all == <<1, 2, 3, 4, 5>>
           seen == Picked(all, I)
<1>1. all \in Seq(1 .. 5)
  OBVIOUS
<1> HIDE DEF all, I
<1>2. seen \in Seq(1 .. 5)
  BY <1>1, PickedIs
<1>3. Live(s) = IF seen = <<>> THEN <<1>> ELSE seen
  BY DEF Live, all, I
<1> HIDE DEF seen
<1>4. <<1>> \in Seq(1 .. 5) /\ Len(<<1>>) >= 1
  OBVIOUS
<1>5. seen # <<>> => Len(seen) >= 1
  BY <1>2
<1> QED BY <1>2, <1>3, <1>4, <1>5

LEMMA OnesWeigh == ASSUME NEW k \in {1, 2} PROVE Before([j \in 1 .. k |-> 1], k + 1) > 0
<1> DEFINE o == [j \in 1 .. k |-> 1]
<1>1. o[1] = 1 /\ (k = 2 => o[2] = 1)
  OBVIOUS
<1> HIDE DEF o
<1>2. Before(o, 1) = 0 /\ Before(o, 1 + 1) = Before(o, 1) + o[1] /\ Before(o, 2 + 1) = Before(o, 2) + o[2]
  BY BeforeFirst, BeforeStep
<1>3. Before(o, k + 1) > 0
  BY <1>1, <1>2
<1> QED BY <1>3 DEF o

LEMMA ChartsLaid == ASSUME NEW r \in Region, NEW s PROVE LaidOut(Charts(r, s), r)
<1> DEFINE live == Live(s)
           L == Len(live)
           k == IF r.W < 90 THEN 1 ELSE 2
           nRows == (L + k - 1) \div k
           heights == [i \in 1 .. nRows |-> r.H \div nRows]
           strips == Rows(r, heights)
           ones == [j \in 1 .. k |-> 1]
           row(i) == ((i - 1) \div k) + 1
           col(i) == ((i - 1) % k) + 1
           cell(i) == Cols(strips[row(i)], ones)[col(i)]
<1>1. live \in Seq(1 .. 5) /\ L >= 1 /\ L \in Nat /\ DOMAIN live = 1 .. L
  BY LiveIs
<1> HIDE DEF live, L
<1>2. k \in {1, 2}
  OBVIOUS
<1>3. Charts(r, s) = <<>> \/
      \E ps : Charts(r, s) = ps /\ DOMAIN ps = 1 .. L /\ (\A i \in 1 .. L : ps[i].at = cell(i))
              /\ (\E E : ps \in [1 .. L -> E])
  <2> DEFINE lab(i) == histRanges[live[i]].label
             P(i) == Panel(cell(i), 8, lab(i), LAMBDA in : WindowChart(in, s, live[i], 19))
             ps == [i \in 1 .. L |-> P(i)]
  <2>1. Charts(r, s) = IF strips[1].H < 5 THEN <<>> ELSE [i \in DOMAIN live |-> P(i)]
    BY DEF Charts, live, L
  <2>2. \A i \in 1 .. L : P(i).at = cell(i)
    BY DEF Panel
  <2> HIDE DEF P, cell
  <2>3. DOMAIN ps = 1 .. L /\ (\A i \in 1 .. L : ps[i].at = cell(i)) /\ ps \in [1 .. L -> {P(i) : i \in 1 .. L}]
    BY <2>2
  <2>4. Charts(r, s) = <<>> \/ Charts(r, s) = ps
    BY <1>1, <2>1
  <2> HIDE DEF ps
  <2> QED BY <2>3, <2>4
<1> HIDE DEF k
<1>4. nRows \in Nat \ {0} /\ \A i \in 1 .. L : row(i) \in 1 .. nRows /\ col(i) \in 1 .. k
  <2>1. \A x \in Nat : x \div 1 = x /\ x % 1 = 0
    OBVIOUS
  <2>2. \A x \in Nat : x \div 2 \in Nat /\ x % 2 \in 0 .. 1 /\ x = 2 * (x \div 2) + (x % 2)
    OBVIOUS
  <2>3. CASE k = 1
    <3>1. nRows = L /\ \A i \in 1 .. L : row(i) = i /\ col(i) = 1
      BY <1>1, <2>1, <2>3
    <3> HIDE DEF nRows, row, col
    <3> QED BY <1>1, <2>3, <3>1
  <2>4. CASE k = 2
    <3>1. nRows = (L + 1) \div 2 /\ \A i \in 1 .. L : row(i) = ((i - 1) \div 2) + 1 /\ col(i) = ((i - 1) % 2) + 1
      BY <1>1, <2>4
    <3>2. L + 1 \in Nat /\ (L + 1) \div 2 \in Nat /\ (L + 1) % 2 \in 0 .. 1 /\ L + 1 = 2 * ((L + 1) \div 2) + ((L + 1) % 2)
      BY <1>1, <2>2
    <3> HIDE DEF nRows, row, col
    <3>3. ASSUME NEW i \in 1 .. L PROVE row(i) \in 1 .. nRows /\ col(i) \in 1 .. k
      <4>1. i - 1 \in Nat
        BY <1>1
      <4>2. (i - 1) \div 2 \in Nat /\ (i - 1) % 2 \in 0 .. 1 /\ i - 1 = 2 * ((i - 1) \div 2) + ((i - 1) % 2)
        BY <2>2, <4>1
      <4> DEFINE q == (i - 1) \div 2  m == (i - 1) % 2  N == (L + 1) \div 2  M == (L + 1) % 2
      <4>3. q \in Nat /\ m \in 0 .. 1 /\ i - 1 = 2 * q + m /\ N \in Nat /\ M \in 0 .. 1 /\ L + 1 = 2 * N + M
        BY <3>2, <4>2
      <4>4. nRows = N /\ row(i) = q + 1 /\ col(i) = m + 1
        BY <3>1
      <4> HIDE DEF q, m, N, M
      <4>5. q + 1 \in 1 .. N /\ m + 1 \in 1 .. 2
        BY <1>1, <4>3
      <4> QED BY <2>4, <4>4, <4>5
    <3>4. nRows \in Nat \ {0}
      BY <1>1, <3>1, <3>2
    <3> QED BY <3>3, <3>4
  <2> QED BY <1>2, <2>3, <2>4
<1>5. \A i, j \in 1 .. L : row(i) = row(j) /\ col(i) = col(j) => i = j
  <2> SUFFICES ASSUME NEW i \in 1 .. L, NEW j \in 1 .. L, row(i) = row(j), col(i) = col(j) PROVE i = j
    OBVIOUS
  <2>1. i - 1 \in Nat /\ j - 1 \in Nat
    BY <1>1
  <2>2. CASE k = 1
    <3>1. \A x \in Nat : x \div 1 = x
      OBVIOUS
    <3> QED BY <2>1, <2>2, <3>1
  <2>3. CASE k = 2
    <3>1. \A x \in Nat : x \div 2 \in Nat /\ x % 2 \in 0 .. 1 /\ x = 2 * (x \div 2) + (x % 2)
      OBVIOUS
    <3> QED BY <2>1, <2>3, <3>1
  <2> QED BY <1>2, <2>2, <2>3
<1> HIDE DEF nRows
<1>6. Down(strips, nRows, r)
  <2>1. DOMAIN heights = 1 .. nRows /\ Len(heights) = nRows /\ nRows \in Nat
    BY <1>4
  <2>2. Ints(heights, nRows)
    <3>1. r.H \div nRows \in Int
      BY <1>4, RegionIs, Division
    <3> QED BY <3>1 DEF Ints
  <2> HIDE DEF heights
  <2> QED BY <2>1, <2>2, RowsIs
<1> HIDE DEF strips
<1>7. /\ \A i \in 1 .. nRows : strips[i] \in Region /\ Within(strips[i], r)
      /\ \A i, j \in 1 .. nRows : i < j => Apart(strips[i], strips[j])
  BY <1>4, <1>6, DownApart
<1>8. ASSUME NEW q \in Region
      PROVE  /\ \A i \in 1 .. k : Cols(q, ones)[i] \in Region /\ Within(Cols(q, ones)[i], q)
             /\ \A i, j \in 1 .. k : i < j => Apart(Cols(q, ones)[i], Cols(q, ones)[j])
  <2>1. k \in Nat \ {0} /\ DOMAIN ones = 1 .. k /\ Len(ones) = k /\ Nats(ones, k)
    BY <1>2 DEF Nats
  <2>2. Before(ones, k + 1) > 0
    BY <1>2, OnesWeigh
  <2> HIDE DEF ones
  <2>3. Across(Cols(q, ones), k, q)
    BY <2>1, <2>2, ColsIs
  <2> QED BY <2>1, <2>3, AcrossApart
<1> HIDE DEF ones, row, col
<1>9. ASSUME NEW i \in 1 .. L
      PROVE  /\ strips[row(i)] \in Region /\ Within(strips[row(i)], r)
             /\ cell(i) \in Region /\ Within(cell(i), strips[row(i)])
  BY <1>4, <1>7, <1>8
<1>10. ASSUME NEW i \in 1 .. L, NEW j \in 1 .. L, i < j PROVE Apart(cell(i), cell(j))
  <2>1. row(i) \in 1 .. nRows /\ row(j) \in 1 .. nRows /\ col(i) \in 1 .. k /\ col(j) \in 1 .. k
    BY <1>4
  <2>2. CASE row(i) # row(j)
    <3>1. Apart(strips[row(i)], strips[row(j)])
      <4>1. row(i) < row(j) \/ row(j) < row(i)
        BY <1>4, <2>1, <2>2
      <4> QED BY <1>7, <2>1, <4>1 DEF Apart
    <3> QED BY <1>9, <3>1, ApartInside
  <2>3. CASE row(i) = row(j)
    <3>1. col(i) # col(j)
      BY <1>1, <1>5, <1>10, <2>3
    <3>2. col(i) < col(j) \/ col(j) < col(i)
      BY <1>2, <2>1, <3>1
    <3> QED BY <1>8, <1>9, <2>1, <2>3, <3>2 DEF Apart
  <2> QED BY <2>2, <2>3
<1>11. \A i \in 1 .. L : cell(i) \in Region /\ Within(cell(i), r)
  BY <1>9, WithinTrans
<1> HIDE DEF cell
<1>12. ASSUME NEW ps, DOMAIN ps = 1 .. L, \A i \in 1 .. L : ps[i].at = cell(i), NEW E, ps \in [1 .. L -> E]
       PROVE  LaidOut(ps, r)
  <2>1. ps \in Seq(E) /\ Len(ps) = L
    BY <1>1, <1>12, SeqIs
  <2>2. /\ \A i \in 1 .. Len(ps) : ps[i].at \in Region /\ Within(ps[i].at, r)
        /\ \A i, j \in 1 .. Len(ps) : i < j => Apart(ps[i].at, ps[j].at)
    BY <1>10, <1>11, <1>12, <2>1
  <2> QED BY <2>1, <2>2, Zenon DEF LaidOut
<1> QED BY <1>3, <1>12, NothingLaid

-----------------------------------------------------------------------------
LEMMA HalfIs == ASSUME NEW r \in Region PROVE r.H \div 2 \in Int /\ (r.H * 2) \div 3 \in Int
  BY RegionIs

LEMMA ThreeAndTwo == \A a, b, c, d, e : <<a, b, c>> \o <<d, e>> = <<a, b, c, d, e>>
<1> TAKE a, b, c, d, e
<1> DEFINE E == {a, b, c, d, e}
           x == <<a, b, c>>
           y == <<d, e>>
           u == x \o y
           v == <<a, b, c, d, e>>
<1>1. x \in Seq(E) /\ y \in Seq(E) /\ v \in Seq(E) /\ Len(x) = 3 /\ Len(y) = 2 /\ Len(v) = 5
  OBVIOUS
<1>2. x[1] = a /\ x[2] = b /\ x[3] = c /\ y[1] = d /\ y[2] = e
  OBVIOUS
<1>3. v[1] = a /\ v[2] = b /\ v[3] = c /\ v[4] = d /\ v[5] = e
  OBVIOUS
<1> HIDE DEF x, y, v, E
<1>4. u \in Seq(E) /\ Len(u) = 5 /\ (\A i \in 1 .. 3 : u[i] = x[i]) /\ (\A i \in 1 .. 2 : u[3 + i] = y[i])
  <2>0. x \in Seq(E) /\ y \in Seq(E)
    BY <1>1
  <2>1. /\ u \in Seq(E) /\ Len(u) = Len(x) + Len(y)
        /\ \A i \in 1 .. Len(x) : u[i] = x[i]
        /\ \A i \in 1 .. Len(y) : u[Len(x) + i] = y[i]
    BY <2>0, JoinIs
  <2> HIDE DEF u
  <2>2. 3 + 2 = 5
    OBVIOUS
  <2> QED BY <1>1, <2>1, <2>2
<1> HIDE DEF u
<1>5. u[1] = a /\ u[2] = b /\ u[3] = c /\ u[4] = d /\ u[5] = e
  <2>1. 1 \in 1 .. 3 /\ 2 \in 1 .. 3 /\ 3 \in 1 .. 3 /\ 1 \in 1 .. 2 /\ 2 \in 1 .. 2
    OBVIOUS
  <2>2. 3 + 1 = 4 /\ 3 + 2 = 5
    OBVIOUS
  <2> QED BY <1>2, <1>4, <2>1, <2>2
<1>6. \A i \in 1 .. 5 : u[i] = v[i]
  <2>1. \A i \in 1 .. 5 : i = 1 \/ i = 2 \/ i = 3 \/ i = 4 \/ i = 5
    OBVIOUS
  <2> QED BY <1>3, <1>5, <2>1
<1>7. u = v
  BY <1>1, <1>4, <1>6
<1> QED BY <1>7 DEF u, v, x, y

LEMMA TwoAndOne == \A a, b, c : <<a, b>> \o <<c>> = <<a, b, c>>
<1> TAKE a, b, c
<1> DEFINE E == {a, b, c}
           x == <<a, b>>
           y == <<c>>
           u == x \o y
           v == <<a, b, c>>
<1>1. x \in Seq(E) /\ y \in Seq(E) /\ v \in Seq(E) /\ Len(x) = 2 /\ Len(y) = 1 /\ Len(v) = 3
  OBVIOUS
<1>2. x[1] = a /\ x[2] = b /\ y[1] = c
  OBVIOUS
<1>3. v[1] = a /\ v[2] = b /\ v[3] = c
  OBVIOUS
<1> HIDE DEF x, y, v, E
<1>4. u \in Seq(E) /\ Len(u) = 3 /\ (\A i \in 1 .. 2 : u[i] = x[i]) /\ (\A i \in 1 .. 1 : u[2 + i] = y[i])
  <2>0. x \in Seq(E) /\ y \in Seq(E)
    BY <1>1
  <2>1. /\ u \in Seq(E) /\ Len(u) = Len(x) + Len(y)
        /\ \A i \in 1 .. Len(x) : u[i] = x[i]
        /\ \A i \in 1 .. Len(y) : u[Len(x) + i] = y[i]
    BY <2>0, JoinIs
  <2> HIDE DEF u
  <2>2. 2 + 1 = 3
    OBVIOUS
  <2> QED BY <1>1, <2>1, <2>2
<1> HIDE DEF u
<1>5. u[1] = a /\ u[2] = b /\ u[3] = c
  <2>1. 1 \in 1 .. 2 /\ 2 \in 1 .. 2 /\ 1 \in 1 .. 1
    OBVIOUS
  <2>2. 2 + 1 = 3
    OBVIOUS
  <2> QED BY <1>2, <1>4, <2>1, <2>2
<1>6. \A i \in 1 .. 3 : u[i] = v[i]
  <2>1. \A i \in 1 .. 3 : i = 1 \/ i = 2 \/ i = 3
    OBVIOUS
  <2> QED BY <1>3, <1>5, <2>1
<1>7. u = v
  BY <1>1, <1>4, <1>6
<1> QED BY <1>7 DEF u, v, x, y

LEMMA OneAndThree == \A a, b, c, d : <<a>> \o <<b, c, d>> = <<a, b, c, d>>
<1> TAKE a, b, c, d
<1> DEFINE E == {a, b, c, d}
           x == <<a>>
           y == <<b, c, d>>
           u == x \o y
           v == <<a, b, c, d>>
<1>1. x \in Seq(E) /\ y \in Seq(E) /\ v \in Seq(E) /\ Len(x) = 1 /\ Len(y) = 3 /\ Len(v) = 4
  OBVIOUS
<1>2. x[1] = a /\ y[1] = b /\ y[2] = c /\ y[3] = d
  OBVIOUS
<1>3. v[1] = a /\ v[2] = b /\ v[3] = c /\ v[4] = d
  OBVIOUS
<1> HIDE DEF x, y, v, E
<1>4. u \in Seq(E) /\ Len(u) = 4 /\ (\A i \in 1 .. 1 : u[i] = x[i]) /\ (\A i \in 1 .. 3 : u[1 + i] = y[i])
  <2>0. x \in Seq(E) /\ y \in Seq(E)
    BY <1>1
  <2>1. /\ u \in Seq(E) /\ Len(u) = Len(x) + Len(y)
        /\ \A i \in 1 .. Len(x) : u[i] = x[i]
        /\ \A i \in 1 .. Len(y) : u[Len(x) + i] = y[i]
    BY <2>0, JoinIs
  <2> HIDE DEF u
  <2>2. 1 + 3 = 4
    OBVIOUS
  <2> QED BY <1>1, <2>1, <2>2
<1> HIDE DEF u
<1>5. u[1] = a /\ u[2] = b /\ u[3] = c /\ u[4] = d
  <2>1. 1 \in 1 .. 1 /\ 1 \in 1 .. 3 /\ 2 \in 1 .. 3 /\ 3 \in 1 .. 3
    OBVIOUS
  <2>2. 1 + 1 = 2 /\ 1 + 2 = 3 /\ 1 + 3 = 4
    OBVIOUS
  <2> QED BY <1>2, <1>4, <2>1, <2>2
<1>6. \A i \in 1 .. 4 : u[i] = v[i]
  <2>1. \A i \in 1 .. 4 : i = 1 \/ i = 2 \/ i = 3 \/ i = 4
    OBVIOUS
  <2> QED BY <1>3, <1>5, <2>1
<1>7. u = v
  BY <1>1, <1>4, <1>6, SMTT(40)
<1> QED BY <1>7 DEF u, v, x, y

LEMMA MiningLaid == ASSUME NEW b \in Region, NEW s PROVE LaidOut(drawMiningScreen(b, s), b)
<1> DEFINE rows == Rows(b, <<b.H \div 2, -1>>)
           top == Cols(rows[1], <<38, 34, 28>>)
           low == Cols(rows[2], <<50, 50>>)
           ps == <<panelMining(top[1], s), panelHistory(top[2], s), panelStatus(top[3], s)>>
           qs == <<panelDevices(low[1], s), panelThreads(low[2], s)>>
           us == <<panelMining(top[1], s), panelHistory(top[2], s), panelStatus(top[3], s),
                   panelDevices(low[1], s), panelThreads(low[2], s)>>
<1>1. drawMiningScreen(b, s) = IF b.H < 6 THEN <<>> ELSE us
  BY Zenon DEF drawMiningScreen
<1>2. /\ rows[1] \in Region /\ Within(rows[1], b) /\ rows[2] \in Region /\ Within(rows[2], b)
      /\ Apart(rows[1], rows[2])
  BY HalfIs, TwoStrips
<1> HIDE DEF rows
<1>3. Across(top, 3, rows[1]) /\ Across(low, 2, rows[2])
  BY <1>2, ColsOfTwo, ColsOfThree
<1> HIDE DEF top, low
<1>0. us = ps \o qs
  BY ThreeAndTwo, ZenonT(60)
<1> HIDE DEF us
<1>4. LaidOut(ps, rows[1]) /\ LaidOut(qs, rows[2])
  BY <1>2, <1>3, PanelAt, TwoLaid, ThreeLaid
<1> HIDE DEF ps, qs
<1>5. LaidOut(ps \o qs, b)
  BY <1>2, <1>4, LaidJoined
<1> QED BY <1>0, <1>1, <1>5, NothingLaid

LEMMA NetworkLaid == ASSUME NEW b \in Region, NEW s PROVE LaidOut(drawNetworkScreen(b, s), b)
<1> DEFINE rows == Rows(b, <<b.H \div 2, -1>>)
           top == Cols(rows[1], <<40, 30, 30>>)
           low == Cols(rows[2], <<45, 55>>)
           ps == <<panelNetwork(top[1], s), panelNodeDetail(top[2], s), panelConnection(top[3], s)>>
           qs == <<panelBlockchain(low[1], s), panelJob(low[2], s)>>
           us == <<panelNetwork(top[1], s), panelNodeDetail(top[2], s), panelConnection(top[3], s),
                   panelBlockchain(low[1], s), panelJob(low[2], s)>>
<1>1. drawNetworkScreen(b, s) = IF b.H < 6 THEN <<>> ELSE us
  BY Zenon DEF drawNetworkScreen
<1>2. /\ rows[1] \in Region /\ Within(rows[1], b) /\ rows[2] \in Region /\ Within(rows[2], b)
      /\ Apart(rows[1], rows[2])
  BY HalfIs, TwoStrips
<1> HIDE DEF rows
<1>3. Across(top, 3, rows[1]) /\ Across(low, 2, rows[2])
  BY <1>2, ColsOfTwo, ColsOfThree
<1> HIDE DEF top, low
<1>0. us = ps \o qs
  BY ThreeAndTwo, ZenonT(60)
<1> HIDE DEF us
<1>4. LaidOut(ps, rows[1]) /\ LaidOut(qs, rows[2])
  BY <1>2, <1>3, PanelAt, TwoLaid, ThreeLaid
<1> HIDE DEF ps, qs
<1>5. LaidOut(ps \o qs, b)
  BY <1>2, <1>4, LaidJoined
<1> QED BY <1>0, <1>1, <1>5, NothingLaid

LEMMA StatsLaid == ASSUME NEW b \in Region, NEW s PROVE LaidOut(drawStatsScreen(b, s), b)
<1> DEFINE rows == Rows(b, <<(b.H * 2) \div 3, -1>>)
           cols == Cols(rows[2], <<34, 33, 33>>)
           ps == Charts(rows[1], s)
           qs == <<panelSessionTotals(cols[1], s), panelShares(cols[2], s), panelRateSummary(cols[3], s)>>
<1>1. drawStatsScreen(b, s) = IF b.H < 6 THEN <<>> ELSE ps \o qs
  BY DEF drawStatsScreen
<1>2. /\ rows[1] \in Region /\ Within(rows[1], b) /\ rows[2] \in Region /\ Within(rows[2], b)
      /\ Apart(rows[1], rows[2])
  BY HalfIs, TwoStrips
<1> HIDE DEF rows
<1>3. Across(cols, 3, rows[2])
  BY <1>2, ColsOfThree
<1> HIDE DEF cols
<1>4. LaidOut(ps, rows[1]) /\ LaidOut(qs, rows[2])
  BY <1>2, <1>3, PanelAt, ThreeLaid, ChartsLaid
<1> HIDE DEF ps, qs
<1>5. LaidOut(ps \o qs, b)
  BY <1>2, <1>4, LaidJoined
<1> QED BY <1>1, <1>5, NothingLaid

LEMMA ThreadsLaid == ASSUME NEW b \in Region, NEW s PROVE LaidOut(drawThreadsScreen(b, s), b)
<1> DEFINE rows == Rows(b, <<-1, 7>>)
           cols == Cols(rows[2], <<34, 33, 33>>)
           grid == Panel(rows[1], 22, 27, LAMBDA in : drawThreadGrid(in, s))
           ps == <<grid>>
           qs == <<panelThreadSummary(cols[1], s), panelCPU(cols[2], s), panelHint(cols[3], <<32, 33, 28, 26>>)>>
           us == <<grid, panelThreadSummary(cols[1], s), panelCPU(cols[2], s), panelHint(cols[3], <<32, 33, 28, 26>>)>>
<1>1. drawThreadsScreen(b, s) = IF b.H < 5 THEN <<>> ELSE us
  BY Zenon DEF drawThreadsScreen
<1>2. /\ rows[1] \in Region /\ Within(rows[1], b) /\ rows[2] \in Region /\ Within(rows[2], b)
      /\ Apart(rows[1], rows[2])
  BY TwoStrips
<1> HIDE DEF rows
<1>3. Across(cols, 3, rows[2]) /\ grid.at = rows[1]
  BY <1>2, ColsOfThree DEF Panel
<1> HIDE DEF cols, grid
<1>0. us = ps \o qs
  BY OneAndThree, ZenonT(60)
<1> HIDE DEF us
<1>4. LaidOut(ps, rows[1]) /\ LaidOut(qs, rows[2])
  BY <1>2, <1>3, PanelAt, ThreeLaid, OneLaid
<1> HIDE DEF ps, qs
<1>5. LaidOut(ps \o qs, b)
  BY <1>2, <1>4, LaidJoined
<1> QED BY <1>0, <1>1, <1>5, NothingLaid

LEMMA ConfigLaid == ASSUME NEW b \in Region, NEW s PROVE LaidOut(drawConfigScreen(b, s), b)
<1> DEFINE rows == Rows(b, <<b.H \div 2, -1>>)
           top == Cols(rows[1], <<50, 50>>)
           config == Panel(top[1], 8, 0, LAMBDA in : kvRows(in, in.Y,
               <<<<4, s.node>>, <<7, 7>>, <<11, 2>>, <<11, 4>>, <<9, s.count>>, <<10, 8>>, <<5, 5>>, <<6, 9>>,
                 <<7, s.path>>, <<11, s.path>>, <<8, s.path>>>>))
           notes == Panel(rows[2], 14, 0, LAMBDA in : NotesInk(in, s))
           ps == <<config, panelHint(top[2], <<32, 0>> \o configCommandHelp)>>
           qs == <<notes>>
<1>1. drawConfigScreen(b, s) = IF b.H < 5 THEN <<>> ELSE ps \o qs
  BY TwoAndOne DEF drawConfigScreen
<1>2. /\ rows[1] \in Region /\ Within(rows[1], b) /\ rows[2] \in Region /\ Within(rows[2], b)
      /\ Apart(rows[1], rows[2])
  BY HalfIs, TwoStrips
<1> HIDE DEF rows
<1>3. Across(top, 2, rows[1]) /\ config.at = top[1] /\ notes.at = rows[2]
  BY <1>2, ColsOfTwo DEF Panel
<1> HIDE DEF top, config, notes
<1>4. LaidOut(ps, rows[1]) /\ LaidOut(qs, rows[2])
  BY <1>2, <1>3, PanelAt, TwoLaid, OneLaid
<1> HIDE DEF ps, qs
<1>5. LaidOut(ps \o qs, b)
  BY <1>2, <1>4, LaidJoined
<1> QED BY <1>1, <1>5, NothingLaid

LEMMA LogLaid == ASSUME NEW b \in Region, NEW s PROVE LaidOut(drawLogScreen(b, s), b)
<1> DEFINE lines == Panel(b, 9, IF s.log = s.all THEN 14 ELSE 18 + s.filter, LAMBDA in : drawLogLines(in, s))
<1>1. drawLogScreen(b, s) = IF b.H < 3 THEN <<>> ELSE <<lines>>
  BY DEF drawLogScreen
<1>2. lines.at = b
  BY DEF Panel
<1> HIDE DEF lines
<1> QED BY <1>1, <1>2, OneLaid, NothingLaid

LEMMA PoolsLaid == ASSUME NEW b \in Region, NEW s PROVE LaidOut(drawPoolsScreen(b, s), b)
<1> DEFINE rows == Rows(b, <<b.H \div 2, -1>>)
           cols == Cols(rows[1], <<55, 45>>)
           source == Panel(cols[1], 11, 0, LAMBDA in : WorkSourceInk(in, s))
           solo == Panel(cols[2], 17, 0, SoloInk)
           quiet == [s EXCEPT !.log = s.all, !.held = 0]
           ps == <<source, solo>>
           qs == <<panelLog(rows[2], quiet)>>
<1>1. drawPoolsScreen(b, s) = IF b.H < 5 THEN <<>> ELSE ps \o qs
  BY TwoAndOne DEF drawPoolsScreen
<1>2. /\ rows[1] \in Region /\ Within(rows[1], b) /\ rows[2] \in Region /\ Within(rows[2], b)
      /\ Apart(rows[1], rows[2])
  BY HalfIs, TwoStrips
<1> HIDE DEF rows
<1>3. Across(cols, 2, rows[1]) /\ source.at = cols[1] /\ solo.at = cols[2]
  BY <1>2, ColsOfTwo DEF Panel
<1> HIDE DEF cols, source, solo, quiet
<1>4. LaidOut(ps, rows[1]) /\ LaidOut(qs, rows[2])
  BY <1>2, <1>3, PanelAt, TwoLaid, OneLaid
<1> HIDE DEF ps, qs
<1>5. LaidOut(ps \o qs, b)
  BY <1>2, <1>4, LaidJoined
<1> QED BY <1>1, <1>5, NothingLaid

LEMMA HelpLaid == ASSUME NEW b \in Region PROVE LaidOut(drawHelpScreen(b), b)
<1> DEFINE cols == Cols(b, <<30, 34, 36>>)
<1>1. drawHelpScreen(b) = <<>> \/
      \E p, q, r : drawHelpScreen(b) = <<p, q, r>> /\ p.at = cols[1] /\ q.at = cols[2] /\ r.at = cols[3]
  BY SMTT(40) DEF drawHelpScreen, Panel
<1>2. Across(cols, 3, b)
  BY ColsOfThree
<1> HIDE DEF cols
<1> QED BY <1>1, <1>2, ThreeLaid, NothingLaid

-----------------------------------------------------------------------------
(* Sets of marks: those that keep to a region, and those of which no two   *)
(* touch.                                                                  *)
Keeps(S, b) == \A m \in S : m \in Region /\ Within(m, b)
Clear(S)    == \A m, n \in S : m # n => Apart(m, n)

LEMMA ApartBoth == ASSUME NEW a, NEW b, Apart(a, b) PROVE Apart(b, a)
  BY Zenon DEF Apart

LEMMA KeepsTrans ==
  ASSUME NEW S, NEW a \in Region, NEW b \in Region, Keeps(S, a), Within(a, b) PROVE Keeps(S, b)
  BY WithinTrans DEF Keeps

LEMMA ClearUnion ==
  ASSUME NEW S, NEW T, NEW a \in Region, NEW b \in Region, NEW c \in Region,
         Keeps(S, a), Keeps(T, b), Clear(S), Clear(T), Apart(a, b), Within(a, c), Within(b, c)
  PROVE  Clear(S \cup T) /\ Keeps(S \cup T, c)
<1>1. ASSUME NEW m \in S, NEW n \in T PROVE Apart(m, n) /\ Apart(n, m)
  BY ApartInside, ApartBoth DEF Keeps
<1>2. Clear(S \cup T)
  BY <1>1 DEF Clear
<1>3. Keeps(S, c) /\ Keeps(T, c)
  BY KeepsTrans
<1> QED BY <1>2, <1>3 DEF Keeps

LEMMA NoMarks == \A b : Keeps({}, b) /\ Clear({})
  BY DEF Keeps, Clear

LEMMA MarkKeeps ==
  ASSUME NEW x \in Int, NEW y \in Int, NEW w \in Int, NEW h \in Int, NEW b \in Region,
         x >= b.X, y >= b.Y, x + w <= b.X + b.W, y + h <= b.Y + b.H
  PROVE  Keeps(Mark(x, y, w, h), b) /\ Clear(Mark(x, y, w, h))
<1>1. CASE w <= 0 \/ h <= 0
  BY <1>1, NoMarks DEF Mark
<1>2. CASE ~ (w <= 0 \/ h <= 0)
  <2> DEFINE m == Rect(x, y, w, h)
  <2>1. Mark(x, y, w, h) = {m}
    BY <1>2 DEF Mark
  <2>2. w \in Nat /\ h \in Nat
    BY <1>2
  <2>3. m \in Region /\ m.X = x /\ m.Y = y /\ m.W = w /\ m.H = h
    BY <2>2 DEF Rect, Region
  <2> HIDE DEF m
  <2>4. Within(m, b)
    BY <2>3 DEF Within, Right, Bottom
  <2> QED BY <2>1, <2>3, <2>4 DEF Keeps, Clear
<1> QED BY <1>1, <1>2

LEMMA TextKeeps ==
  ASSUME NEW x \in Int, NEW y \in Int, NEW n \in Int, NEW b \in Region,
         x >= b.X, x + n <= b.X + b.W, y >= b.Y, y < b.Y + b.H
  PROVE  Keeps(Text(x, y, n), b) /\ Clear(Text(x, y, n))
<1>1. b.Y \in Int /\ b.H \in Nat
  BY RegionIs
<1>2. y + 1 <= b.Y + b.H /\ 1 \in Int
  BY <1>1
<1>3. Keeps(Mark(x, y, n, 1), b) /\ Clear(Mark(x, y, n, 1))
  BY <1>2, MarkKeeps
<1> QED BY <1>3 DEF Text

LEMMA TextIs == \A x, y, n : \A m \in Text(x, y, n) : m = Rect(x, y, n, 1)
  BY DEF Text, Mark

LEMMA ClipIs ==
  ASSUME NEW n \in Int, NEW w \in Nat
  PROVE  Clip(n, w) \in Nat /\ Clip(n, w) \in Int /\ Clip(n, w) <= w /\ (0 <= n /\ n <= w => Clip(n, w) = n)
  BY DEF Clip, Lesser, Greater

(* Lines of text below each other.                                         *)
LEMMA RowsKeep ==
  ASSUME NEW k \in Nat, NEW b \in Region, b.H = k, NEW at, NEW n,
         \A i \in 1 .. k : at[i] \in Int /\ n[i] \in Int /\ at[i] >= b.X /\ at[i] + n[i] <= b.X + b.W,
         NEW S, S = UNION {Text(at[i], b.Y + i - 1, n[i]) : i \in 1 .. k}
  PROVE  Keeps(S, b) /\ Clear(S)
<1> DEFINE T(i) == Text(at[i], b.Y + i - 1, n[i])
<1>1. b.Y \in Int
  BY RegionIs
<1>2. ASSUME NEW i \in 1 .. k PROVE Keeps(T(i), b)
  <2>1. b.Y + i - 1 \in Int /\ b.Y + i - 1 >= b.Y /\ b.Y + i - 1 < b.Y + b.H
    BY <1>1
  <2> QED BY <2>1, TextKeeps
<1>3. \A m \in S : \E i \in 1 .. k : m \in T(i) /\ m = Rect(at[i], b.Y + i - 1, n[i], 1)
  BY TextIs
<1> HIDE DEF T
<1>4. Keeps(S, b)
  BY <1>2, <1>3 DEF Keeps
<1>5. ASSUME NEW m \in S, NEW l \in S, m # l PROVE Apart(m, l)
  <2>1. PICK i \in 1 .. k : m = Rect(at[i], b.Y + i - 1, n[i], 1)
    BY <1>3
  <2>2. PICK j \in 1 .. k : l = Rect(at[j], b.Y + j - 1, n[j], 1)
    BY <1>3
  <2>3. i # j
    BY <1>5, <2>1, <2>2
  <2>4. m.Y = b.Y + i - 1 /\ m.H = 1 /\ l.Y = b.Y + j - 1 /\ l.H = 1
    BY <2>1, <2>2, RectIs
  <2> QED BY <1>1, <2>3, <2>4 DEF Apart, Bottom
<1>6. Clear(S)
  BY <1>5 DEF Clear
<1> QED BY <1>4, <1>6

-----------------------------------------------------------------------------
(* The name and the line below it, in a region n.                          *)
NamePart(n, h, line) ==
  drawWordmark(n)
  \cup (IF Wordmark(n)[2] < h THEN TextCenter(n.X, n.Y + Wordmark(n)[2], n.W, Clip(line, n.W)) ELSE {})

LEMMA CentredKeeps ==
  ASSUME NEW x \in Int, NEW y \in Int, NEW w \in Nat, NEW n \in Int, NEW b \in Region,
         x >= b.X, x + w <= b.X + b.W, y >= b.Y, y < b.Y + b.H
  PROVE  Keeps(TextCenter(x, y, w, n), b) /\ Clear(TextCenter(x, y, w, n))
<1> DEFINE c == Clip(n, w)
           at == x + ((w - c) \div 2)
<1>1. c \in Nat /\ c <= w
  BY ClipIs
<1> HIDE DEF c
<1>2. at \in Int /\ at >= x /\ at + c <= x + w
  BY <1>1
<1> HIDE DEF at
<1>3. b.X \in Int /\ b.W \in Nat /\ c \in Int
  BY <1>1, RegionIs
<1>4. at >= b.X /\ at + c <= b.X + b.W
  BY <1>2, <1>3
<1>5. Keeps(Text(at, y, c), b) /\ Clear(Text(at, y, c))
  BY <1>2, <1>3, <1>4, TextKeeps
<1> QED BY <1>5 DEF TextCenter, at, c

LEMMA NameKeeps ==
  ASSUME NEW n \in Region, n.W >= 30, n.H >= 1, NEW line \in {19, 37}
  PROVE  Keeps(NamePart(n, n.H, line), n) /\ Clear(NamePart(n, n.H, line))
<1>0. n.X \in Int /\ n.Y \in Int /\ n.W \in Nat /\ n.H \in Nat
  BY RegionIs
<1>1. PICK w \in Nat, h \in Nat : Wordmark(n) = <<w, h>> /\ w <= n.W /\ h >= 1 /\ h <= n.H
  <2>1. CASE n.H >= 5 /\ n.W >= 77
    <3>1. Wordmark(n) = <<77, 5>>
      BY <2>1 DEF Wordmark
    <3> QED BY <2>1, <3>1
  <2>2. CASE ~ (n.H >= 5 /\ n.W >= 77) /\ n.H >= 3
    <3>1. Wordmark(n) = <<27, 3>>
      BY <1>0, <2>2 DEF Wordmark
    <3> QED BY <1>0, <2>2, <3>1
  <2>3. CASE ~ (n.H >= 3)
    <3>1. Wordmark(n) = <<9, 1>>
      BY <1>0, <2>3 DEF Wordmark
    <3> QED BY <1>0, <3>1
  <2> QED BY <1>0, <2>1, <2>2, <2>3
<1>2. Wordmark(n)[1] = w /\ Wordmark(n)[2] = h
  BY <1>1
<1> DEFINE top == Rect(n.X, n.Y, n.W, h)
           low == Rect(n.X, n.Y + h, n.W, n.H - h)
           at == n.X + ((n.W - w) \div 2)
           mark == Mark(at, n.Y, w, h)
           sub == IF h < n.H THEN TextCenter(n.X, n.Y + h, n.W, Clip(line, n.W)) ELSE {}
<1>3. NamePart(n, n.H, line) = mark \cup sub
  BY <1>2 DEF NamePart, drawWordmark
<1>4. top \in Region /\ low \in Region /\ Within(top, n) /\ Within(low, n) /\ Apart(top, low)
  BY <1>0, <1>1 DEF Rect, Region, Within, Apart, Right, Bottom
<1>5. Keeps(mark, top) /\ Clear(mark)
  <2>1. at \in Int /\ at >= n.X /\ at + w <= n.X + n.W
    BY <1>0, <1>1
  <2>2. top.X = n.X /\ top.Y = n.Y /\ top.W = n.W /\ top.H = h
    BY RectIs
  <2> HIDE DEF at, top
  <2>3. w \in Int /\ h \in Int /\ n.Y >= n.Y /\ n.Y + h <= n.Y + h
    BY <1>0
  <2> QED BY <1>0, <1>4, <2>1, <2>2, <2>3, MarkKeeps
<1>6. Keeps(sub, low) /\ Clear(sub)
  <2>1. CASE h < n.H
    <3>1. low.X = n.X /\ low.Y = n.Y + h /\ low.W = n.W /\ low.H = n.H - h
      BY RectIs
    <3>0. Clip(line, n.W) \in Int
      <4>1. line \in Int
        OBVIOUS
      <4> QED BY <1>0, <4>1, ClipIs
    <3>2. Clip(line, n.W) \in Int /\ n.Y + h \in Int /\ n.X >= n.X /\ n.X + n.W <= n.X + n.W
      BY <1>0, <3>0
    <3>3. n.Y + h >= n.Y + h /\ n.Y + h < n.Y + h + (n.H - h)
      BY <1>0, <2>1
    <3> HIDE DEF low
    <3>4. Keeps(TextCenter(n.X, n.Y + h, n.W, Clip(line, n.W)), low) /\ Clear(TextCenter(n.X, n.Y + h, n.W, Clip(line, n.W)))
      BY <1>0, <1>4, <3>1, <3>2, <3>3, CentredKeeps
    <3> QED BY <2>1, <3>4
  <2>2. CASE ~ (h < n.H)
    BY <2>2, NoMarks
  <2> QED BY <2>1, <2>2
<1> HIDE DEF mark, sub, top, low
<1> QED BY <1>3, <1>4, <1>5, <1>6, ClearUnion

LEMMA NoneBefore == ASSUME NEW A, NEW B, NEW C PROVE (({} \cup {}) \cup A) \cup B \cup C = A \cup (B \cup C)
  OBVIOUS

(* A crest of a few rows, or a narrow one: the name and the version.       *)
LEMMA SmallCrest ==
  ASSUME NEW r \in Region, r.X = 0, r.W >= 56, r.H >= 1, ~ (r.W >= 108 /\ r.H >= 5)
  PROVE  Keeps(drawHeaderCrest(r), r) /\ Clear(drawHeaderCrest(r))
<1>0. r.X = 0 /\ r.Y \in Int /\ r.W \in Nat /\ r.H \in Nat
  BY RegionIs
<1> DEFINE rightW == IF r.W >= 92 THEN 12 ELSE 0
           west == Rect(0, r.Y, r.W - rightW, r.H)
           line == IF west.W >= 60 THEN 37 ELSE 19
           version == IF r.W >= 92 THEN TextRight(r.W - 1, r.Y, 10) ELSE {}
           title == NamePart(west, west.H, line)
<1>1. west.X = 0 /\ west.Y = r.Y /\ west.W = r.W - rightW /\ west.H = r.H
  BY RectIs
<1>2. west.W >= 30 /\ ~ (west.W < 30)
  BY <1>0, <1>1
<1>3. drawHeaderCrest(r) = version \cup title
  <2>1. versionW + 4 = 10 /\ versionW + 6 = 12
    BY DEF versionW
  <2>2. Right(r) - 1 = r.W - 1
    BY <1>0 DEF Right
  <2>3. r.X + 0 = 0 /\ r.W - 0 - 12 = r.W - 12 /\ r.W - 0 - 0 = r.W - 0
    BY <1>0
  <2>4. west.H = r.H
    BY <1>1
  <2> DEFINE sub == IF Wordmark(west)[2] < r.H
                    THEN TextCenter(west.X, west.Y + Wordmark(west)[2], west.W, Clip(line, west.W)) ELSE {}
  <2>5. title = drawWordmark(west) \cup sub
    BY <2>4 DEF NamePart
  <2>6. CASE r.W >= 92
    <3>1. rightW = 12 /\ version = TextRight(r.W - 1, r.Y, 10)
      BY <2>6
    <3>2. Rect(r.X + 0, r.Y, r.W - 0 - 12, r.H) = west
      BY <2>3, <3>1, ZenonT(40)
    <3> HIDE DEF west, rightW, version
    <3>3. drawHeaderCrest(r) = (({} \cup {}) \cup TextRight(Right(r) - 1, r.Y, versionW + 4)) \cup drawWordmark(west) \cup sub
      BY <1>2, <2>1, <2>6, <3>2 DEF drawHeaderCrest
    <3> HIDE DEF sub, title
    <3> QED BY <2>1, <2>2, <2>5, <3>1, <3>3, NoneBefore
  <2>7. CASE ~ (r.W >= 92)
    <3>1. rightW = 0 /\ version = {}
      BY <2>7
    <3>2. Rect(r.X + 0, r.Y, r.W - 0 - 0, r.H) = west
      BY <2>3, <3>1, ZenonT(40)
    <3> HIDE DEF west, rightW, version
    <3>3. drawHeaderCrest(r) = (({} \cup {}) \cup {}) \cup drawWordmark(west) \cup sub
      BY <1>2, <2>1, <2>7, <3>2 DEF drawHeaderCrest
    <3> HIDE DEF sub, title
    <3> QED BY <2>2, <2>5, <3>1, <3>3, NoneBefore
  <2> QED BY <2>6, <2>7
<1> DEFINE east == Rect(r.W - rightW, r.Y, rightW, r.H)
<1>4. west \in Region /\ east \in Region /\ Within(west, r) /\ Within(east, r) /\ Apart(east, west)
  BY <1>0 DEF Rect, Region, Within, Apart, Right, Bottom
<1>5. line \in {19, 37}
  OBVIOUS
<1>6. Keeps(title, west) /\ Clear(title)
  <2>1. west.H >= 1
    BY <1>1
  <2> HIDE DEF west, line
  <2> QED BY <1>2, <1>4, <1>5, <2>1, NameKeeps
<1>7. Keeps(version, east) /\ Clear(version)
  <2>1. CASE r.W >= 92
    <3>1. Clip(10, r.W - 1) = 10
      BY <1>0, <2>1 DEF Clip, Lesser, Greater
    <3>2. version = Text(r.W - 11, r.Y, 10)
      <4>1. (r.W - 1) - 10 = r.W - 11
        BY <1>0
      <4> QED BY <2>1, <3>1, <4>1 DEF TextRight
    <3>3. east.X = r.W - 12 /\ east.W = 12 /\ east.Y = r.Y /\ east.H = r.H
      BY <2>1, RectIs
    <3> HIDE DEF east, version
    <3>4. /\ r.W - 11 \in Int /\ 10 \in Int /\ r.W - 11 >= east.X /\ (r.W - 11) + 10 <= east.X + east.W
          /\ r.Y >= east.Y /\ r.Y < east.Y + east.H
      BY <1>0, <3>3
    <3> QED BY <1>0, <1>4, <3>2, <3>4, TextKeeps
  <2>2. CASE ~ (r.W >= 92)
    BY <2>2, NoMarks
  <2> QED BY <2>1, <2>2
<1> HIDE DEF west, east, title, version
<1> QED BY <1>3, <1>4, <1>6, <1>7, ClearUnion

-----------------------------------------------------------------------------
(* A wide and high crest, from left to right: the badge, what DERO is, the *)
(* name, the moon, and the version over a caption.                         *)
LEMMA TaglineKeeps ==
  ASSUME NEW b \in Region, b.W = 16, b.H = 4, NEW x, NEW y, x = b.X, y = b.Y
  PROVE  Keeps(Tagline(x, y, <<4, 7, 7, 16>>), b) /\ Clear(Tagline(x, y, <<4, 7, 7, 16>>))
<1> DEFINE n == <<4, 7, 7, 16>>
           at == [i \in 1 .. 4 |-> b.X]
           S == UNION {Text(at[i], b.Y + i - 1, n[i]) : i \in 1 .. 4}
<1>1. b.X \in Int /\ b.Y \in Int
  BY RegionIs
<1>2. DOMAIN n = 1 .. 4 /\ \A i \in 1 .. 4 : n[i] \in Int /\ n[i] <= 16
  OBVIOUS
<1>3. \A i \in 1 .. 4 : at[i] = b.X
  OBVIOUS
<1>4. Tagline(x, y, n) = S
  BY <1>2, <1>3 DEF Tagline
<1> HIDE DEF n, at
<1>5. \A i \in 1 .. 4 : at[i] \in Int /\ n[i] \in Int /\ at[i] >= b.X /\ at[i] + n[i] <= b.X + b.W
  BY <1>1, <1>2, <1>3
<1>6. 4 \in Nat
  OBVIOUS
<1>7. Keeps(S, b) /\ Clear(S)
  <2> HIDE DEF S
  <2>1. S = UNION {Text(at[i], b.Y + i - 1, n[i]) : i \in 1 .. 4}
    BY DEF S
  <2> QED BY <1>5, <1>6, <2>1, RowsKeep, SMTT(40)
<1> QED BY <1>4, <1>7 DEF n

LEMMA CaptionKeeps ==
  ASSUME NEW b \in Region, b.W = 16, b.H = 3, b.X >= 0, NEW x, NEW y, x = b.X + 16, y = b.Y
  PROVE  Keeps(RightTagline(x, y, <<10, 10, 16>>), b) /\ Clear(RightTagline(x, y, <<10, 10, 16>>))
<1> DEFINE n == <<10, 10, 16>>
           at == [i \in 1 .. 3 |-> x - n[i]]
           S == UNION {Text(at[i], b.Y + i - 1, n[i]) : i \in 1 .. 3}
<1>1. b.X \in Int /\ b.Y \in Int
  BY RegionIs
<1>2. DOMAIN n = 1 .. 3 /\ \A i \in 1 .. 3 : n[i] \in Nat /\ n[i] <= 16
  OBVIOUS
<1> HIDE DEF n
<1>3. \A i \in 1 .. 3 : at[i] = x - n[i]
  OBVIOUS
<1> HIDE DEF at
<1>4. ASSUME NEW i \in 1 .. 3 PROVE TextRight(x, y + i - 1, n[i]) = Text(at[i], b.Y + i - 1, n[i])
  <2>1. x \in Nat /\ n[i] \in Int /\ 0 <= n[i] /\ n[i] <= x
    BY <1>1, <1>2
  <2>2. Clip(n[i], x) = n[i]
    BY <2>1, ClipIs
  <2> QED BY <1>3, <2>2 DEF TextRight
<1>5. RightTagline(x, y, n) = S
  BY <1>2, <1>4 DEF RightTagline
<1>6. \A i \in 1 .. 3 : at[i] \in Int /\ n[i] \in Int /\ at[i] >= b.X /\ at[i] + n[i] <= b.X + b.W
  BY <1>1, <1>2, <1>3
<1>7. 3 \in Nat
  OBVIOUS
<1>8. Keeps(S, b) /\ Clear(S)
  <2> HIDE DEF S
  <2>1. S = UNION {Text(at[i], b.Y + i - 1, n[i]) : i \in 1 .. 3}
    BY DEF S
  <2> QED BY <1>6, <1>7, <2>1, RowsKeep
<1> QED BY <1>5, <1>8 DEF n

LEMMA FullCrest ==
  ASSUME NEW r \in Region, r.X = 0, r.Y = 0, r.W >= 108, r.H = 6
  PROVE  Keeps(drawHeaderCrest(r), r) /\ Clear(drawHeaderCrest(r))
<1> DEFINE W == r.W
<1>0. W \in Nat /\ W >= 108
  BY RegionIs
<1> DEFINE west == Rect(33, 0, W - 65, 6)
           line == IF west.W >= 60 THEN 37 ELSE 19
           badge == Mark(1, 0, 11, 6)
           what == Tagline(14, 0, <<4, 7, 7, 16>>)
           title == NamePart(west, 6, line)
           moon == Mark(W - 30, 0, 9, 6)
           version == TextRight(W - 1, 0, 10)
           caption == RightTagline(W - 2, 1, <<10, 10, 16>>)
<1>1. drawHeaderCrest(r) = ((badge \cup what) \cup title) \cup (moon \cup (version \cup caption))
  <2>1. west.X = 33 /\ west.Y = 0 /\ west.W = W - 65 /\ west.H = 6
    BY RectIs
  <2>2. /\ Right(r) = W /\ versionW + 4 = 10 /\ CaptionRow(r) = 1
        /\ r.Y + ((r.H - 6) \div 2) = 0 /\ r.X + 1 = 1 /\ r.X + 14 = 14
    BY <1>0 DEF Right, versionW, CaptionRow
  <2>3. /\ (W - 18) - 12 = W - 30 /\ (W - 18) + 16 = W - 2 /\ W - 30 > r.X + 33 /\ W - (W - 30) + 2 = 32
        /\ W - 33 - 32 = W - 65 /\ r.X + 33 = 33
    BY <1>0
  <2>4. ~ (west.W < 30) /\ r.W >= 92 /\ r.H >= 5 /\ r.H >= 6
    BY <1>0, <2>1
  <2> DEFINE tagX == Right(r) - 18  mx == tagX - 12
  <2>5. mx = W - 30 /\ tagX + 16 = W - 2 /\ mx > r.X + 33 /\ Right(r) - mx + 2 = 32
    BY <2>2, <2>3
  <2>6. Rect(r.X + 33, r.Y, r.W - 33 - 32, r.H) = west
    BY <2>3
  <2> HIDE DEF tagX, mx, west, W
  <2>7. drawHeaderCrest(r) =
          ((Mark(r.X + 1, r.Y + ((r.H - 6) \div 2), 11, 6) \cup Tagline(r.X + 14, r.Y, <<4, 7, 7, 16>>)
            \cup RightTagline(tagX + 16, CaptionRow(r), <<10, 10, 16>>))
           \cup Mark(mx, r.Y + ((r.H - 6) \div 2), 9, 6)
           \cup TextRight(Right(r) - 1, r.Y, versionW + 4)
           \cup drawWordmark(west)
           \cup (IF Wordmark(west)[2] < r.H
                 THEN TextCenter(west.X, west.Y + Wordmark(west)[2], west.W, Clip(line, west.W)) ELSE {}))
    BY <2>3, <2>4, <2>5, <2>6 DEF drawHeaderCrest, tagX, mx, W
  <2> HIDE DEF line
  <2> QED BY <2>2, <2>5, <2>7 DEF NamePart
<1> DEFINE b1 == Rect(1, 0, 11, 6)
           b2 == Rect(14, 0, 16, 4)
           b3 == Rect(W - 30, 0, 9, 6)
           b4 == Rect(W - 11, 0, 10, 1)
           b5 == Rect(W - 18, 1, 16, 3)
           c1 == Rect(0, 0, 33, 6)
           c2 == Rect(0, 0, W - 32, 6)
           c3 == Rect(W - 20, 0, 20, 6)
           c4 == Rect(W - 32, 0, 32, 6)
<1>2. /\ b1 \in Region /\ b2 \in Region /\ b3 \in Region /\ b4 \in Region /\ b5 \in Region
      /\ c1 \in Region /\ c2 \in Region /\ c3 \in Region /\ c4 \in Region /\ west \in Region
  BY <1>0 DEF Rect, Region
<1>3. Keeps(badge, b1) /\ Clear(badge) /\ Keeps(moon, b3) /\ Clear(moon)
  <2>1. b1.X = 1 /\ b1.Y = 0 /\ b1.W = 11 /\ b1.H = 6 /\ b3.X = W - 30 /\ b3.Y = 0 /\ b3.W = 9 /\ b3.H = 6
    BY RectIs
  <2> HIDE DEF b1, b3, W
  <2>2. 1 \in Int /\ 0 \in Int /\ 11 \in Int /\ 6 \in Int /\ 9 \in Int /\ W - 30 \in Int
    BY <1>0
  <2>3. Keeps(Mark(1, 0, 11, 6), b1) /\ Clear(Mark(1, 0, 11, 6))
    BY <1>2, <2>1, <2>2, MarkKeeps
  <2>4. Keeps(Mark(W - 30, 0, 9, 6), b3) /\ Clear(Mark(W - 30, 0, 9, 6))
    BY <1>0, <1>2, <2>1, <2>2, MarkKeeps
  <2> QED BY <2>3, <2>4
<1>4. Keeps(what, b2) /\ Clear(what)
  <2>1. b2.X = 14 /\ b2.Y = 0 /\ b2.W = 16 /\ b2.H = 4
    BY RectIs
  <2> HIDE DEF b2
  <2> QED BY <1>2, <2>1, TaglineKeeps
<1>5. Keeps(version, b4) /\ Clear(version)
  <2>1. Clip(10, W - 1) = 10
    BY <1>0 DEF Clip, Lesser, Greater
  <2>2. version = Text(W - 11, 0, 10)
    <3>1. (W - 1) - 10 = W - 11
      BY <1>0
    <3> QED BY <2>1, <3>1 DEF TextRight
  <2>3. b4.X = W - 11 /\ b4.Y = 0 /\ b4.W = 10 /\ b4.H = 1
    BY RectIs
  <2> HIDE DEF b4, version, W
  <2> QED BY <1>0, <1>2, <2>2, <2>3, TextKeeps
<1>6. Keeps(caption, b5) /\ Clear(caption)
  <2>1. b5.X = W - 18 /\ b5.Y = 1 /\ b5.W = 16 /\ b5.H = 3
    BY RectIs
  <2>2. b5.X >= 0 /\ W - 2 = b5.X + 16
    BY <1>0, <2>1
  <2> HIDE DEF b5, W
  <2> QED BY <1>2, <2>1, <2>2, CaptionKeeps
<1>7. Keeps(title, west) /\ Clear(title)
  <2>1. west.X = 33 /\ west.Y = 0 /\ west.W = W - 65 /\ west.H = 6
    BY RectIs
  <2>2. line \in {19, 37}
    OBVIOUS
  <2> HIDE DEF west, line
  <2>3. west.W >= 30 /\ west.H >= 1
    BY <1>0, <2>1
  <2>4. Keeps(NamePart(west, west.H, line), west) /\ Clear(NamePart(west, west.H, line))
    BY <1>2, <2>2, <2>3, NameKeeps
  <2> QED BY <2>1, <2>4
<1>8. /\ Apart(b1, b2) /\ Within(b1, c1) /\ Within(b2, c1)
      /\ Apart(c1, west) /\ Within(c1, c2) /\ Within(west, c2)
      /\ Apart(b4, b5) /\ Within(b4, c3) /\ Within(b5, c3)
      /\ Apart(b3, c3) /\ Within(b3, c4) /\ Within(c3, c4)
      /\ Apart(c2, c4) /\ Within(c2, r) /\ Within(c4, r)
  BY <1>0 DEF Rect, Apart, Within, Right, Bottom
<1> HIDE DEF badge, what, title, moon, version, caption, b1, b2, b3, b4, b5, c1, c2, c3, c4, west
<1>9. Keeps(badge \cup what, c1) /\ Clear(badge \cup what)
  BY <1>2, <1>3, <1>4, <1>8, ClearUnion
<1>10. Keeps((badge \cup what) \cup title, c2) /\ Clear((badge \cup what) \cup title)
  BY <1>2, <1>7, <1>8, <1>9, ClearUnion
<1>11. Keeps(version \cup caption, c3) /\ Clear(version \cup caption)
  BY <1>2, <1>5, <1>6, <1>8, ClearUnion
<1>12. Keeps(moon \cup (version \cup caption), c4) /\ Clear(moon \cup (version \cup caption))
  BY <1>2, <1>3, <1>8, <1>11, ClearUnion
<1>13. LET all == ((badge \cup what) \cup title) \cup (moon \cup (version \cup caption)) IN Keeps(all, r) /\ Clear(all)
  BY <1>2, <1>8, <1>10, <1>12, ClearUnion
<1> QED BY <1>1, <1>13

-----------------------------------------------------------------------------
(* What a snapshot says.                                                   *)
LEMMA SnapIs ==
  ASSUME NEW s \in SnapshotType
  PROVE  /\ s.rate \in Nat /\ s.rate <= 12 /\ s.big \in Nat /\ s.big <= 25 /\ s.unit \in Nat /\ s.unit <= 4
         /\ s.label \in Nat /\ s.label <= 12 /\ s.conn \in Nat /\ s.conn <= 12 /\ s.gpus \in Nat /\ s.detail \in Nat
         /\ s.threads \in Nat /\ s.rates \in Nat /\ s.count \in Nat /\ s.node \in Nat /\ s.time \in Nat
         /\ s.temp \in Nat /\ s.temp <= 6 /\ s.note \in Nat /\ s.note <= 8
         /\ s.log \in Nat /\ s.all \in Nat /\ s.filter \in Nat /\ s.tag \in Nat /\ s.msg \in Nat /\ s.held \in Nat
         /\ s.range \in 1 .. 5 /\ s.axis \in Nat /\ s.path \in Nat
         /\ s.hist \in [1 .. 5 -> Nat] /\ s.notes \in Seq(Seq(Nat))
         /\ s.gpuOn \in BOOLEAN
<1>1. /\ s.rate \in 0 .. 12 /\ s.big \in 0 .. 25 /\ s.unit \in 0 .. 4 /\ s.label \in 0 .. 12 /\ s.conn \in 0 .. 12
      /\ s.temp \in 0 .. 6 /\ s.note \in 0 .. 8
  BY Zenon DEF SnapshotType
<1>2. /\ s.gpus \in Nat /\ s.detail \in Nat
      /\ s.threads \in Nat /\ s.rates \in Nat /\ s.count \in Nat /\ s.node \in Nat /\ s.time \in Nat
      /\ s.log \in Nat /\ s.all \in Nat /\ s.filter \in Nat /\ s.tag \in Nat /\ s.msg \in Nat /\ s.held \in Nat
      /\ s.range \in 1 .. 5 /\ s.axis \in Nat /\ s.path \in Nat
      /\ s.hist \in [1 .. 5 -> Nat] /\ s.notes \in Seq(Seq(Nat)) /\ s.gpuOn \in BOOLEAN
  BY Zenon DEF SnapshotType
<1>3. /\ s.rate \in Nat /\ s.rate <= 12 /\ s.big \in Nat /\ s.big <= 25 /\ s.unit \in Nat /\ s.unit <= 4
      /\ s.label \in Nat /\ s.label <= 12 /\ s.conn \in Nat /\ s.conn <= 12
      /\ s.temp \in Nat /\ s.temp <= 6 /\ s.note \in Nat /\ s.note <= 8
  BY <1>1
<1> QED BY <1>2, <1>3, Zenon

-----------------------------------------------------------------------------
(* The status strip: what does not end before the tag is left out.         *)
FieldsFit(r, tagW, fields, need, kept) ==
  /\ r \in Region /\ r.H = 1 /\ tagW \in Nat /\ tagW <= r.W
  /\ \A i \in 1 .. 5 : fields[i] \in Nat /\ need[i] = fields[i] + 6
  /\ kept \subseteq 1 .. 5
  /\ \A i \in kept : r.X + 1 + Before(need, i) + need[i] <= r.X + r.W - tagW
FieldsInk(r, fields, need, kept) ==
  UNION {Text(r.X + 1 + Before(need, i), r.Y, fields[i] + 3) : i \in kept}

LEMMA FieldsKeep ==
  ASSUME NEW r, NEW tagW, NEW fields, NEW need, NEW kept, FieldsFit(r, tagW, fields, need, kept)
  PROVE  /\ Keeps(FieldsInk(r, fields, need, kept), Rect(r.X, r.Y, r.W - tagW, 1))
         /\ Clear(FieldsInk(r, fields, need, kept))
<1>a. /\ r \in Region /\ r.H = 1 /\ tagW \in Nat /\ tagW <= r.W
      /\ \A i \in 1 .. 5 : fields[i] \in Nat /\ need[i] = fields[i] + 6
      /\ kept \subseteq 1 .. 5
      /\ \A i \in kept : r.X + 1 + Before(need, i) + need[i] <= r.X + r.W - tagW
  BY DEF FieldsFit
<1> USE <1>a
<1> DEFINE n == 5
           S == FieldsInk(r, fields, need, kept)
           x(i) == r.X + 1 + Before(need, i)
           T(i) == Text(x(i), r.Y, fields[i] + 3)
           b == Rect(r.X, r.Y, r.W - tagW, 1)
<1>0. r.X \in Int /\ r.Y \in Int /\ r.W \in Nat
  BY RegionIs
<1>1. Nats(need, n)
  <2> SUFFICES ASSUME NEW i \in 1 .. n PROVE need[i] \in Nat
    BY DEF Nats
  <2> QED OBVIOUS
<1>2. ASSUME NEW i \in 1 .. n
      PROVE  /\ Before(need, i) \in Nat /\ x(i) \in Int /\ x(i) >= r.X
             /\ Before(need, i + 1) = Before(need, i) + need[i]
  <2>1. i \in 1 .. n + 1 /\ i \in i .. n + 1 /\ i \in Nat \ {0}
    OBVIOUS
  <2>2. Before(need, i) \in Nat
    BY <1>1, <2>1, BeforeGrows
  <2> QED BY <1>0, <2>1, <2>2, BeforeStep
<1>3. b \in Region /\ b.X = r.X /\ b.Y = r.Y /\ b.W = r.W - tagW /\ b.H = 1
  BY <1>0 DEF Rect, Region
<1> HIDE DEF b
<1>4. ASSUME NEW i \in kept PROVE Keeps(T(i), b)
  <2>1. i \in 1 .. n /\ fields[i] \in Nat /\ need[i] = fields[i] + 6
    OBVIOUS
  <2>2. x(i) \in Int /\ x(i) >= b.X /\ x(i) + need[i] <= r.X + r.W - tagW
    BY <1>2, <1>3, <2>1
  <2> HIDE DEF x
  <2>3. fields[i] + 3 \in Int /\ x(i) + (fields[i] + 3) <= b.X + b.W /\ r.Y >= b.Y /\ r.Y < b.Y + b.H
    BY <1>0, <1>3, <2>1, <2>2
  <2> QED BY <1>0, <1>3, <2>2, <2>3, TextKeeps
<1>5. \A m \in S : \E i \in kept : m \in T(i) /\ m = Rect(x(i), r.Y, fields[i] + 3, 1)
  BY TextIs DEF FieldsInk
<1> HIDE DEF S
<1>6. Keeps(S, b)
  <2> HIDE DEF T
  <2> QED BY <1>4, <1>5 DEF Keeps
<1>7. ASSUME NEW i \in kept, NEW j \in kept, i < j PROVE x(i) + (fields[i] + 3) <= x(j)
  <2>1. i \in 1 .. n /\ j \in 1 .. n /\ i + 1 \in 1 .. n + 1 /\ j \in (i + 1) .. n + 1
    BY <1>7
  <2>2. Before(need, i + 1) <= Before(need, j)
    BY <1>1, <2>1, BeforeGrows
  <2>3. Before(need, i) \in Nat /\ Before(need, j) \in Nat /\ Before(need, i + 1) = Before(need, i) + need[i]
    BY <1>2, <2>1
  <2>4. fields[i] \in Nat /\ need[i] = fields[i] + 6
    BY <2>1
  <2> QED BY <1>0, <2>2, <2>3, <2>4
<1>8. ASSUME NEW m \in S, NEW l \in S, m # l PROVE Apart(m, l)
  <2>1. PICK i \in kept : m = Rect(x(i), r.Y, fields[i] + 3, 1)
    BY <1>5
  <2>2. PICK j \in kept : l = Rect(x(j), r.Y, fields[j] + 3, 1)
    BY <1>5
  <2>3. i # j
    BY <1>8, <2>1, <2>2
  <2>4. i \in Int /\ j \in Int
    OBVIOUS
  <2>5. m.X = x(i) /\ m.W = fields[i] + 3 /\ l.X = x(j) /\ l.W = fields[j] + 3
    BY <2>1, <2>2, RectIs
  <2> HIDE DEF x
  <2>6. Right(m) <= l.X \/ Right(l) <= m.X
    BY <1>7, <2>3, <2>4, <2>5 DEF Right
  <2> QED BY <2>6 DEF Apart
<1>9. Clear(S)
  BY <1>8 DEF Clear
<1> QED BY <1>6, <1>9 DEF b, S

TagW(r) == IF r.W >= 118 THEN tagText + 15 ELSE IF r.W >= 90 THEN tagText + 2 ELSE 0
TagInk(r) ==
  IF r.W >= 118
  THEN Text(Right(r) - TagW(r) + 1, r.Y, tagText) \cup Text(Right(r) - TagW(r) + 1 + tagText + 2, r.Y, 6)
  ELSE IF r.W >= 90 THEN TextRight(Right(r), r.Y, tagText) ELSE {}

LEMMA TagKeeps ==
  ASSUME NEW r \in Region, r.X >= 0, r.H = 1
  PROVE  /\ TagW(r) \in Nat /\ TagW(r) <= r.W
         /\ Keeps(TagInk(r), Rect(r.X + r.W - TagW(r), r.Y, TagW(r), 1)) /\ Clear(TagInk(r))
<1> DEFINE tagW == TagW(r)
           S == TagInk(r)
           b == Rect(r.X + r.W - tagW, r.Y, tagW, 1)
<1>0. r.X \in Nat /\ r.Y \in Int /\ r.W \in Nat /\ Right(r) = r.X + r.W /\ tagText = 26
  BY RegionIs DEF Right, tagText
<1> USE DEF TagW, TagInk
<1>1. tagW \in Nat /\ tagW <= r.W
  BY <1>0
<1>2. b \in Region /\ b.X = r.X + r.W - tagW /\ b.Y = r.Y /\ b.W = tagW /\ b.H = 1
  BY <1>0, <1>1 DEF Rect, Region
<1> HIDE DEF b
<1>3. CASE r.W >= 118
  <2> DEFINE at == r.X + r.W - 40
             p == Rect(at, r.Y, 26, 1)
             q == Rect(at + 28, r.Y, 6, 1)
  <2>1. tagW = 41 /\ S = Text(at, r.Y, 26) \cup Text(at + 28, r.Y, 6)
    <3>1. tagW = 41
      BY <1>0, <1>3
    <3>2. Right(r) - tagW + 1 = at /\ Right(r) - tagW + 1 + tagText + 2 = at + 28
      BY <1>0, <3>1
    <3> QED BY <1>0, <1>3, <3>1, <3>2
  <2>2. p \in Region /\ q \in Region /\ Apart(p, q) /\ Within(p, b) /\ Within(q, b)
    BY <1>0, <1>2, <2>1 DEF Rect, Region, Apart, Within, Right, Bottom
  <2>3. p.X = at /\ p.Y = r.Y /\ p.W = 26 /\ p.H = 1 /\ q.X = at + 28 /\ q.Y = r.Y /\ q.W = 6 /\ q.H = 1
    BY RectIs
  <2>4. at \in Int
    BY <1>0
  <2> HIDE DEF p, q, at
  <2>5. /\ 26 \in Int /\ 6 \in Int /\ at + 28 \in Int
        /\ at >= p.X /\ at + 26 <= p.X + p.W /\ r.Y >= p.Y /\ r.Y < p.Y + p.H
        /\ at + 28 >= q.X /\ (at + 28) + 6 <= q.X + q.W /\ r.Y >= q.Y /\ r.Y < q.Y + q.H
    BY <1>0, <2>3, <2>4
  <2>6. /\ Keeps(Text(at, r.Y, 26), p) /\ Clear(Text(at, r.Y, 26))
        /\ Keeps(Text(at + 28, r.Y, 6), q) /\ Clear(Text(at + 28, r.Y, 6))
    <3>1. Keeps(Text(at, r.Y, 26), p) /\ Clear(Text(at, r.Y, 26))
      BY <1>0, <2>2, <2>4, <2>5, TextKeeps
    <3>2. Keeps(Text(at + 28, r.Y, 6), q) /\ Clear(Text(at + 28, r.Y, 6))
      BY <1>0, <2>2, <2>5, TextKeeps
    <3> QED BY <3>1, <3>2
  <2>7. Keeps(S, b) /\ Clear(S)
    BY <1>2, <2>1, <2>2, <2>6, ClearUnion
  <2> QED BY <1>1, <2>7 DEF b
<1>4. CASE ~ (r.W >= 118) /\ r.W >= 90
  <2>1. tagW = 28
    BY <1>0, <1>4
  <2>2. Clip(26, Right(r)) = 26
    BY <1>0, <1>4 DEF Clip, Lesser, Greater
  <2>3. S = Text(r.X + r.W - 26, r.Y, 26)
    BY <1>0, <1>4, <2>2 DEF TextRight
  <2>4. r.X + r.W - 26 \in Int /\ r.X + r.W - 26 >= b.X /\ (r.X + r.W - 26) + 26 <= b.X + b.W
    BY <1>0, <1>2, <2>1
  <2>5. 26 \in Int /\ r.Y >= b.Y /\ r.Y < b.Y + b.H
    BY <1>0, <1>2
  <2>6. Keeps(Text(r.X + r.W - 26, r.Y, 26), b) /\ Clear(Text(r.X + r.W - 26, r.Y, 26))
    BY <1>0, <1>2, <2>4, <2>5, TextKeeps
  <2> QED BY <1>1, <2>3, <2>6 DEF b
<1>5. CASE ~ (r.W >= 90)
  <2>1. S = {}
    BY <1>0, <1>5
  <2> QED BY <1>1, <2>1, NoMarks DEF b
<1> QED BY <1>3, <1>4, <1>5

LEMMA StatusKeeps ==
  ASSUME NEW r \in Region, r.X >= 0, r.H = 1, r.W >= 20, NEW s \in Snapshot
  PROVE  Keeps(drawRunHeader(r, s), r) /\ Clear(drawRunHeader(r, s))
<1> DEFINE tagW == TagW(r)
           tag == TagInk(r)
           fields == <<4 + s.node, 14, 6 + s.time, 15, 10>>
           need == [i \in DOMAIN fields |-> fields[i] + 6]
           x(i) == r.X + 1 + Before(need, i)
           fits(i) == \A j \in 1 .. i : x(j) + need[j] <= Right(r) - tagW
           words == UNION {IF fits(i) THEN Text(x(i), r.Y, fields[i] + 3) ELSE {} : i \in DOMAIN fields}
           kept == {i \in 1 .. 5 : fits(i)}
           S == UNION {Text(x(i), r.Y, fields[i] + 3) : i \in kept}
<1>0. r.X \in Nat /\ r.Y \in Int /\ r.W \in Nat /\ Right(r) = r.X + r.W /\ ~ (r.W < 20)
  BY RegionIs DEF Right
<1>1. drawRunHeader(r, s) = tag \cup words
  BY <1>0, Zenon DEF drawRunHeader, TagW, TagInk
<1>2. DOMAIN fields = 1 .. 5 /\ \A i \in 1 .. 5 : fields[i] \in Nat
  <2>1. s.node \in Nat /\ s.time \in Nat
    <3>1. s \in SnapshotType
      BY SnapshotAssumption
    <3> QED BY <3>1, SnapIs
  <2> QED BY <2>1
<1> HIDE DEF fields
<1>3. \A i \in 1 .. 5 : fields[i] \in Nat /\ need[i] = fields[i] + 6
  BY <1>2
<1> HIDE DEF need
<1>4. words = S
  <2>1. \A i : i \in kept <=> i \in DOMAIN fields /\ fits(i)
    BY <1>2
  <2> HIDE DEF fits, x, kept
  <2> QED BY <2>1
<1> DEFINE aft == Rect(r.X + r.W - tagW, r.Y, tagW, 1)
           fore == Rect(r.X, r.Y, r.W - tagW, 1)
<1>5. tagW \in Nat /\ tagW <= r.W /\ Keeps(tag, Rect(r.X + r.W - tagW, r.Y, tagW, 1)) /\ Clear(tag)
  BY TagKeeps
<1> HIDE DEF tag, tagW
<1>6. Keeps(S, fore) /\ Clear(S)
  <2>1. kept \subseteq 1 .. 5
    OBVIOUS
  <2>2. ASSUME NEW i \in kept PROVE r.X + 1 + Before(need, i) + need[i] <= r.X + r.W - tagW
    <3>1. fits(i) /\ i \in 1 .. i
      OBVIOUS
    <3>2. r.X + 1 + Before(need, i) + need[i] <= Right(r) - tagW
      BY <3>1 DEF fits, x
    <3> HIDE DEF kept
    <3>3. Right(r) - tagW = r.X + r.W - tagW
      BY <1>0, <1>5
    <3> QED BY <3>2, <3>3
  <2>3. S = FieldsInk(r, fields, need, kept)
    BY DEF FieldsInk
  <2>4. r \in Region /\ r.H = 1 /\ tagW \in Nat /\ tagW <= r.W
    BY <1>5
  <2> HIDE DEF S, kept, fits, x, fields
  <2>5. FieldsFit(r, tagW, fields, need, kept)
    BY <1>3, <2>1, <2>2, <2>4 DEF FieldsFit
  <2> QED BY <2>3, <2>5, FieldsKeep
<1>7. fore \in Region /\ aft \in Region /\ Apart(aft, fore) /\ Within(fore, r) /\ Within(aft, r)
  BY <1>0, <1>5 DEF Rect, Region, Apart, Within, Right, Bottom
<1>8. Keeps(tag, aft)
  BY <1>5
<1> HIDE DEF fore, aft, S, words
<1>9. Keeps(tag \cup S, r) /\ Clear(tag \cup S)
  BY <1>5, <1>6, <1>7, <1>8, ClearUnion
<1> QED BY <1>1, <1>4, <1>9

-----------------------------------------------------------------------------
(* The header: the crest, the status strip below it and a line.            *)
LEMMA CrestKeeps ==
  ASSUME NEW r \in Region, r.X = 0, r.Y = 0, r.W >= 56, r.H \in {1, 4, 6}
  PROVE  Keeps(drawHeaderCrest(r), r) /\ Clear(drawHeaderCrest(r))
<1>0. r.W \in Nat /\ r.H \in Nat
  BY RegionIs
<1>1. CASE r.W >= 108 /\ r.H = 6
  BY <1>1, FullCrest
<1>2. CASE ~ (r.W >= 108 /\ r.H >= 5)
  <2>1. r.H >= 1
    BY <1>0
  <2> QED BY <1>2, <2>1, SmallCrest
<1> QED BY <1>0, <1>1, <1>2

LEMMA HeaderKeeps ==
  ASSUME NEW W \in Nat, W >= 56, NEW h \in {2, 3, 6, 8}, NEW r, r = Rect(0, 0, W, h), NEW s \in Snapshot
  PROVE  Keeps(drawHeader(r, s), r) /\ Clear(drawHeader(r, s))
<1> DEFINE b1 == Rect(0, h - 1, W, 1)
           b2 == Rect(1, h - 2, W - 2, 1)
           b3 == Rect(0, 0, W, h - 2)
           c == Rect(0, 0, W, h - 1)
           line == Text(0, h - 1, W)
           strip == drawRunHeader(b2, s)
           crest == IF h < 3 THEN {} ELSE drawHeaderCrest(b3)
<1>0. h \in Nat /\ h >= 2
  OBVIOUS
<1>1. r.X = 0 /\ r.Y = 0 /\ r.W = W /\ r.H = h /\ r \in Region
  BY <1>0, RectIs
<1>2. b1 \in Region /\ b2 \in Region /\ b3 \in Region /\ c \in Region
  BY <1>0 DEF Rect, Region
<1>3. drawHeader(r, s) = (line \cup strip) \cup crest
  <2>1. Bottom(r) - 1 = h - 1 /\ Bottom(r) - 2 = h - 2
    BY <1>0, <1>1 DEF Bottom
  <2>2. r.X + 1 = 1 /\ ~ Empty(r)
    BY <1>0, <1>1 DEF Empty
  <2>3. ~ (r.H < 2)
    BY <1>0, <1>1
  <2> HIDE DEF line
  <2>4. Text(r.X, Bottom(r) - 1, r.W) = line
    BY <1>1, <2>1 DEF line
  <2>5. Rect(r.X + 1, Bottom(r) - 2, r.W - 2, 1) = b2 /\ Rect(r.X, r.Y, r.W, r.H - 2) = b3
    BY <1>1, <2>1, <2>2
  <2> HIDE DEF b2, b3
  <2> QED BY <1>1, <2>2, <2>3, <2>4, <2>5 DEF drawHeader
<1>4. Keeps(line, b1) /\ Clear(line)
  <2>1. b1.X = 0 /\ b1.Y = h - 1 /\ b1.W = W /\ b1.H = 1
    BY RectIs
  <2> HIDE DEF b1
  <2>2. /\ 0 \in Int /\ h - 1 \in Int /\ W \in Int /\ 0 >= b1.X /\ 0 + W <= b1.X + b1.W
        /\ h - 1 >= b1.Y /\ h - 1 < b1.Y + b1.H
    BY <1>0, <2>1
  <2> QED BY <1>2, <2>2, TextKeeps
<1>5. Keeps(strip, b2) /\ Clear(strip)
  <2>1. b2.X = 1 /\ b2.W = W - 2 /\ b2.H = 1
    BY RectIs
  <2> HIDE DEF b2
  <2>2. b2.X >= 0 /\ b2.W >= 20
    BY <2>1
  <2> QED BY <1>2, <2>1, <2>2, StatusKeeps
<1>6. Keeps(crest, b3) /\ Clear(crest)
  <2>1. CASE h < 3
    BY <2>1, NoMarks
  <2>2. CASE ~ (h < 3)
    <3>1. b3.X = 0 /\ b3.Y = 0 /\ b3.W = W /\ b3.H = h - 2
      BY RectIs
    <3>2. h - 2 \in {1, 4, 6}
      BY <2>2
    <3> HIDE DEF b3
    <3> QED BY <1>2, <2>2, <3>1, <3>2, CrestKeeps
  <2> QED BY <2>1, <2>2
<1>7. /\ Apart(b1, b2) /\ Within(b1, r) /\ Within(b2, r) /\ Within(b3, r)
      /\ Apart(b1, b3) /\ Apart(b2, b3)
  BY <1>0, <1>1 DEF Rect, Apart, Within, Right, Bottom
<1> DEFINE low == Rect(0, h - 2, W, 2)
<1>8. low \in Region /\ Within(b1, low) /\ Within(b2, low) /\ Within(low, r) /\ Apart(low, b3)
  BY <1>0, <1>1 DEF Rect, Region, Apart, Within, Right, Bottom
<1> HIDE DEF b1, b2, b3, c, line, strip, crest, low
<1>9. Keeps(line \cup strip, low) /\ Clear(line \cup strip)
  BY <1>2, <1>4, <1>5, <1>7, <1>8, ClearUnion
<1>10. Keeps((line \cup strip) \cup crest, r) /\ Clear((line \cup strip) \cup crest)
  BY <1>1, <1>2, <1>6, <1>7, <1>8, <1>9, ClearUnion
<1> QED BY <1>3, <1>10

-----------------------------------------------------------------------------
(* The banner of a block, in the middle: the header grows only in windows  *)
(* high enough for it.                                                     *)
LEMMA BannerKeeps ==
  ASSUME NEW W \in Nat, W >= 56, NEW H \in Nat, NEW h \in Nat, NEW k \in {1, 2}, H >= 14, 2 * h + 8 <= H,
         NEW full, full = Rect(0, 0, W, H), NEW s, s.count \in Nat,
         NEW b, b = Rect(0, h, W, H - h - k)
  PROVE  \A m \in drawBlockBanner(full, s) : Within(m, b)
<1> DEFINE w == Lesser(7 + s.count + 12, W - 4)
           x == (W - w) \div 2
           y == (H - 8) \div 2
           B == Mark(x, y, w, 8)
<1>1. full.X = 0 /\ full.Y = 0 /\ full.W = W /\ full.H = H
  BY RectIs
<1>2. w \in Nat /\ w <= W - 4
  BY DEF Lesser
<1>3. /\ x \in Nat /\ x + w <= W
      /\ y \in Nat /\ y >= h /\ y + 8 <= H - k
  <2> HIDE DEF w
  <2>1. x \in Nat /\ x + w <= W
    BY <1>2
  <2>2. y \in Nat /\ y >= h /\ y + 8 <= H - k
    OBVIOUS
  <2> QED BY <2>1, <2>2
<1>4. drawBlockBanner(full, s) \in {{}, B}
  <2>1. full.X + ((full.W - w) \div 2) = x /\ Middle(full, 8) = y
    BY <1>1, <1>2, <1>3 DEF Middle
  <2>2. Lesser(7 + s.count + 12, full.W - 4) = w
    BY <1>1
  <2> HIDE DEF w, x, y
  <2> QED BY <2>1, <2>2 DEF drawBlockBanner
<1>5. b \in Region /\ b.X = 0 /\ b.Y = h /\ b.W = W /\ b.H = H - h - k
  BY DEF Rect, Region
<1>6. Keeps(B, b)
  <2> HIDE DEF w, x, y
  <2>1. x \in Int /\ y \in Int /\ w \in Int /\ 8 \in Int
    BY <1>2, <1>3
  <2>2. x >= b.X /\ y >= b.Y /\ x + w <= b.X + b.W /\ y + 8 <= b.Y + b.H
    BY <1>3, <1>5
  <2> QED BY <1>5, <2>1, <2>2, MarkKeeps
<1> QED BY <1>4, <1>6 DEF Keeps

-----------------------------------------------------------------------------
(* What keeps to a region, put together from what its parts keep to.       *)
LEMMA BothKeep == ASSUME NEW S, NEW T, NEW b, Keeps(S, b), Keeps(T, b) PROVE Keeps(S \cup T, b)
  BY DEF Keeps

LEMMA ThreeKeep ==
  ASSUME NEW S, NEW T, NEW U, NEW b, Keeps(S, b), Keeps(T, b), Keeps(U, b) PROVE Keeps(S \cup T \cup U, b)
  BY DEF Keeps

LEMMA FourKeep ==
  ASSUME NEW S, NEW T, NEW U, NEW V, NEW b, Keeps(S, b), Keeps(T, b), Keeps(U, b), Keeps(V, b)
  PROVE  Keeps(S \cup T \cup U \cup V, b)
  BY DEF Keeps

LEMMA ChoiceKeeps ==
  ASSUME NEW c, NEW S, NEW T, NEW b, c => Keeps(S, b), ~ c => Keeps(T, b) PROVE Keeps(IF c THEN S ELSE T, b)
  OBVIOUS

LEMMA IfKeeps == ASSUME NEW c, NEW S, NEW b, c => Keeps(S, b) PROVE Keeps(IF c THEN S ELSE {}, b)
  BY NoMarks

(* Texts.                                                                  *)
LEMMA TextInKeeps ==
  ASSUME NEW x \in Int, NEW y \in Int, NEW w \in Int, NEW n \in Int, NEW b \in Region,
         x >= b.X, x + w <= b.X + b.W, y >= b.Y, y < b.Y + b.H
  PROVE  Keeps(TextIn(x, y, w, n), b)
<1> DEFINE c == Clip(n, w)
<1>1. c \in Int /\ (c <= w \/ c <= 0)
  BY DEF Clip, Lesser, Greater
<1>2. TextIn(x, y, w, n) = Text(x, y, c)
  BY DEF TextIn
<1> HIDE DEF c
<1>3. b.X \in Int /\ b.W \in Nat
  BY RegionIs
<1>4. CASE c <= w
  <2>1. x + c <= b.X + b.W
    BY <1>1, <1>3, <1>4
  <2> QED BY <1>1, <1>2, <2>1, TextKeeps
<1>5. CASE c <= 0
  BY <1>2, <1>5, NoMarks DEF Text, Mark
<1> QED BY <1>1, <1>4, <1>5

LEMMA TextRightKeeps ==
  ASSUME NEW x \in Int, NEW y \in Int, NEW n \in Nat, NEW b \in Region, b.X >= 0,
         x - n >= b.X, x <= b.X + b.W, y >= b.Y, y < b.Y + b.H
  PROVE  Keeps(TextRight(x, y, n), b)
<1>1. b.X \in Int /\ b.W \in Nat
  BY RegionIs
<1>2. Clip(n, x) = n
  BY <1>1 DEF Clip, Lesser, Greater
<1>3. TextRight(x, y, n) = Text(x - n, y, n)
  BY <1>2 DEF TextRight
<1>4. x - n \in Int /\ n \in Int /\ (x - n) + n <= b.X + b.W
  OBVIOUS
<1>5. Keeps(Text(x - n, y, n), b)
  BY <1>4, TextKeeps
<1> QED BY <1>3, <1>5

(* A label and a value, which keep to a region that may have no rows left. *)
Columned(q, b) ==
  /\ q.X \in Int /\ q.Y \in Int /\ q.W \in Nat /\ q.H \in Int
  /\ q.X >= b.X /\ q.X + q.W <= b.X + b.W /\ q.Y >= b.Y /\ q.Y + q.H <= b.Y + b.H

LEMMA RowKeeps ==
  ASSUME NEW q, NEW b \in Region, b.X >= 0, Columned(q, b), NEW y \in Int, NEW l \in Nat, NEW v \in Nat
  PROVE  Keeps(Row(q, y, l, v), b)
<1> DEFINE lw == q.W - v - 1  c == Clip(v, q.W)
<1>1. q.X \in Int /\ q.Y \in Int /\ q.W \in Nat /\ q.H \in Int
      /\ q.X >= b.X /\ q.X + q.W <= b.X + b.W /\ q.Y >= b.Y /\ q.Y + q.H <= b.Y + b.H
  BY DEF Columned
<1>2. b.X \in Int /\ b.Y \in Int /\ b.W \in Nat /\ b.H \in Nat
  BY RegionIs
<1>3. lw \in Int /\ c \in Nat /\ c <= q.W /\ Right(q) = q.X + q.W /\ Bottom(q) = q.Y + q.H /\ Right(q) \in Int
  <2>1. c \in Nat /\ c <= q.W
    BY <1>1 DEF Clip, Lesser, Greater
  <2> HIDE DEF c
  <2> QED BY <1>1, <2>1 DEF Right, Bottom
<1>4. CASE y < q.Y \/ y >= Bottom(q)
  BY <1>4, NoMarks DEF Row
<1>5. CASE ~ (y < q.Y \/ y >= Bottom(q))
  <2>1. y >= b.Y /\ y < b.Y + b.H
    BY <1>1, <1>2, <1>3, <1>5
  <2>2. CASE WorthALabel(lw)
    <3>1. lw >= 6
      BY <2>2 DEF WorthALabel, MinLabel
    <3>2. Row(q, y, l, v) = TextIn(q.X, y, lw, l) \cup TextRight(Right(q), y, v)
      BY <1>5, <2>2 DEF Row
    <3>3. q.X + lw <= b.X + b.W /\ Right(q) - v >= b.X /\ Right(q) <= b.X + b.W
      BY <1>1, <1>2, <1>3, <3>1
    <3> HIDE DEF lw
    <3>4. Keeps(TextIn(q.X, y, lw, l), b)
      BY <1>1, <1>3, <2>1, <3>3, TextInKeeps
    <3>5. Keeps(TextRight(Right(q), y, v), b)
      BY <1>3, <2>1, <3>3, TextRightKeeps
    <3> QED BY <3>2, <3>4, <3>5, BothKeep
  <2>3. CASE ~ WorthALabel(lw)
    <3>1. Row(q, y, l, v) = TextRight(Right(q), y, c)
      BY <1>5, <2>3 DEF Row
    <3> HIDE DEF c
    <3>2. Right(q) - c >= b.X /\ Right(q) <= b.X + b.W
      BY <1>1, <1>2, <1>3
    <3> QED BY <1>3, <2>1, <3>1, <3>2, TextRightKeeps
  <2> QED BY <2>2, <2>3
<1> QED BY <1>4, <1>5

Pairs == Seq(Nat \X Nat)

LEMMA KvRowsKeep ==
  ASSUME NEW q, NEW b \in Region, b.X >= 0, Columned(q, b), NEW y \in Int, NEW kvs \in Pairs
  PROVE  Keeps(kvRows(q, y, kvs), b)
<1> DEFINE T(i) == IF y + i - 1 < Bottom(q) THEN Row(q, y + i - 1, kvs[i][1], kvs[i][2]) ELSE {}
<1>1. ASSUME NEW i \in DOMAIN kvs PROVE Keeps(T(i), b)
  <2>1. kvs[i] \in Nat \X Nat /\ i \in Int
    BY DEF Pairs
  <2>2. kvs[i][1] \in Nat /\ kvs[i][2] \in Nat /\ y + i - 1 \in Int
    BY <2>1
  <2>3. Keeps(Row(q, y + i - 1, kvs[i][1], kvs[i][2]), b)
    BY <2>2, RowKeeps
  <2> QED BY <2>3, NoMarks
<1>2. kvRows(q, y, kvs) = UNION {T(i) : i \in DOMAIN kvs}
  BY DEF kvRows
<1> HIDE DEF T
<1> QED BY <1>1, <1>2 DEF Keeps

LEMMA LinesKeep ==
  ASSUME NEW q, NEW b \in Region, Columned(q, b), NEW y \in Int, y >= b.Y, NEW ws \in Seq(Int)
  PROVE  Keeps(Lines(q, y, ws), b)
<1> DEFINE T(i) == IF y + i - 1 < Bottom(q) THEN TextIn(q.X, y + i - 1, q.W, ws[i]) ELSE {}
<1>1. q.X \in Int /\ q.Y \in Int /\ q.W \in Nat /\ q.H \in Int /\ b.Y \in Int /\ b.H \in Nat
  BY RegionIs DEF Columned
<1>2. q.X >= b.X /\ q.X + q.W <= b.X + b.W /\ Bottom(q) = q.Y + q.H /\ Bottom(q) \in Int /\ Bottom(q) <= b.Y + b.H
  BY <1>1 DEF Columned, Bottom
<1>3. ASSUME NEW i \in DOMAIN ws PROVE Keeps(T(i), b)
  <2> DEFINE z == y + i - 1
  <2>1. ws[i] \in Int /\ i \in Nat /\ i >= 1
    OBVIOUS
  <2>2. z \in Int /\ z >= b.Y
    BY <1>1, <2>1
  <2> HIDE DEF z
  <2>3. CASE z < Bottom(q)
    <3>1. z < b.Y + b.H
      BY <1>1, <1>2, <2>2, <2>3, SMTT(40)
    <3>2. Keeps(TextIn(q.X, z, q.W, ws[i]), b)
      BY <1>1, <1>2, <2>1, <2>2, <3>1, TextInKeeps, SMTT(40)
    <3> QED BY <2>3, <3>2 DEF z
  <2>4. CASE ~ (z < Bottom(q))
    BY <2>4, NoMarks DEF z
  <2> QED BY <2>3, <2>4
<1>4. Lines(q, y, ws) = UNION {T(i) : i \in DOMAIN ws}
  BY DEF Lines
<1> HIDE DEF T
<1> QED BY <1>3, <1>4 DEF Keeps

-----------------------------------------------------------------------------
(* A panel and its interior.                                               *)
Framed(in, b) ==
  /\ b \in Region /\ in \in Region /\ b.X >= 0
  /\ in.X = b.X + 2 /\ in.Y = b.Y + 1 /\ in.W = b.W - 4 /\ in.H = b.H - 2 /\ in.W >= 1 /\ in.H >= 1

LEMMA InteriorIs ==
  ASSUME NEW r \in Region, r.X >= 0, ~ Empty(Interior(r))
  PROVE  Framed(Interior(r), r) /\ Interior(r).W = r.W - 4
<1> DEFINE in == Inset2(r, 2, 1)
<1>1. r.X \in Int /\ r.Y \in Int /\ r.W \in Nat /\ r.H \in Nat
  BY RegionIs
<1>2. Interior(r) = in /\ r.W >= 4 /\ r.H >= 3
  <2>1. Empty(Nowhere)
    BY DEF Empty, Nowhere, Rect
  <2> QED BY <1>1, <2>1 DEF Interior
<1>3. in.X = r.X + 2 /\ in.Y = r.Y + 1 /\ in.W = r.W - 4 /\ in.H = r.H - 2
  BY <1>1, <1>2 DEF Inset2, Rect, Greater
<1>4. in \in Region
  BY <1>1, <1>2 DEF Inset2, Rect, Greater, Region
<1> HIDE DEF in
<1>5. in.W >= 1 /\ in.H >= 1
  BY <1>1, <1>2, <1>3 DEF Empty
<1> QED BY <1>1, <1>2, <1>3, <1>4, <1>5 DEF Framed

LEMMA FramedIs ==
  ASSUME NEW in, NEW b, Framed(in, b)
  PROVE  /\ b \in Region /\ in \in Region
         /\ b.X \in Nat /\ b.Y \in Int /\ b.W \in Nat /\ b.H \in Nat
         /\ in.X \in Nat /\ in.Y \in Int /\ in.W \in Nat /\ in.H \in Nat /\ in.W >= 1 /\ in.H >= 1
         /\ in.X = b.X + 2 /\ in.Y = b.Y + 1 /\ in.X + in.W + 2 = b.X + b.W /\ in.Y + in.H + 1 = b.Y + b.H
         /\ Right(in) = in.X + in.W /\ Bottom(in) = in.Y + in.H /\ Right(in) \in Nat /\ Bottom(in) \in Int
         /\ Within(in, b) /\ Columned(in, b)
<1>1. b.X \in Int /\ b.Y \in Int /\ b.W \in Nat /\ b.H \in Nat /\ b.X >= 0 /\ b \in Region /\ in \in Region
  BY RegionIs DEF Framed
<1>2. in.X = b.X + 2 /\ in.Y = b.Y + 1 /\ in.W = b.W - 4 /\ in.H = b.H - 2 /\ in.W >= 1 /\ in.H >= 1
  BY DEF Framed
<1> QED BY <1>1, <1>2 DEF Right, Bottom, Within, Columned

(* A panel's title and the label at its right, on the top rule.            *)
LEMMA TitleKeeps ==
  ASSUME NEW r \in Region, NEW title \in Int, NEW right \in Int PROVE Keeps(PanelTitle(r, title, right), r)
<1> DEFINE x == r.X + 2 + (IF r.W > 12 THEN 2 ELSE 0)
           avail == Right(r) - 2 - x - (IF right > 0 THEN right + 3 ELSE 0)
           words == IF avail > 3 THEN Clip(title, avail) ELSE 0
           rx == Right(r) - 2 - right
           A == IF r.W > 12 THEN Text(r.X + 2, r.Y, 1) ELSE {}
           B == Text(x, r.Y, words)
           C == IF r.W > 24 /\ rx > x + words + 1 THEN Text(rx, r.Y, right) ELSE {}
<1>1. r.X \in Int /\ r.Y \in Int /\ r.W \in Nat /\ r.H \in Nat /\ Right(r) = r.X + r.W /\ Right(r) \in Int
  BY RegionIs DEF Right
<1>2. CASE r.W < 4 \/ r.H < 3
  <2>1. PanelTitle(r, title, right) = {}
    BY <1>2 DEF PanelTitle
  <2> QED BY <2>1, NoMarks
<1>3. CASE ~ (r.W < 4 \/ r.H < 3)
  <2>1. PanelTitle(r, title, right) = A \cup B \cup C
    BY <1>3, Zenon DEF PanelTitle
  <2>2. x \in Int /\ x >= r.X + 2 /\ x <= r.X + 4 /\ (r.W <= 12 => x = r.X + 2)
    BY <1>1
  <2> HIDE DEF x
  <2>3. avail \in Int /\ (right > 0 => avail <= r.X + r.W - 2 - x - right - 3)
        /\ (right <= 0 => avail = r.X + r.W - 2 - x)
    BY <1>1, <2>2
  <2> HIDE DEF avail
  <2>4. words \in Nat /\ (words = 0 \/ words <= avail)
    BY <2>3 DEF Clip, Lesser, Greater
  <2> HIDE DEF words
  <2>5. Keeps(A, r)
    <3>1. CASE r.W > 12
      <4>1. r.X + 2 \in Int /\ 1 \in Int /\ r.X + 2 >= r.X /\ r.X + 2 + 1 <= r.X + r.W /\ r.Y >= r.Y /\ r.Y < r.Y + r.H
        BY <1>1, <1>3, <3>1
      <4> QED BY <1>1, <3>1, <4>1, TextKeeps
    <3>2. CASE ~ (r.W > 12)
      BY <3>2, NoMarks
    <3> QED BY <3>1, <3>2
  <2>6. Keeps(B, r)
    <3>1. x + words <= r.X + r.W
      BY <1>1, <1>3, <2>2, <2>3, <2>4
    <3>2. x >= r.X /\ r.Y >= r.Y /\ r.Y < r.Y + r.H /\ words \in Int
      BY <1>1, <1>3, <2>2, <2>4
    <3> QED BY <1>1, <2>2, <3>1, <3>2, TextKeeps
  <2>7. Keeps(C, r)
    <3>1. CASE r.W > 24 /\ rx > x + words + 1
      <4>1. rx \in Int /\ rx >= r.X /\ rx + right <= r.X + r.W /\ r.Y >= r.Y /\ r.Y < r.Y + r.H
        BY <1>1, <1>3, <2>2, <2>4, <3>1
      <4> HIDE DEF rx
      <4> QED BY <1>1, <3>1, <4>1, TextKeeps
    <3>2. CASE ~ (r.W > 24 /\ rx > x + words + 1)
      BY <3>2, NoMarks
    <3> QED BY <3>1, <3>2
  <2> HIDE DEF A, B, C
  <2> QED BY <2>1, <2>5, <2>6, <2>7, ThreeKeep
<1> QED BY <1>2, <1>3

Fine(p) == Keeps(p.ink, p.at) /\ Keeps(p.top, p.at)

Plain(r, title, right, ink) ==
  [at |-> r, top |-> PanelTitle(r, title, right), ink |-> IF Empty(Interior(r)) THEN {} ELSE ink]

LEMMA PanelFine ==
  ASSUME NEW r \in Region, r.X >= 0, NEW title \in Int, NEW right \in Int, NEW ink,
         Framed(Interior(r), r) /\ Interior(r).W = r.W - 4 => Keeps(ink, r)
  PROVE  Fine(Plain(r, title, right, ink))
<1> DEFINE p == Plain(r, title, right, ink)
<1>1. p.at = r /\ p.top = PanelTitle(r, title, right) /\ p.ink = IF Empty(Interior(r)) THEN {} ELSE ink
  BY DEF Plain
<1> HIDE DEF p
<1>2. Keeps(p.ink, r)
  <2>1. CASE Empty(Interior(r))
    BY <1>1, <2>1, NoMarks
  <2>2. CASE ~ Empty(Interior(r))
    BY <1>1, <2>2, InteriorIs
  <2> QED BY <2>1, <2>2
<1>3. Fine(p)
  BY <1>1, <1>2, TitleKeeps DEF Fine
<1> QED BY <1>3 DEF p

-----------------------------------------------------------------------------
(* Gauges and pictures.                                                    *)
LEMMA PictureKeeps ==
  ASSUME NEW q \in Region, NEW b, Within(q, b), NEW w, NEW h PROVE Keeps(Picture(q, w, h), b)
  BY DEF Picture, Keeps

LEMMA SpectrumKeeps ==
  ASSUME NEW q, NEW b \in Region, Columned(q, b), NEW n \in Nat PROVE Keeps(Spectrum(q, n), b)
<1> DEFINE w == Lesser(n, q.W)
<1>1. q.X \in Int /\ q.Y \in Int /\ q.W \in Nat /\ q.H \in Int /\ Right(q) = q.X + q.W
      /\ q.X >= b.X /\ q.X + q.W <= b.X + b.W /\ q.Y >= b.Y /\ q.Y + q.H <= b.Y + b.H
  BY DEF Columned, Right
<1>2. w \in Int /\ w >= 0 /\ w <= q.W
  BY <1>1 DEF Lesser
<1>3. Spectrum(q, n) = IF Empty(q) THEN {} ELSE Mark(Right(q) - w, q.Y, w, q.H)
  BY DEF Spectrum
<1> HIDE DEF w
<1>4. b.X \in Int /\ b.W \in Nat
  BY RegionIs
<1>5. Right(q) - w \in Int /\ Right(q) - w >= b.X /\ (Right(q) - w) + w <= b.X + b.W
  BY <1>1, <1>2, <1>4
<1>6. Keeps(Mark(Right(q) - w, q.Y, w, q.H), b)
  BY <1>1, <1>2, <1>5, MarkKeeps
<1> QED BY <1>3, <1>6, NoMarks

LEMMA LineInside ==
  ASSUME NEW y \in Int, NEW h \in Int, NEW n \in Int, NEW d \in Int, NEW i \in Int, NEW top \in Int, NEW k \in Int,
         d >= 0, d + n <= h, i >= 1, i <= n, y >= top, y + h <= top + k
  PROVE  (y + d) + i - 1 \in Int /\ (y + d) + i - 1 >= top /\ (y + d) + i - 1 < top + k
  OBVIOUS

(* A ring with no more lines of text in it than fit.                       *)
LEMMA RingKeeps ==
  ASSUME NEW q \in Region, NEW b \in Region, Within(q, b), NEW ws \in Seq(Int), Len(ws) <= 3 PROVE Keeps(Ring(q, ws), b)
<1> DEFINE n == Len(ws)
           top == IF q.H >= n THEN q.Y + ((q.H - n) \div 2) ELSE q.Y - ((n - q.H) \div 2)
           T(i) == TextCenter(q.X, top + i - 1, q.W, Clip(ws[i], q.W - 2))
<1>1. /\ q.X \in Int /\ q.Y \in Int /\ q.W \in Nat /\ q.H \in Nat
      /\ b.X \in Int /\ b.Y \in Int /\ b.W \in Nat /\ b.H \in Nat
  BY RegionIs
<1>2. q.X >= b.X /\ q.Y >= b.Y /\ q.X + q.W <= b.X + b.W /\ q.Y + q.H <= b.Y + b.H
  BY DEF Within, Right, Bottom
<1>3. CASE q.W < 5 \/ q.H < 3
  BY <1>3, NoMarks DEF Ring
<1>4. CASE ~ (q.W < 5 \/ q.H < 3)
  <2>1. n \in Nat /\ n <= q.H
    BY <1>1, <1>4
  <2>2. top = q.Y + ((q.H - n) \div 2)
    BY <1>1, <2>1
  <2>3. Ring(q, ws) = {q} \cup UNION {T(i) : i \in 1 .. n}
    BY <1>4 DEF Ring
  <2> DEFINE d == (q.H - n) \div 2
  <2>4. d \in Nat /\ d + n <= q.H
    <3> HIDE DEF n
    <3> QED BY <1>1, <2>1, SMTT(40)
  <2>5. top = q.Y + d
    BY <2>2
  <2>6. \A i \in 1 .. n : ws[i] \in Int
    OBVIOUS
  <2> HIDE DEF n, top, d, T
  <2>7. ASSUME NEW i \in 1 .. n PROVE Keeps(T(i), b)
    <3>1. top + i - 1 \in Int /\ top + i - 1 >= b.Y /\ top + i - 1 < b.Y + b.H
      <4>1. i \in Int /\ i >= 1 /\ i <= n /\ n \in Int /\ d \in Int /\ d >= 0 /\ d + n <= q.H
        BY <2>1, <2>4
      <4>2. q.Y \in Int /\ q.H \in Int /\ b.Y \in Int /\ b.H \in Int /\ q.Y >= b.Y /\ q.Y + q.H <= b.Y + b.H
        BY <1>1, <1>2
      <4>3. (q.Y + d) + i - 1 \in Int /\ (q.Y + d) + i - 1 >= b.Y /\ (q.Y + d) + i - 1 < b.Y + b.H
        BY <4>1, <4>2, LineInside
      <4>4. top = q.Y + d
        BY <2>5
      <4> QED BY <4>3, <4>4
    <3>2. q.W - 2 \in Nat /\ ws[i] \in Int
      BY <1>1, <1>4, <2>6, SMTT(40)
    <3>3. Clip(ws[i], q.W - 2) \in Int
      BY <3>2, ClipIs
    <3> QED BY <1>1, <1>2, <3>1, <3>3, CentredKeeps DEF T
  <2>8. Keeps({q}, b)
    BY DEF Keeps
  <2>9. Keeps(UNION {T(i) : i \in 1 .. n}, b)
    BY <2>7 DEF Keeps
  <2> QED BY <2>3, <2>8, <2>9, BothKeep
<1> QED BY <1>3, <1>4

-----------------------------------------------------------------------------
(* The chart: its plot, the labels of its scale and those of its axis.     *)
LEMMA ShareIs ==
  ASSUME NEW n \in Nat \ {0}, NEW i \in 0 .. n, NEW k \in Nat PROVE (i * k) \div n \in Nat /\ (i * k) \div n <= k
<1> DEFINE a == i * k
<1>1. a \in Nat /\ a <= n * k
  <2>1. \A u, v, w \in Nat : u <= v => u * w <= v * w /\ u * w \in Nat
    OBVIOUS
  <2>2. i \in Nat /\ i <= n /\ n \in Nat
    OBVIOUS
  <2> QED BY <2>1, <2>2
<1> HIDE DEF a
<1>2. a \div n \in Nat /\ n * (a \div n) <= a
  BY <1>1, Division
<1> DEFINE d == a \div n
<1>3. d \in Nat /\ n * d <= k * n
  <2>1. n * k = k * n /\ n * k \in Int
    OBVIOUS
  <2>2. d \in Nat /\ n * d <= a /\ n * d \in Int
    BY <1>2
  <2> HIDE DEF d
  <2> QED BY <1>1, <2>1, <2>2
<1> HIDE DEF d
<1>4. d <= k
  BY <1>3, Cancels
<1> QED BY <1>3, <1>4 DEF d, a

LEMMA PlotIs ==
  ASSUME NEW in, NEW b, Framed(in, b), NEW labelW \in Nat, in.W >= 10, in.H >= 4
  PROVE  LET p == Plot(in, labelW)
         IN  /\ p \in Region /\ Within(p, in) /\ p.W >= 4 /\ p.H >= 4 /\ p.Y = in.Y /\ Right(p) = Right(in)
             /\ p.X = in.X \/ p.X = in.X + labelW + 1
             /\ Bottom(p) = Bottom(in) - XAxisRows(in.H) /\ XAxisRows(in.H) \in {0, 1, 2}
<1>1. in.X \in Nat /\ in.Y \in Int /\ in.W \in Nat /\ in.H \in Nat
  BY FramedIs
<1> DEFINE gutter == IF labelW > in.W \div 4 THEN 0 ELSE labelW + 1
           rows == XAxisRows(in.H)
           p == Plot(in, labelW)
<1>2. gutter \in Nat /\ (gutter = 0 \/ gutter = labelW + 1) /\ in.W - gutter >= 4
  <2> DEFINE d == in.W \div 4
  <2>1. d \in Nat /\ 4 * d <= in.W
    BY <1>1
  <2> HIDE DEF d
  <2> QED BY <1>1, <2>1 DEF d
<1>3. rows \in {0, 1, 2} /\ in.H - rows >= 4
  BY <1>1 DEF XAxisRows
<1>4. p = Rect(in.X + gutter, in.Y, in.W - gutter, in.H - rows)
  BY DEF Plot
<1> HIDE DEF gutter, rows
<1>5. in.X + gutter \in Int /\ in.W - gutter \in Nat /\ in.H - rows \in Nat
  BY <1>1, <1>2, <1>3
<1>6. p.X = in.X + gutter /\ p.Y = in.Y /\ p.W = in.W - gutter /\ p.H = in.H - rows /\ p \in Region
  BY <1>1, <1>4, <1>5, RectIs
<1> HIDE DEF p
<1>7. Within(p, in) /\ Right(p) = Right(in) /\ Bottom(p) = Bottom(in) - rows
  BY <1>1, <1>2, <1>3, <1>6 DEF Within, Right, Bottom
<1>8. p.W >= 4 /\ p.H >= 4
  BY <1>2, <1>3, <1>6
<1>9. p.X = in.X \/ p.X = in.X + labelW + 1
  BY <1>1, <1>2, <1>6
<1> QED BY <1>3, <1>6, <1>7, <1>8, <1>9 DEF p, rows

LEMMA TickRowIs ==
  ASSUME NEW p \in Region, p.H >= 4, NEW i \in 0 .. MaxTicks(p)
  PROVE  TickRow(p, i, MaxTicks(p)) \in p.Y .. p.Y + p.H - 1
<1> DEFINE n == MaxTicks(p)
           k == p.H - 1
<1>1. p.Y \in Int /\ p.H \in Nat
  BY RegionIs
<1>2. n \in Nat \ {0}
  <2> DEFINE d == k \div 2
  <2>1. d \in Int
    BY <1>1
  <2>2. n = Lesser(Greater(d, 2), 6)
    BY DEF MaxTicks
  <2> HIDE DEF d, n
  <2> QED BY <2>1, <2>2 DEF Lesser, Greater
<1>3. k \in Nat /\ p.Y + p.H - 1 = p.Y + k
  BY <1>1
<1> HIDE DEF n, k
<1>4. i \in 0 .. n
  BY DEF n
<1>5. (i * k) \div n \in Nat /\ (i * k) \div n <= k
  BY <1>2, <1>3, <1>4, ShareIs
<1>6. TickRow(p, i, n) = p.Y + ((i * k) \div n)
  BY DEF TickRow, k
<1> DEFINE d == (i * k) \div n
<1>7. d \in Nat /\ d <= k /\ TickRow(p, i, n) = p.Y + d
  BY <1>5, <1>6
<1> HIDE DEF d
<1>8. TickRow(p, i, n) \in p.Y .. p.Y + k
  BY <1>1, <1>3, <1>7
<1> QED BY <1>3, <1>8 DEF n

LEMMA XLabelIs ==
  ASSUME NEW p \in Region, NEW n \in Nat, n >= 2, NEW i \in 1 .. n, NEW w \in 0 .. 3, p.W >= 4
  PROVE  XLabelAt(p, i, n, w) \in Int /\ XLabelAt(p, i, n, w) >= p.X /\ XLabelAt(p, i, n, w) + w <= p.X + p.W
<1> DEFINE d == ((i - 1) * (p.W - 1)) \div (n - 1)
           x == IF i = 1 THEN p.X ELSE IF i = n THEN Right(p) - w ELSE p.X + d - (w \div 2)
<1>1. p.X \in Int /\ p.W \in Nat /\ Right(p) = p.X + p.W /\ w \in Int /\ w \div 2 \in Int
  BY RegionIs DEF Right
<1>2. d \in Int
  <2>1. n - 1 \in Nat \ {0} /\ i - 1 \in 0 .. n - 1 /\ p.W - 1 \in Nat
    BY <1>1
  <2> QED BY <2>1, ShareIs
<1> HIDE DEF d
<1>3. x \in Int
  BY <1>1, <1>2
<1>4. XLabelAt(p, i, n, w) = Lesser(Greater(x, p.X), Right(p) - w)
  BY DEF XLabelAt, d
<1> HIDE DEF x
<1>5. w <= 3
  OBVIOUS
<1> QED BY <1>1, <1>3, <1>4, <1>5 DEF Lesser, Greater

AxisLabels(xs) == Len(xs) \in Nat /\ Len(xs) >= 2 /\ \A i \in 1 .. Len(xs) : xs[i] \in 0 .. 3

LEMMA ChartKeeps ==
  ASSUME NEW in, NEW b, Framed(in, b), NEW labelW \in Nat, NEW xs, AxisLabels(xs), NEW empty \in Int
  PROVE  Keeps(Chart(in, labelW, xs, empty), b)
<1> DEFINE p == Plot(in, labelW)
           ticks == MaxTicks(p)
           n == Len(xs)
           Tick(i) == TextRight(p.X - 2, TickRow(p, i, ticks), labelW)
           Stop(i) == Text(XLabelAt(p, i, n, xs[i]), Bottom(in) - 1, xs[i])
           scale == IF p.X = in.X THEN {} ELSE Mark(p.X - 1, p.Y, 1, p.H) \cup UNION {Tick(i) : i \in 0 .. ticks}
           axis == IF XAxisRows(in.H) = 0 THEN {}
                   ELSE Text(p.X, Bottom(p), p.W)
                        \cup (IF p.W < 6 THEN {} ELSE UNION {Stop(i) : i \in 1 .. n})
           trace == IF empty = 0 THEN {p} ELSE TextCenter(p.X, p.Y + (p.H \div 2), p.W, empty)
<1>1. /\ b \in Region /\ in \in Region
      /\ b.X \in Nat /\ b.Y \in Int /\ b.W \in Nat /\ b.H \in Nat
      /\ in.X \in Nat /\ in.Y \in Int /\ in.W \in Nat /\ in.H \in Nat
      /\ in.X = b.X + 2 /\ in.Y = b.Y + 1 /\ in.X + in.W + 2 = b.X + b.W /\ in.Y + in.H + 1 = b.Y + b.H
      /\ Right(in) = in.X + in.W /\ Bottom(in) = in.Y + in.H /\ Within(in, b)
  BY FramedIs
<1>2. CASE in.W < 10 \/ in.H < 4
  BY <1>2, NoMarks DEF Chart
<1>3. CASE ~ (in.W < 10 \/ in.H < 4)
  <2>1. /\ p \in Region /\ Within(p, in) /\ p.W >= 4 /\ p.H >= 4 /\ p.Y = in.Y /\ Right(p) = Right(in)
        /\ p.X = in.X \/ p.X = in.X + labelW + 1
        /\ Bottom(p) = Bottom(in) - XAxisRows(in.H) /\ XAxisRows(in.H) \in {0, 1, 2}
    BY <1>1, <1>3, PlotIs
  <2>2. Chart(in, labelW, xs, empty) = scale \cup axis \cup trace
    BY <1>1, <1>3, <2>1, RegionIs DEF Chart
  <2>3. \A i \in 0 .. ticks : TickRow(p, i, ticks) \in p.Y .. p.Y + p.H - 1
    BY <2>1, TickRowIs
  <2> DEFINE row(i) == TickRow(p, i, ticks)
             at(i) == XLabelAt(p, i, n, xs[i])
  <2>4. n \in Nat /\ n >= 2 /\ \A i \in 1 .. n : xs[i] \in 0 .. 3
    BY DEF AxisLabels
  <2>5. \A i \in 1 .. n : at(i) \in Int /\ at(i) >= p.X /\ at(i) + xs[i] <= p.X + p.W
    BY <2>1, <2>4, XLabelIs
  <2>6. p.X \in Int /\ p.Y \in Int /\ p.W \in Nat /\ p.H \in Nat /\ Right(p) = p.X + p.W /\ Bottom(p) = p.Y + p.H
    BY <2>1, RegionIs DEF Right, Bottom
  <2> HIDE DEF p, ticks, n
  <2>7. Keeps(scale, b)
    <3>1. CASE p.X = in.X
      BY <3>1, NoMarks
    <3>2. CASE p.X # in.X
      <4>1. p.X = in.X + labelW + 1
        BY <2>1, <3>2
      <4>2. /\ p.X - 1 \in Int /\ 1 \in Int /\ p.H \in Int /\ p.X - 1 >= b.X /\ p.Y >= b.Y
            /\ (p.X - 1) + 1 <= b.X + b.W /\ p.Y + p.H <= b.Y + b.H
        BY <1>1, <2>1, <2>6, <4>1
      <4>3. Keeps(Mark(p.X - 1, p.Y, 1, p.H), b)
        BY <1>1, <2>6, <4>2, MarkKeeps
      <4>4. p.X - 2 \in Int /\ (p.X - 2) - labelW >= b.X /\ p.X - 2 <= b.X + b.W
        BY <1>1, <2>6, <4>1, <4>2
      <4>5. ASSUME NEW i \in 0 .. ticks PROVE Keeps(Tick(i), b)
        <5>1. row(i) \in p.Y .. p.Y + p.H - 1
          BY <2>3
        <5> HIDE DEF row
        <5>2. row(i) \in Int /\ row(i) >= b.Y /\ row(i) < b.Y + b.H
          BY <1>1, <2>6, <4>2, <5>1
        <5>3. b.X >= 0
          BY <1>1
        <5>4. Keeps(TextRight(p.X - 2, row(i), labelW), b)
          BY <1>1, <4>4, <5>2, <5>3, TextRightKeeps
        <5> QED BY <5>4 DEF row
      <4> HIDE DEF Tick
      <4>6. Keeps(UNION {Tick(i) : i \in 0 .. ticks}, b)
        BY <4>5 DEF Keeps
      <4> QED BY <3>2, <4>3, <4>6, BothKeep
    <3> QED BY <3>1, <3>2
  <2>8. Keeps(axis, b)
    <3>1. CASE XAxisRows(in.H) = 0
      BY <3>1, NoMarks
    <3>2. CASE XAxisRows(in.H) # 0
      <4>1. Bottom(p) \in Int /\ Bottom(p) >= b.Y /\ Bottom(p) < b.Y + b.H /\ p.X >= b.X /\ p.X + p.W <= b.X + b.W
            /\ Bottom(in) - 1 \in Int /\ Bottom(in) - 1 >= b.Y /\ Bottom(in) - 1 < b.Y + b.H
        <5>1. Bottom(p) <= Bottom(in) - 1
          BY <1>1, <2>1, <2>6, <3>2
        <5>2. p.X >= in.X /\ p.X + p.W = in.X + in.W
          BY <1>1, <2>1, <2>6
        <5> QED BY <1>1, <2>1, <2>6, <5>1, <5>2
      <4>2. Keeps(Text(p.X, Bottom(p), p.W), b)
        BY <1>1, <2>6, <4>1, TextKeeps
      <4>3. ASSUME NEW i \in 1 .. n PROVE Keeps(Stop(i), b)
        <5>1. at(i) \in Int /\ at(i) >= p.X /\ at(i) + xs[i] <= p.X + p.W /\ xs[i] \in Int
          BY <2>4, <2>5
        <5> HIDE DEF at
        <5>2. at(i) >= b.X /\ at(i) + xs[i] <= b.X + b.W
          BY <1>1, <2>6, <4>1, <5>1
        <5>3. Keeps(Text(at(i), Bottom(in) - 1, xs[i]), b)
          BY <1>1, <4>1, <5>1, <5>2, TextKeeps
        <5> QED BY <5>3 DEF at
      <4> HIDE DEF Stop
      <4>4. Keeps(UNION {Stop(i) : i \in 1 .. n}, b)
        BY <4>3 DEF Keeps
      <4>5. Keeps(IF p.W < 6 THEN {} ELSE UNION {Stop(i) : i \in 1 .. n}, b)
        BY <4>4, NoMarks
      <4> QED BY <3>2, <4>2, <4>5, BothKeep
    <3> QED BY <3>1, <3>2
  <2>9. Keeps(trace, b)
    <3>1. Keeps({p}, b)
      <4>1. Within(p, b)
        BY <1>1, <2>1, WithinTrans
      <4> QED BY <2>1, <4>1 DEF Keeps
    <3>2. Keeps(TextCenter(p.X, p.Y + (p.H \div 2), p.W, empty), b)
      <4> DEFINE d == p.H \div 2
      <4>1. d \in Nat /\ d < p.H
        BY <2>1, <2>6
      <4> HIDE DEF d
      <4>2. p.X >= in.X /\ p.X + p.W = in.X + in.W /\ p.Y + p.H <= in.Y + in.H
        BY <1>1, <2>1, <2>6 DEF Within
      <4>3. p.Y + d \in Int /\ p.Y + d >= b.Y /\ p.Y + d < b.Y + b.H /\ p.X >= b.X /\ p.X + p.W <= b.X + b.W
        BY <1>1, <2>1, <2>6, <4>1, <4>2
      <4>4. Keeps(TextCenter(p.X, p.Y + d, p.W, empty), b)
        BY <1>1, <2>6, <4>3, CentredKeeps
      <4> QED BY <4>4 DEF d
    <3> QED BY <3>1, <3>2
  <2> HIDE DEF scale, axis, trace
  <2> QED BY <2>2, <2>7, <2>8, <2>9, ThreeKeep
<1> QED BY <1>2, <1>3

-----------------------------------------------------------------------------
(* The middle of a line, and what is written about it.                     *)
LEMMA MiddleIs ==
  ASSUME NEW w \in Int, NEW k \in Int, k <= w PROVE (w - k) \div 2 \in Nat /\ ((w - k) \div 2) + k <= w
<1> DEFINE d == w - k
<1>1. d \in Nat
  OBVIOUS
<1> HIDE DEF d
<1>2. d \div 2 \in Nat /\ d \div 2 <= d
  BY <1>1
<1> DEFINE e == d \div 2
<1> HIDE DEF e
<1>3. e \in Nat /\ e <= d
  BY <1>2 DEF e
<1>4. e + k <= w
  BY <1>1, <1>3 DEF d
<1> QED BY <1>3, <1>4 DEF d, e

(* Where a region that another holds is.                                   *)
LEMMA InsideIs ==
  ASSUME NEW q \in Region, NEW b \in Region, Within(q, b)
  PROVE  /\ q.X \in Int /\ q.Y \in Int /\ q.W \in Nat /\ q.H \in Nat /\ Right(q) = q.X + q.W /\ Bottom(q) = q.Y + q.H
         /\ b.X \in Int /\ b.Y \in Int /\ b.W \in Nat /\ b.H \in Nat
         /\ q.X >= b.X /\ q.Y >= b.Y /\ q.X + q.W <= b.X + b.W /\ q.Y + q.H <= b.Y + b.H
         /\ Columned(q, b)
<1>1. /\ q.X \in Int /\ q.Y \in Int /\ q.W \in Nat /\ q.H \in Nat
      /\ b.X \in Int /\ b.Y \in Int /\ b.W \in Nat /\ b.H \in Nat
  BY RegionIs
<1> QED BY <1>1 DEF Within, Right, Bottom, Columned

LEMMA MastKeeps == ASSUME NEW q \in Region, NEW b \in Region, Within(q, b) PROVE Keeps(Mast(q), b)
<1> DEFINE arcs == Clip(q.H - MastRows, 3)
           d == (q.H - MastRows - arcs) \div 2
           top == q.Y + d
           Arc(i) == Text(q.X + ((q.W - (2 * i + 1)) \div 2), top + arcs - i, 2 * i + 1)
           foot == Mark(q.X + ((q.W - 6) \div 2), top + arcs, 6, MastRows)
<1>1. /\ q.X \in Int /\ q.Y \in Int /\ q.W \in Nat /\ q.H \in Nat
      /\ b.X \in Int /\ b.Y \in Int /\ b.W \in Nat /\ b.H \in Nat
      /\ q.X >= b.X /\ q.Y >= b.Y /\ q.X + q.W <= b.X + b.W /\ q.Y + q.H <= b.Y + b.H
  BY InsideIs
<1>2. CASE q.W < 8 \/ q.H < MastRows + 1
  BY <1>2, NoMarks DEF Mast
<1>3. CASE ~ (q.W < 8 \/ q.H < MastRows + 1)
  <2>1. q.W >= 8 /\ q.H >= 5 /\ MastRows = 4
    BY <1>1, <1>3 DEF MastRows
  <2>2. arcs \in Nat /\ arcs <= 3 /\ arcs <= q.H - 4
    BY <1>1, <2>1 DEF Clip, Lesser, Greater
  <2>3. Mast(q) = foot \cup UNION {Arc(i) : i \in 1 .. arcs}
    BY <1>3 DEF Mast
  <2> HIDE DEF arcs
  <2>4. d \in Nat /\ d + arcs <= q.H - 4
    <3> DEFINE k == q.H - 4
    <3>1. k \in Int /\ arcs <= k /\ d = (k - arcs) \div 2
      BY <1>1, <2>1, <2>2
    <3> HIDE DEF k, d
    <3>2. d \in Nat /\ d + arcs <= k
      BY <2>2, <3>1, MiddleIs
    <3> QED BY <3>2 DEF k
  <2> HIDE DEF d
  <2>5. Keeps(foot, b)
    <3> DEFINE m == (q.W - 6) \div 2
    <3>1. m \in Nat /\ m + 6 <= q.W
      BY <1>1, <2>1, MiddleIs
    <3> HIDE DEF m
    <3>2. q.X + m \in Int /\ q.X + m >= b.X /\ (q.X + m) + 6 <= b.X + b.W
      BY <1>1, <3>1
    <3>3. top + arcs \in Int /\ top + arcs >= b.Y /\ (top + arcs) + 4 <= b.Y + b.H
      BY <1>1, <2>2, <2>4
    <3>4. Keeps(Mark(q.X + m, top + arcs, 6, 4), b)
      BY <3>2, <3>3, MarkKeeps
    <3> QED BY <2>1, <3>4 DEF m
  <2>6. ASSUME NEW i \in 1 .. arcs PROVE Keeps(Arc(i), b)
    <3> DEFINE k == 2 * i + 1
               m == (q.W - k) \div 2
    <3>1. k \in Int /\ k <= q.W /\ i \in Int /\ i >= 1 /\ i <= arcs
      BY <1>1, <2>1, <2>2
    <3> HIDE DEF k
    <3>2. m \in Nat /\ m + k <= q.W
      BY <1>1, <3>1, MiddleIs
    <3> HIDE DEF m
    <3>3. q.X + m \in Int /\ q.X + m >= b.X /\ (q.X + m) + k <= b.X + b.W
      BY <1>1, <3>1, <3>2
    <3>4. top + arcs - i \in Int /\ top + arcs - i >= b.Y /\ top + arcs - i < b.Y + b.H
      BY <1>1, <2>2, <2>4, <3>1
    <3>5. Keeps(Text(q.X + m, top + arcs - i, k), b)
      BY <3>1, <3>3, <3>4, TextKeeps
    <3> QED BY <3>5 DEF m, k
  <2> HIDE DEF Arc, foot
  <2>7. Keeps(UNION {Arc(i) : i \in 1 .. arcs}, b)
    BY <2>6 DEF Keeps
  <2> QED BY <2>3, <2>5, <2>7, BothKeep
<1> QED BY <1>2, <1>3

LEMMA SignalRampKeeps ==
  ASSUME NEW q \in Region, NEW b \in Region, Within(q, b), q.W >= 10 PROVE Keeps(SignalRamp(q), b)
<1> DEFINE pitch == IF q.W >= 14 THEN 3 ELSE 2
           gap == IF q.W >= 14 THEN 1 ELSE IF q.W >= 10 THEN 0 ELSE 1
           w == 5 * pitch - gap
           m == (q.W - w) \div 2
<1>1. /\ q.X \in Int /\ q.Y \in Int /\ q.W \in Nat /\ q.H \in Nat
      /\ b.X \in Int /\ b.Y \in Int /\ b.W \in Nat /\ b.H \in Nat
      /\ q.X >= b.X /\ q.Y >= b.Y /\ q.X + q.W <= b.X + b.W /\ q.Y + q.H <= b.Y + b.H
  BY InsideIs
<1>2. SignalRamp(q) = IF q.W < 5 \/ q.H < 2 THEN {} ELSE Mark(q.X + m, q.Y, w, q.H)
  BY DEF SignalRamp
<1>3. w \in Int /\ w <= q.W
  BY <1>1
<1> HIDE DEF w
<1>4. m \in Nat /\ m + w <= q.W
  <2>1. q.W \in Int
    BY <1>1
  <2> QED BY <1>3, <2>1, MiddleIs, Zenon
<1> HIDE DEF m
<1>5. q.X + m \in Int /\ q.X + m >= b.X /\ (q.X + m) + w <= b.X + b.W
  BY <1>1, <1>3, <1>4
<1>6. Keeps(Mark(q.X + m, q.Y, w, q.H), b)
  BY <1>1, <1>3, <1>5, MarkKeeps
<1> QED BY <1>2, <1>6, NoMarks

LEMMA TileKeeps ==
  ASSUME NEW q \in Region, NEW b \in Region, Within(q, b), NEW title \in Int, NEW value \in Int, NEW high, NEW gauge, NEW bar,
         q.W >= 6 /\ q.H >= 2 /\ high => Keeps(gauge, b)
  PROVE  Keeps(Tile(q, title, value, high, gauge, bar), b)
<1> DEFINE A == TextCenter(q.X, q.Y, q.W, Clip(title, q.W))
           B == IF high THEN gauge ELSE IF bar /\ q.H >= 3 /\ q.W >= 8
                THEN DrawBar(q.X + 1, Bottom(q) - 1, q.W - 2) ELSE {}
           C == TextCenter(q.X, IF high THEN Bottom(q) - 1 ELSE q.Y + 1, q.W, Clip(value, q.W))
<1>1. /\ q.X \in Int /\ q.Y \in Int /\ q.W \in Nat /\ q.H \in Nat /\ Bottom(q) = q.Y + q.H
      /\ b.X \in Int /\ b.Y \in Int /\ b.W \in Nat /\ b.H \in Nat
      /\ q.X >= b.X /\ q.Y >= b.Y /\ q.X + q.W <= b.X + b.W /\ q.Y + q.H <= b.Y + b.H
  BY InsideIs
<1>2. Tile(q, title, value, high, gauge, bar) = IF q.W < 6 \/ q.H < 2 THEN {} ELSE A \cup B \cup C
  BY Zenon DEF Tile
<1>3. CASE q.W < 6 \/ q.H < 2
  BY <1>2, <1>3, NoMarks
<1>4. CASE ~ (q.W < 6 \/ q.H < 2)
  <2>1. q.W >= 6 /\ q.H >= 2
    BY <1>1, <1>4
  <2>2. Keeps(A, b)
    <3>1. q.Y < b.Y + b.H
      BY <1>1, <2>1
    <3>2. Clip(title, q.W) \in Int
      BY <1>1, ClipIs
    <3> QED BY <1>1, <3>1, <3>2, CentredKeeps
  <2>3. Keeps(B, b)
    <3>1. q.X + 1 \in Int /\ Bottom(q) - 1 \in Int /\ q.W - 2 \in Int /\ q.X + 1 >= b.X
          /\ (q.X + 1) + (q.W - 2) <= b.X + b.W /\ Bottom(q) - 1 >= b.Y /\ Bottom(q) - 1 < b.Y + b.H
      BY <1>1, <2>1
    <3>2. Keeps(Text(q.X + 1, Bottom(q) - 1, q.W - 2), b)
      BY <3>1, TextKeeps
    <3>3. Keeps(IF bar /\ q.H >= 3 /\ q.W >= 8 THEN DrawBar(q.X + 1, Bottom(q) - 1, q.W - 2) ELSE {}, b)
      BY <3>2, IfKeeps DEF DrawBar
    <3> QED BY <2>1, <3>3, ChoiceKeeps
  <2>4. Keeps(C, b)
    <3> DEFINE y == IF high THEN Bottom(q) - 1 ELSE q.Y + 1
    <3>1. y \in Int /\ y >= b.Y /\ y < b.Y + b.H
      <4>1. CASE high BY <1>1, <2>1, <4>1
      <4>2. CASE ~ high BY <1>1, <2>1, <4>2
      <4> QED BY <4>1, <4>2
    <3> HIDE DEF y
    <3>2. Clip(value, q.W) \in Int
      BY <1>1, ClipIs
    <3>3. Keeps(TextCenter(q.X, y, q.W, Clip(value, q.W)), b)
      BY <1>1, <3>1, <3>2, CentredKeeps
    <3> QED BY <3>3 DEF y
  <2> HIDE DEF A, B, C
  <2> QED BY <1>2, <1>4, <2>2, <2>3, <2>4, ThreeKeep
<1> QED BY <1>3, <1>4
=============================================================================
