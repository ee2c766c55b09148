-------------------------- MODULE BalanceRunProofs --------------------------
(***************************************************************************)
(* balance for every number of nodes and all counts, as long as the        *)
(* records are fewer than half of Modulus: it never overdraws a node,      *)
(* moves no record twice, ends with every node on its target and is        *)
(* stable.                                                                 *)
(***************************************************************************)
EXTENDS BalanceRun, BalancerProofs

-----------------------------------------------------------------------------
(* Sums of whole numbers.  s[i] is the sum of the first i of the n numbers *)
(* d.                                                                      *)
Adds(s, d, n) ==
    /\ s \in [0 .. n -> Int] /\ s[0] = 0
    /\ \A i \in 0 .. n - 1 : s[i + 1] = s[i] + d[i + 1]

(* One of the numbers changes by x.                                        *)
Raised(e, d, j, x, n) == e[j] = d[j] + x /\ \A i \in 1 .. n : i # j => e[i] = d[i]

LEMMA AddsChange ==
  ASSUME NEW n \in Nat, NEW d \in [1 .. n -> Int], NEW s, Adds(s, d, n), NEW j \in 1 .. n,
         NEW x \in Int, NEW e, Raised(e, d, j, x, n)
  PROVE  \E r : Adds(r, e, n) /\ r[n] = s[n] + x
<1> DEFINE r == [i \in 0 .. n |-> IF j <= i THEN s[i] + x ELSE s[i]]
<1>1. /\ s \in [0 .. n -> Int] /\ s[0] = 0
      /\ \A i \in 0 .. n - 1 : s[i + 1] = s[i] + d[i + 1]
  BY DEF Adds
<1>2. r \in [0 .. n -> Int] /\ r[0] = 0 /\ r[n] = s[n] + x
  BY <1>1
<1>3. ASSUME NEW i \in 0 .. n - 1 PROVE r[i + 1] = r[i] + e[i + 1]
  <2>1. i \in 0 .. n /\ i + 1 \in 0 .. n /\ i + 1 \in 1 .. n
    OBVIOUS
  <2>2. s[i] \in Int /\ d[i + 1] \in Int /\ s[i + 1] = s[i] + d[i + 1]
    BY <1>1, <2>1
  <2>3. /\ r[i] = IF j <= i THEN s[i] + x ELSE s[i]
        /\ r[i + 1] = IF j <= i + 1 THEN s[i + 1] + x ELSE s[i + 1]
    BY <2>1
  <2> HIDE DEF r
  <2>4. CASE j = i + 1
    <3>1. e[i + 1] = d[i + 1] + x /\ ~(j <= i)
      BY <2>1, <2>4 DEF Raised
    <3> QED
      BY <2>2, <2>3, <2>4, <3>1
  <2>5. CASE j # i + 1
    <3>1. e[i + 1] = d[i + 1] /\ (j <= i <=> j <= i + 1)
      BY <2>1, <2>5 DEF Raised
    <3> QED
      BY <2>2, <2>3, <3>1
  <2> QED
    BY <2>4, <2>5
<1> HIDE DEF r
<1>4. Adds(r, e, n)
  BY <1>2, <1>3 DEF Adds
<1> QED
  BY <1>2, <1>4

(* r moves from the number at j to the one at i, and the sum stays.        *)
Shifted(e, d, i, j, r, n) ==
    /\ i \in 1 .. n /\ j \in 1 .. n /\ i # j /\ r \in Int /\ e[i] = d[i] - r /\ e[j] = d[j] + r
    /\ \A k \in 1 .. n : k # i /\ k # j => e[k] = d[k]

LEMMA AddsMove ==
  ASSUME NEW n \in Nat, NEW d \in [1 .. n -> Int], NEW s, Adds(s, d, n), NEW e, NEW i, NEW j,
         NEW r, Shifted(e, d, i, j, r, n)
  PROVE  \E q : Adds(q, e, n) /\ q[n] = s[n]
<1> USE DEF Shifted
<1> DEFINE x == -r
           m == [d EXCEPT ![i] = d[i] + x]
<1>1. d[i] \in Int /\ d[i] - r = d[i] + x /\ x \in Int /\ x + r = 0
  OBVIOUS
<1> HIDE DEF x
<1>2. /\ m \in [1 .. n -> Int] /\ m[i] = d[i] + x /\ m[j] = d[j]
      /\ \A k \in 1 .. n : k # i => m[k] = d[k]
  BY <1>1
<1> HIDE DEF m
<1>3. \E q : Adds(q, m, n) /\ q[n] = s[n] + x
  <2>1. Raised(m, d, i, x, n)
    BY <1>2 DEF Raised
  <2> QED
    BY <1>1, <2>1, AddsChange
<1>4. PICK q : Adds(q, m, n) /\ q[n] = s[n] + x
  BY <1>3
<1>5. e[j] = m[j] + r /\ \A k \in 1 .. n : k # j => e[k] = m[k]
  BY <1>1, <1>2
<1>6. \E p : Adds(p, e, n) /\ p[n] = q[n] + r
  <2>1. Raised(e, m, j, r, n)
    BY <1>5 DEF Raised
  <2> QED
    BY <1>2, <1>4, <2>1, AddsChange
<1>7. s[n] \in Int
  BY DEF Adds
<1> DEFINE u == q[n]
           v == s[n]
<1>8. v \in Int /\ u = v + x
  BY <1>4, <1>7
<1> HIDE DEF u, v
<1>9. u + r = v
  BY <1>1, <1>8
<1> QED
  BY <1>6, <1>9 DEF u, v

(* Numbers that are not negative, one of them positive, do not add up to   *)
(* zero.                                                                   *)
LEMMA AddsPositive ==
  ASSUME NEW n \in Nat, NEW d \in [1 .. n -> Nat], NEW s, Adds(s, d, n)
  PROVE  /\ \A i \in 0 .. n : s[i] \in Nat
         /\ \A j \in 1 .. n : d[j] > 0 => s[n] > 0
<1>1. /\ s \in [0 .. n -> Int] /\ s[0] = 0
      /\ \A i \in 0 .. n - 1 : s[i + 1] = s[i] + d[i + 1]
  BY DEF Adds
<1>2. \A i \in 0 .. n : s[i] \in Nat
  <2> DEFINE S == {i \in Nat : i <= n => s[i] \in Nat}
  <2>1. 0 \in S
    BY <1>1
  <2>2. ASSUME NEW i \in Nat, i \in S PROVE i + 1 \in S
    <3> SUFFICES ASSUME i + 1 <= n PROVE s[i + 1] \in Nat
      OBVIOUS
    <3>1. i \in 0 .. n - 1 /\ i + 1 \in 1 .. n /\ i <= n
      OBVIOUS
    <3>2. s[i] \in Nat /\ d[i + 1] \in Nat
      BY <2>2, <3>1
    <3> QED
      BY <1>1, <3>1, <3>2
  <2> HIDE DEF S
  <2>3. Nat \subseteq S
    BY <2>1, <2>2, Induct
  <2> QED
    BY <2>3 DEF S
<1>3. ASSUME NEW j \in 1 .. n, d[j] > 0 PROVE s[n] > 0
  <2> DEFINE S == {i \in Nat : i + j <= n => s[i + j] > 0}
  <2>1. 0 \in S
    <3>1. j - 1 \in 0 .. n - 1 /\ (j - 1) + 1 = j /\ j - 1 \in 0 .. n /\ 0 + j = j
      OBVIOUS
    <3>2. s[j] = s[j - 1] + d[j]
      BY <1>1, <3>1
    <3>3. s[j - 1] \in Nat /\ d[j] \in Nat
      BY <1>2, <3>1
    <3>4. s[j] > 0
      BY <1>3, <3>2, <3>3
    <3> QED
      BY <3>1, <3>4
  <2>2. ASSUME NEW i \in Nat, i \in S PROVE i + 1 \in S
    <3> SUFFICES ASSUME (i + 1) + j <= n PROVE s[(i + 1) + j] > 0
      OBVIOUS
    <3>1. /\ i + j \in 0 .. n - 1 /\ (i + j) + 1 = (i + 1) + j /\ (i + j) + 1 \in 1 .. n
          /\ i + j <= n /\ i + j \in 0 .. n
      OBVIOUS
    <3>2. s[i + j] > 0
      BY <2>2, <3>1
    <3> DEFINE k == i + j
    <3>3. s[k + 1] = s[k] + d[k + 1] /\ s[k] \in Nat /\ d[k + 1] \in Nat /\ s[k] > 0
      BY <1>1, <1>2, <3>1, <3>2
    <3> HIDE DEF k
    <3>4. s[k + 1] > 0
      BY <3>3
    <3> QED
      BY <3>1, <3>4 DEF k
  <2> HIDE DEF S
  <2>3. Nat \subseteq S
    BY <2>1, <2>2, Induct
  <2>4. n - j \in S /\ (n - j) + j = n
    BY <2>3
  <2> QED
    BY <2>4 DEF S
<1> QED
  BY <1>2, <1>3

-----------------------------------------------------------------------------
(* Arithmetic of the targets and of the loop's positions.                  *)
LEMMA DivMod ==
  ASSUME NEW a \in Nat, NEW n \in Nat \ {0}
  PROVE  a \div n \in Nat /\ a % n \in 0 .. n - 1 /\ a = n * (a \div n) + (a % n)
<1> DEFINE q == a \div n
           r == a % n
<1>1. q \in Nat
  OBVIOUS
<1>2. r \in 0 .. n - 1
  OBVIOUS
<1>3. r \in Nat /\ a = n * q + r
  OBVIOUS
<1> QED
  BY <1>1, <1>2, <1>3

LEMMA DivIs ==
  ASSUME NEW n \in Nat \ {0}, NEW a \in Nat, NEW b \in 0 .. n - 1
  PROVE  (a * n + b) \div n = a /\ (a * n + b) % n = b
<1> DEFINE x == a * n + b
           q == x \div n
           r == x % n
<1>1. x \in Nat
  OBVIOUS
<1>2. q \in Nat /\ r \in 0 .. n - 1 /\ x = n * q + r
  <2> HIDE DEF x
  <2> QED
    BY <1>1, DivMod
<1>3. a * n + b = n * q + r
  BY <1>2
<1> HIDE DEF q, r, x
<1> DEFINE c == a - q
<1>4. c \in Int /\ a = q + c
  BY <1>2
<1> HIDE DEF c
<1>5. a * n = q * n + c * n /\ q * n = n * q /\ c * n \in Int /\ q * n \in Int
  BY <1>2, <1>4
<1>6. c * n = r - b
  <2> DEFINE y == a * n
             z == q * n
             w == c * n
  <2>1. y = z + w /\ z \in Int /\ w \in Int /\ y + b = z + r
    BY <1>3, <1>5
  <2> HIDE DEF y, z, w
  <2>2. w = r - b
    BY <1>2, <2>1
  <2> QED
    BY <2>2 DEF w
<1>7. c = 0
  <2>1. ~(c >= 1)
    <3> SUFFICES ASSUME c >= 1 PROVE FALSE
      OBVIOUS
    <3>1. c * n >= n
      BY <1>4
    <3> QED
      BY <1>2, <1>6, <3>1
  <2>2. ~(c <= -1)
    <3> SUFFICES ASSUME c <= -1 PROVE FALSE
      OBVIOUS
    <3>1. c * n <= -n
      BY <1>4
    <3> QED
      BY <1>2, <1>6, <3>1
  <2> QED
    BY <1>4, <2>1, <2>2
<1>8. a = q /\ r = b
  BY <1>2, <1>4, <1>6, <1>7
<1> QED
  BY <1>8 DEF q, r, x

(* The two loops meet every pair of nodes.                                 *)
LEMMA PairsAll ==
  ASSUME NEW n \in Nat \ {0}, NEW i \in 1 .. n, NEW j \in 1 .. n
  PROVE  \E k \in 1 .. n * n : Pairs(n)[k] = <<i, j>>
<1> DEFINE a == i - 1
           b == j - 1
           k == (a * n + b) + 1
<1>1. a \in Nat /\ b \in 0 .. n - 1 /\ a <= n - 1 /\ a + 1 = i /\ b + 1 = j
  OBVIOUS
<1> HIDE DEF a, b
<1>2. (k - 1) \div n = a /\ (k - 1) % n = b
  <2> DEFINE x == a * n + b
  <2>1. x \in Nat
    BY <1>1
  <2>2. x \div n = a /\ x % n = b
    BY <1>1, DivIs
  <2> HIDE DEF x
  <2>3. (x + 1) - 1 = x
    BY <2>1
  <2> QED
    BY <2>2, <2>3 DEF x
<1>3. k \in 1 .. n * n
  <2> DEFINE c == (n - 1) - a
             y == a * n
             z == c * n
             w == n * n
  <2>1. c \in Nat /\ n - 1 = a + c
    BY <1>1
  <2> HIDE DEF c
  <2>2. n = (a + c) + 1
    BY <1>1, <2>1
  <2>3. w = (y + z) + n /\ y \in Nat /\ z \in Nat /\ w \in Nat
    BY <1>1, <2>1, <2>2
  <2> HIDE DEF y, z, w
  <2>4. (y + b) + 1 \in 1 .. w
    BY <1>1, <2>3
  <2> QED
    BY <2>4 DEF y, w
<1> HIDE DEF k
<1>4. Pairs(n)[k] = <<((k - 1) \div n) + 1, ((k - 1) % n) + 1>>
  BY <1>3 DEF Pairs
<1> QED
  BY <1>1, <1>2, <1>3, <1>4

(* The targets add up to the total, so that what some nodes lack the other *)
(* ones have too much.                                                     *)
LEMMA DeltasAdd ==
  ASSUME NEW c \in Seq(Nat), NEW sums, PartialSums(sums, c), c # <<>>,
         Records(sums, c) + 1 < Modulus \div 2
  PROVE  \E s : Adds(s, Deltas(c), Len(c)) /\ s[Len(c)] = 0
<1> DEFINE n == Len(c)
           tot == Records(sums, c)
           q == tot \div n
           r == tot % n
           s == [k \in 0 .. n |-> (k * q + Least(k, r)) - sums[k]]
<1>1. /\ n \in Nat \ {0} /\ sums \in [0 .. n -> Nat] /\ sums[0] = 0 /\ tot = sums[n]
      /\ \A i \in 0 .. n - 1 : sums[i + 1] = sums[i] + c[i + 1]
      /\ \A i \in 1 .. n : c[i] \in Nat
  BY DEF PartialSums, Records
<1>2. tot \in Nat /\ Total(c) = tot
  <2>1. tot \in Nat /\ tot < Modulus
    BY <1>1, ModulusAssumption
  <2> QED
    BY <2>1, TotalIs
<1>3. \A i \in 1 .. n : Deltas(c)[i] = Share(tot, n, i) - c[i]
  BY <1>2, DeltasAre DEF Target
<1> HIDE DEF tot, n
<1>4. q \in Nat /\ r \in 0 .. n - 1 /\ tot = n * q + r
  BY <1>1, <1>2, DivMod
<1>5. \A i \in 1 .. n : Deltas(c)[i] = (q + (IF i <= r THEN 1 ELSE 0)) - c[i]
  BY <1>3 DEF Share
<1> HIDE DEF q, r
<1>6. \A k \in 0 .. n : k * q \in Nat /\ Least(k, r) \in Nat
  BY <1>1, <1>4 DEF Least
<1>7. s \in [0 .. n -> Int] /\ s[0] = 0
  <2>1. \A k \in 0 .. n : (k * q + Least(k, r)) - sums[k] \in Int
    BY <1>1, <1>6
  <2>2. 0 * q = 0 /\ Least(0, r) = 0
    BY <1>4 DEF Least
  <2> QED
    BY <1>1, <2>1, <2>2
<1>8. s[n] = 0
  <2>1. Least(n, r) = r
    BY <1>1, <1>4 DEF Least
  <2>2. s[n] = (n * q + r) - sums[n]
    BY <1>1, <2>1
  <2> QED
    BY <1>1, <1>2, <1>4, <2>2
<1>9. ASSUME NEW i \in 0 .. n - 1 PROVE s[i + 1] = s[i] + Deltas(c)[i + 1]
  <2>1. i \in 0 .. n /\ i + 1 \in 0 .. n /\ i + 1 \in 1 .. n /\ i \in Nat
    BY <1>1
  <2>2. /\ s[i] = (i * q + Least(i, r)) - sums[i]
        /\ s[i + 1] = ((i + 1) * q + Least(i + 1, r)) - sums[i + 1]
    BY <2>1
  <2> HIDE DEF s
  <2>3. (i + 1) * q = i * q + q
    BY <1>4, <2>1
  <2>4. Least(i + 1, r) = Least(i, r) + (IF i + 1 <= r THEN 1 ELSE 0)
    BY <1>4, <2>1 DEF Least
  <2> DEFINE a == i * q
             b == Least(i, r)
             o == IF i + 1 <= r THEN 1 ELSE 0
             u == sums[i]
             v == c[i + 1]
  <2>5. a \in Nat /\ b \in Nat /\ o \in Nat /\ u \in Nat /\ v \in Nat /\ q \in Nat
    BY <1>1, <1>4, <1>6, <2>1
  <2>6. /\ s[i] = (a + b) - u /\ s[i + 1] = ((a + q) + (b + o)) - (u + v)
        /\ Deltas(c)[i + 1] = (q + o) - v
    BY <1>1, <1>5, <2>1, <2>2, <2>3, <2>4
  <2> HIDE DEF a, b, o, u, v
  <2>7. ((a + q) + (b + o)) - (u + v) = ((a + b) - u) + ((q + o) - v)
    BY <2>5
  <2> QED
    BY <2>6, <2>7
<1> HIDE DEF s
<1>10. Adds(s, Deltas(c), n)
  BY <1>7, <1>8, <1>9 DEF Adds
<1> QED
  BY <1>8, <1>10 DEF n

-----------------------------------------------------------------------------
(* The loop.  A turn moves r records from node j to node i, as many as     *)
(* makes one of them level, or does nothing.                               *)
Turned(d, e, i, j, r, n) ==
    /\ i \in 1 .. n /\ j \in 1 .. n /\ i # j /\ e \in [1 .. n -> Int]
    /\ r \in Nat \ {0} /\ r <= d[i] /\ r <= -d[j] /\ (r = d[i] \/ r = -d[j])
    /\ e[i] = d[i] - r /\ e[j] = d[j] + r
    /\ \A k \in 1 .. n : k # i /\ k # j => e[k] = d[k]

Turn(state, next, i, j, n) ==
    \/ next = state /\ ~(state.deltas[i] > 0 /\ state.deltas[j] < 0)
    \/ \E r : /\ Turned(state.deltas, next.deltas, i, j, r, n)
              /\ next.plan = Append(state.plan, [from |-> j, to |-> i, n |-> r])

LEMMA TakeFromIs ==
  ASSUME NEW n \in Nat \ {0}, NEW state, Sound(n, state),
         NEW i \in 1 .. n, NEW j \in 1 .. n, NEW next, next = TakeFrom(state, <<i, j>>)
  PROVE  Turn(state, next, i, j, n)
<1> USE DEF Turn
<1> DEFINE d == state.deltas
           r == Least(-d[j], d[i])
           e == [d EXCEPT ![i] = @ - r, ![j] = @ + r]
<1>1. d \in [1 .. n -> Int] /\ d[i] \in Int /\ d[j] \in Int
  BY DEF Sound
<1>2. CASE d[i] <= 0 \/ d[j] >= 0
  <2>1. next = state
    BY <1>2 DEF TakeFrom
  <2>2. ~(d[i] > 0 /\ d[j] < 0)
    BY <1>1, <1>2
  <2> QED
    BY <2>1, <2>2
<1>3. CASE ~(d[i] <= 0 \/ d[j] >= 0)
  <2>1. next.deltas = e /\ next.plan = Append(state.plan, [from |-> j, to |-> i, n |-> r])
    BY <1>3 DEF TakeFrom
  <2> HIDE DEF d
  <2>2. /\ r \in Nat \ {0} /\ r <= d[i] /\ r <= -d[j] /\ (r = d[i] \/ r = -d[j]) /\ i # j
    <3> DEFINE x == d[i]
               y == d[j]
    <3>1. x \in Int /\ y \in Int /\ x > 0 /\ y < 0 /\ i # j
      BY <1>1, <1>3
    <3>2. r = IF -y < x THEN -y ELSE x
      BY DEF Least
    <3> HIDE DEF x, y, r
    <3>3. r \in Nat \ {0} /\ r <= x /\ r <= -y /\ (r = x \/ r = -y)
      BY <3>1, <3>2
    <3> QED
      BY <3>1, <3>3 DEF x, y
  <2> HIDE DEF r
  <2>3. /\ e \in [1 .. n -> Int] /\ e[i] = d[i] - r /\ e[j] = d[j] + r
        /\ \A k \in 1 .. n : k # i /\ k # j => e[k] = d[k]
    BY <1>1, <2>2
  <2> HIDE DEF e
  <2>4. Turned(d, e, i, j, r, n)
    BY <2>2, <2>3 DEF Turned
  <2> QED
    BY <2>1, <2>4 DEF d
<1> QED
  BY <1>2, <1>3

(* d0 are the deltas at first.  A node that lacked records never has too   *)
(* many, and the other way round.                                          *)
Signs(d, d0, n) == \A i \in 1 .. n : IF d0[i] > 0 THEN d[i] >= 0 ELSE d[i] <= 0

(* Only nodes that lacked records receive some, only others give.          *)
OneWay(p, d0) == \A k \in 1 .. Len(p) : ~(d0[p[k].from] > 0) /\ d0[p[k].to] > 0

(* Each transfer makes a node level.                                       *)
Uneven(d, n) == {i \in 1 .. n : d[i] # 0}
Few(p, d, n) == Len(p) + Cardinality(Uneven(d, n)) <= n /\ Len(p) + 1 <= n

(* The pairs up to the k-th one are done.                                  *)
Done(d, n, k) ==
    \A m \in 1 .. k : ~(d[Pairs(n)[m][1]] > 0 /\ d[Pairs(n)[m][2]] < 0)

Even(d, n) == \E s : Adds(s, d, n) /\ s[n] = 0

LEMMA TurnSigns ==
  ASSUME NEW n \in Nat, NEW d \in [1 .. n -> Int], NEW d0, Signs(d, d0, n), NEW e, NEW i, NEW j,
         NEW r, Turned(d, e, i, j, r, n)
  PROVE  /\ Signs(e, d0, n) /\ d0[i] > 0 /\ ~(d0[j] > 0)
         /\ \A k \in 1 .. n : (e[k] > 0 => d[k] > 0) /\ (e[k] < 0 => d[k] < 0)
         /\ ~(e[i] > 0 /\ e[j] < 0)
<1>1. /\ i \in 1 .. n /\ j \in 1 .. n /\ i # j /\ r \in Nat \ {0} /\ r <= d[i] /\ r <= -d[j]
      /\ (r = d[i] \/ r = -d[j]) /\ e[i] = d[i] - r /\ e[j] = d[j] + r
      /\ \A k \in 1 .. n : k # i /\ k # j => e[k] = d[k]
  BY DEF Turned
<1>2. d[i] \in Int /\ d[j] \in Int
  BY <1>1
<1>3. d[i] > 0 /\ d[j] < 0 /\ e[i] >= 0 /\ e[j] <= 0 /\ (e[i] = 0 \/ e[j] = 0)
  <2> DEFINE x == d[i]
             y == d[j]
             u == e[i]
             v == e[j]
  <2>1. /\ x \in Int /\ y \in Int /\ r \in Nat \ {0} /\ r <= x /\ r <= -y /\ (r = x \/ r = -y)
        /\ u = x - r /\ v = y + r
    BY <1>1, <1>2
  <2> HIDE DEF x, y, u, v
  <2>2. x > 0 /\ y < 0 /\ u >= 0 /\ v <= 0 /\ (u = 0 \/ v = 0)
    BY <2>1
  <2> QED
    BY <2>2 DEF x, y, u, v
<1>4. e[i] \in Int /\ e[j] \in Int
  BY <1>1, <1>2
<1>5. d0[i] > 0 /\ ~(d0[j] > 0)
  <2>1. ~(d[i] <= 0) /\ ~(d[j] >= 0)
    BY <1>2, <1>3
  <2> QED
    BY <1>1, <2>1 DEF Signs
<1>6. Signs(e, d0, n)
  <2> SUFFICES ASSUME NEW k \in 1 .. n PROVE IF d0[k] > 0 THEN e[k] >= 0 ELSE e[k] <= 0
    BY DEF Signs
  <2>1. CASE k = i
    BY <1>3, <1>5, <2>1
  <2>2. CASE k = j
    BY <1>3, <1>5, <2>2
  <2>3. CASE k # i /\ k # j
    BY <1>1, <2>3 DEF Signs
  <2> QED
    BY <2>1, <2>2, <2>3
<1>7. \A k \in 1 .. n : (e[k] > 0 => d[k] > 0) /\ (e[k] < 0 => d[k] < 0)
  <2> SUFFICES ASSUME NEW k \in 1 .. n PROVE (e[k] > 0 => d[k] > 0) /\ (e[k] < 0 => d[k] < 0)
    OBVIOUS
  <2>1. CASE k = i
    <3>1. ~(e[i] < 0)
      BY <1>3, <1>4
    <3> QED
      BY <1>3, <2>1, <3>1
  <2>2. CASE k = j
    <3>1. ~(e[j] > 0)
      BY <1>3, <1>4
    <3> QED
      BY <1>3, <2>2, <3>1
  <2>3. CASE k # i /\ k # j
    BY <1>1, <2>3
  <2> QED
    BY <2>1, <2>2, <2>3
<1>8. ~(e[i] > 0 /\ e[j] < 0)
  BY <1>3
<1> QED
  BY <1>5, <1>6, <1>7, <1>8

LEMMA TurnEven ==
  ASSUME NEW n \in Nat, NEW d \in [1 .. n -> Int], Even(d, n), NEW e, NEW i, NEW j,
         NEW r, Turned(d, e, i, j, r, n)
  PROVE  Even(e, n)
<1>1. PICK s : Adds(s, d, n) /\ s[n] = 0
  BY DEF Even
<1>2. Shifted(e, d, i, j, r, n)
  BY DEF Turned, Shifted
<1>3. \E q : Adds(q, e, n) /\ q[n] = s[n]
  BY <1>1, <1>2, AddsMove
<1> QED
  BY <1>1, <1>3 DEF Even

LEMMA TurnFew ==
  ASSUME NEW n \in Nat, NEW d \in [1 .. n -> Int], NEW e, NEW i, NEW j, NEW r,
         Turned(d, e, i, j, r, n), NEW p, NEW q, Len(p) \in Nat, Len(q) = Len(p) + 1, Few(p, d, n)
  PROVE  Few(q, e, n)
<1> DEFINE A == Uneven(d, n)
           B == Uneven(e, n)
<1>1. /\ i \in 1 .. n /\ j \in 1 .. n /\ i # j /\ r \in Nat \ {0} /\ r <= d[i] /\ r <= -d[j]
      /\ (r = d[i] \/ r = -d[j]) /\ e[i] = d[i] - r /\ e[j] = d[j] + r
      /\ \A k \in 1 .. n : k # i /\ k # j => e[k] = d[k]
  BY DEF Turned
<1>2. d[i] \in Int /\ d[j] \in Int
  BY <1>1
<1>3. d[i] # 0 /\ d[j] # 0 /\ (e[i] = 0 \/ e[j] = 0)
  <2> DEFINE x == d[i]
             y == d[j]
             u == e[i]
             v == e[j]
  <2>1. /\ x \in Int /\ y \in Int /\ r \in Nat \ {0} /\ r <= x /\ r <= -y /\ (r = x \/ r = -y)
        /\ u = x - r /\ v = y + r
    BY <1>1, <1>2
  <2> HIDE DEF x, y, u, v
  <2>2. x # 0 /\ y # 0 /\ (u = 0 \/ v = 0)
    BY <2>1
  <2> QED
    BY <2>2 DEF x, y, u, v
<1>4. i \in A /\ j \in A /\ i # j /\ (i \notin B \/ j \notin B) /\ B \subseteq A /\ A \subseteq 1 .. n
  BY <1>1, <1>3 DEF Uneven
<1> HIDE DEF A, B
<1>5. IsFiniteSet(1 .. n)
  BY FS_Interval
<1>6. IsFiniteSet(A) /\ IsFiniteSet(B)
  BY <1>4, <1>5, FS_Subset
<1>7. Cardinality(A) \in Nat /\ Cardinality(B) \in Nat
  BY <1>6, FS_CardinalityType
<1>8. Cardinality(B) < Cardinality(A)
  <2> DEFINE a == Cardinality(A)
             b == Cardinality(B)
  <2>1. b <= a /\ (a = b => A = B)
    BY <1>4, <1>6, FS_Subset
  <2>2. a # b /\ a \in Nat /\ b \in Nat
    BY <1>4, <1>7, <2>1
  <2> HIDE DEF a, b
  <2>3. b < a
    BY <2>1, <2>2
  <2> QED
    BY <2>3 DEF a, b
<1>9. 2 <= Cardinality(A)
  <2>1. Cardinality(A \ {i}) = Cardinality(A) - 1 /\ IsFiniteSet(A \ {i})
    BY <1>4, <1>6, FS_RemoveElement
  <2>2. Cardinality(A \ {i}) # 0 /\ Cardinality(A \ {i}) \in Nat
    BY <1>4, <2>1, FS_EmptySet, FS_CardinalityType
  <2> QED
    BY <1>7, <2>1, <2>2
<1>10. Len(p) + Cardinality(A) <= n
  BY DEF Few, A
<1> DEFINE a == Cardinality(A)
           b == Cardinality(B)
           l == Len(p)
<1>11. a \in Nat /\ b \in Nat /\ l \in Nat /\ b < a /\ 2 <= a /\ l + a <= n
  BY <1>7, <1>8, <1>9, <1>10
<1> HIDE DEF a, b, l
<1>12. (l + 1) + b <= n /\ (l + 1) + 1 <= n
  BY <1>11
<1> QED
  BY <1>12 DEF Few, a, b, l, B

(* The invariant of the loop, after k turns.                               *)
Level(n, c, target, d0, k, state) ==
    /\ OnTarget(n, c, target, state)
    /\ Signs(state.deltas, d0, n) /\ Even(state.deltas, n) /\ Done(state.deltas, n, k)
    /\ OneWay(state.plan, d0) /\ Few(state.plan, state.deltas, n)

LEMMA TakeFromLevel ==
  ASSUME NEW n \in Nat \ {0}, NEW c, NEW target \in [1 .. n -> Nat], NEW d0, NEW k \in Nat,
         k + 1 \in 1 .. n * n, NEW state, Level(n, c, target, d0, k, state),
         NEW next, next = TakeFrom(state, Pairs(n)[k + 1])
  PROVE  Level(n, c, target, d0, k + 1, next)
<1> DEFINE d == state.deltas
           e == next.deltas
           p == state.plan
           q == next.plan
           pair == Pairs(n)[k + 1]
           i == pair[1]
           j == pair[2]
<1>1. i \in 1 .. n /\ j \in 1 .. n
  BY PairsType
<1>2. pair = <<i, j>>
  BY DEF Pairs
<1>3. OnTarget(n, c, target, next)
  <2>1. OnTarget(n, c, target, state)
    BY DEF Level
  <2> HIDE DEF pair
  <2>2. next = TakeFrom(state, pair)
    BY DEF pair
  <2> QED
    BY <1>1, <2>1, <2>2, TakeFromOnTarget
<1>4. Sound(n, state) /\ Sound(n, next)
  BY <1>3 DEF Level, OnTarget
<1>5. d \in [1 .. n -> Int] /\ p \in Seq(Moves(n)) /\ e \in [1 .. n -> Int] /\ q \in Seq(Moves(n))
  BY <1>4 DEF Sound
<1>6. /\ Signs(d, d0, n) /\ Even(d, n) /\ Done(d, n, k) /\ OneWay(p, d0) /\ Few(p, d, n)
  BY DEF Level
<1>7. \/ next = state /\ ~(d[i] > 0 /\ d[j] < 0)
      \/ \E r : Turned(d, e, i, j, r, n) /\ q = Append(p, [from |-> j, to |-> i, n |-> r])
  <2> HIDE DEF i, j
  <2>1. next = TakeFrom(state, <<i, j>>)
    BY <1>2
  <2> HIDE DEF pair
  <2>2. Turn(state, next, i, j, n)
    BY <1>1, <1>4, <2>1, TakeFromIs
  <2> QED
    BY <2>2 DEF Turn
<1>8. ASSUME ~(e[i] > 0 /\ e[j] < 0),
             \A m \in 1 .. n : (e[m] > 0 => d[m] > 0) /\ (e[m] < 0 => d[m] < 0)
      PROVE  Done(e, n, k + 1)
  <2> SUFFICES ASSUME NEW m \in 1 .. k + 1, e[Pairs(n)[m][1]] > 0, e[Pairs(n)[m][2]] < 0
               PROVE  FALSE
    BY DEF Done
  <2>1. CASE m = k + 1
    BY <1>8, <2>1
  <2>2. CASE m # k + 1
    <3> DEFINE a == Pairs(n)[m][1]
               b == Pairs(n)[m][2]
    <3>1. m \in 1 .. k /\ m \in 1 .. n * n
      BY <2>2
    <3>2. a \in 1 .. n /\ b \in 1 .. n
      BY <3>1, PairsType
    <3>3. d[a] > 0 /\ d[b] < 0
      BY <1>8, <3>2
    <3> QED
      BY <1>6, <3>1, <3>3 DEF Done
  <2> QED
    BY <2>1, <2>2
<1> HIDE DEF i, j, pair
<1>9. CASE next = state /\ ~(d[i] > 0 /\ d[j] < 0)
  <2>1. Done(e, n, k + 1)
    BY <1>8, <1>9
  <2> QED
    BY <1>3, <1>6, <1>9, <2>1 DEF Level
<1>10. CASE \E r : Turned(d, e, i, j, r, n) /\ q = Append(p, [from |-> j, to |-> i, n |-> r])
  <2>1. PICK r : Turned(d, e, i, j, r, n) /\ q = Append(p, [from |-> j, to |-> i, n |-> r])
    BY <1>10
  <2> HIDE DEF d, e, p, q
  <2>2. /\ Signs(e, d0, n) /\ d0[i] > 0 /\ ~(d0[j] > 0)
        /\ \A m \in 1 .. n : (e[m] > 0 => d[m] > 0) /\ (e[m] < 0 => d[m] < 0)
        /\ ~(e[i] > 0 /\ e[j] < 0)
    BY <1>5, <1>6, <2>1, TurnSigns
  <2>3. Done(e, n, k + 1)
    BY <1>8, <2>2
  <2>4. Even(e, n)
    BY <1>5, <1>6, <2>1, TurnEven
  <2> DEFINE t == [from |-> j, to |-> i, n |-> r]
  <2>5. t.from = j /\ t.to = i /\ q = Append(p, t)
    BY <2>1
  <2> HIDE DEF t
  <2>6. /\ Len(p) \in Nat /\ Len(q) = Len(p) + 1 /\ q[Len(p) + 1] = t
        /\ \A m \in 1 .. Len(p) : q[m] = p[m]
    BY <1>5, <2>5
  <2>7. Few(q, e, n)
    <3>1. n \in Nat /\ Len(p) \in Nat /\ Len(q) = Len(p) + 1 /\ Turned(d, e, i, j, r, n)
      BY <2>1, <2>6
    <3> QED
      BY <1>5, <1>6, <3>1, TurnFew
  <2>8. OneWay(q, d0)
    <3> SUFFICES ASSUME NEW m \in 1 .. Len(q) PROVE ~(d0[q[m].from] > 0) /\ d0[q[m].to] > 0
      BY DEF OneWay
    <3>1. CASE m = Len(p) + 1
      BY <2>2, <2>5, <2>6, <3>1
    <3>2. CASE m # Len(p) + 1
      <4>1. m \in 1 .. Len(p)
        BY <2>6, <3>2
      <4> QED
        BY <1>6, <2>6, <4>1 DEF OneWay
    <3> QED
      BY <3>1, <3>2
  <2> QED
    BY <1>3, <2>2, <2>3, <2>4, <2>7, <2>8 DEF Level, e, q
<1> QED
  BY <1>7, <1>9, <1>10

(* When every pair is done and the deltas add up to zero, all are zero.    *)
LEMMA AllLevel ==
  ASSUME NEW n \in Nat \ {0}, NEW d \in [1 .. n -> Int], Even(d, n), Done(d, n, n * n)
  PROVE  \A i \in 1 .. n : d[i] = 0
<1>1. PICK s : Adds(s, d, n) /\ s[n] = 0
  BY DEF Even
<1>2. ASSUME NEW i \in 1 .. n, NEW j \in 1 .. n, d[i] > 0, d[j] < 0 PROVE FALSE
  <2>1. PICK k \in 1 .. n * n : Pairs(n)[k] = <<i, j>>
    BY PairsAll
  <2>2. Pairs(n)[k][1] = i /\ Pairs(n)[k][2] = j
    BY <2>1
  <2> QED
    BY <1>2, <2>2 DEF Done
<1>3. ASSUME NEW i \in 1 .. n, d[i] > 0 PROVE FALSE
  <2>1. \A j \in 1 .. n : d[j] \in Int /\ ~(d[j] < 0)
    BY <1>2, <1>3
  <2>2. d \in [1 .. n -> Nat]
    <3>1. \A j \in 1 .. n : d[j] \in Nat
      BY <2>1
    <3> QED
      BY <3>1
  <2>3. s[n] > 0
    BY <1>1, <1>3, <2>2, AddsPositive
  <2> QED
    BY <1>1, <2>3
<1>4. ASSUME NEW j \in 1 .. n, d[j] < 0 PROVE FALSE
  <2> DEFINE m == [k \in 1 .. n |-> 0 - d[k]]
             q == [k \in 0 .. n |-> 0 - s[k]]
  <2>1. \A k \in 1 .. n : d[k] \in Int /\ ~(d[k] > 0)
    BY <1>2, <1>4
  <2>2. m \in [1 .. n -> Nat]
    <3>1. \A k \in 1 .. n : 0 - d[k] \in Nat
      BY <2>1
    <3> QED
      BY <3>1
  <2>3. m[j] > 0
    BY <1>4, <2>1
  <2>4. /\ s \in [0 .. n -> Int] /\ s[0] = 0
        /\ \A k \in 0 .. n - 1 : s[k + 1] = s[k] + d[k + 1]
    BY <1>1 DEF Adds
  <2>5. q \in [0 .. n -> Int] /\ q[0] = 0 /\ q[n] = 0
    <3>1. \A k \in 0 .. n : 0 - s[k] \in Int
      BY <2>4
    <3>2. 0 \in 0 .. n /\ n \in 0 .. n
      OBVIOUS
    <3>3. q \in [0 .. n -> Int] /\ q[0] = 0 - s[0] /\ q[n] = 0 - s[n]
      BY <3>1, <3>2
    <3> HIDE DEF q
    <3> QED
      BY <1>1, <2>4, <3>3
  <2>6. ASSUME NEW k \in 0 .. n - 1 PROVE q[k + 1] = q[k] + m[k + 1]
    <3>1. k \in 0 .. n /\ k + 1 \in 0 .. n /\ k + 1 \in 1 .. n
      OBVIOUS
    <3>2. s[k] \in Int /\ d[k + 1] \in Int /\ s[k + 1] = s[k] + d[k + 1]
      BY <2>4, <3>1
    <3>3. q[k] = 0 - s[k] /\ q[k + 1] = 0 - s[k + 1] /\ m[k + 1] = 0 - d[k + 1]
      BY <3>1
    <3> HIDE DEF q, m
    <3> QED
      BY <3>2, <3>3
  <2> HIDE DEF q, m
  <2>7. Adds(q, m, n)
    BY <2>5, <2>6 DEF Adds
  <2>8. q[n] > 0
    BY <2>2, <2>3, <2>7, AddsPositive
  <2> QED
    BY <2>5, <2>8
<1>5. \A i \in 1 .. n : d[i] \in Int /\ ~(d[i] > 0) /\ ~(d[i] < 0)
  BY <1>3, <1>4
<1> QED
  BY <1>5

(* What the plan of balance does: no node both gives and receives, there   *)
(* are fewer transfers than nodes, they can be run one after the other,    *)
(* and in the end every node has its target.                               *)
Levels(p, c) ==
    /\ p \in Seq(Moves(Len(c))) /\ Len(p) < Len(c)
    /\ \A k, l \in 1 .. Len(p) : p[k].from # p[l].to
    /\ \E f : Runs(f, c, p, 1 .. Len(c)) /\ \A i \in 1 .. Len(c) : f[Len(p)][i] = Target(c, i)

(* balancer.go, for all counts: balance's plan levels the nodes.  (If the  *)
(* records are fewer than half of Modulus.)                                *)
THEOREM PlanLevels ==
  ASSUME NEW c \in Seq(Nat), NEW sums, PartialSums(sums, c),
         Records(sums, c) + 1 < Modulus \div 2, c # <<>>, NeedsBalancing(c)
  PROVE  Levels(BalancePlan(c), c)
<1> DEFINE n == Len(c)
           d0 == Deltas(c)
           base == [deltas |-> d0, plan |-> <<>>]
           target == [i \in 1 .. n |-> Target(c, i)]
<1>1. n \in Nat \ {0} /\ n * n \in Nat /\ DOMAIN Pairs(n) = 1 .. n * n /\ c \in [1 .. n -> Nat]
      /\ c \in Seq(Int)
  BY DEF Pairs
<1>2. target \in [1 .. n -> Nat] /\ d0 \in [1 .. n -> Int]
  BY <1>1, DeltasAre, DeltasType
<1>3. OnTarget(n, c, target, base)
  <2>1. Sound(n, base)
    BY <1>2 DEF Sound
  <2> DEFINE f == [k \in 0 .. 0 |-> c]
  <2>2. Runs(f, c, <<>>, 1 .. n)
    BY <1>1 DEF Runs
  <2>3. \A i \in 1 .. n : f[0][i] + d0[i] = target[i]
    <3> SUFFICES ASSUME NEW i \in 1 .. n PROVE c[i] + d0[i] = Target(c, i)
      OBVIOUS
    <3>1. Target(c, i) \in Nat /\ d0[i] = Target(c, i) - c[i]
      BY DeltasAre
    <3>2. c[i] \in Nat
      BY <1>1
    <3> QED
      BY <3>1, <3>2
  <2> HIDE DEF f
  <2> QED
    BY <2>1, <2>2, <2>3 DEF OnTarget
<1>4. Even(d0, n)
  BY DeltasAdd DEF Even
<1>5. BalancePlan(c) = Looped(base, Pairs(n)).plan
  BY DEF BalancePlan, Looped
<1>6. base.deltas = d0 /\ base.plan = <<>>
  OBVIOUS
<1> HIDE DEF d0, base, target, n
<1>7. Level(n, c, target, d0, 0, base)
  <2>1. Signs(d0, d0, n)
    <3>1. \A i \in 1 .. n : d0[i] \in Int
      BY <1>2
    <3> QED
      BY <3>1 DEF Signs
  <2>2. Done(d0, n, 0) /\ OneWay(<<>>, d0)
    BY DEF Done, OneWay
  <2>3. Few(<<>>, d0, n)
    <3>1. IsFiniteSet(1 .. n) /\ Cardinality(1 .. n) = n
      BY <1>1, FS_Interval
    <3>2. Uneven(d0, n) \subseteq 1 .. n
      BY DEF Uneven
    <3>3. Cardinality(Uneven(d0, n)) \in Nat /\ Cardinality(Uneven(d0, n)) <= n
      BY <3>1, <3>2, FS_Subset, FS_CardinalityType
    <3> QED
      BY <1>1, <3>3 DEF Few
  <2> QED
    BY <1>3, <1>4, <1>6, <2>1, <2>2, <2>3 DEF Level
<1>8. PICK st : /\ st[0] = base
                /\ \A i \in 0 .. n * n - 1 : st[i + 1] = TakeFrom(st[i], Pairs(n)[i + 1])
                /\ Looped(base, Pairs(n)) = st[n * n]
  <2> DEFINE k == n * n
             seq == Pairs(n)
  <2>1. k \in Nat /\ DOMAIN seq = 1 .. k
    BY <1>1
  <2> HIDE DEF k, seq
  <2>2. \E st : LoopSteps(st, base, seq, k)
    BY <2>1, LoopStates
  <2> QED
    BY <2>2 DEF LoopSteps, k, seq
<1> DEFINE S == {i \in Nat : i <= n * n => Level(n, c, target, d0, i, st[i])}
<1>9. 0 \in S
  BY <1>7, <1>8
<1>10. ASSUME NEW i \in Nat, i \in S PROVE i + 1 \in S
  <2> SUFFICES ASSUME i + 1 <= n * n PROVE Level(n, c, target, d0, i + 1, st[i + 1])
    OBVIOUS
  <2>1. i \in 0 .. n * n - 1 /\ i + 1 \in 1 .. n * n /\ i <= n * n
    BY <1>1
  <2>2. Level(n, c, target, d0, i, st[i]) /\ st[i + 1] = TakeFrom(st[i], Pairs(n)[i + 1])
    BY <1>8, <1>10, <2>1
  <2> QED
    BY <1>1, <1>2, <2>1, <2>2, TakeFromLevel
<1> HIDE DEF S
<1>11. Nat \subseteq S
  BY <1>9, <1>10, Induct
<1> DEFINE last == st[n * n]
           p == last.plan
           e == last.deltas
<1>12. Level(n, c, target, d0, n * n, last)
  BY <1>1, <1>11 DEF S
<1>13. BalancePlan(c) = p
  BY <1>5, <1>8
<1> HIDE DEF last
<1>14. /\ Sound(n, last) /\ Even(e, n) /\ Done(e, n, n * n) /\ OneWay(p, d0) /\ Few(p, e, n)
       /\ \E f : Runs(f, c, p, 1 .. n) /\ \A i \in 1 .. n : f[Len(p)][i] + e[i] = target[i]
  BY <1>12 DEF Level, OnTarget
<1>15. e \in [1 .. n -> Int] /\ p \in Seq(Moves(n))
  BY <1>14 DEF Sound
<1> HIDE DEF e, p
<1>16. \A i \in 1 .. n : e[i] = 0
  BY <1>1, <1>14, <1>15, AllLevel
<1>17. PICK f : Runs(f, c, p, 1 .. n) /\ \A i \in 1 .. n : f[Len(p)][i] + e[i] = target[i]
  BY <1>14
<1>18. \A i \in 1 .. n : f[Len(p)][i] = Target(c, i)
  <2> SUFFICES ASSUME NEW i \in 1 .. n PROVE f[Len(p)][i] = Target(c, i)
    OBVIOUS
  <2>1. Len(p) \in 0 .. Len(p)
    BY <1>15
  <2>2. f[Len(p)][i] \in Nat
    BY <1>17, <2>1 DEF Runs
  <2>3. f[Len(p)][i] + 0 = Target(c, i)
    BY <1>16, <1>17 DEF target
  <2> QED
    BY <2>2, <2>3
<1>19. \A k, l \in 1 .. Len(p) : p[k].from # p[l].to
  BY <1>14 DEF OneWay
<1>20. Len(p) < n
  <2>1. Len(p) \in Nat /\ Len(p) + 1 <= n
    BY <1>14, <1>15 DEF Few
  <2> QED
    BY <1>1, <2>1
<1> QED
  BY <1>13, <1>15, <1>17, <1>18, <1>19, <1>20 DEF Levels, n

-----------------------------------------------------------------------------
(* One transfer of a run.                                                  *)
LEMMA FunctionIsSeq ==
  ASSUME NEW n \in Nat, NEW a \in [1 .. n -> Nat]
  PROVE  a \in Seq(Nat) /\ Len(a) = n
<1>1. a \in Seq(Nat)
  OBVIOUS
<1>2. DOMAIN a = 1 .. Len(a) /\ DOMAIN a = 1 .. n /\ Len(a) \in Nat
  BY <1>1
<1>3. Len(a) = n
  <2> DEFINE l == Len(a)
  <2>1. l \in Nat /\ \A k \in Int : k \in 1 .. l <=> k \in 1 .. n
    BY <1>2
  <2> HIDE DEF l
  <2>2. ~(l < n) /\ ~(n < l)
    <3>1. l + 1 \in Int /\ n + 1 \in Int
      BY <2>1
    <3> QED
      BY <2>1, <3>1
  <2>3. l = n
    BY <2>1, <2>2
  <2> QED
    BY <2>3 DEF l
<1> QED
  BY <1>1, <1>3

LEMMA MoveKeeps ==
  ASSUME NEW c \in Seq(Nat), NEW sums, PartialSums(sums, c), NEW t \in Moves(Len(c)),
         t.from # t.to, t.n \in 1 .. c[t.from], NEW a, a = After(c, t)
  PROVE  /\ a \in Seq(Nat) /\ Len(a) = Len(c)
         /\ \E q : PartialSums(q, a) /\ Records(q, a) = Records(sums, c)
<1> DEFINE n == Len(c)
<1>1. /\ n \in Nat /\ c \in [1 .. n -> Nat] /\ c \in [1 .. n -> Int]
      /\ t.from \in 1 .. n /\ t.to \in 1 .. n /\ t.n \in Nat
  BY DEF Moves
<1>2. IsAfter(a, c, t, 1 .. n)
  BY <1>1, AfterIs
<1>3. a \in [1 .. n -> Nat]
  BY <1>2 DEF IsAfter
<1>4. a \in Seq(Nat) /\ Len(a) = n
  BY <1>1, <1>3, FunctionIsSeq
<1>5. Adds(sums, c, n)
  BY <1>1 DEF PartialSums, Adds
<1>6. Shifted(a, c, t.from, t.to, t.n, n)
  BY <1>1, <1>2 DEF IsAfter, Shifted
<1> HIDE DEF n
<1>7. PICK q : Adds(q, a, n) /\ q[n] = sums[n]
  BY <1>1, <1>5, <1>6, AddsMove
<1>8. \A i \in 0 .. n : q[i] \in Nat
  BY <1>1, <1>3, <1>7, AddsPositive
<1>9. PartialSums(q, a)
  BY <1>4, <1>7, <1>8 DEF PartialSums, Adds
<1> QED
  BY <1>4, <1>7, <1>9 DEF Records, n

(* Counts whose sum, and one more, is below half of Modulus.               *)
Small(c) ==
    /\ c \in Seq(Nat)
    /\ \E sums : PartialSums(sums, c) /\ Records(sums, c) + 1 < Modulus \div 2

LEMMA SmallTotal ==
  ASSUME NEW c, NEW sums, c \in Seq(Nat), PartialSums(sums, c),
         Records(sums, c) + 1 < Modulus \div 2
  PROVE  /\ Records(sums, c) \in Nat /\ Records(sums, c) < Modulus /\ Total(c) = Records(sums, c)
         /\ \A i \in 1 .. Len(c) : c[i] <= Records(sums, c)
<1>1. Records(sums, c) \in Nat
  BY DEF PartialSums, Records
<1>2. Records(sums, c) < Modulus
  BY <1>1, ModulusAssumption
<1> QED
  BY <1>1, <1>2, TotalIs

(* The counters of a transfer do not wrap, and the records stay as many.   *)
LEMMA MovedIs ==
  ASSUME Small(counts), NEW t \in Moves(Len(counts)), t.from # t.to, t.n \in 1 .. counts[t.from]
  PROVE  /\ Moved(t) = After(counts, t) /\ Small(Moved(t))
         /\ Len(Moved(t)) = Len(counts) /\ Total(Moved(t)) = Total(counts)
<1> DEFINE n == Len(counts)
           a == After(counts, t)
<1>1. PICK sums : PartialSums(sums, counts) /\ Records(sums, counts) + 1 < Modulus \div 2
  BY DEF Small
<1>2. counts \in Seq(Nat)
  BY DEF Small
<1>3. PICK q : /\ a \in Seq(Nat) /\ Len(a) = n /\ PartialSums(q, a)
               /\ Records(q, a) = Records(sums, counts)
  BY <1>1, <1>2, MoveKeeps
<1>4. Small(a)
  BY <1>1, <1>3 DEF Small
<1>5. Total(counts) = Records(sums, counts)
  BY <1>1, <1>2, SmallTotal
<1>6. /\ Total(a) = Records(q, a) /\ Records(q, a) \in Nat /\ Records(q, a) < Modulus
      /\ \A i \in 1 .. n : a[i] <= Records(q, a)
  <2> HIDE DEF a
  <2> QED
    BY <1>1, <1>3, SmallTotal
<1>7. Moved(t) = a
  <2> DEFINE x == t.from
             y == t.to
             r == t.n
             m == [counts EXCEPT ![x] = Unsigned(@ - r), ![y] = Unsigned(@ + r)]
  <2>1. /\ counts \in [1 .. n -> Nat] /\ x \in 1 .. n /\ y \in 1 .. n /\ x # y /\ r \in Nat
    BY <1>2 DEF Moves
  <2>2. IsAfter(a, counts, t, 1 .. n)
    BY <2>1, AfterIs
  <2>3. /\ a \in [1 .. n -> Nat] /\ a[x] = counts[x] - r /\ a[y] = counts[y] + r
        /\ \A k \in (1 .. n) \ {x, y} : a[k] = counts[k]
    BY <2>2 DEF IsAfter
  <2>4. Moved(t) = m
    BY DEF Moved
  <2> HIDE DEF a, x, y, r, n
  <2>5. Unsigned(a[x]) = a[x] /\ Unsigned(a[y]) = a[y]
    <3>1. ASSUME NEW k \in 1 .. n PROVE Unsigned(a[k]) = a[k]
      <4> DEFINE z == a[k]
      <4>1. z \in 0 .. Modulus - 1
        BY <1>6, <2>3, ModulusAssumption
      <4> HIDE DEF z
      <4>2. Unsigned(z) = z
        BY <4>1, UnsignedIs
      <4> QED
        BY <4>2 DEF z
    <3> QED
      BY <2>1, <3>1
  <2>6. /\ m = [k \in 1 .. n |-> m[k]] /\ m[x] = a[x] /\ m[y] = a[y]
        /\ \A k \in (1 .. n) \ {x, y} : m[k] = counts[k]
    BY <2>1, <2>3, <2>5
  <2> HIDE DEF m
  <2>7. \A k \in 1 .. n : m[k] = a[k]
    BY <2>3, <2>6
  <2>8. m = a
    BY <2>3, <2>6, <2>7
  <2> QED
    BY <2>4, <2>8
<1> HIDE DEF a
<1> QED
  BY <1>3, <1>4, <1>5, <1>6, <1>7 DEF a

-----------------------------------------------------------------------------
(* A run of balance.  Before it the nodes have the counts to start from;   *)
(* then either nothing was to be done, or what is left of the plan can be  *)
(* run and brings every node to its target.                                *)
Underway(c, s, p) ==
    /\ Len(c) = Len(s) /\ c # <<>> /\ p \in Seq(Moves(Len(c))) /\ Len(p) < Len(c)
    /\ \A k, l \in 1 .. Len(p) : p[k].from # p[l].to
    /\ \E f : Runs(f, c, p, 1 .. Len(c)) /\ \A i \in 1 .. Len(c) : f[Len(p)][i] = Target(s, i)

Unneeded(c, s, p) == c = s /\ p = <<>> /\ (s = <<>> \/ ~NeedsBalancing(s))

BInv ==
    /\ Small(counts)
    /\ start = Unrun => counts \in FirstCounts /\ left = <<>>
    /\ start # Unrun => /\ Small(start) /\ Total(counts) = Total(start)
                        /\ Underway(counts, start, left) \/ Unneeded(counts, start, left)

(* What one transfer leaves of the plan.                                   *)
LEMMA UnderwayOn ==
  ASSUME Small(counts), NEW s, Underway(counts, s, left), left # <<>>
  PROVE  /\ Head(left) \in Moves(Len(counts)) /\ Head(left).from # Head(left).to
         /\ Head(left).n \in 1 .. counts[Head(left).from]
         /\ Underway(Moved(Head(left)), s, Tail(left))
<1> DEFINE t == Head(left)
           n == Len(counts)
           c == Moved(t)
           q == Tail(left)
<1>1. /\ n = Len(s) /\ counts # <<>> /\ left \in Seq(Moves(n)) /\ Len(left) < n
      /\ \A k, l \in 1 .. Len(left) : left[k].from # left[l].to
  BY DEF Underway
<1>2. PICK f : /\ Runs(f, counts, left, 1 .. n)
               /\ \A i \in 1 .. n : f[Len(left)][i] = Target(s, i)
  BY DEF Underway
<1>3. t \in Moves(n) /\ t = left[1] /\ 1 \in 1 .. Len(left)
  BY <1>1
<1>4. t.from # t.to
  BY <1>1, <1>3
<1>5. /\ t.n \in 1 .. counts[t.from]
      /\ \E g : Runs(g, After(counts, t), q, 1 .. n) /\ g[Len(q)] = f[Len(left)]
  BY <1>1, <1>2, RunsOn
<1>6. c = After(counts, t) /\ Small(c) /\ Len(c) = n
  <2> HIDE DEF t
  <2> QED
    BY <1>3, <1>4, <1>5, MovedIs
<1>7. /\ q \in Seq(Moves(n)) /\ Len(q) = Len(left) - 1 /\ Len(left) \in Nat
      /\ \A k \in 1 .. Len(q) : q[k] = left[k + 1] /\ k + 1 \in 1 .. Len(left)
  BY <1>1
<1>8. n \in Nat /\ Len(q) < n
  <2>1. n \in Nat
    BY DEF Small
  <2> QED
    BY <1>1, <1>7, <2>1
<1>9. \A k, l \in 1 .. Len(q) : q[k].from # q[l].to
  BY <1>1, <1>7
<1>10. PICK g : Runs(g, After(counts, t), q, 1 .. n) /\ g[Len(q)] = f[Len(left)]
  BY <1>5
<1> HIDE DEF t, c, q
<1>11. c # <<>>
  <2>1. n # 0
    BY <1>1 DEF Small
  <2> QED
    BY <1>6, <2>1 DEF Small
<1> HIDE DEF n
<1>12. Underway(c, s, q)
  BY <1>1, <1>2, <1>6, <1>7, <1>8, <1>9, <1>10, <1>11 DEF Underway
<1> QED
  BY <1>3, <1>4, <1>5, <1>12 DEF t, c, q, n

(* The counts to start from fit: their sum and one more is below half of   *)
(* Modulus.                                                                *)
Fits == \A c \in FirstCounts : Small(c)

LEMMA BInvInit == ASSUME Fits, Init PROVE BInv
BY BalanceAssumption DEF Fits, Init, BInv

LEMMA BInvBalance ==
  ASSUME BInv, Balance
  PROVE  BInv'
<1>1. /\ Small(counts) /\ counts \in FirstCounts /\ counts # Unrun
      /\ counts' = counts /\ start' = counts /\ left' = BalancePlan(counts)
  BY BalanceAssumption DEF BInv, Balance
<1>2. CASE counts = <<>> \/ ~NeedsBalancing(counts)
  <2>1. left' = <<>>
    BY <1>1, <1>2 DEF BalancePlan
  <2>2. Unneeded(counts', start', left')
    BY <1>1, <1>2, <2>1 DEF Unneeded
  <2> QED
    BY <1>1, <2>2 DEF BInv
<1>3. CASE ~(counts = <<>> \/ ~NeedsBalancing(counts))
  <2>1. Levels(BalancePlan(counts), counts)
    <3>1. PICK sums : PartialSums(sums, counts) /\ Records(sums, counts) + 1 < Modulus \div 2
      BY <1>1 DEF Small
    <3>2. counts \in Seq(Nat) /\ counts # <<>> /\ NeedsBalancing(counts)
      BY <1>1, <1>3 DEF Small
    <3> QED
      BY <3>1, <3>2, PlanLevels
  <2>2. Underway(counts', start', left')
    BY <1>1, <1>3, <2>1 DEF Levels, Underway
  <2> QED
    BY <1>1, <2>2 DEF BInv
<1> QED
  BY <1>2, <1>3

LEMMA BInvTransfer ==
  ASSUME BInv, Transfer
  PROVE  BInv'
<1> DEFINE c == Moved(Head(left))
<1>1. /\ left # <<>> /\ counts' = c /\ left' = Tail(left) /\ start' = start
  BY DEF Transfer
<1>2. /\ Small(counts) /\ start # Unrun /\ Small(start) /\ Total(counts) = Total(start)
      /\ Underway(counts, start, left)
  BY <1>1 DEF BInv, Unneeded
<1>3. /\ Head(left) \in Moves(Len(counts)) /\ Head(left).from # Head(left).to
      /\ Head(left).n \in 1 .. counts[Head(left).from] /\ Underway(c, start, Tail(left))
  BY <1>1, <1>2, UnderwayOn
<1>4. Small(c) /\ Total(c) = Total(counts)
  BY <1>2, <1>3, MovedIs
<1> HIDE DEF c
<1> QED
  BY <1>1, <1>2, <1>3, <1>4 DEF BInv

(* Every sequence of counts has its sums: Fits only limits how large the   *)
(* last one is.                                                            *)
LEMMA SumsAlways ==
  ASSUME NEW c \in Seq(Nat)
  PROVE  \E sums : PartialSums(sums, c)
<1> DEFINE n == Len(c)
           To(s, k) == /\ s \in [0 .. k -> Nat] /\ s[0] = 0
                       /\ \A i \in 0 .. k - 1 : s[i + 1] = s[i] + c[i + 1]
           S == {k \in Nat : k <= n => \E s : To(s, k)}
<1>1. n \in Nat /\ \A i \in 1 .. n : c[i] \in Nat
  OBVIOUS
<1>2. 0 \in S
  <2> DEFINE s == [i \in 0 .. 0 |-> 0]
  <2>1. To(s, 0)
    OBVIOUS
  <2> QED
    BY <2>1
<1> HIDE DEF n
<1>3. ASSUME NEW k \in Nat, k \in S PROVE k + 1 \in S
  <2> SUFFICES ASSUME k + 1 <= n PROVE \E s : To(s, k + 1)
    OBVIOUS
  <2>1. PICK s : To(s, k)
    BY <1>1, <1>3
  <2> DEFINE v == s[k] + c[k + 1]
             r == [i \in 0 .. k + 1 |-> IF i = k + 1 THEN v ELSE s[i]]
  <2>2. v \in Nat
    BY <1>1, <2>1
  <2>3. \A i \in 0 .. k : r[i] = s[i] /\ s[i] \in Nat
    BY <2>1
  <2>4. r[k + 1] = v
    OBVIOUS
  <2>5. r \in [0 .. k + 1 -> Nat]
    BY <2>1, <2>2
  <2> HIDE DEF r
  <2>6. r[0] = 0
    BY <2>1, <2>3
  <2>7. ASSUME NEW i \in 0 .. (k + 1) - 1 PROVE r[i + 1] = r[i] + c[i + 1]
    <3>1. CASE i = k
      BY <2>3, <2>4, <3>1
    <3>2. CASE i # k
      <4>1. i \in 0 .. k - 1 /\ i \in 0 .. k /\ i + 1 \in 0 .. k
        BY <3>2
      <4> QED
        BY <2>1, <2>3, <4>1
    <3> QED
      BY <3>1, <3>2
  <2> QED
    BY <2>5, <2>6, <2>7
<1> HIDE DEF S
<1>4. Nat \subseteq S
  BY <1>2, <1>3, Induct
<1>5. \E s : To(s, n)
  <2>1. n \in S /\ n <= n
    BY <1>1, <1>4
  <2> HIDE DEF To
  <2> QED
    BY <2>1 DEF S
<1> QED
  BY <1>5 DEF PartialSums, n

(* The invariant of a run of balance, from all counts that fit.            *)
THEOREM BalanceInvariant ==
  ASSUME Fits
  PROVE  Spec => []BInv
<1>1. Init => BInv
  BY BInvInit
<1>2. BInv /\ [Next]_vars => BInv'
  <2> SUFFICES ASSUME BInv, [Next]_vars PROVE BInv'
    OBVIOUS
  <2>1. CASE Balance
    BY <2>1, BInvBalance
  <2>2. CASE Transfer
    BY <2>2, BInvTransfer
  <2>3. CASE UNCHANGED vars
    BY <2>3 DEF vars, BInv
  <2> QED
    BY <2>1, <2>2, <2>3 DEF Next
<1> QED
  BY <1>1, <1>2, PTL DEF Spec

-----------------------------------------------------------------------------
(* The properties.                                                         *)
LEMMA BInvOverdraws == ASSUME BInv PROVE NothingOverdrawn
<1>1. CASE left = <<>>
  BY <1>1 DEF NothingOverdrawn, ToSet
<1>2. CASE left # <<>>
  <2>1. Small(counts) /\ Underway(counts, start, left)
    BY <1>2 DEF BInv, Unneeded
  <2>2. Head(left).n \in 1 .. counts[Head(left).from]
    BY <1>2, <2>1, UnderwayOn
  <2>3. /\ left \in Seq(Moves(Len(counts))) /\ Len(left) < Len(counts)
        /\ \A k, l \in 1 .. Len(left) : left[k].from # left[l].to
    BY <2>1 DEF Underway
  <2>4. DOMAIN left = 1 .. Len(left)
    BY <2>3
  <2>5. \A s, t \in ToSet(left) : s.from # t.to
    BY <2>3, <2>4 DEF ToSet
  <2> QED
    BY <2>2, <2>3, <2>5 DEF NothingOverdrawn
<1> QED
  BY <1>1, <1>2

(* Nodes with their targets: nothing is left to do.                        *)
LEMMA UnderwayEnds ==
  ASSUME NEW c, NEW s, Small(c), Underway(c, s, <<>>)
  PROVE  Len(c) = Len(s) /\ c # <<>> /\ \A i \in 1 .. Len(c) : c[i] = Target(s, i)
<1>1. PICK f : /\ Runs(f, c, <<>>, 1 .. Len(c))
               /\ \A i \in 1 .. Len(c) : f[Len(<<>>)][i] = Target(s, i)
  BY DEF Underway
<1>2. f[0] = c /\ Len(<<>>) = 0
  BY <1>1 DEF Runs
<1> QED
  BY <1>1, <1>2 DEF Underway

(* No node was short by more than 5%.                                      *)
LEMMA UnneededShort ==
  ASSUME NEW c, Small(c), ~NeedsBalancing(c), NEW i \in 1 .. Len(c)
  PROVE  20 * (Target(c, i) - c[i]) <= Total(c) \div Len(c)
<1> DEFINE n == Len(c)
           tot == Total(c)
           q == tot \div n
           x == Target(c, i) - c[i]
<1>1. PICK sums : PartialSums(sums, c) /\ Records(sums, c) + 1 < Modulus \div 2
  BY DEF Small
<1>2. c \in Seq(Nat) /\ n \in Nat \ {0} /\ c[i] \in Nat /\ DOMAIN c = 1 .. n
  BY DEF Small
<1>3. tot \in Nat
  BY <1>1, <1>2, SmallTotal
<1>4. Target(c, i) \in Nat /\ Deltas(c)[i] = x
  BY <1>1, <1>2, DeltasAre
<1>5. x \in Int
  BY <1>2, <1>4
<1>6. CASE tot = 0
  <2>1. 0 \div n = 0 /\ 0 % n = 0
    <3>1. 0 * n + 0 = 0 /\ 0 \in 0 .. n - 1
      BY <1>2
    <3>2. (0 * n + 0) \div n = 0 /\ (0 * n + 0) % n = 0
      BY <1>2, <3>1, DivIs
    <3> QED
      BY <3>1, <3>2
  <2>2. Target(c, i) = 0
    BY <1>2, <1>6, <2>1 DEF Target, Share
  <2>3. x <= 0
    BY <1>2, <2>2
  <2>4. q = 0
    BY <1>6, <2>1
  <2> HIDE DEF x, q
  <2>5. 20 * x <= q
    BY <1>5, <2>3, <2>4
  <2> QED
    BY <2>5 DEF x, q
<1>7. CASE tot # 0
  <2> HIDE DEF q
  <2>1. ~(Deltas(c)[i] > q \div 20)
    BY <1>2, <1>7 DEF NeedsBalancing, q
  <2>2. ~(x > q \div 20)
    BY <1>4, <2>1
  <2>3. q \in Nat
    BY <1>2, <1>3, QuotientBelow DEF q
  <2> HIDE DEF x
  <2> DEFINE u == q \div 20
             v == q % 20
  <2>4. u \in Nat /\ v \in 0 .. 20 - 1 /\ q = 20 * u + v /\ ~(x > u)
    BY <2>2, <2>3, DivMod
  <2> HIDE DEF u, v
  <2>5. 20 * x <= q
    BY <1>5, <2>4
  <2> QED
    BY <2>5 DEF x, q
<1> QED
  BY <1>6, <1>7

LEMMA BInvEnds == ASSUME BInv PROVE EndsBalanced
<1> SUFFICES ASSUME start # Unrun, left = <<>>
             PROVE  \/ \A i \in DOMAIN counts : counts[i] = Target(start, i)
                    \/ /\ counts = start
                       /\ \A i \in DOMAIN counts :
                             20 * (Target(start, i) - counts[i]) <= Total(start) \div Len(start)
  BY DEF EndsBalanced
<1>1. Small(counts) /\ Small(start)
  BY DEF BInv
<1>2. DOMAIN counts = 1 .. Len(counts)
  BY <1>1 DEF Small
<1>3. CASE Underway(counts, start, left)
  BY <1>1, <1>2, <1>3, UnderwayEnds
<1>4. CASE Unneeded(counts, start, left)
  <2>1. counts = start /\ (start = <<>> \/ ~NeedsBalancing(start))
    BY <1>4 DEF Unneeded
  <2>2. CASE start = <<>>
    <3>1. DOMAIN counts = {}
      BY <2>1, <2>2
    <3> QED
      BY <3>1
  <2>3. CASE ~NeedsBalancing(start)
    <3>1. \A i \in 1 .. Len(start) :
             20 * (Target(start, i) - start[i]) <= Total(start) \div Len(start)
      BY <1>1, <2>3, UnneededShort
    <3> QED
      BY <1>2, <2>1, <3>1
  <2> QED
    BY <2>1, <2>2, <2>3
<1> QED
  BY <1>3, <1>4 DEF BInv

LEMMA BInvStable == ASSUME BInv PROVE Stable
<1> SUFFICES ASSUME start # Unrun, left = <<>> PROVE BalancePlan(counts) = <<>>
  BY DEF Stable
<1>1. Small(counts) /\ Total(counts) = Total(start)
  BY DEF BInv
<1>2. CASE Underway(counts, start, left)
  <2>1. /\ Len(counts) = Len(start) /\ counts # <<>>
        /\ \A i \in 1 .. Len(counts) : counts[i] = Target(start, i)
    BY <1>1, <1>2, UnderwayEnds
  <2>2. \A i \in 1 .. Len(counts) : counts[i] = Target(counts, i)
    BY <1>1, <2>1 DEF Target
  <2>3. PICK sums : PartialSums(sums, counts) /\ Records(sums, counts) + 1 < Modulus \div 2
    BY <1>1 DEF Small
  <2>4. counts \in Seq(Nat) /\ DOMAIN counts = 1 .. Len(counts) /\ Len(counts) \in Nat \ {0}
    BY <1>1, <2>1 DEF Small
  <2>5. \A i \in 1 .. Len(counts) :
           Target(counts, i) \in Nat /\ Deltas(counts)[i] = Target(counts, i) - counts[i]
    BY <2>3, <2>4, DeltasAre
  <2>6. \A i \in 1 .. Len(counts) : Deltas(counts)[i] = 0
    BY <2>2, <2>5
  <2> DEFINE q == Total(counts) \div Len(counts)
  <2>7. q \in Nat
    <3>1. Total(counts) \in Nat
      BY <2>3, <2>4, SmallTotal
    <3> QED
      BY <2>4, <3>1, QuotientBelow
  <2>8. ~NeedsBalancing(counts)
    <3> SUFFICES ASSUME NEW i \in 1 .. Len(counts), Deltas(counts)[i] > q \div 20 PROVE FALSE
      BY <2>4 DEF NeedsBalancing
    <3> HIDE DEF q
    <3>1. q \div 20 \in Nat
      BY <2>7, QuotientBelow
    <3>2. ~(0 > q \div 20)
      BY <3>1
    <3> QED
      BY <2>6, <3>2
  <2> QED
    BY <2>8 DEF BalancePlan
<1>3. CASE Unneeded(counts, start, left)
  BY <1>3 DEF Unneeded, BalancePlan
<1> QED
  BY <1>2, <1>3 DEF BInv

(* balancer.go, for every number of nodes and all counts that fit: balance *)
(* never asks a node for more records than it has, no node both gives and  *)
(* receives, and there are fewer transfers than nodes.                     *)
THEOREM NeverOverdraws ==
  ASSUME Fits
  PROVE  Spec => []NothingOverdrawn
<1>1. BInv => NothingOverdrawn
  BY BInvOverdraws
<1> QED
  BY <1>1, BalanceInvariant, PTL

(* When balance ends every node has its target, or nothing was moved since *)
(* no node was short by more than 5%.                                      *)
THEOREM EndsLevel ==
  ASSUME Fits
  PROVE  Spec => []EndsBalanced
<1>1. BInv => EndsBalanced
  BY BInvEnds
<1> QED
  BY <1>1, BalanceInvariant, PTL

(* balance run again on its own result plans no transfer.                  *)
THEOREM MovesNothingAgain ==
  ASSUME Fits
  PROVE  Spec => []Stable
<1>1. BInv => Stable
  BY BInvStable
<1> QED
  BY <1>1, BalanceInvariant, PTL

=============================================================================
