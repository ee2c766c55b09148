--------------------------- MODULE BalancerProofs ---------------------------
(***************************************************************************)
(* What balancer.go computes, for every number of nodes and records: the   *)
(* transfers of a balance are between different nodes, and none takes more *)
(* records than its source has by then.                                    *)
(*                                                                         *)
(* The loops of the code are folds of the model.  What a fold computes is  *)
(* proved by induction on the positions: by the least counterexample,      *)
(* which WFMin of WellFoundedInduction gives.                              *)
(***************************************************************************)
EXTENDS Balancer, FiniteSetTheorems, WellFoundedInduction, TLAPS

(* The order of the naturals, as a relation.                               *)
Below == OpToRel(<, Nat)

LEMMA BelowDef == \A x, y \in Nat : <<x, y>> \in Below <=> x < y
BY DEF Below, OpToRel

LEMMA BelowWF == IsWellFoundedOn(Below, Nat)
BY NatLessThanWellFounded, Zenon DEF Below

(* A set of naturals has a least element.                                  *)
LEMMA NatMin ==
  ASSUME NEW T, T \subseteq Nat, T # {}
  PROVE \E x \in T : \A y \in T : x <= y
<1>1. PICK x \in T : \A y \in T : ~ (<<y, x>> \in Below)
  BY BelowWF, WFMin
<1>2. \A y \in T : x \in Nat /\ y \in Nat /\ ~(y < x)
  BY <1>1, BelowDef
<1>3. \A y \in T : x <= y
  BY <1>2
<1> QED
  BY <1>3

(* Induction: a set that has 0 and the successor of each of its elements.  *)
LEMMA Induct ==
  ASSUME NEW S, 0 \in S, \A n \in Nat : n \in S => n + 1 \in S
  PROVE  Nat \subseteq S
<1> SUFFICES ASSUME Nat \ S # {} PROVE FALSE
  OBVIOUS
<1>1. PICK x \in Nat \ S : \A y \in Nat \ S : x <= y
  <2> DEFINE T == Nat \ S
  <2>1. T \subseteq Nat /\ T # {}
    OBVIOUS
  <2> HIDE DEF T
  <2>2. \E x \in T : \A y \in T : x <= y
    BY <2>1, NatMin
  <2> QED
    BY <2>2 DEF T
<1>2. x # 0 /\ x - 1 \in Nat /\ ~(x <= x - 1)
  BY <1>1
<1>3. x - 1 \in S
  BY <1>1, <1>2
<1>4. (x - 1) + 1 = x
  BY <1>1
<1> QED
  BY <1>1, <1>2, <1>3, <1>4

(* A fold goes from the largest position of a set down.                    *)
LEMMA MaxOf ==
  ASSUME NEW k \in Nat, NEW s, s \subseteq 1 .. k, s # {}
  PROVE  Max(s) \in s /\ \A y \in s : y <= Max(s)
<1> DEFINE T == {m \in Nat : \A y \in s : y <= m}
<1>1. T \subseteq Nat /\ k \in T
  OBVIOUS
<1> HIDE DEF T
<1>2. PICK x \in T : \A y \in T : x <= y
  BY <1>1, NatMin
<1>3. x \in Nat /\ \A y \in s : y <= x
  BY <1>2 DEF T
<1>4. ASSUME x \notin s PROVE FALSE
  <2>1. \A y \in s : y \in Int /\ y <= x - 1 /\ 1 <= y
    BY <1>3, <1>4
  <2>2. x - 1 \in Nat
    <3>1. PICK y \in s : y \in Int /\ y <= x - 1 /\ 1 <= y
      BY <2>1
    <3> QED
      BY <1>3, <3>1
  <2>3. x - 1 \in T
    BY <2>1, <2>2 DEF T
  <2> QED
    BY <1>2, <1>3, <2>3
<1>5. \E z \in s : \A y \in s : z >= y
  BY <1>3, <1>4
<1>6. Max(s) \in s /\ \A y \in s : Max(s) >= y
  BY <1>5 DEF Max
<1> QED
  BY <1>6

LEMMA MaxIs ==
  ASSUME NEW k \in Nat, NEW s, s \subseteq 1 .. k, k \in s
  PROVE  Max(s) = k
<1>1. Max(s) \in s /\ \A y \in s : y <= Max(s)
  BY MaxOf
<1>2. Max(s) \in 1 .. k /\ k <= Max(s)
  BY <1>1
<1> QED
  BY <1>2

(* FoldLeft(TakeFrom, ...) is what a function g on sets of positions gives *)
(* for all of them, if g is defined by Iterates.                           *)
Iterates(g, base, seq, k) ==
    g = [s \in SUBSET (1 .. k) |->
            IF s = {} THEN base ELSE TakeFrom(g[s \ {Max(s)}], seq[Max(s)])]

(* The loops of balance.                                                   *)
Looped(base, seq) == FoldLeft(TakeFrom, base, seq)

LEMMA FoldsTakeFrom ==
  ASSUME NEW base, NEW seq
  PROVE  Looped(base, seq) =
            (CHOOSE g : g = [s \in SUBSET (DOMAIN seq) |-> IF s = {} THEN base
                              ELSE TakeFrom(g[s \ {Max(s)}], seq[Max(s)])])[DOMAIN seq]
BY Zenon DEF Looped, FoldLeft, MapThenFoldSet

(* There is such a function.                                               *)
LEMMA IterExists ==
  ASSUME NEW base, NEW seq, NEW k \in Nat
  PROVE  \E g : Iterates(g, base, seq, k)
<1> DEFINE S == {n \in Nat : \E g : Iterates(g, base, seq, n)}
<1>1. 0 \in S
  <2> DEFINE z == [s \in SUBSET (1 .. 0) |-> base]
  <2>1. 1 .. 0 = {}
    OBVIOUS
  <2>2. z = [s \in SUBSET (1 .. 0) |->
            IF s = {} THEN base ELSE TakeFrom(z[s \ {Max(s)}], seq[Max(s)])]
    <3>1. \A s \in SUBSET (1 .. 0) : s = {}
      BY <2>1
    <3> QED
      BY <3>1
  <2>3. Iterates(z, base, seq, 0)
    BY <2>2 DEF Iterates
  <2> QED
    BY <2>3
<1>2. ASSUME NEW n \in Nat, n \in S PROVE n + 1 \in S
  <2>1. PICK g : Iterates(g, base, seq, n)
    BY <1>2
  <2> DEFINE h == [s \in SUBSET (1 .. n + 1) |->
                     IF n + 1 \in s THEN TakeFrom(g[s \ {n + 1}], seq[n + 1]) ELSE g[s]]
             H(s) == IF s = {} THEN base ELSE TakeFrom(h[s \ {Max(s)}], seq[Max(s)])
  <2>2. \A s \in SUBSET (1 .. n) : s \in SUBSET (1 .. n + 1) /\ n + 1 \notin s /\ h[s] = g[s]
    OBVIOUS
  <2>3. ASSUME NEW s \in SUBSET (1 .. n + 1), n + 1 \in s PROVE h[s] = H(s)
    <3>1. n + 1 \in Nat
      OBVIOUS
    <3>2. Max(s) = n + 1
      BY <2>3, <3>1, MaxIs
    <3>3. s \ {n + 1} \in SUBSET (1 .. n)
      OBVIOUS
    <3>4. h[s] = TakeFrom(g[s \ {n + 1}], seq[n + 1])
      BY <2>3
    <3>5. h[s \ {n + 1}] = g[s \ {n + 1}]
      BY <2>2, <3>3
    <3> HIDE DEF h
    <3> QED
      BY <2>3, <3>2, <3>4, <3>5
  <2>4. ASSUME NEW s \in SUBSET (1 .. n + 1), n + 1 \notin s PROVE h[s] = H(s)
    <3>1. s \in SUBSET (1 .. n)
      BY <2>4
    <3>2. h[s] = g[s]
      BY <2>2, <3>1
    <3>3. CASE s = {}
      BY <2>1, <3>1, <3>2, <3>3 DEF Iterates
    <3>4. CASE s # {}
      <4>1. s \ {Max(s)} \in SUBSET (1 .. n)
        BY <3>1
      <4>2. h[s \ {Max(s)}] = g[s \ {Max(s)}]
        BY <2>2, <4>1
      <4> HIDE DEF h
      <4>3. g[s] = TakeFrom(g[s \ {Max(s)}], seq[Max(s)])
        BY <2>1, <3>1, <3>4 DEF Iterates
      <4> QED
        BY <3>2, <3>4, <4>2, <4>3
    <3> QED
      BY <3>3, <3>4
  <2>5. h = [s \in SUBSET (1 .. n + 1) |-> h[s]]
    OBVIOUS
  <2>6. \A s \in SUBSET (1 .. n + 1) : h[s] = H(s)
    BY <2>3, <2>4
  <2> HIDE DEF h
  <2>7. h = [s \in SUBSET (1 .. n + 1) |-> H(s)]
    BY <2>5, <2>6
  <2>8. Iterates(h, base, seq, n + 1)
    BY <2>7 DEF Iterates
  <2> QED
    BY <2>8
<1> HIDE DEF S
<1>3. Nat \subseteq S
  BY <1>1, <1>2, Induct
<1> QED
  BY <1>3 DEF S

(* The states of the loop: the fold is the last of them.                   *)
LoopSteps(st, base, seq, k) ==
    /\ st[0] = base
    /\ \A i \in 0 .. k - 1 : st[i + 1] = TakeFrom(st[i], seq[i + 1])
    /\ Looped(base, seq) = st[k]

LEMMA LoopStates ==
  ASSUME NEW base, NEW k \in Nat, NEW seq, DOMAIN seq = 1 .. k
  PROVE  \E st : LoopSteps(st, base, seq, k)
<1> DEFINE g == CHOOSE g : Iterates(g, base, seq, k)
<1>1. Iterates(g, base, seq, k)
  BY IterExists
<1>2. Looped(base, seq) = g[1 .. k]
  BY FoldsTakeFrom DEF Iterates
<1> HIDE DEF g
<1> DEFINE st == [i \in 0 .. k |-> g[1 .. i]]
<1>3. st[0] = base
  <2>1. 1 .. 0 = {}
    OBVIOUS
  <2>2. g[{}] = base
    BY <1>1 DEF Iterates
  <2> QED
    BY <2>1, <2>2
<1>4. ASSUME NEW i \in 0 .. k - 1 PROVE st[i + 1] = TakeFrom(st[i], seq[i + 1])
  <2>1. i \in Nat /\ i + 1 \in Nat /\ i + 1 <= k /\ i + 1 \in 1 .. i + 1
    OBVIOUS
  <2>2. 1 .. i + 1 \in SUBSET (1 .. k) /\ 1 .. i + 1 # {}
    <3>1. \A y \in 1 .. i + 1 : y \in 1 .. k
      BY <2>1
    <3> QED
      BY <2>1, <3>1
  <2>3. Max(1 .. i + 1) = i + 1
    BY <2>1, MaxIs
  <2>4. (1 .. i + 1) \ {i + 1} = 1 .. i
    OBVIOUS
  <2>5. g[1 .. i + 1] = TakeFrom(g[1 .. i], seq[i + 1])
    BY <1>1, <2>2, <2>3, <2>4 DEF Iterates
  <2> QED
    BY <2>5
<1>5. st[k] = g[1 .. k]
  OBVIOUS
<1> HIDE DEF st
<1>6. LoopSteps(st, base, seq, k)
  BY <1>2, <1>3, <1>4, <1>5 DEF LoopSteps
<1> QED
  BY <1>6

(* Total is what a function g on sets of positions gives for all of them,  *)
(* if g is defined by Sums.                                                *)
Sums(g, seq, k) ==
    g = [s \in SUBSET (1 .. k) |->
            IF s = {} THEN 0 ELSE Unsigned(g[s \ {Max(s)}] + seq[Max(s)])]

LEMMA FoldsTotal ==
  ASSUME NEW seq
  PROVE  Total(seq) =
            (CHOOSE g : g = [s \in SUBSET (DOMAIN seq) |-> IF s = {} THEN 0
                              ELSE Unsigned(g[s \ {Max(s)}] + seq[Max(s)])])[DOMAIN seq]
BY Zenon DEF Total, FoldLeft, MapThenFoldSet

LEMMA SumsExist ==
  ASSUME NEW seq, NEW k \in Nat
  PROVE  \E g : Sums(g, seq, k)
<1> DEFINE S == {n \in Nat : \E g : Sums(g, seq, n)}
<1>1. 0 \in S
  <2> DEFINE z == [s \in SUBSET (1 .. 0) |-> 0]
  <2>1. 1 .. 0 = {}
    OBVIOUS
  <2>2. z = [s \in SUBSET (1 .. 0) |->
            IF s = {} THEN 0 ELSE Unsigned(z[s \ {Max(s)}] + seq[Max(s)])]
    <3>1. \A s \in SUBSET (1 .. 0) : s = {}
      BY <2>1
    <3> QED
      BY <3>1
  <2>3. Sums(z, seq, 0)
    BY <2>2 DEF Sums
  <2> QED
    BY <2>3
<1>2. ASSUME NEW n \in Nat, n \in S PROVE n + 1 \in S
  <2>1. PICK g : Sums(g, seq, n)
    BY <1>2
  <2> DEFINE h == [s \in SUBSET (1 .. n + 1) |->
                     IF n + 1 \in s THEN Unsigned(g[s \ {n + 1}] + seq[n + 1]) ELSE g[s]]
             H(s) == IF s = {} THEN 0 ELSE Unsigned(h[s \ {Max(s)}] + seq[Max(s)])
  <2>2. \A s \in SUBSET (1 .. n) : s \in SUBSET (1 .. n + 1) /\ n + 1 \notin s /\ h[s] = g[s]
    OBVIOUS
  <2>3. ASSUME NEW s \in SUBSET (1 .. n + 1), n + 1 \in s PROVE h[s] = H(s)
    <3>1. n + 1 \in Nat
      OBVIOUS
    <3>2. Max(s) = n + 1
      BY <2>3, <3>1, MaxIs
    <3>3. s \ {n + 1} \in SUBSET (1 .. n)
      OBVIOUS
    <3>4. h[s] = Unsigned(g[s \ {n + 1}] + seq[n + 1])
      BY <2>3
    <3>5. h[s \ {n + 1}] = g[s \ {n + 1}]
      BY <2>2, <3>3
    <3> HIDE DEF h
    <3> QED
      BY <2>3, <3>2, <3>4, <3>5
  <2>4. ASSUME NEW s \in SUBSET (1 .. n + 1), n + 1 \notin s PROVE h[s] = H(s)
    <3>1. s \in SUBSET (1 .. n)
      BY <2>4
    <3>2. h[s] = g[s]
      BY <2>2, <3>1
    <3>3. CASE s = {}
      BY <2>1, <3>1, <3>2, <3>3 DEF Sums
    <3>4. CASE s # {}
      <4>1. s \ {Max(s)} \in SUBSET (1 .. n)
        BY <3>1
      <4>2. h[s \ {Max(s)}] = g[s \ {Max(s)}]
        BY <2>2, <4>1
      <4> HIDE DEF h
      <4>3. g[s] = Unsigned(g[s \ {Max(s)}] + seq[Max(s)])
        BY <2>1, <3>1, <3>4 DEF Sums
      <4> QED
        BY <3>2, <3>4, <4>2, <4>3
    <3> QED
      BY <3>3, <3>4
  <2>5. h = [s \in SUBSET (1 .. n + 1) |-> h[s]]
    OBVIOUS
  <2>6. \A s \in SUBSET (1 .. n + 1) : h[s] = H(s)
    BY <2>3, <2>4
  <2> HIDE DEF h
  <2>7. h = [s \in SUBSET (1 .. n + 1) |-> H(s)]
    BY <2>5, <2>6
  <2>8. Sums(h, seq, n + 1)
    BY <2>7 DEF Sums
  <2> QED
    BY <2>8
<1> HIDE DEF S
<1>3. Nat \subseteq S
  BY <1>1, <1>2, Induct
<1> QED
  BY <1>3 DEF S

(* The totals of the first positions: Total is the last of them.           *)
LEMMA RunningTotals ==
  ASSUME NEW k \in Nat, NEW seq, DOMAIN seq = 1 .. k
  PROVE  \E st : /\ st[0] = 0
                 /\ \A i \in 0 .. k - 1 : st[i + 1] = Unsigned(st[i] + seq[i + 1])
                 /\ Total(seq) = st[k]
<1> DEFINE g == CHOOSE g : Sums(g, seq, k)
<1>1. Sums(g, seq, k)
  BY SumsExist
<1>2. Total(seq) = g[1 .. k]
  BY FoldsTotal DEF Sums
<1> HIDE DEF g
<1> DEFINE st == [i \in 0 .. k |-> g[1 .. i]]
<1>3. st[0] = 0
  <2>1. 1 .. 0 = {}
    OBVIOUS
  <2>2. g[{}] = 0
    BY <1>1 DEF Sums
  <2> QED
    BY <2>1, <2>2
<1>4. ASSUME NEW i \in 0 .. k - 1 PROVE st[i + 1] = Unsigned(st[i] + seq[i + 1])
  <2>1. i \in Nat /\ i + 1 \in Nat /\ i + 1 <= k /\ i + 1 \in 1 .. i + 1
    OBVIOUS
  <2>2. 1 .. i + 1 \in SUBSET (1 .. k) /\ 1 .. i + 1 # {}
    <3>1. \A y \in 1 .. i + 1 : y \in 1 .. k
      BY <2>1
    <3> QED
      BY <2>1, <3>1
  <2>3. Max(1 .. i + 1) = i + 1
    BY <2>1, MaxIs
  <2>4. (1 .. i + 1) \ {i + 1} = 1 .. i
    OBVIOUS
  <2>5. g[1 .. i + 1] = Unsigned(g[1 .. i] + seq[i + 1])
    BY <1>1, <2>2, <2>3, <2>4 DEF Sums
  <2> QED
    BY <2>5
<1>5. st[k] = g[1 .. k]
  OBVIOUS
<1> QED
  BY <1>2, <1>3, <1>4, <1>5

(* The two loops of balance go through the positions of the nodes.         *)
LEMMA PairsType ==
  ASSUME NEW n \in Nat \ {0}, NEW k \in 1 .. n * n
  PROVE  Pairs(n)[k][1] \in 1 .. n /\ Pairs(n)[k][2] \in 1 .. n
<1>1. n * n \in Nat /\ k - 1 \in Nat /\ k - 1 < n * n
  OBVIOUS
<1>2. (k - 1) % n \in 0 .. n - 1
  BY <1>1
<1>3. (k - 1) \div n \in 0 .. n - 1
  BY <1>1
<1> QED
  BY <1>2, <1>3 DEF Pairs

(* The total is a number of records, and wraps like one.                   *)
LEMMA TotalType ==
  ASSUME NEW counts \in Seq(Int)
  PROVE  Total(counts) \in 0 .. Modulus - 1
<1>1. Len(counts) \in Nat /\ DOMAIN counts = 1 .. Len(counts)
  OBVIOUS
<1>2. PICK st : /\ st[0] = 0
                /\ \A i \in 0 .. Len(counts) - 1 : st[i + 1] = Unsigned(st[i] + counts[i + 1])
                /\ Total(counts) = st[Len(counts)]
  BY <1>1, RunningTotals
<1> DEFINE S == {i \in Nat : i <= Len(counts) => st[i] \in 0 .. Modulus - 1}
<1>3. 0 \in S
  BY <1>2, ModulusAssumption
<1>4. ASSUME NEW i \in Nat, i \in S PROVE i + 1 \in S
  <2> SUFFICES ASSUME i + 1 <= Len(counts) PROVE st[i + 1] \in 0 .. Modulus - 1
    OBVIOUS
  <2>1. st[i] \in Int /\ i \in 0 .. Len(counts) - 1 /\ i + 1 \in 1 .. Len(counts)
    BY <1>1, <1>4
  <2>2. counts[i + 1] \in Int
    BY <1>1, <2>1
  <2>3. st[i + 1] = (st[i] + counts[i + 1]) % Modulus
    BY <1>2, <2>1 DEF Unsigned
  <2>4. st[i] + counts[i + 1] \in Int
    BY <2>1, <2>2
  <2> QED
    BY <2>3, <2>4, ModulusAssumption
<1> HIDE DEF S
<1>5. Nat \subseteq S
  BY <1>3, <1>4, Induct
<1> QED
  BY <1>1, <1>2, <1>5 DEF S

(* int64(x) is a number, and so is each delta.                             *)
LEMMA SignedType ==
  ASSUME NEW x \in Int
  PROVE  Signed(x) \in Int
BY ModulusAssumption DEF Signed, Unsigned

LEMMA DeltasType ==
  ASSUME NEW counts \in Seq(Int)
  PROVE  Deltas(counts) \in [1 .. Len(counts) -> Int]
<1> SUFFICES ASSUME NEW i \in 1 .. Len(counts)
             PROVE  Signed(Target(counts, i) - counts[i]) \in Int
  BY DEF Deltas
<1>1. counts[i] \in Int /\ Len(counts) \in Nat \ {0}
  OBVIOUS
<1>2. Total(counts) \in Nat
  BY TotalType, ModulusAssumption
<1>3. Target(counts, i) \in Int
  BY <1>1, <1>2 DEF Target, Share
<1>4. Target(counts, i) - counts[i] \in Int
  BY <1>1, <1>3
<1> QED
  BY <1>4, SignedType

(* What holds of the loop's state.                                         *)
Moves(n) == [from : 1 .. n, to : 1 .. n, n : Nat]

Sound(n, state) ==
    /\ state.deltas \in [1 .. n -> Int]
    /\ state.plan \in Seq(Moves(n))
    /\ \A k \in 1 .. Len(state.plan) :
          state.plan[k].from # state.plan[k].to /\ state.plan[k].n # 0

(* One turn of the inner loop.                                             *)
LEMMA TakeFromSound ==
  ASSUME NEW n \in Nat \ {0}, NEW state, Sound(n, state),
         NEW pair, pair[1] \in 1 .. n, pair[2] \in 1 .. n
  PROVE  Sound(n, TakeFrom(state, pair))
<1> DEFINE i == pair[1]
           j == pair[2]
           r == Least(-state.deltas[j], state.deltas[i])
           move == [from |-> j, to |-> i, n |-> r]
<1>1. CASE state.deltas[i] <= 0 \/ state.deltas[j] >= 0
  BY <1>1 DEF TakeFrom
<1>2. CASE ~(state.deltas[i] <= 0 \/ state.deltas[j] >= 0)
  <2>1. state.deltas[i] \in Int /\ state.deltas[j] \in Int
    BY DEF Sound
  <2>2. r \in Nat /\ r # 0 /\ i # j
    BY <1>2, <2>1 DEF Least
  <2> HIDE DEF i, j, r
  <2>3. move \in Moves(n) /\ move.from # move.to /\ move.n # 0
    BY <2>2 DEF Moves, i, j
  <2>4. TakeFrom(state, pair) = [deltas |-> [state.deltas EXCEPT ![i] = @ - r, ![j] = @ + r],
                                 plan |-> Append(state.plan, move)]
    BY <1>2 DEF TakeFrom, i, j, r
  <2> HIDE DEF move
  <2> DEFINE d == state.deltas
             e == [d EXCEPT ![i] = @ - r, ![j] = @ + r]
             p == state.plan
             q == Append(p, move)
  <2>5. d \in [1 .. n -> Int] /\ i \in 1 .. n /\ j \in 1 .. n
    BY DEF Sound, i, j
  <2>6. p \in Seq(Moves(n)) /\ \A k \in 1 .. Len(p) : p[k].from # p[k].to /\ p[k].n # 0
    BY DEF Sound
  <2>7. TakeFrom(state, pair).deltas = e /\ TakeFrom(state, pair).plan = q
    BY <2>4
  <2> HIDE DEF d, p
  <2>8. e \in [1 .. n -> Int]
    BY <2>2, <2>5
  <2>9. q \in Seq(Moves(n)) /\ Len(q) = Len(p) + 1
    BY <2>3, <2>6
  <2>10. ASSUME NEW k \in 1 .. Len(q) PROVE q[k].from # q[k].to /\ q[k].n # 0
    <3>1. k = Len(p) + 1 \/ k \in 1 .. Len(p)
      BY <2>6, <2>9
    <3>2. q[k] = IF k = Len(p) + 1 THEN move ELSE p[k]
      BY <2>3, <2>6, <3>1
    <3> QED
      BY <2>3, <2>6, <3>1, <3>2
  <2> HIDE DEF e, q
  <2> QED
    BY <2>7, <2>8, <2>9, <2>10 DEF Sound
<1> QED
  BY <1>1, <1>2

(* Every transfer that balance (balancer.go) plans is from one node to     *)
(* another one, of at least one record: transfer would otherwise delete    *)
(* from its source what it has just stored there.                          *)
THEOREM PlanIsSound ==
  ASSUME NEW counts \in Seq(Int)
  PROVE  /\ BalancePlan(counts) \in Seq(Moves(Len(counts)))
         /\ \A k \in 1 .. Len(BalancePlan(counts)) :
               BalancePlan(counts)[k].from # BalancePlan(counts)[k].to
                  /\ BalancePlan(counts)[k].n # 0
<1>1. CASE counts = <<>> \/ ~NeedsBalancing(counts)
  BY <1>1 DEF BalancePlan
<1>2. CASE ~(counts = <<>> \/ ~NeedsBalancing(counts))
  <2> DEFINE n == Len(counts)
             base == [deltas |-> Deltas(counts), plan |-> <<>>]
  <2>1. n \in Nat \ {0} /\ n * n \in Nat /\ DOMAIN Pairs(n) = 1 .. n * n
    BY <1>2 DEF Pairs
  <2>2. Sound(n, base)
    BY DeltasType DEF Sound
  <2>3. BalancePlan(counts) = Looped(base, Pairs(n)).plan
    BY <1>2 DEF BalancePlan, Looped
  <2> HIDE DEF n, base
  <2>4. PICK st : /\ st[0] = base
                  /\ \A i \in 0 .. n * n - 1 : st[i + 1] = TakeFrom(st[i], Pairs(n)[i + 1])
                  /\ Looped(base, Pairs(n)) = st[n * n]
    <3> DEFINE k == n * n
               seq == Pairs(n)
    <3>1. k \in Nat /\ DOMAIN seq = 1 .. k
      BY <2>1
    <3> HIDE DEF k, seq
    <3>2. \E st : LoopSteps(st, base, seq, k)
      BY <3>1, LoopStates
    <3> QED
      BY <3>2 DEF LoopSteps, k, seq
  <2> DEFINE S == {i \in Nat : i <= n * n => Sound(n, st[i])}
  <2>5. 0 \in S
    BY <2>2, <2>4
  <2>6. ASSUME NEW i \in Nat, i \in S PROVE i + 1 \in S
    <3> SUFFICES ASSUME i + 1 <= n * n PROVE Sound(n, st[i + 1])
      OBVIOUS
    <3>1. i \in 0 .. n * n - 1 /\ i + 1 \in 1 .. n * n /\ i <= n * n
      BY <2>1
    <3>2. Sound(n, st[i])
      BY <2>6, <3>1
    <3>3. Pairs(n)[i + 1][1] \in 1 .. n /\ Pairs(n)[i + 1][2] \in 1 .. n
      BY <2>1, <3>1, PairsType
    <3>4. st[i + 1] = TakeFrom(st[i], Pairs(n)[i + 1])
      BY <2>4, <3>1
    <3> QED
      BY <2>1, <3>2, <3>3, <3>4, TakeFromSound
  <2> HIDE DEF S
  <2>7. Nat \subseteq S
    BY <2>5, <2>6, Induct
  <2>8. Sound(n, st[n * n])
    BY <2>1, <2>7 DEF S
  <2> QED
    BY <2>3, <2>4, <2>8 DEF Sound, n
<1> QED
  BY <1>1, <1>2

-----------------------------------------------------------------------------
(* The counters of balancer.go do not wrap if the records of all nodes are *)
(* fewer than half of Modulus.  sums[i] is the number of records of the    *)
(* first i nodes.                                                          *)
PartialSums(sums, counts) ==
    /\ sums \in [0 .. Len(counts) -> Nat] /\ sums[0] = 0
    /\ \A i \in 0 .. Len(counts) - 1 : sums[i + 1] = sums[i] + counts[i + 1]

Records(sums, counts) == sums[Len(counts)]

(* What does not wrap is left alone by uint64 and int64.                   *)
LEMMA UnsignedIs ==
  ASSUME NEW x \in 0 .. Modulus - 1
  PROVE  Unsigned(x) = x
BY ModulusAssumption DEF Unsigned

LEMMA UnsignedBelow ==
  ASSUME NEW x \in Int, -Modulus <= x, x < 0
  PROVE  Unsigned(x) = x + Modulus
BY ModulusAssumption DEF Unsigned

(* A uint64 is the number less a multiple of Modulus.                      *)
LEMMA UnsignedRest ==
  ASSUME NEW x \in Int
  PROVE  /\ Unsigned(x) \in 0 .. Modulus - 1
         /\ \E q \in Int : x = Unsigned(x) + q * Modulus
<1>1. Modulus \in Nat \ {0}
  BY ModulusAssumption
<1>2. x = Modulus * (x \div Modulus) + (x % Modulus)
  BY <1>1
<1>3. x \div Modulus \in Int /\ x % Modulus \in 0 .. Modulus - 1
  BY <1>1
<1> DEFINE q == x \div Modulus
           r == x % Modulus
<1> HIDE DEF q, r
<1>4. x = r + q * Modulus /\ q \in Int
  BY <1>1, <1>2, <1>3 DEF q, r
<1> QED
  BY <1>3, <1>4 DEF Unsigned, r

(* Numbers that differ by a multiple of Modulus are the same uint64.       *)
LEMMA SameUnsigned ==
  ASSUME NEW x \in Int, NEW y \in Int, NEW q \in Int, x = y + q * Modulus
  PROVE  Unsigned(x) = Unsigned(y)
<1>1. Modulus \in Nat \ {0}
  BY ModulusAssumption
<1> DEFINE r == Unsigned(x)
           s == Unsigned(y)
<1>2. PICK a \in Int : x = r + a * Modulus
  BY UnsignedRest
<1>3. PICK b \in Int : y = s + b * Modulus
  BY UnsignedRest
<1>4. r \in 0 .. Modulus - 1 /\ s \in 0 .. Modulus - 1
  BY UnsignedRest
<1> HIDE DEF r, s
<1> DEFINE k == b + q - a
<1>5. k \in Int /\ r - s = k * Modulus
  BY <1>1, <1>2, <1>3, <1>4
<1>6. r - s < Modulus /\ -Modulus < r - s
  BY <1>1, <1>4
<1> HIDE DEF k
<1>7. ~(k >= 1)
  <2> SUFFICES ASSUME k >= 1 PROVE k * Modulus >= Modulus
    BY <1>1, <1>4, <1>5, <1>6
  <2> QED
    BY <1>1, <1>5
<1>8. ~(k <= -1)
  <2> SUFFICES ASSUME k <= -1 PROVE k * Modulus <= -Modulus
    BY <1>1, <1>4, <1>5, <1>6
  <2> QED
    BY <1>1, <1>5
<1>9. k = 0
  BY <1>5, <1>7, <1>8
<1>10. r = s
  BY <1>1, <1>4, <1>5, <1>9
<1> QED
  BY <1>10 DEF r, s

(* Arithmetic on uint64 may wrap early or late.                            *)
LEMMA UnsignedAdd ==
  ASSUME NEW x \in Int, NEW y \in Int
  PROVE  /\ Unsigned(Unsigned(x) + y) = Unsigned(x + y)
         /\ Unsigned(y - Unsigned(x)) = Unsigned(y - x)
<1>1. Modulus \in Int /\ Unsigned(x) \in Int
  BY UnsignedRest, ModulusAssumption
<1> DEFINE u == Unsigned(x)
<1>2. PICK q \in Int : x = u + q * Modulus
  BY UnsignedRest
<1>3. u \in Int
  BY <1>1
<1> HIDE DEF u
<1>4. x + y = (u + y) + q * Modulus /\ y - u = (y - x) + q * Modulus
  BY <1>1, <1>2, <1>3
<1>5. x + y \in Int /\ y - x \in Int /\ u + y \in Int /\ y - u \in Int
  BY <1>3
<1>6. Unsigned(x + y) = Unsigned(u + y) /\ Unsigned(y - u) = Unsigned(y - x)
  BY <1>4, <1>5, SameUnsigned
<1> QED
  BY <1>6 DEF u

(* One count changes by d, and the total with it.                          *)
LEMMA TotalChanges ==
  ASSUME NEW k \in Nat, NEW a \in [1 .. k -> Int], NEW b \in [1 .. k -> Int],
         NEW i \in 1 .. k, NEW d \in Int, b[i] = Unsigned(a[i] + d),
         \A j \in 1 .. k : j # i => b[j] = a[j]
  PROVE  Total(b) = Unsigned(Total(a) + d)
<1>1. PICK s : /\ s[0] = 0
               /\ \A j \in 0 .. k - 1 : s[j + 1] = Unsigned(s[j] + a[j + 1])
               /\ Total(a) = s[k]
  BY RunningTotals
<1>2. PICK t : /\ t[0] = 0
               /\ \A j \in 0 .. k - 1 : t[j + 1] = Unsigned(t[j] + b[j + 1])
               /\ Total(b) = t[k]
  BY RunningTotals
<1> DEFINE S == {j \in Nat : j <= k => /\ s[j] \in Int /\ t[j] \in Int
                                       /\ j < i => t[j] = s[j]
                                       /\ j >= i => t[j] = Unsigned(s[j] + d)}
<1>3. 0 \in S
  BY <1>1, <1>2
<1>4. ASSUME NEW j \in Nat, j \in S PROVE j + 1 \in S
  <2> SUFFICES ASSUME j + 1 <= k
               PROVE  /\ s[j + 1] \in Int /\ t[j + 1] \in Int
                      /\ j + 1 < i => t[j + 1] = s[j + 1]
                      /\ j + 1 >= i => t[j + 1] = Unsigned(s[j + 1] + d)
    OBVIOUS
  <2>1. j <= k /\ j \in 0 .. k - 1 /\ j + 1 \in 1 .. k
    OBVIOUS
  <2>2. s[j] \in Int /\ t[j] \in Int /\ (j < i => t[j] = s[j]) /\ (j >= i => t[j] = Unsigned(s[j] + d))
    BY <1>4, <2>1
  <2> DEFINE x == s[j]
             y == t[j]
             u == a[j + 1]
             v == b[j + 1]
  <2>3. s[j + 1] = Unsigned(x + u) /\ t[j + 1] = Unsigned(y + v)
    BY <1>1, <1>2, <2>1
  <2>4. x \in Int /\ y \in Int /\ u \in Int /\ v \in Int
    BY <2>1, <2>2
  <2>5. j + 1 # i => v = u
    BY <2>1
  <2>6. j + 1 = i => v = Unsigned(u + d)
    OBVIOUS
  <2>7. (j < i => y = x) /\ (j >= i => y = Unsigned(x + d))
    BY <2>2
  <2> HIDE DEF x, y, u, v
  <2>8. x + u \in Int /\ y + v \in Int /\ u + d \in Int /\ x + d \in Int
    BY <2>4
  <2>9. Unsigned(x + u) \in Int /\ Unsigned(y + v) \in Int
    BY <2>8, UnsignedRest
  <2>10. ASSUME j + 1 < i PROVE t[j + 1] = s[j + 1]
    <3>1. j < i /\ j + 1 # i
      BY <2>1, <2>10
    <3> QED
      BY <2>3, <2>5, <2>7, <3>1
  <2>11. ASSUME j + 1 = i PROVE t[j + 1] = Unsigned(s[j + 1] + d)
    <3>1. y = x /\ v = Unsigned(u + d)
      BY <2>1, <2>6, <2>7, <2>11
    <3>2. Unsigned(Unsigned(u + d) + x) = Unsigned((u + d) + x)
      BY <2>4, <2>8, UnsignedAdd
    <3>3. Unsigned(Unsigned(x + u) + d) = Unsigned((x + u) + d)
      BY <2>4, <2>8, UnsignedAdd
    <3>4. (u + d) + x = (x + u) + d
      BY <2>4
    <3>5. y + v = Unsigned(u + d) + x
      BY <2>4, <3>1
    <3> QED
      BY <2>3, <3>2, <3>3, <3>4, <3>5
  <2>12. ASSUME j + 1 > i PROVE t[j + 1] = Unsigned(s[j + 1] + d)
    <3>1. j >= i /\ j + 1 # i
      BY <2>1, <2>12
    <3>2. y = Unsigned(x + d) /\ v = u
      BY <2>5, <2>7, <3>1
    <3>3. Unsigned(Unsigned(x + d) + u) = Unsigned((x + d) + u)
      BY <2>4, <2>8, UnsignedAdd
    <3>4. Unsigned(Unsigned(x + u) + d) = Unsigned((x + u) + d)
      BY <2>4, <2>8, UnsignedAdd
    <3>5. (x + d) + u = (x + u) + d
      BY <2>4
    <3> QED
      BY <2>3, <3>2, <3>3, <3>4, <3>5
  <2>13. j + 1 >= i => j + 1 = i \/ j + 1 > i
    BY <2>1
  <2> QED
    BY <2>3, <2>9, <2>10, <2>11, <2>12, <2>13
<1> HIDE DEF S
<1>5. Nat \subseteq S
  BY <1>3, <1>4, Induct
<1>6. k \in S
  BY <1>5
<1>7. t[k] = Unsigned(s[k] + d)
  BY <1>6 DEF S
<1> QED
  BY <1>1, <1>2, <1>7

(* The elements of the first k of the sets D.                              *)
Joined(D, k) == UNION {D[i] : i \in 1 .. k}

(* The counts of disjoint sets add up to the count of all their elements.  *)
LEMMA TotalOfSets ==
  ASSUME NEW k \in Nat, NEW D, NEW c, DOMAIN c = 1 .. k,
         \A i \in 1 .. k : IsFiniteSet(D[i]) /\ c[i] = Cardinality(D[i]),
         \A i, j \in 1 .. k : i # j => D[i] \cap D[j] = {}
  PROVE  IsFiniteSet(Joined(D, k)) /\ Total(c) = Unsigned(Cardinality(Joined(D, k)))
<1>1. PICK s : /\ s[0] = 0
               /\ \A j \in 0 .. k - 1 : s[j + 1] = Unsigned(s[j] + c[j + 1])
               /\ Total(c) = s[k]
  BY RunningTotals
<1> DEFINE U(j) == UNION {D[i] : i \in 1 .. j}
           S == {j \in Nat : j <= k => /\ IsFiniteSet(U(j))
                                       /\ s[j] = Unsigned(Cardinality(U(j)))}
<1>2. 0 \in S
  <2>1. U(0) = {}
    <3>1. 1 .. 0 = {}
      OBVIOUS
    <3> QED
      BY <3>1
  <2>2. IsFiniteSet(U(0)) /\ Cardinality(U(0)) = 0
    BY <2>1, FS_EmptySet
  <2>3. Unsigned(0) = 0
    BY UnsignedIs, ModulusAssumption
  <2> HIDE DEF U
  <2> QED
    BY <1>1, <2>2, <2>3
<1>3. ASSUME NEW j \in Nat, j \in S PROVE j + 1 \in S
  <2> SUFFICES ASSUME j + 1 <= k
               PROVE  IsFiniteSet(U(j + 1)) /\ s[j + 1] = Unsigned(Cardinality(U(j + 1)))
    BY DEF U
  <2>1. j <= k /\ j \in 0 .. k - 1 /\ j + 1 \in 1 .. k
    OBVIOUS
  <2>2. IsFiniteSet(U(j)) /\ s[j] = Unsigned(Cardinality(U(j)))
    BY <1>3, <2>1
  <2> DEFINE E == D[j + 1]
  <2>3. U(j + 1) = U(j) \cup E
    <3>1. 1 .. j + 1 = (1 .. j) \cup {j + 1}
      BY <2>1
    <3> QED
      BY <3>1
  <2>4. U(j) \cap E = {}
    <3> SUFFICES ASSUME NEW i \in 1 .. j PROVE D[i] \cap D[j + 1] = {}
      OBVIOUS
    <3>1. i \in 1 .. k /\ i # j + 1
      BY <2>1
    <3> QED
      BY <2>1, <3>1
  <2>5. IsFiniteSet(E) /\ c[j + 1] = Cardinality(E)
    BY <2>1
  <2> DEFINE V == U(j)
             W == U(j + 1)
  <2>6. IsFiniteSet(V) /\ s[j] = Unsigned(Cardinality(V)) /\ W = V \cup E /\ V \cap E = {}
    BY <2>2, <2>3, <2>4
  <2> HIDE DEF U, E, V, W
  <2>7. IsFiniteSet(W) /\ Cardinality(W) = Cardinality(V) + Cardinality(E) - Cardinality(V \cap E)
    BY <2>5, <2>6, FS_Union
  <2>8. Cardinality(V \cap E) = 0
    BY <2>6, FS_EmptySet
  <2>9. Cardinality(V) \in Int /\ Cardinality(E) \in Int
    BY <2>5, <2>6, FS_CardinalityType
  <2>10. Cardinality(W) = Cardinality(V) + Cardinality(E)
    BY <2>7, <2>8, <2>9
  <2>11. s[j + 1] = Unsigned(Unsigned(Cardinality(V)) + Cardinality(E))
    BY <1>1, <2>1, <2>5, <2>6
  <2>12. s[j + 1] = Unsigned(Cardinality(W))
    BY <2>9, <2>10, <2>11, UnsignedAdd
  <2> QED
    BY <2>7, <2>12 DEF W
<1> HIDE DEF S
<1>4. Nat \subseteq S
  BY <1>2, <1>3, Induct
<1>5. k \in S
  BY <1>4
<1>6. IsFiniteSet(U(k)) /\ s[k] = Unsigned(Cardinality(U(k)))
  BY <1>5 DEF S
<1> QED
  BY <1>1, <1>6 DEF Joined

LEMMA SignedIs ==
  ASSUME NEW b \in Nat, b < Modulus \div 2, NEW x \in Int, -b <= x, x <= b
  PROVE  Signed(x) = x
<1>1. Modulus \in Nat /\ Modulus \div 2 \in Nat /\ 2 * (Modulus \div 2) <= Modulus
  BY ModulusAssumption
<1>2. CASE x >= 0
  <2>1. x \in 0 .. Modulus - 1 /\ x < Modulus \div 2
    BY <1>1, <1>2
  <2>2. Unsigned(x) = x
    BY <2>1, UnsignedIs
  <2> QED
    BY <2>1, <2>2 DEF Signed
<1>3. CASE x < 0
  <2>1. -Modulus <= x /\ ~(x + Modulus < Modulus \div 2)
    BY <1>1, <1>3
  <2>2. Unsigned(x) = x + Modulus
    BY <1>3, <2>1, UnsignedBelow
  <2> QED
    BY <1>1, <2>1, <2>2 DEF Signed
<1> QED
  BY <1>2, <1>3

(* The total is the number of records, and no node has more.               *)
LEMMA TotalIs ==
  ASSUME NEW counts \in Seq(Nat), NEW sums, PartialSums(sums, counts),
         Records(sums, counts) < Modulus
  PROVE  /\ Total(counts) = Records(sums, counts) /\ Records(sums, counts) \in Nat
         /\ \A i \in 1 .. Len(counts) : counts[i] <= Records(sums, counts)
<1> DEFINE L == Len(counts)
           all == Records(sums, counts)
<1>1. /\ L \in Nat /\ DOMAIN counts = 1 .. L /\ all \in Nat /\ all = sums[L]
      /\ sums \in [0 .. L -> Nat] /\ sums[0] = 0
      /\ \A i \in 0 .. L - 1 : sums[i + 1] = sums[i] + counts[i + 1]
      /\ \A i \in 1 .. L : counts[i] \in Nat
  BY DEF PartialSums, Records
<1>2. PICK st : /\ st[0] = 0
                /\ \A i \in 0 .. L - 1 : st[i + 1] = Unsigned(st[i] + counts[i + 1])
                /\ Total(counts) = st[L]
  BY <1>1, RunningTotals
<1>3. all < Modulus
  OBVIOUS
<1> HIDE DEF L, all
<1>4. \A i \in 0 .. L : sums[i] <= all
  <2> DEFINE S == {d \in Nat : d <= L => sums[L - d] <= all}
  <2>1. 0 \in S
    BY <1>1
  <2>2. ASSUME NEW d \in Nat, d \in S PROVE d + 1 \in S
    <3> SUFFICES ASSUME d + 1 <= L PROVE sums[L - (d + 1)] <= all
      OBVIOUS
    <3> DEFINE i == L - (d + 1)
    <3>1. i \in 0 .. L - 1 /\ i + 1 = L - d /\ i + 1 \in 1 .. L /\ i \in 0 .. L /\ d <= L
      BY <1>1
    <3> HIDE DEF i
    <3>2. sums[i + 1] <= all
      BY <2>2, <3>1
    <3>3. sums[i] \in Nat /\ counts[i + 1] \in Nat /\ sums[i + 1] = sums[i] + counts[i + 1]
      BY <1>1, <3>1
    <3>4. sums[i] <= all
      BY <1>1, <3>2, <3>3
    <3> QED
      BY <3>4 DEF i
  <2> HIDE DEF S
  <2>3. Nat \subseteq S
    BY <2>1, <2>2, Induct
  <2> SUFFICES ASSUME NEW i \in 0 .. L PROVE sums[i] <= all
    OBVIOUS
  <2>4. L - i \in Nat /\ L - i <= L /\ L - (L - i) = i
    BY <1>1
  <2>5. L - i \in S
    BY <2>3, <2>4
  <2> QED
    BY <2>4, <2>5 DEF S
<1>5. \A i \in 1 .. L : counts[i] <= all
  <2> SUFFICES ASSUME NEW i \in 1 .. L PROVE counts[i] <= all
    OBVIOUS
  <2>1. i - 1 \in 0 .. L - 1 /\ (i - 1) + 1 = i /\ i \in 0 .. L /\ i - 1 \in 0 .. L
    BY <1>1
  <2>2. sums[i] = sums[i - 1] + counts[i]
    BY <1>1, <2>1
  <2>3. sums[i - 1] \in Nat /\ counts[i] \in Nat /\ sums[i] <= all
    BY <1>1, <1>4, <2>1
  <2> QED
    BY <1>1, <2>2, <2>3
<1>6. st[L] = sums[L]
  <2> DEFINE S == {i \in Nat : i <= L => st[i] = sums[i]}
  <2>1. 0 \in S
    BY <1>1, <1>2
  <2>2. ASSUME NEW i \in Nat, i \in S PROVE i + 1 \in S
    <3> SUFFICES ASSUME i + 1 <= L PROVE st[i + 1] = sums[i + 1]
      OBVIOUS
    <3>1. i \in 0 .. L - 1 /\ i \in 0 .. L /\ i + 1 \in 0 .. L /\ i <= L
      BY <1>1
    <3>2. st[i + 1] = Unsigned(sums[i + 1])
      BY <1>1, <1>2, <2>2, <3>1
    <3>3. sums[i + 1] \in 0 .. Modulus - 1
      BY <1>1, <1>3, <1>4, <3>1, ModulusAssumption
    <3> QED
      BY <3>2, <3>3, UnsignedIs
  <2> HIDE DEF S
  <2>3. Nat \subseteq S
    BY <2>1, <2>2, Induct
  <2> QED
    BY <1>1, <2>3 DEF S
<1> QED
  BY <1>1, <1>2, <1>5, <1>6 DEF L, all

(* A share is not more than what is shared.                                *)
LEMMA QuotientBelow ==
  ASSUME NEW a \in Nat, NEW n \in Nat \ {0}
  PROVE  a \div n \in Nat /\ a \div n <= a
<1> DEFINE q == a \div n
           r == a % n
<1>1. q \in Nat
  OBVIOUS
<1>2. r \in Nat /\ a = n * q + r
  OBVIOUS
<1> HIDE DEF q, r
<1>3. n = 1 + (n - 1) /\ n - 1 \in Nat
  OBVIOUS
<1>4. n * q = q + (n - 1) * q /\ (n - 1) * q \in Nat
  BY <1>1, <1>3
<1>5. q <= a
  BY <1>1, <1>2, <1>4
<1> QED
  BY <1>1, <1>5 DEF q

(* A delta is what a node lacks.                                           *)
LEMMA DeltasAre ==
  ASSUME NEW counts \in Seq(Nat), NEW sums, PartialSums(sums, counts),
         Records(sums, counts) + 1 < Modulus \div 2
  PROVE  \A i \in 1 .. Len(counts) :
            Target(counts, i) \in Nat /\ Deltas(counts)[i] = Target(counts, i) - counts[i]
<1> DEFINE all == Records(sums, counts)
<1>1. all \in Nat /\ all + 1 \in Nat /\ all < Modulus
  <2>1. all \in Nat
    BY DEF PartialSums, Records
  <2> QED
    BY <2>1, ModulusAssumption
<1>2. Total(counts) = all /\ \A i \in 1 .. Len(counts) : counts[i] <= all
  BY <1>1, TotalIs
<1> HIDE DEF all
<1> SUFFICES ASSUME NEW i \in 1 .. Len(counts)
             PROVE  Target(counts, i) \in Nat /\ Deltas(counts)[i] = Target(counts, i) - counts[i]
  OBVIOUS
<1>3. Len(counts) \in Nat \ {0} /\ counts[i] \in Nat /\ DOMAIN counts = 1 .. Len(counts)
  OBVIOUS
<1>4. Target(counts, i) \in Nat /\ Target(counts, i) <= all + 1
  <2>1. all \div Len(counts) \in Nat /\ all \div Len(counts) <= all
    BY <1>1, <1>3, QuotientBelow
  <2> QED
    BY <1>1, <1>2, <2>1 DEF Target, Share
<1> DEFINE x == Target(counts, i) - counts[i]
<1>5. x \in Int /\ -(all + 1) <= x /\ x <= all + 1
  BY <1>1, <1>2, <1>3, <1>4
<1>6. Deltas(counts)[i] = Signed(x)
  BY <1>3 DEF Deltas
<1> HIDE DEF x
<1>7. all + 1 < Modulus \div 2
  BY DEF all
<1>8. Signed(x) = x
  BY <1>1, <1>5, <1>7, SignedIs
<1> QED
  BY <1>4, <1>6, <1>8 DEF x

-----------------------------------------------------------------------------
(* What the transfers of a plan make of the counts, one after the other;   *)
(* none asks for more records than the source has by then.                 *)
After(c, t) == [c EXCEPT ![t.from] = @ - t.n, ![t.to] = @ + t.n]

Runs(f, c, p, D) ==
    /\ f \in [0 .. Len(p) -> [D -> Nat]] /\ f[0] = c
    /\ \A k \in 1 .. Len(p) :
          p[k].n \in 1 .. f[k - 1][p[k].from] /\ f[k] = After(f[k - 1], p[k])

IsAfter(a, c, t, D) ==
    /\ a \in [D -> Nat]
    /\ a[t.from] = c[t.from] - t.n /\ a[t.to] = c[t.to] + t.n
    /\ \A m \in D \ {t.from, t.to} : a[m] = c[m]

(* What a transfer makes of the counts.                                    *)
LEMMA AfterIs ==
  ASSUME NEW D, NEW c \in [D -> Nat], NEW t, t.from \in D, t.to \in D, t.from # t.to,
         t.n \in 1 .. c[t.from]
  PROVE  IsAfter(After(c, t), c, t, D)
<1> DEFINE x == t.from
           y == t.to
           r == t.n
           e == [c EXCEPT ![x] = @ - r, ![y] = @ + r]
<1>1. After(c, t) = e
  BY DEF After
<1>2. x \in D /\ y \in D /\ x # y /\ r \in 1 .. c[x]
  OBVIOUS
<1> HIDE DEF x, y, r
<1>3. c[x] \in Nat /\ c[y] \in Nat /\ c[x] - r \in Nat /\ c[y] + r \in Nat
  BY <1>2
<1>4. e \in [D -> Nat]
  BY <1>2, <1>3
<1>5. e[x] = c[x] - r /\ e[y] = c[y] + r /\ \A m \in D \ {x, y} : e[m] = c[m]
  BY <1>2, <1>3
<1> HIDE DEF e
<1> QED
  BY <1>1, <1>4, <1>5 DEF IsAfter, x, y, r

(* balance puts a transfer behind the ones it has planned.                 *)
LEMMA RunsAppend ==
  ASSUME NEW D, NEW M, NEW p \in Seq(M), NEW f, NEW c, Runs(f, c, p, D),
         NEW t \in M, t.from \in D, t.to \in D, t.from # t.to, t.n \in 1 .. f[Len(p)][t.from]
  PROVE  \E g : Runs(g, c, Append(p, t), D) /\ g[Len(p) + 1] = After(f[Len(p)], t)
<1> DEFINE l == Len(p)
           q == Append(p, t)
           last == After(f[l], t)
           g == [k \in 0 .. l + 1 |-> IF k = l + 1 THEN last ELSE f[k]]
<1>1. /\ l \in Nat /\ q \in Seq(M) /\ Len(q) = l + 1 /\ q[l + 1] = t
      /\ \A k \in 1 .. l : q[k] = p[k]
  OBVIOUS
<1>2. /\ f \in [0 .. l -> [D -> Nat]] /\ f[0] = c
      /\ \A k \in 1 .. l : p[k].n \in 1 .. f[k - 1][p[k].from] /\ f[k] = After(f[k - 1], p[k])
  BY DEF Runs
<1>3. t.n \in 1 .. f[l][t.from]
  OBVIOUS
<1> HIDE DEF l, q
<1>4. f[l] \in [D -> Nat]
  BY <1>1, <1>2
<1>5. last \in [D -> Nat]
  BY <1>3, <1>4, AfterIs DEF IsAfter
<1> HIDE DEF last
<1>6. g \in [0 .. l + 1 -> [D -> Nat]] /\ g[0] = c /\ g[l + 1] = last
  BY <1>1, <1>2, <1>5
<1>7. \A k \in 0 .. l : g[k] = f[k]
  BY <1>1
<1> HIDE DEF g
<1>8. ASSUME NEW k \in 1 .. l + 1
      PROVE  q[k].n \in 1 .. g[k - 1][q[k].from] /\ g[k] = After(g[k - 1], q[k])
  <2>1. CASE k = l + 1
    <3>1. k - 1 = l /\ g[k - 1] = f[l]
      BY <1>1, <1>7, <2>1
    <3> QED
      BY <1>1, <1>3, <1>6, <2>1, <3>1 DEF last
  <2>2. CASE k # l + 1
    <3>1. k \in 1 .. l /\ k \in 0 .. l /\ k - 1 \in 0 .. l
      BY <1>1, <2>2
    <3> QED
      BY <1>1, <1>2, <1>7, <3>1
  <2> QED
    BY <2>1, <2>2
<1>9. Runs(g, c, q, D)
  BY <1>1, <1>6, <1>8 DEF Runs
<1> QED
  BY <1>6, <1>9 DEF q, l, last

(* The state of the loop: the plan so far can be run, and what a node has  *)
(* by then and what it lacks make its target.                              *)
OnTarget(n, c, target, state) ==
    /\ Sound(n, state)
    /\ \E f : /\ Runs(f, c, state.plan, 1 .. n)
              /\ \A i \in 1 .. n : f[Len(state.plan)][i] + state.deltas[i] = target[i]

(* One turn of the inner loop keeps the plan affordable.                   *)
LEMMA TakeFromOnTarget ==
  ASSUME NEW n \in Nat \ {0}, NEW c, NEW target \in [1 .. n -> Nat],
         NEW state, OnTarget(n, c, target, state),
         NEW pair, pair[1] \in 1 .. n, pair[2] \in 1 .. n
  PROVE  OnTarget(n, c, target, TakeFrom(state, pair))
<1> DEFINE i == pair[1]
           j == pair[2]
           d == state.deltas
           p == state.plan
           r == Least(-d[j], d[i])
           move == [from |-> j, to |-> i, n |-> r]
           e == [d EXCEPT ![i] = @ - r, ![j] = @ + r]
           q == Append(p, move)
<1>1. CASE d[i] <= 0 \/ d[j] >= 0
  BY <1>1 DEF TakeFrom
<1>2. CASE ~(d[i] <= 0 \/ d[j] >= 0)
  <2>1. PICK f : /\ Runs(f, c, p, 1 .. n)
                 /\ \A k \in 1 .. n : f[Len(p)][k] + d[k] = target[k]
    BY DEF OnTarget
  <2>2. Sound(n, state) /\ Sound(n, TakeFrom(state, pair))
    BY TakeFromSound DEF OnTarget
  <2>3. d \in [1 .. n -> Int] /\ p \in Seq(Moves(n)) /\ i \in 1 .. n /\ j \in 1 .. n
    BY <2>2 DEF Sound
  <2>4. TakeFrom(state, pair).deltas = e /\ TakeFrom(state, pair).plan = q
    BY <1>2 DEF TakeFrom
  <2> HIDE DEF d, p, i, j
  <2> DEFINE last == f[Len(p)]
  <2>5. last \in [1 .. n -> Nat]
    <3>1. Len(p) \in 0 .. Len(p)
      BY <2>3
    <3> QED
      BY <2>1, <3>1 DEF Runs
  <2>6. \A k \in 1 .. n : last[k] + d[k] = target[k]
    BY <2>1
  <2> HIDE DEF last
  <2>7. d[i] \in Int /\ d[j] \in Int /\ last[j] \in Nat /\ target[j] \in Nat /\ last[j] + d[j] = target[j]
    BY <2>3, <2>5, <2>6
  <2>8. r \in Nat /\ r # 0 /\ i # j /\ r <= -d[j] /\ r \in 1 .. last[j]
    <3> DEFINE x == d[i]
               y == d[j]
    <3>1. x \in Int /\ y \in Int /\ x > 0 /\ y < 0 /\ i # j
      BY <1>2, <2>7
    <3>2. r = IF -y < x THEN -y ELSE x
      BY DEF Least
    <3>3. last[j] \in Nat /\ target[j] \in Nat /\ last[j] + y = target[j]
      BY <2>7
    <3> HIDE DEF x, y, r
    <3>4. r \in Nat /\ r # 0 /\ r <= -y
      BY <3>1, <3>2
    <3>5. r \in 1 .. last[j]
      BY <3>1, <3>3, <3>4
    <3> QED
      BY <3>1, <3>4, <3>5 DEF y
  <2> HIDE DEF r
  <2>9. /\ move \in Moves(n) /\ move.from = j /\ move.to = i /\ move.n = r
    BY <2>3, <2>8 DEF Moves
  <2> HIDE DEF move
  <2>10. PICK g : Runs(g, c, q, 1 .. n) /\ g[Len(p) + 1] = After(last, move)
    <3> DEFINE D == 1 .. n
               M == Moves(n)
    <3>1. /\ p \in Seq(M) /\ Runs(f, c, p, D) /\ move \in M
          /\ move.from \in D /\ move.to \in D /\ move.from # move.to
          /\ move.n \in 1 .. f[Len(p)][move.from]
      BY <2>1, <2>3, <2>8, <2>9 DEF last
    <3> HIDE DEF D, M
    <3>2. \E g : Runs(g, c, Append(p, move), D) /\ g[Len(p) + 1] = After(f[Len(p)], move)
      BY <3>1, RunsAppend
    <3> QED
      BY <3>2 DEF D, last
  <2>11. /\ After(last, move)[j] = last[j] - r /\ After(last, move)[i] = last[i] + r
         /\ \A m \in (1 .. n) \ {i, j} : After(last, move)[m] = last[m]
    <3> DEFINE D == 1 .. n
    <3>1. /\ last \in [D -> Nat] /\ move.from \in D /\ move.to \in D
          /\ move.from # move.to /\ move.n \in 1 .. last[move.from]
      BY <2>3, <2>5, <2>8, <2>9
    <3> HIDE DEF D
    <3>2. IsAfter(After(last, move), last, move, D)
      BY <3>1, AfterIs
    <3> QED
      BY <2>9, <3>2 DEF D, IsAfter
  <2>12. e[i] = d[i] - r /\ e[j] = d[j] + r /\ \A m \in (1 .. n) \ {i, j} : e[m] = d[m]
    BY <2>3, <2>8
  <2> HIDE DEF e
  <2>13. \A k \in 1 .. n : After(last, move)[k] + e[k] = target[k]
    <3> SUFFICES ASSUME NEW k \in 1 .. n PROVE After(last, move)[k] + e[k] = target[k]
      OBVIOUS
    <3>1. last[k] \in Nat /\ d[k] \in Int /\ r \in Nat /\ last[k] + d[k] = target[k]
      BY <2>3, <2>5, <2>6, <2>8
    <3> DEFINE a == After(last, move)
    <3>2. \/ a[k] = last[k] - r /\ e[k] = d[k] + r
          \/ a[k] = last[k] + r /\ e[k] = d[k] - r
          \/ a[k] = last[k] /\ e[k] = d[k]
      BY <2>11, <2>12
    <3> HIDE DEF a
    <3>3. a[k] + e[k] = last[k] + d[k]
      BY <3>1, <3>2
    <3> QED
      BY <3>1, <3>3 DEF a
  <2>14. Len(q) = Len(p) + 1
    BY <2>3
  <2> HIDE DEF q
  <2> QED
    BY <2>2, <2>4, <2>10, <2>13, <2>14 DEF OnTarget
<1> QED
  BY <1>1, <1>2

(* balance never asks a node for more records than it has by then: the     *)
(* counters of transfer do not wrap.  (If the nodes have fewer records     *)
(* than half of Modulus, 2^63 in balancer.go.)                             *)
THEOREM PlanIsAffordable ==
  ASSUME NEW counts \in Seq(Nat), NEW sums, PartialSums(sums, counts),
         Records(sums, counts) + 1 < Modulus \div 2
  PROVE  \E f : Runs(f, counts, BalancePlan(counts), 1 .. Len(counts))
<1> DEFINE n == Len(counts)
<1>1. n \in Nat /\ counts \in [1 .. n -> Nat] /\ counts \in Seq(Int)
  OBVIOUS
<1>2. CASE counts = <<>> \/ ~NeedsBalancing(counts)
  <2>1. BalancePlan(counts) = <<>>
    BY <1>2 DEF BalancePlan
  <2> DEFINE f == [k \in 0 .. 0 |-> counts]
  <2>2. Runs(f, counts, <<>>, 1 .. n)
    BY <1>1 DEF Runs
  <2> QED
    BY <2>1, <2>2
<1>3. CASE ~(counts = <<>> \/ ~NeedsBalancing(counts))
  <2> DEFINE base == [deltas |-> Deltas(counts), plan |-> <<>>]
             target == [i \in 1 .. n |-> Target(counts, i)]
  <2>1. n \in Nat \ {0} /\ n * n \in Nat /\ DOMAIN Pairs(n) = 1 .. n * n
    BY <1>3 DEF Pairs
  <2>2. target \in [1 .. n -> Nat]
    BY DeltasAre
  <2>3. OnTarget(n, counts, target, base)
    <3>1. Sound(n, base)
      BY <1>1, DeltasType DEF Sound
    <3> DEFINE f == [k \in 0 .. 0 |-> counts]
    <3>2. Runs(f, counts, <<>>, 1 .. n)
      BY <1>1 DEF Runs
    <3>3. \A i \in 1 .. n : f[0][i] + Deltas(counts)[i] = target[i]
      <4> SUFFICES ASSUME NEW i \in 1 .. n PROVE counts[i] + Deltas(counts)[i] = Target(counts, i)
        OBVIOUS
      <4>1. Target(counts, i) \in Nat /\ Deltas(counts)[i] = Target(counts, i) - counts[i]
        BY DeltasAre
      <4>2. counts[i] \in Nat
        BY <1>1
      <4> QED
        BY <4>1, <4>2
    <3> HIDE DEF f
    <3> QED
      BY <3>1, <3>2, <3>3 DEF OnTarget
  <2>4. BalancePlan(counts) = Looped(base, Pairs(n)).plan
    BY <1>3 DEF BalancePlan, Looped
  <2> HIDE DEF n, base, target
  <2>5. PICK st : /\ st[0] = base
                  /\ \A i \in 0 .. n * n - 1 : st[i + 1] = TakeFrom(st[i], Pairs(n)[i + 1])
                  /\ Looped(base, Pairs(n)) = st[n * n]
    <3> DEFINE k == n * n
               seq == Pairs(n)
    <3>1. k \in Nat /\ DOMAIN seq = 1 .. k
      BY <2>1
    <3> HIDE DEF k, seq
    <3>2. \E st : LoopSteps(st, base, seq, k)
      BY <3>1, LoopStates
    <3> QED
      BY <3>2 DEF LoopSteps, k, seq
  <2> DEFINE S == {i \in Nat : i <= n * n => OnTarget(n, counts, target, st[i])}
  <2>6. 0 \in S
    BY <2>3, <2>5
  <2>7. ASSUME NEW i \in Nat, i \in S PROVE i + 1 \in S
    <3> SUFFICES ASSUME i + 1 <= n * n PROVE OnTarget(n, counts, target, st[i + 1])
      OBVIOUS
    <3>1. i \in 0 .. n * n - 1 /\ i + 1 \in 1 .. n * n /\ i <= n * n
      BY <2>1
    <3>2. OnTarget(n, counts, target, st[i])
      BY <2>7, <3>1
    <3>3. Pairs(n)[i + 1][1] \in 1 .. n /\ Pairs(n)[i + 1][2] \in 1 .. n
      BY <2>1, <3>1, PairsType
    <3>4. st[i + 1] = TakeFrom(st[i], Pairs(n)[i + 1])
      BY <2>5, <3>1
    <3> DEFINE pair == Pairs(n)[i + 1]
               state == st[i]
    <3>5. /\ OnTarget(n, counts, target, state) /\ st[i + 1] = TakeFrom(state, pair)
          /\ pair[1] \in 1 .. n /\ pair[2] \in 1 .. n
      BY <3>2, <3>3, <3>4
    <3> HIDE DEF pair, state
    <3>6. OnTarget(n, counts, target, TakeFrom(state, pair))
      BY <2>1, <2>2, <3>5, TakeFromOnTarget
    <3> QED
      BY <3>5, <3>6
  <2> HIDE DEF S
  <2>8. Nat \subseteq S
    BY <2>6, <2>7, Induct
  <2>9. OnTarget(n, counts, target, st[n * n])
    BY <2>1, <2>8 DEF S
  <2> QED
    BY <2>4, <2>5, <2>9 DEF OnTarget, n
<1> QED
  BY <1>2, <1>3

-----------------------------------------------------------------------------
(* Plans that can be run: an empty one, what is left of one after its      *)
(* first transfer, and one whose nodes got a record more.                  *)
LEMMA RunsEmpty ==
  ASSUME NEW D, NEW c \in [D -> Nat]
  PROVE  \E f : Runs(f, c, <<>>, D)
<1> DEFINE f == [k \in 0 .. 0 |-> c]
<1>1. Runs(f, c, <<>>, D)
  BY DEF Runs
<1> QED
  BY <1>1

LEMMA RunsOn ==
  ASSUME NEW D, NEW M, NEW p \in Seq(M), p # <<>>, NEW f, NEW c, Runs(f, c, p, D)
  PROVE  /\ Head(p).n \in 1 .. c[Head(p).from]
         /\ \E g : Runs(g, After(c, Head(p)), Tail(p), D) /\ g[Len(Tail(p))] = f[Len(p)]
<1> DEFINE l == Len(p)
           q == Tail(p)
           g == [k \in 0 .. l - 1 |-> f[k + 1]]
<1>1. /\ l \in Nat /\ 1 \in 1 .. l /\ Head(p) = p[1] /\ Len(q) = l - 1 /\ l - 1 \in Nat
      /\ \A k \in 1 .. l - 1 : q[k] = p[k + 1]
  OBVIOUS
<1>2. /\ f \in [0 .. l -> [D -> Nat]] /\ f[0] = c
      /\ \A k \in 1 .. l : p[k].n \in 1 .. f[k - 1][p[k].from] /\ f[k] = After(f[k - 1], p[k])
  BY DEF Runs
<1> HIDE DEF l, q
<1>3. p[1].n \in 1 .. c[p[1].from] /\ f[1] = After(c, p[1])
  <2>1. 1 - 1 = 0
    OBVIOUS
  <2> QED
    BY <1>1, <1>2, <2>1
<1>4. g \in [0 .. l - 1 -> [D -> Nat]] /\ g[0] = f[1]
  <2>1. \A k \in 0 .. l - 1 : k + 1 \in 0 .. l
    BY <1>1
  <2> QED
    BY <1>1, <1>2, <2>1
<1>5. ASSUME NEW k \in 1 .. l - 1
      PROVE  q[k].n \in 1 .. g[k - 1][q[k].from] /\ g[k] = After(g[k - 1], q[k])
  <2>1. /\ k + 1 \in 1 .. l /\ k \in 0 .. l - 1 /\ k - 1 \in 0 .. l - 1
        /\ (k + 1) - 1 = k /\ (k - 1) + 1 = k
    BY <1>1
  <2>2. g[k] = f[k + 1] /\ g[k - 1] = f[k]
    BY <2>1
  <2> HIDE DEF g
  <2>3. p[k + 1].n \in 1 .. f[k][p[k + 1].from] /\ f[k + 1] = After(f[k], p[k + 1])
    BY <1>2, <2>1
  <2> QED
    BY <1>1, <2>2, <2>3
<1>6. g[l - 1] = f[l]
  BY <1>1
<1> HIDE DEF g
<1>7. Runs(g, f[1], q, D)
  BY <1>1, <1>4, <1>5 DEF Runs
<1> QED
  BY <1>1, <1>3, <1>6, <1>7 DEF l, q

LEMMA RunsTail ==
  ASSUME NEW D, NEW M, NEW p \in Seq(M), p # <<>>, NEW f, NEW c, Runs(f, c, p, D)
  PROVE  /\ Head(p).n \in 1 .. c[Head(p).from]
         /\ \E g : Runs(g, After(c, Head(p)), Tail(p), D)
  BY RunsOn

LEMMA RunsMore ==
  ASSUME NEW D, NEW p, NEW f, NEW c, Runs(f, c, p, D), Len(p) \in Nat,
         \A k \in 1 .. Len(p) : p[k].from \in D /\ p[k].to \in D /\ p[k].from # p[k].to,
         NEW m \in D
  PROVE  \E g : Runs(g, [c EXCEPT ![m] = @ + 1], p, D)
<1> DEFINE l == Len(p)
           g == [k \in 0 .. l |-> [f[k] EXCEPT ![m] = @ + 1]]
<1>1. /\ f \in [0 .. l -> [D -> Nat]] /\ f[0] = c /\ l \in Nat
      /\ \A k \in 1 .. l : p[k].n \in 1 .. f[k - 1][p[k].from] /\ f[k] = After(f[k - 1], p[k])
      /\ \A k \in 1 .. l : p[k].from \in D /\ p[k].to \in D /\ p[k].from # p[k].to
  BY DEF Runs
<1> HIDE DEF l
<1>2. ASSUME NEW k \in 0 .. l
      PROVE  /\ g[k] \in [D -> Nat] /\ g[k] = [f[k] EXCEPT ![m] = @ + 1]
             /\ \A x \in D : g[k][x] = IF x = m THEN f[k][x] + 1 ELSE f[k][x]
             /\ f[k] \in [D -> Nat]
  <2>1. f[k] \in [D -> Nat] /\ f[k][m] + 1 \in Nat
    BY <1>1
  <2> QED
    BY <2>1
<1>3. g[0] = [c EXCEPT ![m] = @ + 1]
  <2>1. 0 \in 0 .. l
    BY <1>1
  <2>2. g[0] = [f[0] EXCEPT ![m] = @ + 1]
    BY <1>2, <2>1
  <2> HIDE DEF g
  <2> QED
    BY <1>1, <2>2
<1>4. g \in [0 .. l -> [D -> Nat]]
  <2>1. \A k \in 0 .. l : g[k] \in [D -> Nat]
    BY <1>2
  <2> QED
    BY <2>1
<1> HIDE DEF g
<1>5. ASSUME NEW k \in 1 .. l
      PROVE  p[k].n \in 1 .. g[k - 1][p[k].from] /\ g[k] = After(g[k - 1], p[k])
  <2>1. k \in 0 .. l /\ k - 1 \in 0 .. l
    BY <1>1
  <2> DEFINE a == f[k - 1]
             b == g[k - 1]
             t == p[k]
             x == t.from
             y == t.to
             r == t.n
  <2>2. a \in [D -> Nat] /\ b \in [D -> Nat] /\ \A z \in D : b[z] = IF z = m THEN a[z] + 1 ELSE a[z]
    BY <1>2, <2>1
  <2>3. x \in D /\ y \in D /\ x # y /\ r \in 1 .. a[x] /\ f[k] = After(a, t)
    BY <1>1
  <2>4. /\ f[k] \in [D -> Nat] /\ g[k] \in [D -> Nat]
        /\ \A z \in D : g[k][z] = IF z = m THEN f[k][z] + 1 ELSE f[k][z]
    BY <1>2, <2>1
  <2> HIDE DEF a, b, t
  <2>5. r \in 1 .. b[x]
    <3> HIDE DEF x, y, r
    <3>1. a[x] \in Nat /\ b[x] = IF x = m THEN a[x] + 1 ELSE a[x]
      BY <2>2, <2>3
    <3>2. b[x] \in Nat /\ a[x] <= b[x]
      BY <3>1
    <3> QED
      BY <2>3, <3>1, <3>2
  <2>6. IsAfter(f[k], a, t, D)
    BY <2>2, <2>3, AfterIs
  <2>7. IsAfter(After(b, t), b, t, D)
    BY <2>2, <2>3, <2>5, AfterIs
  <2> DEFINE e == After(b, t)
             d == f[k]
  <2>8. /\ d[x] = a[x] - r /\ d[y] = a[y] + r /\ \A z \in D \ {x, y} : d[z] = a[z]
    BY <2>6 DEF IsAfter
  <2>9. /\ e[x] = b[x] - r /\ e[y] = b[y] + r /\ \A z \in D \ {x, y} : e[z] = b[z]
        /\ e \in [D -> Nat]
    BY <2>7 DEF IsAfter
  <2> HIDE DEF e, d, x, y, r
  <2>10. ASSUME NEW z \in D PROVE g[k][z] = e[z]
    <3>1. a[z] \in Nat /\ b[z] = IF z = m THEN a[z] + 1 ELSE a[z]
      BY <2>2
    <3>2. g[k][z] = IF z = m THEN d[z] + 1 ELSE d[z]
      BY <2>4 DEF d
    <3>3. r \in Nat
      BY <2>2, <2>3
    <3>4. CASE z = x
      <4>1. d[z] = a[z] - r /\ e[z] = b[z] - r
        BY <2>8, <2>9, <3>4
      <4> QED
        BY <3>1, <3>2, <3>3, <4>1
    <3>5. CASE z = y
      <4>1. d[z] = a[z] + r /\ e[z] = b[z] + r
        BY <2>8, <2>9, <3>5
      <4> QED
        BY <3>1, <3>2, <3>3, <4>1
    <3>6. CASE z # x /\ z # y
      BY <2>8, <2>9, <3>1, <3>2, <3>6
    <3> QED
      BY <3>4, <3>5, <3>6
  <2>11. g[k] = e
    BY <2>4, <2>9, <2>10
  <2> QED
    BY <2>5, <2>11 DEF e, b, t, x, r
<1>6. Runs(g, [c EXCEPT ![m] = @ + 1], p, D)
  BY <1>1, <1>3, <1>4, <1>5 DEF Runs, l
<1> QED
  BY <1>6

(* _findLessLoadedNode finds a node if there is one.                       *)
LEMMA LessLoadedIn ==
    ASSUME NEW n \in Nat, 1 \in 1 .. n, NEW c, DOMAIN c = 1 .. n,
           \A i \in 1 .. n : c[i] \in Nat
    PROVE  LessLoaded(c) \in 1 .. n
<1> DEFINE D == 1 .. n
           V == {c[i] : i \in D}
<1>1. D \subseteq Nat
  OBVIOUS
<1>2. V \subseteq Nat /\ V # {}
  OBVIOUS
<1>3. PICK x \in V : \A y \in V : x <= y
  <2> HIDE DEF V
  <2> QED
    BY <1>2, NatMin
<1> DEFINE F == {i \in D : c[i] = x}
<1>4. F \subseteq Nat /\ F # {}
  BY <1>1, <1>3
<1>5. PICK i \in F : \A j \in F : i <= j
  <2> HIDE DEF F
  <2> QED
    BY <1>4, NatMin
<1>6. i \in D /\ \A j \in D : c[i] <= c[j]
  BY <1>3, <1>5
<1>7. ASSUME NEW j \in 1 .. i - 1 PROVE c[i] < c[j]
  <2>1. j \in D /\ i \in Nat /\ j \in Nat /\ ~(i <= j)
    BY <1>1, <1>6
  <2>2. c[i] <= c[j] /\ c[i] # c[j] /\ c[i] \in Nat /\ c[j] \in Nat
    BY <1>5, <1>6, <2>1
  <2> QED
    BY <2>2
<1>8. \E k \in DOMAIN c : (\A j \in DOMAIN c : c[k] <= c[j]) /\ (\A j \in 1 .. k - 1 : c[k] < c[j])
  BY <1>6, <1>7
<1> QED
  BY <1>8 DEF LessLoaded
=============================================================================
