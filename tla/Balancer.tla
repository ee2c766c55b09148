------------------------------ MODULE Balancer ------------------------------
(***************************************************************************)
(* master/balancer.go: the arithmetic of balance, on the record counts the *)
(* master has cached for its nodes, in the order of ms.nodes.  The counts  *)
(* are uint64, their differences int64: both wrap at Modulus.              *)
(***************************************************************************)
EXTENDS Integers, Sequences, SequencesExt

CONSTANT Modulus    \* bound: 2^64 in the code

ASSUME ModulusAssumption == Modulus \in Nat \ {0, 1}

Unsigned(x) == x % Modulus

Signed(x) == IF Unsigned(x) < Modulus \div 2 THEN Unsigned(x)
             ELSE Unsigned(x) - Modulus

Least(x, y) == IF x < y THEN x ELSE y

Total(counts) == FoldLeft(LAMBDA sum, c : Unsigned(sum + c), 0, counts)

(* tot / n records on every node, and one more on the first tot % n.       *)
Share(tot, n, i) == tot \div n + (IF i <= tot % n THEN 1 ELSE 0)

Target(counts, i) == Share(Total(counts), Len(counts), i)

(* The records that shall enter each node.                                 *)
Deltas(counts) ==
    [i \in DOMAIN counts |-> Signed(Target(counts, i) - counts[i])]

NeedsBalancing(counts) ==
    /\ Total(counts) # 0
    /\ \E i \in DOMAIN counts :
          Deltas(counts)[i] > (Total(counts) \div Len(counts)) \div 20

(* Mutant: the inner loop starts after i.                                  *)
PairsAbove(n) == SelectSeq([k \in 1 .. n * n |-> <<((k - 1) \div n) + 1, ((k - 1) % n) + 1>>],
                           LAMBDA pair : pair[1] < pair[2])

(* The two nested loops: node i, if it needs records, takes what it needs  *)
(* from each node j that has too many.                                     *)
Pairs(n) == [k \in 1 .. n * n |-> <<((k - 1) \div n) + 1, ((k - 1) % n) + 1>>]

(* Mutant: delta is not reduced.                                           *)
TakeFromUncounted(state, pair) ==
    LET i == pair[1]
        j == pair[2]
        nRecords == Least(-state.deltas[j], state.deltas[i])
    IN  IF state.deltas[i] <= 0 \/ state.deltas[j] >= 0 THEN state
        ELSE [deltas |-> [state.deltas EXCEPT ![j] = @ + nRecords],
              plan |-> Append(state.plan, [from |-> j, to |-> i, n |-> nRecords])]

(* Mutant: the test of delta2 is missing.                                  *)
TakeFromAny(state, pair) ==
    LET i == pair[1]
        j == pair[2]
        nRecords == Least(-state.deltas[j], state.deltas[i])
    IN  IF state.deltas[i] <= 0 THEN state
        ELSE [deltas |-> [state.deltas EXCEPT ![i] = @ - nRecords,
                                              ![j] = @ + nRecords],
              plan |-> Append(state.plan, [from |-> j, to |-> i, n |-> nRecords])]

TakeFrom(state, pair) ==
    LET i == pair[1]
        j == pair[2]
        nRecords == Least(-state.deltas[j], state.deltas[i])
    IN  IF state.deltas[i] <= 0 \/ state.deltas[j] >= 0 THEN state
        ELSE [deltas |-> [state.deltas EXCEPT ![i] = @ - nRecords,
                                              ![j] = @ + nRecords],
              plan |-> Append(state.plan, [from |-> j, to |-> i, n |-> nRecords])]

(* The transfers that balance makes, in order.                             *)
BalancePlan(counts) ==
    IF counts = <<>> \/ ~NeedsBalancing(counts) THEN <<>>
    ELSE FoldLeft(TakeFrom, [deltas |-> Deltas(counts), plan |-> <<>>],
                  Pairs(Len(counts))).plan

(* Mutant: no transfers if there is less than one each.                    *)
DrainPlanOfMany(nRecords, n) ==
    IF n = 0 \/ nRecords \div n = 0 THEN <<>>
    ELSE [i \in 1 .. n |-> [from |-> 0, to |-> i, n |-> Share(nRecords, n, i)]]

(* DeleteNode: the shares of nRecords records that go to n nodes; position *)
(* 0 stands for the node that leaves.                                      *)
DrainPlan(nRecords, n) ==
    IF n = 0 \/ nRecords = 0 THEN <<>>
    ELSE [i \in 1 .. n |-> [from |-> 0, to |-> i, n |-> Share(nRecords, n, i)]]

(* _findLessLoadedNode: the first node with the lowest count.              *)
LessLoaded(counts) ==
    CHOOSE i \in DOMAIN counts :
        /\ \A j \in DOMAIN counts : counts[i] <= counts[j]
        /\ \A j \in 1 .. i - 1 : counts[i] < counts[j]
=============================================================================
