----------------------------- MODULE BalanceRun -----------------------------
(***************************************************************************)
(* master/balancer.go: balance on its own.  Its deltas depend on the       *)
(* counts it reads at first, not on those the transfers leave, so that the *)
(* plan is made at once and then run, one transfer at a time.  Every       *)
(* transfer succeeds (see Cluster and Internal for those that fail).       *)
(***************************************************************************)
EXTENDS Balancer

CONSTANTS
    FirstCounts,    \* the counts to start from
    Unrun           \* balance was not called yet

ASSUME BalanceAssumption == FirstCounts \subseteq Seq(Nat) /\ Unrun \notin FirstCounts

VARIABLES
    counts,     \* the records of each node
    start,      \* the counts balance started from, or Unrun
    left        \* the transfers it has left

vars == <<counts, start, left>>

Init ==
    /\ counts \in FirstCounts
    /\ start = Unrun
    /\ left = <<>>

Balance ==
    /\ start = Unrun
    /\ start' = counts
    /\ left' = BalancePlan(counts)
    /\ UNCHANGED counts

Moved(t) == [counts EXCEPT ![t.from] = Unsigned(@ - t.n), ![t.to] = Unsigned(@ + t.n)]

Transfer ==
    /\ left # <<>>
    /\ counts' = Moved(Head(left))
    /\ left' = Tail(left)
    /\ UNCHANGED start

Next == Balance \/ Transfer

Spec == Init /\ [][Next]_vars

-----------------------------------------------------------------------------
(* Properties.                                                             *)

(* balance never asks a node for more records than it has (the counter of  *)
(* transfer's source would wrap), and no node both gives and receives, so  *)
(* no record is moved twice and one transfer per node but one is enough.   *)
NothingOverdrawn ==
    /\ \A s, t \in ToSet(left) : s.from # t.to
    /\ left # <<>> => /\ Head(left).n \in 1 .. counts[Head(left).from]
                      /\ Len(left) < Len(counts)

(* When balance ends, every node has its target; or nothing was moved,     *)
(* because no node was short by more than the 5% of balancer.go:90.        *)
EndsBalanced ==
    start # Unrun /\ left = <<>> =>
        \/ \A i \in DOMAIN counts : counts[i] = Target(start, i)
        \/ /\ counts = start
           /\ \A i \in DOMAIN counts :
                 20 * (Target(start, i) - counts[i]) <= Total(start) \div Len(start)

(* balance is stable: run again on its own result it moves nothing.  The   *)
(* balances that every AddNode starts would otherwise shuffle records      *)
(* that are well placed.                                                   *)
Stable == start # Unrun /\ left = <<>> => BalancePlan(counts) = <<>>

=============================================================================
