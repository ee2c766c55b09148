------------------------------- MODULE Paging -------------------------------
(***************************************************************************)
(* The paged lists: ListRecords and ListOracles of a node                  *)
(* (node/service/records.go, oracles.go) and of the master                 *)
(* (master/mux_records.go, mux_oracles.go).  Numbers are uint64 and wrap   *)
(* at Modulus.  A record is its identifier; the master's nodes are the     *)
(* sets of records they have, in the order of their IDs.                   *)
(***************************************************************************)
EXTENDS Balancer, FiniteSetsExt

CONSTANT Crash      \* a slice whose end is before its start: a panic

AtLeastOne(x) == IF x < 1 THEN 1 ELSE x
FirstOf(page, perPage) == Unsigned((AtLeastOne(page) - 1) * AtLeastOne(perPage))
EndOf(page, perPage) == Unsigned(FirstOf(page, perPage) + AtLeastOne(perPage))

Pages(total, perPage) ==
    total \div AtLeastOne(perPage) + (IF total % AtLeastOne(perPage) > 0 THEN 1 ELSE 0)

(* Mutant: a partly filled page is taken for out of range.                 *)
PageShort(all, page, perPage) ==
    LET start == FirstOf(page, perPage)
        end == EndOf(page, perPage)
    IN  IF Len(all) <= start \/ Len(all) <= end THEN <<>> ELSE SubSeq(all, start + 1, end)

(* One page of the list all: empty out of range, the last one may be       *)
(* partly filled.                                                          *)
Page(all, page, perPage) ==
    LET start == FirstOf(page, perPage)
        end == EndOf(page, perPage)
    IN  IF Len(all) <= start THEN <<>>
        ELSE IF end < start THEN Crash
        ELSE IF Len(all) <= end THEN SubSeq(all, start + 1, Len(all))
        ELSE SubSeq(all, start + 1, end)

ById(records) ==
    SelectSeq([i \in 1 .. Max(records \cup {0}) |-> i], LAMBDA i : i \in records)

(* A node sorts its records by identifier.                                 *)
ListRecords(records, page, perPage) == Page(ById(records), page, perPage)

(* Index.Objects has the order of a Go map, another one in each call.      *)
Objects(S) == SetToSeqs(S)

(* A node does not sort its oracles.                                       *)
ListOracles(oracles, page, perPage) ==
    {Page(order, page, perPage) : order \in Objects(oracles)}

(* The master sorts with a function that compares positions: no order is   *)
(* excluded.                                                               *)
MasterListOracles(oracles, page, perPage) ==
    {Page(order, page, perPage) : order \in SetToSeqs(oracles)}

-----------------------------------------------------------------------------
(* The master.                                                             *)

(* Records on the nodes before the i-th.                                   *)
Cursor(nodes, i) == FoldLeft(LAMBDA sum, s : sum + Cardinality(s), 0, SubSeq(nodes, 1, i - 1))
CursorAfter(nodes, i) == Cursor(nodes, i) + Cardinality(nodes[i])

(* The loop ends with the first node that reaches the end of the page; the *)
(* node the page starts in is looked for up to there.                      *)
LastNodes(nodes, end) ==
    {i \in DOMAIN nodes : Cursor(nodes, i) < end /\ CursorAfter(nodes, i) >= end}

FirstNodes(nodes, start, lasts) ==
    {i \in DOMAIN nodes : /\ Cursor(nodes, i) <= start /\ CursorAfter(nodes, i) > start
                          /\ \A j \in lasts : i <= j}

(* Mutant: the last node is asked for all its records.                     *)
AskedAll(nodes, last, end, i) == Cardinality(nodes[i])

(* How many records the i-th node is asked for, always from its first one. *)
Asked(nodes, last, end, i) ==
    IF i = last THEN end - Cursor(nodes, last) ELSE Cardinality(nodes[i])

(* The records of the answer; the nodes' parts come in any order.  Without *)
(* a first and a last node there are none.  A node that fails cancels the  *)
(* RPCs to the others, errors are only logged, and the answer has what the *)
(* answering nodes sent.  The master reads the counts under the read locks *)
(* of all nodes and holds them until here, so the counts do not change     *)
(* (module Internal has these locks).                                      *)
MasterListRecords(nodes, answering, page, perPage) ==
    LET end == EndOf(page, perPage)
        lasts == LastNodes(nodes, end)
        firsts == FirstNodes(nodes, FirstOf(page, perPage), lasts)
    IN  IF firsts = {} \/ lasts = {} THEN {}
        ELSE UNION {ToSet(ListRecords(nodes[i], 1, Asked(nodes, Min(lasts), end, i))) :
                      i \in answering \cap (Max(firsts) .. Min(lasts))}

=============================================================================
