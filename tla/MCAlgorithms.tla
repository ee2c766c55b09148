---------------------------- MODULE MCAlgorithms ----------------------------
(***************************************************************************)
(* The algorithms of the master and of the lists on every input within the *)
(* bounds, against what they should compute.  A behaviour is    *)
(* one problem; only balance takes steps (see BalanceRun).                 *)
(***************************************************************************)
EXTENDS BalanceRun, Paging, Raccoon, Merger

CONSTANTS
    MaxNodes, MaxCount,         \* bounds: a few nodes with many records, and
    ManyNodes, SmallCount,      \* more nodes with few
    MaxPerPage,                 \* bound: the size of a page
    MaxSize                     \* bound: results to merge

VARIABLE problem    \* what is computed

SomeCounts ==
    UNION {[1 .. n -> 0 .. MaxCount] : n \in 1 .. MaxNodes} \cup [1 .. ManyNodes -> 0 .. SmallCount]

(* Nodes with records 1, 2, 3 ...                                          *)
Numbered(cs) ==
    LET before(i) == FoldLeft(+, 0, SubSeq(cs, 1, i - 1))
    IN  [i \in DOMAIN cs |-> before(i) + 1 .. before(i) + cs[i]]

Lists ==
    {[kind |-> "pages", nodes |-> Numbered(cs), page |-> p, perPage |-> k] :
        cs \in UNION {[1 .. n -> 0 .. 3] : n \in 0 .. 3},
        p \in 0 .. MaxPerPage, k \in 0 .. MaxPerPage}

(* A call stands every three symbols of the code, the other ones are not   *)
(* touched.  The oracle has the parameters p and q; it may be called with  *)
(* fewer arguments, which are the identifiers of the records to look up.   *)
Calls(args, len) == [i \in DOMAIN args |-> [find |-> TRUE, arg |-> args[i],
                                            at |-> 3 * i - 1, len |-> len]]
Code == <<"a", "b", "c", "d", "e", "f", "g", "h", "i", "j">>

Patches ==
    {LET calls == Calls(args, len) IN
     [kind |-> "patch", src |-> SubSeq(Code, 1, 3 * Len(args) + 1),
      calls |-> calls, parameters |-> <<"p", "q">>,
      records |-> ResolvedRecords(calls, <<"p", "q">>, [i \in 1 .. given |-> i], answers)] :
        args \in UNION {[1 .. n -> {"p", "q", "x"}] : n \in 0 .. 3}, len \in 1 .. 2,
        given \in 0 .. 2, answers \in [1 .. 2 -> {NotFound, <<>>, <<"r">>, <<"r", "s">>}]}

Results ==
    {[kind |-> "map", val |-> [k \in {"a"} |-> 1]], [kind |-> "map", val |-> [k \in {"a"} |-> 2]],
     [kind |-> "map", val |-> [k \in {"b"} |-> 1]], [kind |-> "map", val |-> [k \in {} |-> 0]],
     [kind |-> "list", val |-> <<>>], [kind |-> "list", val |-> <<1>>],
     [kind |-> "list", val |-> <<2, 2>>],
     [kind |-> "scalar", val |-> 1], [kind |-> "null", val |-> Nothing]}

(* An oracle alone, one with a merger, one with a function that is none.   *)
Programs ==
    LET oracle == [merge |-> FALSE, params |-> 1] IN
    {<<oracle>>, <<oracle, [oracle EXCEPT !.merge = TRUE]>>,
     <<oracle, [merge |-> TRUE, params |-> 2]>>}

Merges == {[kind |-> "merge", results |-> rs, functions |-> fs] :
              rs \in UNION {[1 .. n -> Results] : n \in 0 .. MaxSize}, fs \in Programs}

MCInit ==
    \/ problem = [kind |-> "balance"] /\ Init
    \/ /\ problem \in Lists \cup Patches \cup Merges
       /\ counts = <<>> /\ start = Unrun /\ left = <<>>

MCNext == problem.kind = "balance" /\ Next /\ UNCHANGED problem

MCSpec == MCInit /\ [][MCNext]_<<problem, vars>>

-----------------------------------------------------------------------------
(* Lists                                                                   *)

All(nodes) == UNION ToSet(nodes)
InOrder(nodes) == ById(All(nodes))

(* records.go:66: the pages of a node's list, one after the other, are the *)
(* sorted list, each record once; there are as many as the answer says,    *)
(* and behind them is nothing.  A page of oracles has as many as it        *)
(* should, whatever their order.                                           *)
PagesPartition ==
    problem.kind = "pages" =>
        LET all == All(problem.nodes)
            n == Pages(Cardinality(all), problem.perPage)
            one(p) == ListRecords(all, p, problem.perPage)
        IN  /\ FlattenSeq([p \in 1 .. n |-> one(p)]) = InOrder(problem.nodes)
            /\ one(n + 1) = <<>>
            /\ Cardinality(all) <= 3 =>
                 \A list \in ListOracles(all, problem.page, problem.perPage)
                            \cup MasterListOracles(all, problem.page, problem.perPage) :
                    Len(list) = Len(one(problem.page))

(* ListRecords of the master: a page that is completely filled and starts  *)
(* with the first record of a node, or that is behind the last record, is  *)
(* the right part of all records, wherever the borders of the nodes are,   *)
(* and nodes without records beside it; if nodes fail it is short, but has *)
(* no record of another page.  (Of other pages the code promises nothing:  *)
(* one that is partly filled is shown empty, and one that starts inside a  *)
(* node with the records before it.)                                       *)
MasterPageIsRight ==
    problem.kind = "pages" =>
        LET nodes == problem.nodes
            first == FirstOf(problem.page, problem.perPage)
            end == EndOf(problem.page, problem.perPage)
            total == Cardinality(All(nodes))
            right == ToSet(Page(InOrder(nodes), problem.page, problem.perPage))
            shown(answering) ==
                MasterListRecords(nodes, answering, problem.page, problem.perPage)
        IN  \/ end > total /\ first < total
            \/ first < total /\ \A i \in DOMAIN nodes : first # Cursor(nodes, i)
            \/ /\ shown(DOMAIN nodes) = right
               /\ \A answering \in SUBSET DOMAIN nodes : shown(answering) \subseteq right

-----------------------------------------------------------------------------
(* ast_raccoon.go, mux_runner.go                                           *)

Parameter(c) == CHOOSE i \in DOMAIN problem.parameters : problem.parameters[i] = c.arg
ToPatch == SelectSeq(CallNodes(problem.calls, problem.parameters),
                     LAMBDA c : problem.records[Parameter(c)] # NoRecord)

(* All calls replaced at once: from the last to the first, so that no      *)
(* place moves.                                                            *)
Replaced ==
    FoldRight(LAMBDA c, code : Splice(code, c.at, c.len, Serialised(problem.records[Parameter(c)])),
              ToPatch, problem.src)

(* PatchCode replaces every call by its record and nothing else, if the    *)
(* calls come in the order of the parameters.  (It goes through the calls  *)
(* parameter by parameter with one running shift: in another order it cuts *)
(* the code at wrong places.)                                              *)
PatchReplacesCalls ==
    problem.kind = "patch" =>
        \/ \E i, j \in DOMAIN ToPatch : i < j /\ Parameter(ToPatch[i]) > Parameter(ToPatch[j])
        \/ PatchCode(problem.src, problem.calls, problem.parameters, problem.records) = Replaced

Same(x, y) ==
    /\ x.kind = y.kind
    /\ IF x.kind = "list" THEN SortSeq(x.val, <) = SortSeq(y.val, <) ELSE x.val = y.val

(* merge: the order in which the nodes answer does not matter, but for the *)
(* order of a list (or if the oracle's own merger makes it matter), and    *)
(* nothing of a result is dropped.  Except for null results: one that      *)
(* arrives first ends the master with a nil dereference.                   *)
MergeIgnoresOrder ==
    problem.kind = "merge" /\ (\A r \in ToSet(problem.results) : r.kind # "null") =>
        LET rs == problem.results
            bag(xs) == {<<x, Cardinality({i \in DOMAIN xs : xs[i] = x})>> : x \in ToSet(xs)}
            merged(xs) == Merge(MergerFunction(problem.functions), xs,
                                [kind |-> "of the merger", val |-> bag(xs)])
            m == merged(rs)
        IN  /\ \A order \in SetToSeqs(DOMAIN rs) :
                  Same(m, merged([i \in DOMAIN rs |-> rs[order[i]]]))
            /\ m.kind = "map" => \A i \in DOMAIN rs : \A k \in DOMAIN rs[i].val :
                                    m.val[k] = rs[i].val[k]
            /\ m.kind = "list" => Len(m.val) = FoldLeft(LAMBDA n, r : n + Len(r.val), 0, rs)

=============================================================================
