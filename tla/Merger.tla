------------------------------- MODULE Merger -------------------------------
(***************************************************************************)
(* master/mux_runner.go, merge: the results of the nodes, in the order in  *)
(* which they arrived, become one.  A result is a decoded JSON value: a    *)
(* map, a list, something else, or null.                                   *)
(***************************************************************************)
EXTENDS Integers, Sequences, SequencesExt, Functions

CONSTANT Nothing    \* nil

Failed == [kind |-> "error", val |-> Nothing]

(* Mutant: a later result replaces the value of a key.                     *)
MergeMapsOver(m, r) ==
    [kind |-> "map", val |-> [k \in DOMAIN m \cup DOMAIN r |->
                                 IF k \in DOMAIN r THEN r[k] ELSE m[k]]]

MergeMaps(m, r) ==
    IF DOMAIN m \cap DOMAIN r # {} THEN Failed
    ELSE [kind |-> "map", val |-> [k \in DOMAIN m \cup DOMAIN r |->
                                      IF k \in DOMAIN r THEN r[k] ELSE m[k]]]

(* One result more.  reflect.TypeOf(nil) has no Kind: a null that comes    *)
(* first is a nil dereference.                                             *)
MergeResult(merged, r) ==
    CASE merged.kind \in {"error", "panic"} -> merged
      [] merged.kind = "nil" ->
            CASE r.kind = "null" -> [kind |-> "panic", val |-> Nothing]
              [] r.kind \in {"map", "list"} -> r
              [] OTHER -> Failed
      [] OTHER ->
            CASE r.kind # merged.kind -> Failed
              [] r.kind = "map" -> MergeMaps(merged.val, r.val)
              [] r.kind = "list" -> [merged EXCEPT !.val = @ \o r.val]

(* defaultMerger; without results there is nil.                            *)
DefaultMerger(results) == FoldLeft(MergeResult, [kind |-> "nil", val |-> Nothing], results)

(* merge: by the merger function of the oracle, if it has one, which gets  *)
(* all results at once (ofMerger is what it returns, or Failed).           *)
Merge(merger, results, ofMerger) ==
    IF merger = 0 THEN DefaultMerger(results) ELSE ofMerger

=============================================================================
