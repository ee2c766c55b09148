----------------------------- MODULE MCRecords -----------------------------
(* Small instance of Records: a record has no Meta, or one of two values   *)
(* of the same key.  Threads and values are interchangeable.               *)
EXTENDS Records, TLC

CONSTANTS a, b

MCMetas == {{}, {a}, {b}}

MCSymmetry == Permutations(Threads) \cup Permutations({a, b})

(* The variables that a step or a property of Records reads: not err and   *)
(* foreign, which Index only writes.                                       *)
MCView == <<up, index, nextID, disk, faults, acked,
            metaBy, pending, wrapping, halfUpdated, touched>>
=============================================================================
