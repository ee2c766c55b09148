----------------------------- MODULE MCInternal -----------------------------
(* Two calls at a time.                                                    *)
EXTENDS Internal, TLC

CONSTANTS t1, t2

TwoThreads == {t1, t2}

Starts == {<<{}, {}>>, <<{1}, {2}>>, <<{}, {1, 2}>>}

Alike == Permutations(TwoThreads)
=============================================================================
