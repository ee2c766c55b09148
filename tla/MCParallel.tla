----------------------------- MODULE MCParallel -----------------------------
(* Three nodes that are alike.                                             *)
EXTENDS Parallel, TLC

CONSTANTS n1, n2, n3

ThreeNodes == {n1, n2, n3}

TogetherOrApart == {<<n1, n1>>, <<n1, n2>>}

NoneOneOrAll == {{}, {n1}, ThreeNodes}
=============================================================================
