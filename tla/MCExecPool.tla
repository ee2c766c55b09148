----------------------------- MODULE MCExecPool -----------------------------
(* Two VMs, and one of the calls may run forever.                          *)
EXTENDS ExecPool

ASSUME FewerEndlessThanVMs == Cardinality(Endless) < NumVMs
=============================================================================
