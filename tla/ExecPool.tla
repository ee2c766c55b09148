------------------------------ MODULE ExecPool ------------------------------
(***************************************************************************)
(* node/service/compiled_exec_pool.go and compiled.go: the pool of VMs of  *)
(* one compiled oracle, and the calls that run on it.                      *)
(*                                                                         *)
(* freeWay is a Go channel with room for every VM.  A receiver that finds  *)
(* it empty joins the channel's queue of receivers (waiting), and a send   *)
(* hands its value to the first of them, if any, instead of the buffer.    *)
(* A VM outlives the calls: the globals it was given last (records, ctx    *)
(* and the arguments) stay until somebody sets them again, so a call reads *)
(* its own arguments only if nobody else uses its VM meanwhile.            *)
(***************************************************************************)
EXTENDS Naturals, Sequences, FiniteSets

CONSTANTS
    NumVMs,     \* numVMInPool
    Callers,    \* goroutines that call compiled.Run
    Endless,    \* those whose oracle may never return
    None        \* no VM, no owner

ASSUME PoolAssumption ==
    /\ NumVMs \in Nat \ {0}
    /\ Endless \subseteq Callers
    /\ None \notin Callers
    /\ None \notin 1 .. NumVMs

VMs == 1 .. NumVMs

VARIABLES
    freeWay,    \* the buffer of the channel: indices of free VMs
    waiting,    \* goroutines blocked in Get, in the order they came
    globals,    \* by VM: the call whose context and arguments it holds
    pc,         \* where each goroutine is in compiled.Run
    vm          \* the VM each goroutine got from the pool

poolVars == <<freeWay, waiting, globals, pc, vm>>

Places == {"idle", "get", "set", "eval", "release"}

PoolTypeOK ==
    /\ freeWay \in Seq(VMs)
    /\ waiting \in Seq(Callers)
    /\ globals \in [VMs -> Callers \cup {None}]
    /\ pc \in [Callers -> Places]
    /\ vm \in [Callers -> VMs \cup {None}]

(* CreateExecutionPool presignals every clone as free.                     *)
PoolInit ==
    /\ freeWay = [i \in VMs |-> i]
    /\ waiting = <<>>
    /\ globals = [i \in VMs |-> None]
    /\ pc = [t \in Callers |-> "idle"]
    /\ vm = [t \in Callers |-> None]

(* Mutant: the index stays in the channel.                                 *)
GetNowShared(t) ==
    /\ freeWay # <<>>
    /\ vm' = [vm EXCEPT ![t] = Head(freeWay)]
    /\ pc' = [pc EXCEPT ![t] = "set"]
    /\ UNCHANGED <<freeWay, waiting, globals>>

(***************************************************************************)
(* ExecutionPool.Get: receive an index, or wait for one.                   *)
(***************************************************************************)
GetNow(t) ==
    /\ freeWay # <<>>
    /\ vm' = [vm EXCEPT ![t] = Head(freeWay)]
    /\ freeWay' = Tail(freeWay)
    /\ pc' = [pc EXCEPT ![t] = "set"]
    /\ UNCHANGED <<waiting, globals>>

GetLater(t) ==
    /\ freeWay = <<>>
    /\ waiting' = Append(waiting, t)
    /\ pc' = [pc EXCEPT ![t] = "get"]
    /\ UNCHANGED <<freeWay, globals, vm>>

Get(t) == pc[t] = "idle" /\ (GetNow(t) \/ GetLater(t))

(* Mutant: globals that are set are left alone.                            *)
SetOnce(t) ==
    /\ pc[t] = "set"
    /\ globals' = [globals EXCEPT ![vm[t]] = IF @ = None THEN t ELSE @]
    /\ \E next \in {"eval", "release"} : pc' = [pc EXCEPT ![t] = next]
    /\ UNCHANGED <<freeWay, waiting, vm>>

(* Mutant: a bad argument returns before the defer.                        *)
SetWithoutDefer(t) ==
    /\ pc[t] = "set"
    /\ globals' = [globals EXCEPT ![vm[t]] = t]
    /\ \/ pc' = [pc EXCEPT ![t] = "eval"] /\ UNCHANGED vm
       \/ pc' = [pc EXCEPT ![t] = "idle"] /\ vm' = [vm EXCEPT ![t] = None]
    /\ UNCHANGED <<freeWay, waiting>>

(* vm.Set: the context and the arguments of this call.  An argument that   *)
(* is not JSON ends the call, after some of the globals were set.          *)
Set(t) ==
    /\ pc[t] = "set"
    /\ globals' = [globals EXCEPT ![vm[t]] = t]
    /\ \E next \in {"eval", "release"} : pc' = [pc EXCEPT ![t] = next]
    /\ UNCHANGED <<freeWay, waiting, vm>>

(* vm.Run returns or panics; the deferred Release follows both ways.       *)
Eval(t) ==
    /\ pc[t] = "eval"
    /\ pc' = [pc EXCEPT ![t] = "release"]
    /\ UNCHANGED <<freeWay, waiting, globals, vm>>

(***************************************************************************)
(* VM.Release, ExecutionPool.setFree: send the index.                      *)
(***************************************************************************)
HandOver(t) ==
    /\ waiting # <<>>
    /\ vm' = [vm EXCEPT ![t] = None, ![Head(waiting)] = vm[t]]
    /\ pc' = [pc EXCEPT ![t] = "idle", ![Head(waiting)] = "set"]
    /\ waiting' = Tail(waiting)
    /\ UNCHANGED <<freeWay, globals>>

PutBack(t) ==
    /\ waiting = <<>>
    /\ Len(freeWay) < NumVMs
    /\ freeWay' = Append(freeWay, vm[t])
    /\ vm' = [vm EXCEPT ![t] = None]
    /\ pc' = [pc EXCEPT ![t] = "idle"]
    /\ UNCHANGED <<waiting, globals>>

Release(t) == pc[t] = "release" /\ (HandOver(t) \/ PutBack(t))

PoolNext == \E t \in Callers : Get(t) \/ Set(t) \/ Eval(t) \/ Release(t)

(* The scheduler runs every goroutine that can go on.  It need not make a  *)
(* call, and the oracle of an Endless call need not return: compiled.Run   *)
(* has no time limit.                                                      *)
PoolFairness ==
    \A t \in Callers :
        /\ WF_poolVars(Set(t) \/ Release(t))
        /\ t \notin Endless => WF_poolVars(Eval(t))

PoolSpec == PoolInit /\ [][PoolNext]_poolVars /\ PoolFairness

(***************************************************************************)
(* Properties.                                                             *)
(***************************************************************************)
Holds(t, i) == vm[t] = i

(* Get returns a VM that nobody else uses: no two calls hold the same      *)
(* clone, whatever calls fail, panic or wait in between.                   *)
Exclusive ==
    \A t, u \in Callers : t # u => vm[t] = None \/ vm[t] # vm[u]

(* compiled.Run evaluates the oracle with its own context and arguments,   *)
(* not with those another call left or put there since.                    *)
OwnGlobals == \A t \in Callers : pc[t] = "eval" => globals[vm[t]] = t

(* No VM is lost: every clone is free or in use, so the deferred Release   *)
(* of a call never blocks on a full channel, and nobody waits while a      *)
(* clone is free.                                                          *)
NoVMLost ==
    /\ \A i \in VMs : \/ \E n \in DOMAIN freeWay : freeWay[n] = i
                      \/ \E t \in Callers : Holds(t, i)
    /\ \A t \in Callers : pc[t] = "release" => Len(freeWay) < NumVMs
    /\ waiting # <<>> => freeWay = <<>>

(* Get "will wait until a VM object in the pool is signaled as free": a    *)
(* waiting call gets a VM, as long as fewer oracles run forever than the   *)
(* pool has VMs.                                                           *)
WaitersServed ==
    \A t \in Callers : pc[t] = "get" ~> pc[t] = "set"

=============================================================================
