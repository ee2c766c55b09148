------------------------------ MODULE Internal ------------------------------
(***************************************************************************)
(* master/mux_records.go: the internal service of a master, through which  *)
(* another master uses it as a node (CreateRecordWithId,                   *)
(* CreateRecordsWithId, DeleteRecords), beside CreateRecord and            *)
(* ListRecords calls of clients.  All of these share nodesLock, so that    *)
(* two calls, and the transfers of the balances they start, interleave;    *)
(* the locks are part of the state.  A record is its identifier.           *)
(*                                                                         *)
(* A call in progress is the sequence of the steps it has left.  An RPC    *)
(* fails before the node acted on it, or after (the answer is lost); the   *)
(* node's own rollback of a batch deletes what the batch names.            *)
(*                                                                         *)
(* The RPCs that create records run without idLock, which is taken         *)
(* afterwards to raise nextId: the step of such an RPC has k = 0 until the *)
(* node has answered, and then the value nextId has to reach.              *)
(***************************************************************************)
EXTENDS Balancer, FiniteSets

CONSTANTS
    N,              \* the master has the nodes 1 .. N, in the order of ms.nodes
    Threads,        \* goroutines that serve calls
    MaxId,          \* bound: the largest identifier a caller names
    MaxCalls,       \* bound: calls in a behaviour
    MaxFaults,      \* bound: RPCs that fail in a behaviour
    FirstData,      \* the placements of records to start from
    None            \* nobody, no call

ASSUME InternalAssumption ==
    /\ N \in Nat \ {0} /\ MaxId \in Nat \ {0}
    /\ MaxCalls \in Nat /\ MaxFaults \in Nat
    /\ FirstData \subseteq {d \in [1 .. N -> SUBSET (1 .. MaxId)] :
                            \A m, n \in 1 .. N : m # n => d[m] \cap d[n] = {}}
    /\ None \notin Threads

Nodes == 1 .. N
Ids == 1 .. MaxId

(* A step of a call, and a call: what it does, the records it is about,    *)
(* the steps it has left, and its local variables.                         *)
StepNames ==
    {"rlock", "runlock", "lock", "lock second", "lock id", "choose", "assign", "pick",
     "exists", "create", "store", "settle", "fallback", "total", "work", "compare",
     "balance", "copy", "remove", "list", "query"}
Steps == [do : StepNames, n : 0 .. N, m : 0 .. N, k : Nat,
          left : SUBSET (Nodes \X {"ask", "delete", "refresh"})]
Calls == [op : {"CreateRecord", "CreateRecordWithId", "CreateRecordsWithId", "DeleteRecords",
                "ListRecords"},
          ids : SUBSET Ids, todo : Seq(Steps), start : Nat, end : Nat, good : 0 .. N,
          old : Nat, list : SUBSET Nat, ok : BOOLEAN, had : SUBSET Ids,
          alone : BOOLEAN, still : BOOLEAN]

ASSUME NoneAssumption == None \notin Calls

VARIABLES
    data,       \* the records of each node
    own,        \* the next identifier of each node's own Index
    status,     \* NodeInfo.status.Records
    next,       \* NodeInfo.status.NextRecordId
    nextId,     \* Service.nextId
    reads,      \* how often each goroutine holds nodesLock for reading
    writer,     \* an AddNode or DeleteNode call: "away" or "waiting"
    nodeLock,   \* the goroutine that holds the lock of each NodeInfo
    idLock,     \* the goroutine that holds idLock
    call,       \* the call each goroutine serves
    calls, faults,  \* calls and failed RPCs so far
    acked,      \* history: what clients were told is stored
    raced,      \* history: identifiers that two calls at once were about, or
                \* that a batch stored though they were stored already
    slipped     \* history: identifiers CreateRecordWithId stored though a
                \* transfer ran since it began to ask for them

counters == <<status, next, nextId>>
locks == <<reads, writer, nodeLock, idLock>>
history == <<own, calls, acked, raced, slipped>>
vars == <<data, counters, locks, call, faults, history>>

Stored == UNION {data[n] : n \in Nodes}
Holders(id) == {n \in Nodes : id \in data[n]}
Busy == {t \in Threads : call[t] # None}
Before(S, x) == Cardinality({y \in S : y < x})
FirstOf(S, k) == {x \in S : Before(S, x) < k}

(* The steps of the calls.                                                 *)
Act(what, n, m, k, left) == [do |-> what, n |-> n, m |-> m, k |-> k, left |-> left]
Step(what) == Act(what, 0, 0, 0, {})
At(what, n) == Act(what, n, 0, 0, {})
OnAll(what, job) == Act(what, 0, 0, 0, Nodes \X {job})
Transfer(p) == LET Phase(what) == Act(what, p.from, p.to, p.n, {})
               IN  <<Phase("lock"), Phase("lock second"), Phase("copy"), Phase("remove")>>

(* Mutant: idLock is taken before the node's lock.                         *)
CreateRecordStepsIdFirst == <<Step("choose"), Step("lock id"), At("lock", 0), Step("assign")>>

(* Position 0 stands for the node the call has chosen.                     *)
CreateRecordSteps == <<Step("choose"), At("lock", 0), Step("lock id"), Step("assign")>>

CreateWithIdSteps ==
    <<Step("rlock"), Step("pick"), OnAll("exists", "ask"),
      At("lock", 0), Step("create"), Step("runlock")>>

(* One creator call per node, then the fallback, if it is needed.          *)
CreateManySteps ==
    <<Step("rlock")>>
    \o [i \in 1 .. 2 * N |-> At(IF i % 2 = 1 THEN "lock" ELSE "store", (i + 1) \div 2)]
    \o <<Step("settle"), Step("balance"), Step("runlock")>>

DeleteManySteps ==
    <<Step("rlock"), Step("total"), OnAll("work", "delete"),
      Step("balance"), Step("compare"), Step("runlock")>>

ListSteps == <<Step("rlock"), At("list", 1), Step("query"), Step("runlock")>>

TypeOK ==
    /\ data \in [Nodes -> SUBSET Nat]
    /\ own \in [Nodes -> Nat]
    /\ status \in [Nodes -> Nat]
    /\ next \in [Nodes -> Nat]
    /\ nextId \in Nat
    /\ reads \in [Threads -> 0 .. 2]
    /\ writer \in {"away", "waiting"}
    /\ nodeLock \in [Nodes -> Threads \cup {None}]
    /\ idLock \in Threads \cup {None}
    /\ call \in [Threads -> Calls \cup {None}]
    /\ calls \in 0 .. MaxCalls
    /\ faults \in 0 .. MaxFaults
    /\ acked \cup raced \cup slipped \subseteq Nat

(* A master whose nodes were added with AddNode: its counts are right and  *)
(* nextId is above all records.                                            *)
Init ==
    /\ data \in FirstData
    /\ status = [n \in Nodes |-> Cardinality(data[n])]
    /\ own = [n \in Nodes |-> IF data[n] = {} THEN 1 ELSE Max(data[n]) + 1]
    /\ next = own
    /\ nextId = Max({next[n] : n \in Nodes})
    /\ reads = [t \in Threads |-> 0]
    /\ writer = "away"
    /\ nodeLock = [n \in Nodes |-> None]
    /\ idLock = None
    /\ call = [t \in Threads |-> None]
    /\ calls = 0
    /\ faults = 0
    /\ acked = Stored
    /\ raced = {}
    /\ slipped = {}

-----------------------------------------------------------------------------
(* Calls.                                                                  *)

Others(t) == Busy \ {t}
InProgress(t) == UNION {call[u].ids : u \in Others(t)}
CountsAreRight == \A n \in Nodes : status[n] = Cardinality(data[n])

(* The calls in progress when one more starts, or moves records.           *)
Disturb(c, t, f(_)) == [u \in Threads |-> IF u # t /\ c[u] # None THEN f(c[u]) ELSE c[u]]

Begin(t, op, ids, todo) ==
    /\ call[t] = None
    /\ calls < MaxCalls
    /\ calls' = calls + 1
    /\ call' = [Disturb(call, t, LAMBDA c : [c EXCEPT !.alone = FALSE]) EXCEPT ![t] =
                  [op |-> op, ids |-> ids, todo |-> todo, start |-> 0, end |-> 0,
                   good |-> 0, old |-> 0, list |-> {}, ok |-> TRUE,
                   had |-> ids \cap Stored, alone |-> Others(t) = {} /\ CountsAreRight,
                   still |-> TRUE]]
    /\ raced' = raced \cup (ids \cap InProgress(t))
                      \cup (IF op = "CreateRecordsWithId" THEN ids \cap Stored ELSE {})
    /\ acked' = IF op = "DeleteRecords" THEN acked \ ids ELSE acked
    /\ UNCHANGED <<data, own, counters, locks, faults, slipped>>

CreateRecord(t) == Begin(t, "CreateRecord", {}, CreateRecordSteps)

CreateRecordWithId(t, id) == Begin(t, "CreateRecordWithId", {id}, CreateWithIdSteps)

CreateRecordsWithId(t, ids) == Begin(t, "CreateRecordsWithId", ids, CreateManySteps)

DeleteRecords(t, ids) == Begin(t, "DeleteRecords", ids, DeleteManySteps)

ListRecords(t) == Begin(t, "ListRecords", {}, ListSteps)

(* What goroutine t does next, and how its call goes on.                   *)
Doing(t, what) == call[t] # None /\ call[t].todo # <<>> /\ Head(call[t].todo).do = what
Now(t) == Head(call[t].todo)
Place(t) == IF Now(t).n = 0 THEN call[t].good ELSE Now(t).n
Then(t, c) == call' = [call EXCEPT ![t] = [c EXCEPT !.todo = Tail(@)]]
LastStep(t) == <<call[t].todo[Len(call[t].todo)]>>
Quit(t) == call' = [call EXCEPT ![t].todo = LastStep(t), ![t].ok = FALSE]

Answer(t) ==
    /\ call' = [call EXCEPT ![t] = None]
    /\ acked' = IF call[t].ok /\ call[t].op # "DeleteRecords"
                THEN acked \cup (call[t].ids \ raced) ELSE acked

(* An RPC: whether the node acted on it, and whether the caller is told.   *)
Outcomes == {<<TRUE, TRUE>>} \cup
            (IF faults < MaxFaults THEN {<<TRUE, FALSE>>, <<FALSE, FALSE>>} ELSE {})
Count(told) == faults' = IF told THEN faults ELSE faults + 1

-----------------------------------------------------------------------------
(* Locks.  A writer that waits keeps new readers out.                      *)

MayRead == writer = "away"

RLock(t) ==
    /\ Doing(t, "rlock")
    /\ MayRead
    /\ reads' = [reads EXCEPT ![t] = @ + 1]
    /\ Then(t, call[t])
    /\ UNCHANGED <<data, counters, writer, nodeLock, idLock, faults, history>>

RUnlock(t) ==
    /\ Doing(t, "runlock")
    /\ reads' = [reads EXCEPT ![t] = @ - 1]
    /\ IF Len(call[t].todo) = 1 THEN Answer(t) ELSE Then(t, call[t]) /\ UNCHANGED acked
    /\ UNCHANGED <<data, counters, writer, nodeLock, idLock, faults, own, calls, raced, slipped>>

(* Somebody waits for the lock, and has it for a while (see Cluster).      *)
WLock ==
    /\ writer = "away"
    /\ Busy # {}
    /\ writer' = "waiting"
    /\ UNCHANGED <<data, counters, reads, nodeLock, idLock, call, faults, history>>

WUnlock ==
    /\ writer = "waiting"
    /\ \A t \in Threads : reads[t] = 0
    /\ writer' = "away"
    /\ UNCHANGED <<data, counters, reads, nodeLock, idLock, call, faults, history>>

(* The goroutines that hold the lock of node n for reading: ListRecords    *)
(* takes one after the other and keeps them.                               *)
ReadLocks(n) == {t \in Busy : Doing(t, "query") \/ (Doing(t, "list") /\ n < Now(t).n)}

MayWrite(n) == nodeLock[n] = None /\ ReadLocks(n) = {}

LockNode(t) ==
    /\ Doing(t, "lock")
    /\ MayWrite(Place(t))
    /\ nodeLock' = [nodeLock EXCEPT ![Place(t)] = t]
    /\ Then(t, call[t])
    /\ UNCHANGED <<data, counters, reads, writer, idLock, faults, history>>

LockSecond(t) ==
    /\ Doing(t, "lock second")
    /\ MayWrite(Now(t).m)
    /\ nodeLock' = [nodeLock EXCEPT ![Now(t).m] = t]
    /\ Then(t, call[t])
    /\ UNCHANGED <<data, counters, reads, writer, idLock, faults, history>>

LockId(t) ==
    /\ Doing(t, "lock id")
    /\ idLock = None
    /\ idLock' = t
    /\ Then(t, call[t])
    /\ UNCHANGED <<data, counters, reads, writer, nodeLock, faults, history>>

(* Status() of a node waits for whoever holds its lock for writing.        *)
MayReadCounts == \A n \in Nodes : nodeLock[n] = None

Less(t) == LessLoaded([i \in 1 .. N |-> status[i]])

-----------------------------------------------------------------------------
(* CreateRecord.                                                           *)

(* findLessLoadedNode, which gives nodesLock up again.                     *)
Choose(t) ==
    /\ Doing(t, "choose")
    /\ MayRead /\ MayReadCounts
    /\ Then(t, [call[t] EXCEPT !.good = Less(t)])
    /\ UNCHANGED <<data, counters, locks, faults, history>>

Assign(t) ==
    /\ Doing(t, "assign")
    /\ \E rpc \in Outcomes :
          LET n == call[t].good
              fresh == nextId \notin data[n]
          IN  /\ raced' = raced \cup ({nextId} \cap InProgress(t))
              /\ data' = IF rpc[1] THEN [data EXCEPT ![n] = @ \cup {nextId}] ELSE data
              /\ IF rpc[2] /\ fresh
                 THEN /\ nextId' = nextId + 1
                      /\ status' = [status EXCEPT ![n] = Unsigned(@ + 1)]
                      /\ next' = [next EXCEPT ![n] = nextId + 1]
                      /\ acked' = acked \cup ({nextId} \ raced')
                 ELSE UNCHANGED <<counters, acked>>
              /\ nodeLock' = [nodeLock EXCEPT ![n] = None]
              /\ Count(rpc[2])
    /\ idLock' = None
    /\ call' = [call EXCEPT ![t] = None]
    /\ UNCHANGED <<reads, writer, own, calls, slipped>>

-----------------------------------------------------------------------------
(* CreateRecordWithId.                                                     *)

Pick(t) ==
    /\ Doing(t, "pick")
    /\ MayReadCounts
    /\ Then(t, [call[t] EXCEPT !.good = Less(t)])
    /\ UNCHANGED <<data, counters, locks, faults, history>>

(* Mutant: the first answer of a node decides.                             *)
ExistsOnFirst(t) ==
    /\ Doing(t, "exists")
    /\ \E w \in Now(t).left, rpc \in {o \in Outcomes : o[1]} :
          /\ IF rpc[2] /\ call[t].ids \subseteq data[w[1]] THEN Quit(t) ELSE Then(t, call[t])
          /\ Count(rpc[2])
    /\ UNCHANGED <<data, counters, locks, history>>

(* Asks all nodes at once; a node that does not answer counts as one that  *)
(* does not have the record.                                               *)
Exists(t) ==
    /\ Doing(t, "exists")
    /\ \E w \in Now(t).left, rpc \in {o \in Outcomes : o[1]} :
          /\ IF rpc[2] /\ call[t].ids \subseteq data[w[1]] THEN Quit(t)
             ELSE IF Cardinality(Now(t).left) = 1 THEN Then(t, call[t])
             ELSE call' = [call EXCEPT ![t].todo[1].left = @ \ {w}]
          /\ Count(rpc[2])
    /\ UNCHANGED <<data, counters, locks, history>>

(* The step of the RPC is done, or has nextId to raise to k.               *)
GoOn(t, c, k) ==
    call' = [call EXCEPT ![t] = IF k = 0 THEN [c EXCEPT !.todo = Tail(@)]
                                ELSE [c EXCEPT !.todo[1].k = k]]

(* The lock of node n is kept as long.                                     *)
KeepLock(n, k) == nodeLock' = IF k = 0 THEN [nodeLock EXCEPT ![n] = None] ELSE nodeLock

Create(t) ==
    /\ Doing(t, "create") /\ Now(t).k = 0
    /\ \E rpc \in Outcomes, id \in call[t].ids :
          LET n == call[t].good
              fresh == id \notin data[n]
              higher == IF next[n] <= id THEN id + 1 ELSE next[n]
              k == IF rpc[2] /\ fresh THEN higher ELSE 0
          IN  /\ data' = IF rpc[1] THEN [data EXCEPT ![n] = @ \cup {id}] ELSE data
              /\ IF rpc[2] /\ fresh
                 THEN /\ status' = [status EXCEPT ![n] = Unsigned(@ + 1)]
                      /\ next' = [next EXCEPT ![n] = higher]
                 ELSE UNCHANGED <<status, next>>
              /\ GoOn(t, [call[t] EXCEPT !.ok = rpc[2] /\ fresh], k)
              /\ KeepLock(n, k)
              /\ Count(rpc[2])
    /\ slipped' = IF call[t].still THEN slipped ELSE slipped \cup call[t].ids
    /\ UNCHANGED <<nextId, reads, writer, idLock, own, calls, acked, raced>>

Creating(t) == Doing(t, "create") \/ Doing(t, "store") \/ Doing(t, "fallback")

(* setNextIdIfHigher and its like, then the lock of the node is released.  *)
Raise(t) ==
    /\ Creating(t) /\ Now(t).k # 0
    /\ idLock = None
    /\ nextId' = Max({nextId, Now(t).k})
    /\ nodeLock' = [nodeLock EXCEPT ![Place(t)] = None]
    /\ Then(t, call[t])
    /\ UNCHANGED <<data, status, next, reads, writer, idLock, faults, history>>

-----------------------------------------------------------------------------
(* CreateRecordsWithId.                                                    *)

Raised(id) == IF nextId <= id THEN id + 1 ELSE nextId

(* A node's CreateManyWIthId, which overwrites; if it fails by itself the  *)
(* rollback deletes all records of the batch, older ones too.              *)
BatchData(n, ids, acted, told) ==
    {IF acted THEN [data EXCEPT ![n] = @ \cup ids] ELSE data}
    \cup (IF told THEN {} ELSE {[data EXCEPT ![n] = @ \ ids]})

Slice(t, start, end) == {x \in call[t].ids : Before(call[t].ids, x) \in start .. end - 1}

(* creator raises nextId only if the node's own NextRecordId was too low.  *)
RaiseTo(n, ids) ==
    LET maxId == Max(ids \cup {0}) IN IF next[n] <= maxId THEN maxId + 2 ELSE 0

(* creator on node n, for the records from start to end.                   *)
Creator(t, n, ids, rpc, c) ==
    LET maxId == Max(ids \cup {0})
        k == IF rpc[2] THEN RaiseTo(n, ids) ELSE 0
    IN  /\ data' \in BatchData(n, ids, rpc[1], rpc[2])
        /\ IF rpc[2]
           THEN /\ status' = [status EXCEPT ![n] = Unsigned(@ + Cardinality(ids))]
                /\ next' = [next EXCEPT ![n] = IF @ <= maxId THEN maxId + 1 ELSE @]
           ELSE UNCHANGED <<status, next>>
        /\ GoOn(t, c, k)
        /\ KeepLock(n, k)
        /\ Count(rpc[2])

(* Mutant: start advances also if the node failed.                         *)
StoreSkipping(t) ==
    /\ Doing(t, "store") /\ Now(t).k = 0
    /\ \E rpc \in Outcomes :
          LET n == Now(t).n
              end == call[t].end + Share(Cardinality(call[t].ids), N, n)
          IN  Creator(t, n, Slice(t, call[t].start, end), rpc,
                      IF rpc[2] THEN [call[t] EXCEPT !.end = end, !.start = end, !.good = n]
                      ELSE [call[t] EXCEPT !.end = end, !.start = end])
    /\ UNCHANGED <<nextId, reads, writer, idLock, history>>

(* The loop: the next node also gets the records of nodes that failed.     *)
Store(t) ==
    /\ Doing(t, "store") /\ Now(t).k = 0
    /\ \E rpc \in Outcomes :
          LET n == Now(t).n
              end == call[t].end + Share(Cardinality(call[t].ids), N, n)
          IN  Creator(t, n, Slice(t, call[t].start, end), rpc,
                      IF rpc[2] THEN [call[t] EXCEPT !.end = end, !.start = end, !.good = n]
                      ELSE [call[t] EXCEPT !.end = end])
    /\ UNCHANGED <<nextId, reads, writer, idLock, history>>

(* Nothing stored is an error; what the last nodes did not take goes to    *)
(* the last one that succeeded.                                            *)
Settle(t) ==
    /\ Doing(t, "settle")
    /\ \/ call[t].good = 0 /\ Quit(t)
       \/ call[t].good # 0 /\ call[t].start = call[t].end /\ Then(t, call[t])
       \/ /\ call[t].good # 0 /\ call[t].start # call[t].end
          /\ call' = [call EXCEPT ![t].todo =
                         <<At("lock", 0), Step("fallback")>> \o Tail(@)]
    /\ UNCHANGED <<data, counters, locks, faults, history>>

(* The fallback; if it fails too, DeleteRecords runs inside this call,     *)
(* which takes nodesLock a second time.                                    *)
Fallback(t) ==
    /\ Doing(t, "fallback") /\ Now(t).k = 0
    /\ \E rpc \in Outcomes :
          Creator(t, call[t].good, Slice(t, call[t].start, call[t].end), rpc,
                  IF rpc[2] THEN call[t]
                  ELSE [call[t] EXCEPT !.todo = <<Now(t)>> \o DeleteManySteps \o LastStep(t),
                                       !.ok = FALSE])
    /\ UNCHANGED <<nextId, reads, writer, idLock, history>>

-----------------------------------------------------------------------------
(* DeleteRecords.                                                          *)

Totals == Total([i \in 1 .. N |-> status[i]])

CountBefore(t) ==
    /\ Doing(t, "total")
    /\ MayReadCounts
    /\ Then(t, [call[t] EXCEPT !.old = Totals])
    /\ UNCHANGED <<data, counters, locks, faults, history>>

WorkLeft(t, S) == IF S = {} THEN Then(t, call[t]) ELSE call' = [call EXCEPT ![t].todo[1].left = S]

(* Mutant: the status is updated before the records are deleted.           *)
WorkerDeleteLate(t) ==
    /\ Doing(t, "work")
    /\ \E n \in Nodes, rpc \in Outcomes :
          /\ <<n, "delete">> \in Now(t).left
          /\ MayWrite(n)
          /\ status' = [status EXCEPT ![n] = Cardinality(data[n])]
          /\ data' = IF rpc[1] THEN [data EXCEPT ![n] = @ \ call[t].ids] ELSE data
          /\ WorkLeft(t, Now(t).left \ {<<n, "delete">>})
          /\ Count(rpc[2])
    /\ UNCHANGED <<next, nextId, locks, history>>

(* A worker's RPC, whose answer nobody looks at.                           *)
WorkerDelete(t) ==
    /\ Doing(t, "work")
    /\ \E n \in Nodes, rpc \in Outcomes :
          /\ <<n, "delete">> \in Now(t).left
          /\ data' = IF rpc[1] THEN [data EXCEPT ![n] = @ \ call[t].ids] ELSE data
          /\ WorkLeft(t, (Now(t).left \ {<<n, "delete">>}) \cup {<<n, "refresh">>})
          /\ Count(rpc[2])
    /\ UNCHANGED <<counters, locks, history>>

(* Then UpdateStatus and setNextIdIfHigher.  Storing records under given   *)
(* identifiers does not advance the node's own.                            *)
WorkerRefresh(t) ==
    /\ Doing(t, "work")
    /\ \E n \in Nodes, rpc \in {o \in Outcomes : o[1]} :
          /\ <<n, "refresh">> \in Now(t).left
          /\ MayWrite(n) /\ idLock = None
          /\ IF rpc[2]
             THEN /\ status' = [status EXCEPT ![n] = Cardinality(data[n])]
                  /\ next' = [next EXCEPT ![n] = own[n]]
             ELSE UNCHANGED <<status, next>>
          /\ nextId' = Raised(next'[n])
          /\ WorkLeft(t, Now(t).left \ {<<n, "refresh">>})
          /\ Count(rpc[2])
    /\ UNCHANGED <<data, locks, history>>

(* The answer compares the totals, so it is an error also if the counts    *)
(* changed for another reason.  In the rollback nobody looks at it.        *)
Compare(t) ==
    /\ Doing(t, "compare")
    /\ MayReadCounts
    /\ Then(t, [call[t] EXCEPT !.ok = @ /\ Unsigned(call[t].old - Totals) = Cardinality(call[t].ids)])
    /\ UNCHANGED <<data, counters, locks, faults, history>>

-----------------------------------------------------------------------------
(* balance and transfer.                                                   *)

(* The steps of the transfers of a plan, one transfer after the other.     *)
PlanSteps(plan) ==
    [i \in 1 .. 4 * Len(plan) |-> Transfer(plan[(i + 3) \div 4])[((i - 1) % 4) + 1]]

Balance(t) ==
    /\ Doing(t, "balance")
    /\ MayReadCounts
    /\ call' = [call EXCEPT ![t].todo =
                   PlanSteps(BalancePlan([i \in 1 .. N |-> status[i]])) \o Tail(@)]
    /\ UNCHANGED <<data, counters, locks, faults, history>>

Unmoved(c) == [c EXCEPT !.still = FALSE]
BothUnlocked(t) == [nodeLock EXCEPT ![Now(t).n] = None, ![Now(t).m] = None]

(* Lists the records and stores them on the target; any failure ends the   *)
(* transfer.                                                               *)
Copy(t) ==
    /\ Doing(t, "copy")
    /\ \E rpc \in Outcomes :
          LET s == Now(t)
              list == FirstOf(data[s.n], s.k)
              moving == Disturb(call, t, Unmoved)
          IN  /\ data' \in BatchData(s.m, list, rpc[1], rpc[2])
              /\ IF rpc[2]
                 THEN /\ status' = [status EXCEPT ![s.m] = Unsigned(@ + s.k)]
                      /\ next' = [next EXCEPT ![s.m] = Max(list \cup {@ - 1}) + 1]
                      /\ call' = [moving EXCEPT ![t].list = list, ![t].todo = Tail(@)]
                      /\ UNCHANGED nodeLock
                 ELSE /\ call' = [moving EXCEPT ![t].todo = Tail(Tail(@))]
                      /\ nodeLock' = BothUnlocked(t)
                      /\ UNCHANGED <<status, next>>
              /\ Count(rpc[2])
    /\ UNCHANGED <<nextId, reads, writer, idLock, history>>

DeleteMoved(t) ==
    /\ Doing(t, "remove")
    /\ \E rpc \in Outcomes :
          /\ data' = IF rpc[1] THEN [data EXCEPT ![Now(t).n] = @ \ call[t].list] ELSE data
          /\ Count(rpc[2])
    /\ status' = [status EXCEPT ![Now(t).n] = Unsigned(@ - Now(t).k)]
    /\ call' = [Disturb(call, t, Unmoved) EXCEPT ![t].list = {}, ![t].todo = Tail(@)]
    /\ nodeLock' = BothUnlocked(t)
    /\ UNCHANGED <<next, nextId, reads, writer, idLock, history>>

-----------------------------------------------------------------------------
(* ListRecords.                                                            *)

(* The read lock of the next node, while the former ones are kept.         *)
List(t) ==
    /\ Doing(t, "list")
    /\ nodeLock[Now(t).n] = None
    /\ IF Now(t).n = N THEN Then(t, call[t]) ELSE call' = [call EXCEPT ![t].todo[1].n = @ + 1]
    /\ UNCHANGED <<data, counters, locks, faults, history>>

(* The nodes are asked for their records, or not (see Paging); whatever    *)
(* they answer, all read locks are released.                               *)
Query(t) ==
    /\ Doing(t, "query")
    /\ Then(t, call[t])
    /\ UNCHANGED <<data, counters, locks, faults, history>>

Proceed(t) ==
    \/ RLock(t) \/ RUnlock(t) \/ LockNode(t) \/ LockSecond(t) \/ LockId(t)
    \/ Choose(t) \/ Assign(t) \/ Pick(t) \/ Exists(t) \/ Create(t) \/ Raise(t)
    \/ Store(t) \/ Settle(t) \/ Fallback(t)
    \/ CountBefore(t) \/ WorkerDelete(t) \/ WorkerRefresh(t) \/ Compare(t)
    \/ Balance(t) \/ Copy(t) \/ DeleteMoved(t) \/ List(t) \/ Query(t)

Next ==
    \/ \E t \in Threads :
          \/ Proceed(t)
          \/ CreateRecord(t) \/ ListRecords(t)
          \/ \E id \in Ids : CreateRecordWithId(t, id)
          \/ \E ids \in SUBSET Ids : CreateRecordsWithId(t, ids) \/ DeleteRecords(t, ids)
    \/ WLock \/ WUnlock

Spec == Init /\ [][Next]_vars

-----------------------------------------------------------------------------
(* Properties.                                                             *)

(* What a caller was told is stored stays on some node, whatever RPCs fail *)
(* and whatever the balances move, until somebody deletes it.  A batch that *)
(* names stored records, and two calls about one record, are excepted.     *)
AckedIsStored == acked \ raced \subseteq Stored

InTransit == UNION {call[t].list : t \in Busy}

(* The calls that have stored their records and not yet raised nextId.     *)
Raising == {t \in Busy : Creating(t) /\ Now(t).k # 0}

(* If no RPC fails a record is on one node, except between the two halves  *)
(* of a transfer.  CreateRecordWithId asks the nodes one by one without    *)
(* their locks: a transfer may move the record behind its back, and it     *)
(* stores a second.  The next identifier CreateRecord assigns is free,     *)
(* except between the RPC of a call that stores given identifiers and its  *)
(* own raise of nextId: one of these may then be assigned a second time,   *)
(* on another node, and only one of these.                                 *)
OneHolder ==
    faults = 0 =>
        /\ \A id \in Ids \ (raced \cup slipped \cup InTransit) : Cardinality(Holders(id)) <= 1
        /\ nextId \in Stored => \E t \in Raising : nextId \in call[t].ids

(* DeleteRecords leaves none of its records, if no transfer of another     *)
(* call moved some past it; and if it was the only call, and the counts    *)
(* were right when it began, it reports success exactly if all of them     *)
(* were there.                                                             *)
DeleteIsComplete ==
    \A t \in Busy :
        call[t].op = "DeleteRecords" /\ call[t].todo = <<Step("runlock")>> /\ faults = 0 =>
            /\ call[t].still => call[t].ids \cap Stored \subseteq raced
            /\ call[t].alone /\ raced \cup slipped = {} => (call[t].ok <=> call[t].ids = call[t].had)

(* Goroutine t needs the lock of node n for writing.                       *)
Wants(t, n) ==
    \/ Doing(t, "lock") /\ Place(t) = n
    \/ Doing(t, "lock second") /\ Now(t).m = n
    \/ Doing(t, "work") /\ <<n, "refresh">> \in Now(t).left

(* A reader of node n may have to wait: for a writer that has the lock, or *)
(* for one that waits for other readers, which keeps new ones out.         *)
KeptOut(n) == nodeLock[n] # None \/ (ReadLocks(n) # {} /\ \E u \in Busy : Wants(u, n))

(* Goroutine t waits for a lock.                                           *)
Blocked(t) ==
    LET what == Now(t).do IN
    \/ what \in {"rlock", "choose"} /\ ~MayRead
    \/ what \in {"choose", "pick", "total", "balance", "compare"} /\ \E n \in Nodes : KeptOut(n)
    \/ what = "list" /\ KeptOut(Now(t).n)
    \/ what = "lock" /\ ~MayWrite(Place(t))
    \/ what = "lock second" /\ ~MayWrite(Now(t).m)
    \/ (what = "lock id" \/ t \in Raising) /\ idLock # None
    \/ what = "work" /\ \A w \in Now(t).left :
                          w[2] = "refresh" /\ (~MayWrite(w[1]) \/ idLock # None)

Halted == Busy # {} /\ \A t \in Busy : Blocked(t)

(* A transfer that has locked its source and waits for its target.         *)
Halfway(t, n) == Doing(t, "lock second") /\ Now(t).n = n

(* The calls of this module come to a deadlock in three ways: the nested   *)
(* read lock of the fallback, with a writer between the two                *)
(* (mux_records.go:442 and 458); transfers each of which has locked its    *)
(* source and waits for the source of the next, two that go in opposite    *)
(* directions being the least such circle (balancer.go:13); and such a     *)
(* circle with a ListRecords in it, which holds the read locks of the      *)
(* first nodes and waits for the source of a transfer, one that goes to    *)
(* one of these nodes being the least (mux_records.go:159).                *)
DeadlocksAreKnown ==
    Halted =>
        \/ writer = "waiting" /\ \A t \in Threads : reads[t] = 0
        \/ \E t \in Busy : Doing(t, "rlock") /\ reads[t] = 1 /\ writer = "waiting"
        \/ \E circle \in (SUBSET Busy) \ {{}} : \A t \in circle :
              \/ /\ Doing(t, "lock second")
                 /\ \E u \in circle : Halfway(u, Now(t).m) \/ u \in ReadLocks(Now(t).m)
              \/ Doing(t, "list") /\ \E u \in circle : Halfway(u, Now(t).n)

=============================================================================
