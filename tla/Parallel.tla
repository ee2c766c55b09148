------------------------------ MODULE Parallel ------------------------------
(***************************************************************************)
(* master/paralleliser.go and the handlers that ask all nodes at once      *)
(* (mux_records.go: UpdateRecord, ReadRecord, DeleteRecord, FindRecords;   *)
(* mux_runner.go: Run, which stores a temporary oracle on each node).      *)
(*                                                                         *)
(* One call is followed from its start to its answer: a worker per node,   *)
(* the two readers that gather what the workers send over unbuffered       *)
(* channels, and doParallel, which waits for all of them.  The call shares *)
(* nodesLock, so beside it a balance that CreateRecordsWithId started may  *)
(* move records (balancer.go, transfer); only the locks of the nodes keep  *)
(* the two apart.                                                          *)
(***************************************************************************)
EXTENDS Naturals, FiniteSets

CONSTANTS
    Nodes,          \* node addresses
    Fleets,         \* the sets of nodes the master may have
    Spreads,        \* placements of the records for a search by meta, or Run
    Ids,            \* identifiers of the records the call may be about
    Arg,            \* the identifier ReadRecord and the like are given
    None,           \* no record, nobody, nothing
    MaxFaults,      \* bound: RPCs that fail without having been cancelled
    MaxMoves        \* bound: transfers beside the call

ASSUME ParallelAssumption ==
    /\ Arg \in Ids
    /\ Fleets \subseteq SUBSET Nodes
    /\ Spreads \subseteq [Ids -> Nodes]
    /\ IsFiniteSet(Nodes)
    /\ MaxFaults \in Nat /\ MaxMoves \in Nat

Ops == {"read", "update", "delete", "find", "run"}
Versions == {"old", "new"}
Channels == {"result", "error"}

(* A record as a node reports it, what a worker sends of such records, and *)
(* a transfer.                                                             *)
Reports == [node : Nodes, id : Ids, version : Versions]
Results == [from : Nodes, found : Reports \cup SUBSET Reports]
Moves == [from : Nodes, to : Nodes, id : Ids, version : Versions, stored : BOOLEAN]

ASSUME NoneAssumption ==
    /\ None \notin Nodes /\ None \notin Versions \cup {"worker", "transfer"}
    /\ None \notin Results /\ None \notin Moves

VARIABLES
    op,         \* the handler
    members,    \* Service.nodes
    data,       \* the records of each node, by identifier
    temps,      \* the nodes that have the temporary oracle of Run
    ours,       \* node2oracleId: the ones Run knows of, and has to delete
    first,      \* history: the records when the call started
    pc,         \* where the worker of each node is
    outbox,     \* what it has left to send on resultChan
    cancelled,  \* cf was called
    faults,     \* RPCs that failed though the context was not cancelled
    hand,       \* per channel: what its reader received and did not append
    reading,    \* the readers that have not called readersWg.Done
    sent,       \* history: what the workers sent over each channel
    gathered,   \* per channel: results and errs
    main,       \* doParallel: "working", "closed", or the handler's answer
    nodeLock,   \* the holder of each NodeInfo's lock
    move,       \* a transfer in progress: records between two nodes
    moves       \* transfers started so far

readers == <<hand, reading, gathered>>
transfers == <<move, moves>>
oracles == <<temps, ours>>
given == <<op, members, first>>
vars == <<given, data, pc, outbox, cancelled, faults, readers,
          sent, main, nodeLock, transfers, oracles>>

(* The identifiers the handler looks for: FindRecords, all that have the   *)
(* meta value; Run has an oracle that looks at all records.                *)
Wanted == IF op \in {"find", "run"} THEN Ids ELSE {Arg}

Found(n) == {[node |-> n, id |-> id, version |-> data[n][id]] :
                id \in {i \in Wanted : data[n][i] # None}}

TypeOK ==
    /\ op \in Ops
    /\ members \subseteq Nodes
    /\ data \in [Nodes -> [Ids -> Versions \cup {None}]]
    /\ pc \in [Nodes -> {"start", "load", "loaded", "call", "acted", "send", "fail", "done"}]
    /\ temps \subseteq members /\ ours \subseteq members
    /\ cancelled \in BOOLEAN
    /\ faults \in 0 .. MaxFaults
    /\ reading \subseteq Channels
    /\ \A c \in Channels : gathered[c] \subseteq sent[c]
    /\ main \in {"working", "closed", "ok", "not found", "error"}
    /\ nodeLock \in [Nodes -> {None, "worker", "transfer"}]
    /\ moves \in 0 .. MaxMoves

(* No node has the record, or one, or several (see Cluster); what a search *)
(* by meta or an oracle finds is on one node each.  doParallel starts      *)
(* nobody if there are no nodes.                                           *)
Init ==
    /\ op \in Ops
    /\ members \in Fleets
    /\ \E holders \in [Ids -> SUBSET members] :
          /\ IF op \in {"find", "run"} /\ members # {}
             THEN \E f \in Spreads : holders = [id \in Ids |-> {f[id]}]
             ELSE \A id \in Ids \ {Arg} : holders[id] = {}
          /\ data = [n \in Nodes |-> [id \in Ids |->
                        IF n \in holders[id] THEN "old" ELSE None]]
    /\ temps = {} /\ ours = {}
    /\ first = data
    /\ pc = [n \in Nodes |-> IF n \in members THEN "start" ELSE "done"]
    /\ outbox = [n \in Nodes |-> {}]
    /\ cancelled = FALSE
    /\ faults = 0
    /\ hand = [c \in Channels |-> None]
    /\ reading = Channels
    /\ sent = [c \in Channels |-> {}]
    /\ gathered = [c \in Channels |-> {}]
    /\ main = "working"
    /\ nodeLock = [n \in Nodes |-> None]
    /\ move = None
    /\ moves = 0

-----------------------------------------------------------------------------
(* A worker.                                                               *)

(* Mutant: DeleteRecord does not lock the node.                            *)
StartUnlocked(n) ==
    /\ pc[n] = "start"
    /\ pc' = [pc EXCEPT ![n] = IF op = "run" THEN "load" ELSE "call"]
    /\ UNCHANGED <<given, data, outbox, cancelled, faults, readers, sent, main,
                   nodeLock, transfers, oracles>>

(* DeleteRecord holds the node's lock until its worker returns.            *)
Start(n) ==
    /\ pc[n] = "start"
    /\ op = "delete" => nodeLock[n] = None
    /\ nodeLock' = IF op = "delete" THEN [nodeLock EXCEPT ![n] = "worker"] ELSE nodeLock
    /\ pc' = [pc EXCEPT ![n] = IF op = "run" THEN "load" ELSE "call"]
    /\ UNCHANGED <<given, data, outbox, cancelled, faults, readers,
                   sent, main, transfers, oracles>>

(* Run: the node stores the temporary oracle; when its answer arrives the  *)
(* worker remembers it and calls it.                                       *)
Load(n) ==
    /\ pc[n] = "load"
    /\ temps' = temps \cup {n}
    /\ pc' = [pc EXCEPT ![n] = "loaded"]
    /\ UNCHANGED <<given, data, ours, outbox, cancelled,
                   faults, readers, sent, main, nodeLock, transfers>>

Remember(n) ==
    /\ pc[n] = "loaded"
    /\ ours' = ours \cup {n}
    /\ pc' = [pc EXCEPT ![n] = "call"]
    /\ UNCHANGED <<given, data, temps, outbox, cancelled,
                   faults, readers, sent, main, nodeLock, transfers>>

Unlocked(n) == IF nodeLock[n] = "worker" THEN [nodeLock EXCEPT ![n] = None] ELSE nodeLock

(* The node serves the RPC.                                                *)
Act(n) ==
    /\ pc[n] = "call"
    /\ pc' = [pc EXCEPT ![n] = "acted"]
    /\ outbox' = [outbox EXCEPT ![n] = Found(n)]
    /\ data' = IF data[n][Arg] = None THEN data
               ELSE CASE op = "update" -> [data EXCEPT ![n][Arg] = "new"]
                      [] op = "delete" -> [data EXCEPT ![n][Arg] = None]
                      [] OTHER -> data
    /\ UNCHANGED <<given, cancelled, faults, readers, sent, main,
                   nodeLock, transfers, oracles>>

MayFail == cancelled \/ faults < MaxFaults

(* Mutant: any failure of a node is taken for "not found".                 *)
SwallowFailure(n) ==
    /\ pc[n] \in {"call", "acted"}
    /\ MayFail
    /\ faults' = IF cancelled THEN faults ELSE faults + 1
    /\ pc' = [pc EXCEPT ![n] = "done"]
    /\ outbox' = [outbox EXCEPT ![n] = {}]
    /\ nodeLock' = Unlocked(n)
    /\ UNCHANGED <<given, data, cancelled, readers, sent, main, transfers, oracles>>

(* The RPC fails, before the node acted or after: always possible once the *)
(* context is cancelled, as Run does when a node fails.  Also a panic of   *)
(* f, which worker recovers from after f's own deferred Unlock.            *)
Fail(n) ==
    /\ pc[n] \in {"load", "loaded", "call", "acted"}
    /\ MayFail
    /\ faults' = IF cancelled THEN faults ELSE faults + 1
    /\ cancelled' = (cancelled \/ op = "run")
    /\ pc' = [pc EXCEPT ![n] = "fail"]
    /\ outbox' = [outbox EXCEPT ![n] = {}]
    /\ UNCHANGED <<given, data, readers, sent, main, nodeLock, transfers,
                   oracles>>

(* The answer arrives.  A node that has nothing is not worth a message;    *)
(* one that has the record ends the search.  FindRecords uses the context  *)
(* of the client, and Run waits for the results of all nodes.              *)
Reply(n) ==
    /\ pc[n] = "acted"
    /\ IF outbox[n] = {} /\ op # "run"
       THEN /\ pc' = [pc EXCEPT ![n] = "done"]
            /\ nodeLock' = Unlocked(n)
            /\ UNCHANGED cancelled
       ELSE /\ pc' = [pc EXCEPT ![n] = "send"]
            /\ cancelled' = (cancelled \/ op \notin {"find", "run"})
            /\ UNCHANGED nodeLock
    /\ UNCHANGED <<given, data, outbox, faults, readers, sent, main, transfers, oracles>>

(* What a worker sends: the records one by one; Run, one result per node.  *)
Values(n) == IF op = "run" THEN {outbox[n]} ELSE outbox[n]

(* A send on an unbuffered channel: its reader takes the value.            *)
Send(c, v) ==
    /\ c \in reading
    /\ hand[c] = None
    /\ hand' = [hand EXCEPT ![c] = v]
    /\ sent' = [sent EXCEPT ![c] = @ \cup {v}]

SendResult(n) ==
    /\ pc[n] = "send"
    /\ \E r \in Values(n) :
          /\ Send("result", [from |-> n, found |-> r])
          /\ outbox' = [outbox EXCEPT ![n] = IF op = "run" THEN {} ELSE @ \ {r}]
    /\ IF outbox'[n] = {}
       THEN /\ pc' = [pc EXCEPT ![n] = "done"]
            /\ nodeLock' = Unlocked(n)
       ELSE UNCHANGED <<pc, nodeLock>>
    /\ UNCHANGED <<given, data, cancelled, faults, reading, gathered, main,
                   transfers, oracles>>

SendError(n) ==
    /\ pc[n] = "fail"
    /\ Send("error", n)
    /\ pc' = [pc EXCEPT ![n] = "done"]
    /\ nodeLock' = Unlocked(n)
    /\ UNCHANGED <<given, data, outbox, cancelled, faults, reading,
                   gathered, main, transfers, oracles>>

-----------------------------------------------------------------------------
(* The readers and doParallel.                                             *)

(* Mutant: a reader stops after one value.                                 *)
GatherOne(c) ==
    /\ hand[c] # None
    /\ gathered' = [gathered EXCEPT ![c] = @ \cup {hand[c]}]
    /\ hand' = [hand EXCEPT ![c] = None]
    /\ reading' = reading \ {c}
    /\ UNCHANGED <<given, data, pc, outbox, cancelled, faults,
                   sent, main, nodeLock, transfers, oracles>>

Gather(c) ==
    /\ hand[c] # None
    /\ gathered' = [gathered EXCEPT ![c] = @ \cup {hand[c]}]
    /\ hand' = [hand EXCEPT ![c] = None]
    /\ UNCHANGED <<given, data, pc, outbox, cancelled, faults, reading,
                   sent, main, nodeLock, transfers, oracles>>

EndReader(c) ==
    /\ main = "closed"
    /\ c \in reading
    /\ hand[c] = None
    /\ reading' = reading \ {c}
    /\ UNCHANGED <<given, data, pc, outbox, cancelled, faults, hand,
                   gathered, sent, main, nodeLock, transfers, oracles>>

(* Mutant: wg counts one worker.                                           *)
CloseAfterOne ==
    /\ main = "working"
    /\ members = {} \/ \E n \in members : pc[n] = "done"
    /\ main' = "closed"
    /\ UNCHANGED <<given, data, pc, outbox, cancelled, faults, readers,
                   sent, nodeLock, transfers, oracles>>

(* wg.Wait, then both channels are closed.                                 *)
Close ==
    /\ main = "working"
    /\ \A n \in members : pc[n] = "done"
    /\ main' = "closed"
    /\ UNCHANGED <<given, data, pc, outbox, cancelled, faults, readers,
                   sent, nodeLock, transfers, oracles>>

Answered == main \in {"ok", "not found", "error"}

(* What the handlers make of results and errs: FindRecords and Run need    *)
(* every node, and the merge of Run (module Merger) may fail; the others   *)
(* need one node that has the record.                                      *)
AnswerOfAll(errs) == {IF errs # {} THEN "error" ELSE "ok"}

AnswerOfRun(errs) == IF errs # {} THEN {"error"} ELSE {"ok", "error"}

AnswerOfOne(results, errs) ==
    CASE results # {} -> {"ok"}
      [] results = {} /\ errs = {} -> {"not found"}
      [] OTHER -> {"error"}

Answer(results, errs) ==
    CASE op = "find" -> AnswerOfAll(errs)
      [] op = "run" -> AnswerOfRun(errs)
      [] OTHER -> AnswerOfOne(results, errs)

(* Mutant: readersWg is not waited for.                                    *)
ReturnEarly ==
    /\ main = "closed"
    /\ main' \in Answer(gathered["result"], gathered["error"])
    /\ cancelled' = TRUE
    /\ UNCHANGED <<given, data, pc, outbox, faults, readers, sent,
                   nodeLock, transfers, oracles>>

(* readersWg.Wait, the handler's answer and its deferred cf.               *)
Return ==
    /\ main = "closed"
    /\ reading = {}
    /\ main' \in Answer(gathered["result"], gathered["error"])
    /\ cancelled' = TRUE
    /\ UNCHANGED <<given, data, pc, outbox, faults, readers, sent,
                   nodeLock, transfers, oracles>>

(* Run's other deferred function comes after cf: it deletes the temporary  *)
(* oracles with the ctx that newCommContext gave, which cf has cancelled   *)
(* by then, so that every RPC of it may fail.                              *)
CleanUp(n) ==
    /\ Answered
    /\ n \in ours
    /\ ours' = ours \ {n}
    /\ \/ temps' = temps \ {n} /\ UNCHANGED faults
       \/ /\ MayFail
          /\ temps' = temps
          /\ faults' = IF cancelled THEN faults ELSE faults + 1
    /\ UNCHANGED <<given, data, pc, outbox, cancelled,
                   readers, sent, main, nodeLock, transfers>>

-----------------------------------------------------------------------------
(* transfer: lists records of one node under the locks of both nodes,      *)
(* stores them on the other, then deletes them.                            *)

StartMove(from, to) ==
    /\ moves < MaxMoves
    /\ {from, to} \subseteq members
    /\ from # to
    /\ move = None
    /\ nodeLock[from] = None /\ nodeLock[to] = None
    /\ \E id \in Ids :
          /\ data[from][id] # None
          /\ move' = [from |-> from, to |-> to, id |-> id,
                      version |-> data[from][id], stored |-> FALSE]
    /\ moves' = moves + 1
    /\ nodeLock' = [nodeLock EXCEPT ![from] = "transfer", ![to] = "transfer"]
    /\ UNCHANGED <<given, data, pc, outbox, cancelled, faults, readers,
                   sent, main, oracles>>

StoreMoved ==
    /\ move # None
    /\ ~move.stored
    /\ data' = [data EXCEPT ![move.to][move.id] = move.version]
    /\ move' = [move EXCEPT !.stored = TRUE]
    /\ UNCHANGED <<given, pc, outbox, cancelled, faults, readers, sent,
                   main, nodeLock, moves, oracles>>

DeleteMoved ==
    /\ move # None
    /\ move.stored
    /\ data' = [data EXCEPT ![move.from][move.id] = None]
    /\ nodeLock' = [nodeLock EXCEPT ![move.from] = None, ![move.to] = None]
    /\ move' = None
    /\ UNCHANGED <<given, pc, outbox, cancelled, faults, readers, sent,
                   main, moves, oracles>>

Work(n) == Start(n) \/ Load(n) \/ Remember(n) \/ Act(n) \/ Fail(n) \/ Reply(n) \/ SendResult(n) \/ SendError(n)

Read(c) == Gather(c) \/ EndReader(c)

Next ==
    \/ \E n \in members : Work(n)
    \/ \E c \in Channels : Read(c)
    \/ Close
    \/ Return
    \/ \E n \in members : CleanUp(n)
    \/ \E from, to \in members : StartMove(from, to)
    \/ StoreMoved
    \/ DeleteMoved

(* Goroutines that can run do run, and an RPC ends: the contexts of        *)
(* newCommContext have a timeout.  FindRecords has none of its own: there  *)
(* it is the client's context that ends the RPC, at the latest with its    *)
(* connection.  Nothing makes a transfer start.                            *)
Fairness ==
    /\ \A n \in Nodes : WF_vars(Work(n)) /\ WF_vars(CleanUp(n))
    /\ \A c \in Channels : WF_vars(Read(c))
    /\ WF_vars(Close) /\ WF_vars(Return)
    /\ WF_vars(StoreMoved) /\ WF_vars(DeleteMoved)

Spec == Init /\ [][Next]_vars /\ Fairness

-----------------------------------------------------------------------------
(* Properties.                                                             *)

Returned == Answered /\ ours = {}
FirstHolders(id) == {n \in members : first[n][id] # None}

(* paralleliser.go: when doParallel returns, results and errs hold all     *)
(* that the workers sent, and a worker never sends on a closed channel     *)
(* (which would crash the master).                                         *)
AllGathered ==
    /\ main # "working" => \A n \in Nodes : pc[n] = "done"
    /\ Returned => gathered = sent

(* "not found" is the truth: no node had the record and no node failed to  *)
(* say so.  Except when a transfer moved records during the call: a node   *)
(* may be asked before it receives a record and the other after it gave it *)
(* away.                                                                   *)
NotFoundMeansNowhere ==
    main = "not found" =>
        /\ sent["error"] = {}
        /\ moves = 0 => FirstHolders(Arg) = {}

AllRecords ==
    UNION {{[node |-> n, id |-> id, version |-> "old"] :
              id \in {i \in Ids : first[n][i] # None}} : n \in members}

(* What the success of each handler means, for a record one node has:      *)
(* after DeleteRecord nobody has it, also if a transfer moved it, thanks   *)
(* to the locks of the nodes; after UpdateRecord the node has the new      *)
(* contents, unless a transfer had listed the old ones; FindRecords        *)
(* returns every record of every node, and Run has seen each of them once. *)
SuccessMeansDone ==
    main = "ok" =>
        CASE op = "delete" ->
                Cardinality(FirstHolders(Arg)) = 1 =>
                    \A n \in members : data[n][Arg] = None
          [] op = "update" ->
                Cardinality(FirstHolders(Arg)) = 1 /\ moves = 0 =>
                    \A n \in FirstHolders(Arg) : data[n][Arg] = "new"
          [] op = "read" -> \E r \in gathered["result"] : r.found.id = Arg
          [] op = "find" -> moves = 0 => {r.found : r \in gathered["result"]} = AllRecords
          [] op = "run" ->
                /\ {r.from : r \in gathered["result"]} = members
                /\ moves = 0 => UNION {r.found : r \in gathered["result"]} = AllRecords

(* mux_runner.go:89, "cleanup created oracles": when Run has returned and  *)
(* no RPC failed of itself, no node has a temporary oracle left.           *)
TemporariesRemoved == Returned /\ faults = 0 => temps = {}

(* Every call returns, whatever fails.                                     *)
CallsReturn == <>Returned

=============================================================================
