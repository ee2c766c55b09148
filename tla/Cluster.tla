------------------------------ MODULE Cluster ------------------------------
(***************************************************************************)
(* master/: a master that spreads records over nodes (mux_records.go,      *)
(* mux_nodes.go, balancer.go, node.go, mux_service.go).                    *)
(*                                                                         *)
(* A node is what the master sees of it through its RPCs: the records of   *)
(* its Index and the nextID its Info reports (CreateWithId, the only way a *)
(* master stores records, does not advance that one).  An RPC either is    *)
(* answered, or fails: before the node acted on it or after (the answer is *)
(* lost, the client's context is cancelled).                               *)
(*                                                                         *)
(* nodesLock is held by AddNode and DeleteNode for all their transfers     *)
(* (plan), while the other handlers share it; the lock of each NodeInfo    *)
(* makes one transfer, and one RPC that changes a count, atomic.  Only     *)
(* CreateRecord uses a node after it gave up nodesLock.                    *)
(***************************************************************************)
EXTENDS Balancer, FiniteSets

CONSTANTS
    Nodes,          \* node addresses
    Threads,        \* goroutines that serve CreateRecord calls
    Vals,           \* contents of records
    MaxId,          \* bound: the largest identifier the master assigns
    None,           \* no record, no call
    FirstMembers,   \* the nodes of the master's configuration, in order
    FirstIds,       \* the identifiers each node's folder starts with
    FaultyRPCs,     \* which RPCs may fail: "create", "delete", "update",
                    \* "transfer"; and "save", writing the configuration
    MaxFaults,      \* bound: RPCs and writes that fail in a behaviour
    MaxLeaves,      \* bound: DeleteNode calls in a behaviour
    Rejoin,         \* AddNode is also called for a node that a DeleteNode is
                    \* still emptying
    Configured,     \* the master was given a configuration file
    Restarts        \* the master is restarted: "never", only when its
                    \* configuration is "saved", or at "any" time

ASSUME ClusterAssumption ==
    /\ MaxId \in Nat \ {0} /\ MaxFaults \in Nat
    /\ FirstMembers \in Seq(Nodes)
    /\ FirstIds \in [Nodes -> SUBSET (1 .. MaxId)]
    /\ None \notin Vals /\ None \notin Nodes /\ None \notin Seq(Nodes)
    /\ MaxLeaves \in Nat /\ Rejoin \in BOOLEAN
    /\ Configured \in BOOLEAN /\ Restarts \in {"never", "saved", "any"}

Ids == 1 .. MaxId

VARIABLES
    members,    \* Service.nodes
    nextId,     \* Service.nextId
    status,     \* NodeInfo.status.Records of each node
    plan,       \* transfers the holder of nodesLock has left to do
    creating,   \* CreateRecord calls that have chosen their node; dropped
                \* if that node was deleted since
    joining,    \* AddNode calls that have connected: what Info returned
    config,     \* the nodes in the configuration file; None: unreadable
    saving,     \* how many updateConfig goroutines have not run yet
    data,       \* the records of each node
    nodeNext,   \* nextID of each node
    faults,     \* RPCs and writes that failed so far
    leaves,     \* DeleteNode calls so far
    acked       \* history: the records that clients were told are stored

(* What AddNode, DeleteNode and updateConfig are about.                    *)
admin == <<members, joining, config, saving, leaves>>

vars == <<admin, nextId, status, plan, creating, data, nodeNext, faults, acked>>

Has(n, id) == data[n][id] # None
Held(n) == {id \in Ids : Has(n, id)}
Size(n) == Cardinality(Held(n))
Members == ToSet(members)
Holders(id) == {n \in Members : Has(n, id)}

(* Info's NextRecordId of a node that has just loaded its folder.          *)
AfterLoad(ids) == IF ids = {} THEN 1 ELSE Max(ids) + 1

Counts(ms, st) == [i \in DOMAIN ms |-> st[ms[i]]]

(* The plan of balance, with the nodes in place of their positions.        *)
Rebalance(ms, st) ==
    LET p == BalancePlan(Counts(ms, st)) IN
    [k \in DOMAIN p |-> [from |-> ms[p[k].from], to |-> ms[p[k].to], n |-> p[k].n]]

TypeOK ==
    /\ members \in Seq(Nodes)
    /\ nextId \in 1 .. MaxId + 2
    /\ status \in [Nodes -> 0 .. Modulus - 1]
    /\ plan \in Seq([from : Nodes, to : Nodes, n : 0 .. Modulus])
    /\ creating \in [Threads -> [to : Nodes, val : Vals, dropped : BOOLEAN] \cup {None}]
    /\ joining \in [Nodes -> [records : 0 .. MaxId, next : 1 .. MaxId + 1] \cup {None}]
    /\ config \in Seq(Nodes) \cup {None}
    /\ saving \in Nat
    /\ data \in [Nodes -> [Ids -> Vals \cup {None}]]
    /\ nodeNext \in [Nodes -> 1 .. MaxId + 1]
    /\ faults \in 0 .. MaxFaults
    /\ leaves \in 0 .. MaxLeaves
    /\ acked \in [Ids -> Vals \cup {None}]

(* NewService, on nodes that may have records: nextId starts from 1.       *)
Init ==
    /\ members = FirstMembers
    /\ nextId = 1
    /\ \E v \in Vals :
          /\ data = [n \in Nodes |-> [id \in Ids |->
                        IF id \in FirstIds[n] THEN v ELSE None]]
          /\ acked = [id \in Ids |->
                        IF \E n \in ToSet(FirstMembers) : id \in FirstIds[n]
                        THEN v ELSE None]
    /\ status = [n \in Nodes |-> Cardinality(FirstIds[n])]
    /\ plan = Rebalance(FirstMembers, status)
    /\ creating = [t \in Threads |-> None]
    /\ joining = [n \in Nodes |-> None]
    /\ config = FirstMembers
    /\ saving = 0
    /\ nodeNext = [n \in Nodes |-> AfterLoad(FirstIds[n])]
    /\ faults = 0
    /\ leaves = 0

Unlocked == plan = <<>>

Fault(rpc) ==
    /\ rpc \in FaultyRPCs
    /\ faults < MaxFaults
    /\ faults' = faults + 1

(* Mutant: without the comparison.                                         *)
SetNextId(newId) == newId + 1

SetNextIdIfHigher(newId) == IF nextId <= newId THEN newId + 1 ELSE nextId

(***************************************************************************)
(* CreateRecord: choose the node with the fewest records; then, under the  *)
(* lock of that node and of nextId, store the record there.                *)
(***************************************************************************)
PickNode(t, v) ==
    /\ creating[t] = None
    /\ Unlocked /\ members # <<>>
    /\ creating' = [creating EXCEPT ![t] =
          [to |-> members[LessLoaded(Counts(members, status))], val |-> v,
           dropped |-> FALSE]]
    /\ UNCHANGED <<admin, nextId, status, plan, data, nodeNext, faults, acked>>

Put(n, id, v) == data' = [data EXCEPT ![n][id] = v]

(* The node has the identifier: ErrInvalidID, and nextId stays.            *)
CreateRefused(c) ==
    /\ Has(c.to, nextId)
    /\ UNCHANGED <<nextId, status, data, faults, acked>>

(* The count of a node that left is kept in a NodeInfo nobody reads.       *)
CreateDone(c) ==
    /\ ~Has(c.to, nextId)
    /\ Put(c.to, nextId, c.val)
    /\ nextId' = nextId + 1
    /\ status' = IF c.dropped THEN status
                 ELSE [status EXCEPT ![c.to] = Unsigned(@ + 1)]
    /\ acked' = [acked EXCEPT ![nextId] = c.val]
    /\ UNCHANGED faults

(* An error: the node may have stored the record or not, the master counts *)
(* nothing and will assign the same identifier again.                      *)
CreateError(c) ==
    /\ Fault("create")
    /\ \/ ~Has(c.to, nextId) /\ Put(c.to, nextId, c.val)
       \/ UNCHANGED data
    /\ UNCHANGED <<nextId, status, acked>>

CreateRecord(t) ==
    /\ creating[t] # None
    /\ nextId <= MaxId
    /\ LET c == creating[t] IN CreateRefused(c) \/ CreateDone(c) \/ CreateError(c)
    /\ creating' = [creating EXCEPT ![t] = None]
    /\ UNCHANGED <<admin, plan, nodeNext>>

(***************************************************************************)
(* UpdateRecord and DeleteRecord ask all nodes at once; the first success  *)
(* cancels the other requests, which a node may have served nevertheless.  *)
(***************************************************************************)
UpdateRecord(id, v) ==
    /\ Unlocked
    /\ \E served \in SUBSET Holders(id) :
          /\ \/ served # {} /\ UNCHANGED faults
             \/ Fault("update")
          /\ data' = [n \in Nodes |-> IF n \in served
                        THEN [data[n] EXCEPT ![id] = v] ELSE data[n]]
          /\ acked' = IF served = {} THEN acked ELSE [acked EXCEPT ![id] = v]
    /\ UNCHANGED <<admin, nextId, status, plan, creating, nodeNext>>

(* answered: the nodes whose answer arrives, which are the ones counted.   *)
DeleteRecord(id) ==
    /\ Unlocked
    /\ \E served \in SUBSET Holders(id) : \E answered \in SUBSET served :
          /\ \/ answered # {} /\ UNCHANGED faults
             \/ Fault("delete")
          /\ data' = [n \in Nodes |-> IF n \in served
                        THEN [data[n] EXCEPT ![id] = None] ELSE data[n]]
          /\ status' = [n \in Nodes |-> IF n \in answered
                          THEN Unsigned(status[n] - 1) ELSE status[n]]
          /\ acked' = IF served = {} THEN acked ELSE [acked EXCEPT ![id] = None]
    /\ UNCHANGED <<admin, nextId, plan, creating, nodeNext>>

(* One node's UpdateStatus: by NodeUpdater, under nodesLock, or by the     *)
(* goroutine that stealOraclesFromNode started when the node was added,    *)
(* which runs at any time.  (A superset: for a node whose AddNode is not   *)
(* done that goroutine does not exist yet.)                                *)
UpdateStatus(n) ==
    /\ n \in Members
    /\ status' = [status EXCEPT ![n] = Size(n)]
    /\ UNCHANGED <<admin, nextId, plan, creating, data, nodeNext, faults, acked>>

(* NodeUpdater calls it at every tick: one node after the other.           *)
UpdateNodes == \E n \in Nodes : UpdateStatus(n)

(* Mutant: no goroutine is started.                                        *)
GoUpdateConfigForgotten == UNCHANGED saving

(* AddNode and DeleteNode start an updateConfig goroutine.                 *)
GoUpdateConfig == saving' = saving + 1

(***************************************************************************)
(* AddNode: CreateNode reads the status of the node before the lock is     *)
(* taken; the rest runs under it.                                          *)
(***************************************************************************)
CreateNode(n) ==
    /\ n \notin Members /\ joining[n] = None
    /\ Rejoin \/ \A t \in ToSet(plan) : t.from # n
    /\ joining' = [joining EXCEPT ![n] = [records |-> Size(n), next |-> nodeNext[n]]]
    /\ UNCHANGED <<members, config, saving, leaves, nextId, status, plan, creating,
                   data, nodeNext, faults, acked>>

AddNode(n) ==
    /\ Unlocked
    /\ joining[n] # None
    /\ nextId' = SetNextIdIfHigher(joining[n].next)
    /\ members' = Append(members, n)
    /\ status' = [status EXCEPT ![n] = joining[n].records]
    /\ joining' = [joining EXCEPT ![n] = None]
    /\ acked' = [id \in Ids |-> IF acked[id] = None THEN data[n][id] ELSE acked[id]]
    /\ plan' = Rebalance(members', status')
    /\ GoUpdateConfig
    /\ UNCHANGED <<leaves, config, creating, data, nodeNext, faults>>

(* DeleteNode: the last node takes the place of the one that leaves, whose *)
(* cached number of records is shared out.  The last node leaves with all  *)
(* its records, and takes what was promised of them along.                 *)
WithoutNode(i) ==
    SubSeq([members EXCEPT ![i] = members[Len(members)]], 1, Len(members) - 1)

DeleteNode(i) ==
    LET n == members[i]
        rest == WithoutNode(i)
        p == DrainPlan(status[n], Len(rest))
    IN  /\ leaves < MaxLeaves
        /\ leaves' = leaves + 1
        /\ Unlocked
        /\ members' = rest
        /\ plan' = [k \in DOMAIN p |-> [from |-> n, to |-> rest[p[k].to], n |-> p[k].n]]
        /\ GoUpdateConfig
        /\ acked' = IF rest = <<>> THEN [id \in Ids |-> None] ELSE acked
        /\ creating' = [t \in Threads |->
              IF creating[t] # None /\ creating[t].to = n
              THEN [creating[t] EXCEPT !.dropped = TRUE] ELSE creating[t]]
        /\ UNCHANGED <<config, nextId, status, joining, data, nodeNext, faults>>

(***************************************************************************)
(* transfer: list the first records of the source, by identifier, store    *)
(* them on the target, delete them from the source.  The node's            *)
(* ListRecords takes a page of no records for a page of one.               *)
(***************************************************************************)
FirstPage(n, k) ==
    {id \in Held(n) : Cardinality({j \in Held(n) : j < id}) < (IF k = 0 THEN 1 ELSE k)}

(* Mutant: the last record of the page is not stored.                      *)
CopiedButLast(d, from, to, ids) ==
    [d EXCEPT ![to] = [id \in Ids |->
        IF \E j \in ids : id \in ids /\ id < j THEN d[from][id] ELSE @[id]]]

Copied(d, from, to, ids) ==
    [d EXCEPT ![to] = [id \in Ids |-> IF id \in ids THEN d[from][id] ELSE @[id]]]

(* Mutant: the source keeps what was moved.                                *)
RemovedNothing(d, n, ids) == d

Removed(d, n, ids) ==
    [d EXCEPT ![n] = [id \in Ids |-> IF id \in ids THEN None ELSE @[id]]]

(* Mutant: the source is not counted down.                                 *)
CountTargetOnly(t) == status' = [status EXCEPT ![t.to] = Unsigned(@ + t.n)]

(* The counters move by the number asked for, not by the number listed.    *)
Count(t) ==
    status' = [status EXCEPT ![t.from] = Unsigned(@ - t.n),
                             ![t.to] = Unsigned(@ + t.n)]

TransferDone(t, ids) ==
    /\ data' = Removed(Copied(data, t.from, t.to, ids), t.from, ids)
    /\ Count(t)
    /\ UNCHANGED faults

(* Mutant: no return after a failed store.                                 *)
TransferGoesOn(t, ids) ==
    /\ Fault("transfer")
    /\ data' = Removed(data, t.from, ids)
    /\ UNCHANGED status

(* ListRecords or CreateRecordsWithId fails: nothing is counted.  The      *)
(* target may have stored the records, or rolled its batch back, which     *)
(* deletes the identifiers of the batch.                                   *)
TransferAborted(t, ids) ==
    /\ Fault("transfer")
    /\ \/ UNCHANGED data
       \/ data' = Copied(data, t.from, t.to, ids)
       \/ data' = Removed(data, t.to, ids)
    /\ UNCHANGED status

(* DeleteRecords fails, "keep going anyway".                               *)
TransferKept(t, ids) ==
    /\ Fault("transfer")
    /\ LET copied == Copied(data, t.from, t.to, ids) IN
       data' = copied \/ data' = Removed(copied, t.from, ids)
    /\ Count(t)

Transfer ==
    /\ plan # <<>>
    /\ LET t == Head(plan)
           ids == FirstPage(t.from, t.n)
       IN  TransferDone(t, ids) \/ TransferAborted(t, ids) \/ TransferKept(t, ids)
    /\ plan' = Tail(plan)
    /\ UNCHANGED <<admin, nextId, creating, nodeNext, acked>>

(***************************************************************************)
(* updateConfig: a goroutine that AddNode and DeleteNode start, and that   *)
(* waits for them to release nodesLock.  Without a file it returns at      *)
(* once.  A write that fails is logged and not tried again; it leaves the  *)
(* file as it was, or truncated.                                           *)
(***************************************************************************)
NoConfigFile == ~Configured /\ UNCHANGED <<config, faults>>

StoreConfig ==
    /\ Configured /\ Unlocked
    /\ config' = members
    /\ UNCHANGED faults

StoreConfigFails ==
    /\ Configured /\ Unlocked
    /\ Fault("save")
    /\ config' \in {config, None}

UpdateConfig ==
    /\ saving > 0
    /\ saving' = saving - 1
    /\ NoConfigFile \/ StoreConfig \/ StoreConfigFails
    /\ UNCHANGED <<members, joining, leaves, nextId, status, plan, creating, data,
                   nodeNext, acked>>

(***************************************************************************)
(* Restarts: of the master (NewServiceFromConfig), and of a node.          *)
(***************************************************************************)
(* What a master that dies leaves on the nodes: the records as they are,   *)
(* a transfer that did not come to delete them from the source, or the     *)
(* record of a CreateRecord call that was not answered yet.                *)
Unfinished ==
    \/ UNCHANGED data
    \/ /\ plan # <<>>
       /\ LET t == Head(plan) IN
          data' = Copied(data, t.from, t.to, FirstPage(t.from, t.n))
    \/ \E t \in Threads :
          /\ creating[t] # None
          /\ nextId <= MaxId
          /\ ~Has(creating[t].to, nextId)
          /\ Put(creating[t].to, nextId, creating[t].val)

(* Without a file that it can read no master starts.                       *)
LoadConfig == Configured /\ config # None

MasterRestart ==
    /\ LoadConfig
    /\ \/ Restarts = "any"
       \/ Restarts = "saved" /\ Unlocked /\ config = members
    /\ Unfinished
    /\ members' = config
    /\ nextId' = 1
    /\ status' = [n \in Nodes |->
          IF n \in ToSet(config) THEN Cardinality({id \in Ids : data'[n][id] # None})
          ELSE status[n]]
    /\ plan' = Rebalance(config, status')
    /\ creating' = [t \in Threads |-> None]
    /\ joining' = [n \in Nodes |-> None]
    /\ saving' = 0
    /\ UNCHANGED <<config, nodeNext, faults, leaves, acked>>

NodeRestart(n) ==
    /\ nodeNext' = [nodeNext EXCEPT ![n] = AfterLoad(Held(n))]
    /\ UNCHANGED <<admin, nextId, status, plan, creating, data, faults, acked>>

Next ==
    \/ \E t \in Threads : CreateRecord(t) \/ \E v \in Vals : PickNode(t, v)
    \/ \E id \in Ids : DeleteRecord(id) \/ \E v \in Vals : UpdateRecord(id, v)
    \/ UpdateNodes
    \/ \E n \in Nodes : CreateNode(n) \/ AddNode(n) \/ NodeRestart(n)
    \/ \E i \in DOMAIN members : DeleteNode(i)
    \/ Transfer
    \/ UpdateConfig
    \/ MasterRestart

(* The handler that holds nodesLock goes on, and a goroutine that waits    *)
(* for RLock gets it when the writer before it leaves, however many        *)
(* writers follow.                                                         *)
Fairness == WF_vars(Transfer) /\ SF_vars(UpdateConfig)

Spec == Init /\ [][Next]_vars /\ Fairness

(***************************************************************************)
(* Properties.                                                             *)
(***************************************************************************)

(* mux_records.go:99, 136 and 281, "Got %d results when only one was       *)
(* expected": an identifier is stored on one node of the cluster at most.  *)
NoDuplicates == \A id \in Ids : Cardinality(Holders(id)) <= 1

(* Between handlers, every record that a client was told is stored is on a *)
(* node of the cluster, with the contents it was given last.               *)
NoRecordLost ==
    Unlocked => \A id \in Ids : acked[id] # None =>
                    \E n \in Members : data[n][id] = acked[id]

(* Whatever RPC fails, before or after it took effect, and whenever the    *)
(* master dies, in a transfer too: a record that a client was told is      *)
(* stored is on some node, of the cluster or left behind by it.            *)
NoRecordDestroyed ==
    \A id \in Ids : acked[id] # None => \E n \in Nodes : data[n][id] = acked[id]

(* node.go:29, UpdateStatus, and the counts kept by hand in between: what  *)
(* the balancer, _findLessLoadedNode and Info work with are the numbers of *)
(* records the nodes have.                                                 *)
CountsAreExact == \A n \in Members : status[n] = Size(n)

(* service_test.go:840-855, TestDeleteNode: nodes may leave, join and hand *)
(* their records over in any order, and the master may restart: every      *)
(* record stays on exactly one node, and the counts that the next plan is  *)
(* made from are right.                                                    *)
RecordsKept == NoDuplicates /\ NoRecordLost /\ CountsAreExact

(* Whatever nodes come and go, the configuration file catches up with the  *)
(* nodes the master manages, unless writing it fails (config.go:56-58,     *)
(* logged and not tried again); then it does after the next AddNode or     *)
(* DeleteNode, whose updateConfig writes all nodes.                        *)
ConfigCatchesUp ==
    \A k \in 0 .. MaxFaults :
        (faults = k /\ config # members /\ (k = 0 \/ saving > 0))
            ~> (config = members \/ faults # k)

(* The next identifier is not in use anywhere in the cluster.              *)
NextIdIsFree == \A id \in Ids : Holders(id) # {} => id < nextId

=============================================================================
