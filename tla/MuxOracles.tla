----------------------------- MODULE MuxOracles -----------------------------
(***************************************************************************)
(* master/mux_oracles.go and oracle_stealer.go: the oracles of a master.   *)
(* It keeps them in memory (raccoons) and takes over the ones it finds on  *)
(* a node when the node is added, or when it starts itself: each is read,  *)
(* stored by the master, and deleted on the node.  An oracle is its name   *)
(* and code, compared as a whole (IsEqualTo); the master's parser needs    *)
(* more of it than a node's compiler does.                                 *)
(***************************************************************************)
EXTENDS Naturals, FiniteSets

CONSTANTS
    Nodes,          \* node addresses
    Clients,        \* goroutines that serve CreateOracle and UpdateOracle calls
    Oracles,        \* names with code
    Unparsable,     \* the oracles NewAstRaccoon rejects
    Temporaries,    \* the ones a Run may leave behind on a node
    MaxId,          \* bound: identifiers of oracles, on nodes and master
    MaxFaults,      \* bound: RPCs that fail in a behaviour
    MaxRestarts,    \* bound: restarts of the master
    None            \* no oracle, no call

ASSUME MuxOraclesAssumption ==
    /\ Unparsable \cup Temporaries \subseteq Oracles
    /\ MaxId \in Nat \ {0} /\ MaxFaults \in Nat /\ MaxRestarts \in Nat
    /\ None \notin Oracles

Ids == 1 .. MaxId

VARIABLES
    raccoons,       \* the oracles of the master, by identifier
    nextRaccoonId,
    store,          \* the oracles of each node, by identifier
    nodeNext,       \* the next identifier of each node
    members,        \* the nodes the master manages
    creating,       \* CreateOracle calls past doIHaveThisOracle: the oracle
    steal,          \* the theft in progress: [node, i, n, at, oracle]
    queue,          \* the nodes a master that starts has still to rob
    starting,       \* NewService has not returned: no client is served
    faults, restarts,
    known,          \* history: oracles clients have stored and not replaced or
                    \* deleted, and no restart of the master has lost
    twice           \* history: oracles two calls at once were about to store,
                    \* or that an UpdateOracle turned another one into

cage == <<raccoons, nextRaccoonId>>
nodes == <<store, nodeNext>>
theft == <<members, steal, queue, starting>>
bounds == <<faults, restarts>>
vars == <<cage, nodes, theft, creating, bounds, known, twice>>

Caged == {raccoons[id] : id \in Ids} \ {None}
Kept(n) == {store[n][id] : id \in Ids} \ {None}
NumOracles(n) == Cardinality({id \in Ids : store[n][id] # None})
Stealing == steal # None

TypeOK ==
    /\ raccoons \in [Ids -> Oracles \cup {None}]
    /\ nextRaccoonId \in 1 .. MaxId + 1
    /\ store \in [Nodes -> [Ids -> Oracles \cup {None}]]
    /\ nodeNext \in [Nodes -> 1 .. MaxId + 1]
    /\ members \subseteq Nodes /\ queue \subseteq members /\ starting \in BOOLEAN
    /\ creating \in [Clients -> Oracles \cup {None}]
    /\ Stealing => steal \in [node : Nodes, i : 1 .. MaxId + 1, n : 0 .. MaxId,
                              at : {"read", "check", "create", "store", "delete"},
                              oracle : Oracles \cup {None}]

Init ==
    /\ raccoons = [id \in Ids |-> None]
    /\ nextRaccoonId = 1
    /\ store = [n \in Nodes |-> [id \in Ids |-> None]]
    /\ nodeNext = [n \in Nodes |-> 1]
    /\ members = {} /\ queue = {}
    /\ starting = FALSE
    /\ creating = [c \in Clients |-> None]
    /\ steal = None
    /\ faults = 0 /\ restarts = 0
    /\ known = {} /\ twice = {}

-----------------------------------------------------------------------------
(* Clients of the master.                                                  *)

doIHaveThisOracle(o) == o \in Caged

(* Somebody has looked for the oracle, in vain, and will store it.         *)
AboutToStore(o) ==
    \/ \E c \in Clients : creating[c] = o
    \/ Stealing /\ steal.at = "store" /\ steal.oracle = o

Mark(o, doubled) == twice' = IF doubled THEN twice \cup {o} ELSE twice

(* NewAstRaccoon.                                                          *)
Parses(o) == o \notin Unparsable

(* Mutant: an equal oracle is not looked for.                              *)
CreateOracleUnchecked(c, o) ==
    /\ ~starting
    /\ creating[c] = None
    /\ Parses(o)
    /\ Mark(o, AboutToStore(o))
    /\ creating' = [creating EXCEPT ![c] = o]
    /\ UNCHANGED <<cage, nodes, theft, bounds, known>>

(* CreateOracle up to the cageLock.                                        *)
CreateOracle(c, o) ==
    /\ ~starting
    /\ creating[c] = None
    /\ ~doIHaveThisOracle(o)
    /\ Parses(o)
    /\ Mark(o, AboutToStore(o))
    /\ creating' = [creating EXCEPT ![c] = o]
    /\ UNCHANGED <<cage, nodes, theft, bounds, known>>

Insert(o) ==
    /\ nextRaccoonId <= MaxId
    /\ raccoons[nextRaccoonId] = None
    /\ raccoons' = [raccoons EXCEPT ![nextRaccoonId] = o]
    /\ nextRaccoonId' = nextRaccoonId + 1

StoreOracle(c) ==
    /\ creating[c] # None
    /\ Insert(creating[c])
    /\ known' = known \cup {creating[c]}
    /\ creating' = [creating EXCEPT ![c] = None]
    /\ UNCHANGED <<nodes, theft, bounds, twice>>

(* UpdateOracle does not look for an equal one.                            *)
UpdateOracle(id, o) ==
    /\ ~starting
    /\ raccoons[id] # None
    /\ Parses(o)
    /\ raccoons' = [raccoons EXCEPT ![id] = o]
    /\ Mark(o, AboutToStore(o) \/ o \in {raccoons[j] : j \in Ids \ {id}})
    /\ known' = (known \ {raccoons[id]}) \cup {o}
    /\ UNCHANGED <<nextRaccoonId, nodes, theft, creating, bounds>>

DeleteOracle(id) ==
    /\ ~starting
    /\ raccoons[id] # None
    /\ raccoons' = [raccoons EXCEPT ![id] = None]
    /\ known' = known \ {raccoons[id]}
    /\ UNCHANGED <<nextRaccoonId, nodes, theft, creating, bounds, twice>>

-----------------------------------------------------------------------------
(* The nodes.                                                              *)

PutOnNode(n, o) ==
    /\ nodeNext[n] <= MaxId
    /\ store' = [store EXCEPT ![n][nodeNext[n]] = o]
    /\ nodeNext' = [nodeNext EXCEPT ![n] = @ + 1]
    /\ UNCHANGED <<cage, theft, creating, bounds, twice>>

(* A client stores an oracle on a node that no master manages.             *)
NodeCreateOracle(n, o) ==
    /\ n \notin members
    /\ PutOnNode(n, o)
    /\ known' = known \cup {o}

NodeDeleteOracle(n, id) ==
    /\ n \notin members
    /\ store[n][id] # None
    /\ store' = [store EXCEPT ![n][id] = None]
    /\ known' = known \ {store[n][id]}
    /\ UNCHANGED <<cage, nodeNext, theft, creating, bounds, twice>>

(* Run leaves its temporary oracle behind (see Parallel).                  *)
LeaveTemporary(n, o) ==
    /\ ~starting /\ n \in members
    /\ PutOnNode(n, o)
    /\ UNCHANGED known

-----------------------------------------------------------------------------
(* Stealing.  nodesLock is held, or the master is starting: one theft at a *)
(* time.                                                                   *)

Rob(n) == [node |-> n, i |-> 1, n |-> NumOracles(n), at |-> "read", oracle |-> None]

(* AddNode.                                                                *)
AddNode(n) ==
    /\ n \notin members
    /\ ~Stealing /\ ~starting
    /\ members' = members \cup {n}
    /\ steal' = Rob(n)
    /\ UNCHANGED <<cage, nodes, queue, starting, creating, bounds, known, twice>>

(* DeleteNode does not concern the oracles.                                *)
DeleteNode(n) ==
    /\ n \in members
    /\ ~Stealing /\ ~starting
    /\ members' = members \ {n}
    /\ UNCHANGED <<cage, nodes, steal, queue, starting, creating, bounds, known, twice>>

Continue(at) == steal' = [steal EXCEPT !.at = at]
NextOracle == steal' = [steal EXCEPT !.i = @ + 1, !.at = "read", !.oracle = None]

MayFail == faults < MaxFaults /\ faults' = faults + 1

(* ReadOracle of a node.                                                   *)
ReadOracle(n, id) == store[n][id]

(* deployAgentSmith, from ReadOracle on.  An identifier that is not there  *)
(* is an error, and so ends this one.                                      *)
Read ==
    /\ Stealing /\ steal.at = "read" /\ steal.i <= steal.n
    /\ LET o == ReadOracle(steal.node, steal.i) IN
       \/ o = None /\ NextOracle /\ UNCHANGED faults
       \/ o # None /\ steal' = [steal EXCEPT !.at = "check", !.oracle = o] /\ UNCHANGED faults
       \/ NextOracle /\ MayFail
    /\ UNCHANGED <<cage, nodes, members, queue, starting, creating, restarts, known, twice>>

(* Mutant: an oracle that the master has already is left on the node.      *)
CheckOrSkip ==
    /\ Stealing /\ steal.at = "check"
    /\ IF doIHaveThisOracle(steal.oracle) THEN NextOracle ELSE Continue("create")
    /\ UNCHANGED <<cage, nodes, members, queue, starting, creating, bounds, known, twice>>

Check ==
    /\ Stealing /\ steal.at = "check"
    /\ Continue(IF doIHaveThisOracle(steal.oracle) THEN "delete" ELSE "create")
    /\ UNCHANGED <<cage, nodes, members, queue, starting, creating, bounds, known, twice>>

(* Mutant: an oracle that cannot be loaded is deleted all the same.        *)
CreateOrDrop ==
    /\ Stealing /\ steal.at = "create"
    /\ Mark(steal.oracle, AboutToStore(steal.oracle) \/ doIHaveThisOracle(steal.oracle))
    /\ IF doIHaveThisOracle(steal.oracle) \/ ~Parses(steal.oracle)
       THEN Continue("delete")
       ELSE Continue("store")
    /\ UNCHANGED <<cage, nodes, members, queue, starting, creating, bounds, known>>

(* CreateOracle checks again, and parses.                                  *)
Create ==
    /\ Stealing /\ steal.at = "create"
    /\ Mark(steal.oracle, AboutToStore(steal.oracle) \/ doIHaveThisOracle(steal.oracle))
    /\ IF doIHaveThisOracle(steal.oracle) \/ ~Parses(steal.oracle)
       THEN NextOracle
       ELSE Continue("store")
    /\ UNCHANGED <<cage, nodes, members, queue, starting, creating, bounds, known>>

Store ==
    /\ Stealing /\ steal.at = "store"
    /\ Insert(steal.oracle)
    /\ Continue("delete")
    /\ UNCHANGED <<nodes, members, queue, starting, creating, bounds, known, twice>>

(* The deletion may fail, before or after the node acted: only a warning.  *)
Delete ==
    /\ Stealing /\ steal.at = "delete"
    /\ NextOracle
    /\ \/ store' = [store EXCEPT ![steal.node][steal.i] = None] /\ UNCHANGED faults
       \/ store' \in {store, [store EXCEPT ![steal.node][steal.i] = None]} /\ MayFail
    /\ UNCHANGED <<cage, nodeNext, members, queue, starting, creating, restarts, known, twice>>

EndTheft ==
    /\ Stealing /\ steal.at = "read" /\ steal.i > steal.n
    /\ steal' = None
    /\ starting' = (queue # {})
    /\ UNCHANGED <<cage, nodes, members, queue, creating, bounds, known, twice>>

(* The master restarts with the same nodes: the cage is gone, and the      *)
(* oracles in it, which are on no node any more.  NewService then robs     *)
(* every node, before it serves clients.                                   *)
Restart ==
    /\ restarts < MaxRestarts
    /\ restarts' = restarts + 1
    /\ raccoons' = [id \in Ids |-> None]
    /\ nextRaccoonId' = 1
    /\ creating' = [c \in Clients |-> None]
    /\ steal' = None
    /\ queue' = members
    /\ starting' = (members # {})
    /\ known' = known \cap UNION {Kept(n) : n \in Nodes}
    /\ twice' = {}
    /\ UNCHANGED <<nodes, members, faults>>

stealOracles ==
    /\ ~Stealing
    /\ \E n \in queue :
          /\ steal' = Rob(n)
          /\ queue' = queue \ {n}
    /\ UNCHANGED <<cage, nodes, members, starting, creating, bounds, known, twice>>

Next ==
    \/ \E o \in Oracles \ Temporaries :
          \/ \E c \in Clients : CreateOracle(c, o)
          \/ \E id \in Ids : UpdateOracle(id, o)
          \/ \E n \in Nodes : NodeCreateOracle(n, o)
    \/ \E c \in Clients : StoreOracle(c)
    \/ \E id \in Ids : DeleteOracle(id)
    \/ \E n \in Nodes :
          \/ AddNode(n) \/ DeleteNode(n)
          \/ \E id \in Ids : NodeDeleteOracle(n, id)
          \/ \E o \in Temporaries : LeaveTemporary(n, o)
    \/ Read \/ Check \/ Create \/ Store \/ Delete \/ EndTheft
    \/ Restart \/ stealOracles

Spec == Init /\ [][Next]_vars

-----------------------------------------------------------------------------
(* Properties.                                                             *)

(* Taking oracles over loses none: an oracle that a client has stored, on  *)
(* the master or on a node, is in the cage or on a node until a client     *)
(* replaces or deletes it, whichever RPCs fail.  Except that a master that *)
(* restarts forgets its cage.                                              *)
NoOracleLost == known \subseteq Caged \cup UNION {Kept(n) : n \in Nodes}

(* The cage holds no oracle twice, unless two calls tested for it before   *)
(* either stored it (mux_oracles.go:13 against 26), or UpdateOracle made   *)
(* an equal one.                                                           *)
NoDoubles ==
    \A i, j \in Ids : i # j /\ raccoons[i] = raccoons[j] =>
        raccoons[i] \in twice \cup {None}

(* A theft during which no RPC fails leaves only what the master cannot    *)
(* parse, and what has an identifier above the number of the node's        *)
(* oracles: stealOraclesFromNode counts from 1 to that number, though      *)
(* deletions leave gaps.                                                   *)
TheftIsComplete ==
    Stealing /\ steal.i > steal.n /\ faults = 0 =>
        \A id \in 1 .. steal.n :
            store[steal.node][id] \in Unparsable \cup twice \cup {None}

=============================================================================
