-------------------------- MODULE MuxOraclesProofs --------------------------
(***************************************************************************)
(* The master loses no oracle while it takes oracles over, stores none     *)
(* twice unless two calls raced, and leaves on a robbed node only what it  *)
(* cannot parse, for every number of nodes, clients and oracles.           *)
(***************************************************************************)
EXTENDS MuxOracles, FiniteSetTheorems, TLAPS

(* A node numbers its oracles upwards.                                     *)
NodesNumberUpwards ==
    \A n \in Nodes, id \in Ids : store[n][id] # None => id < nodeNext[n]

InHand == Stealing /\ steal.at # "read"

(* The thief works on a node of the master, which no client of the node    *)
(* changes; what it has in hand is still there.                            *)
ThiefHolds ==
    /\ ~starting => queue = {}
    /\ Stealing => steal.node \in members /\ steal.n < nodeNext[steal.node]
    /\ InHand => /\ steal.i <= steal.n
                 /\ steal.oracle = store[steal.node][steal.i]
                 /\ steal.oracle # None

(* The copy in hand is not the last one when the thief deletes it.         *)
Elsewhere(o) ==
    \/ \E id \in Ids : raccoons[id] = o
    \/ \E n \in Nodes, id \in Ids :
          store[n][id] = o /\ ~(n = steal.node /\ id = steal.i)

DeletesCopies ==
    Stealing /\ steal.at = "delete" /\ steal.oracle \in known => Elsewhere(steal.oracle)

Somewhere(o) ==
    \/ \E id \in Ids : raccoons[id] = o
    \/ \E n \in Nodes, id \in Ids : store[n][id] = o

KnownIsSomewhere == \A o \in known : o # None /\ Somewhere(o)

(* Of an oracle that no race has doubled there is at most one call about   *)
(* to store it, and then it is not in the cage.                            *)
StoredByOne(o) ==
    /\ \A c, d \in Clients : creating[c] = o /\ creating[d] = o => c = d
    /\ (Stealing /\ steal.at = "store" /\ steal.oracle = o) =>
          \A c \in Clients : creating[c] # o
    /\ AboutToStore(o) => \A id \in Ids : raccoons[id] # o

NoRaceUnmarked == \A o \in Oracles \ twice : StoredByOne(o)

(* What the thief has passed by it has taken, or could not parse.          *)
PassedIsTaken ==
    Stealing /\ faults = 0 =>
        \A id \in 1 .. steal.n : id < steal.i =>
            store[steal.node][id] \in Unparsable \cup twice \cup {None}

IInv ==
    /\ TypeOK /\ faults \in Nat
    /\ NodesNumberUpwards /\ ThiefHolds
    /\ KnownIsSomewhere /\ DeletesCopies
    /\ NoDoubles /\ NoRaceUnmarked
    /\ PassedIsTaken

-----------------------------------------------------------------------------
LEMMA HaveIsCaged ==
    ASSUME NEW o, o # None
    PROVE  doIHaveThisOracle(o) <=> \E id \in Ids : raccoons[id] = o
BY DEF doIHaveThisOracle, Caged

LEMMA InitInv == Init => IInv
<1> SUFFICES ASSUME Init PROVE IInv
  OBVIOUS
<1> USE DEF Init
<1>1. TypeOK /\ faults \in Nat
  <2>1. 1 \in 1 .. MaxId + 1
    BY MuxOraclesAssumption
  <2> QED
    BY <2>1 DEF TypeOK, Stealing
<1>2. NodesNumberUpwards /\ ThiefHolds /\ DeletesCopies /\ PassedIsTaken
  BY DEF NodesNumberUpwards, ThiefHolds, InHand, DeletesCopies, PassedIsTaken,
     Stealing
<1>3. KnownIsSomewhere /\ NoDoubles /\ NoRaceUnmarked
  BY MuxOraclesAssumption
     DEF KnownIsSomewhere, NoDoubles, NoRaceUnmarked, StoredByOne, AboutToStore, Stealing
<1> QED
  BY <1>1, <1>2, <1>3 DEF IInv

LEMMA CreateOracleInv ==
    ASSUME IInv, NEW c \in Clients, NEW o \in Oracles, CreateOracle(c, o)
    PROVE  IInv'
<1>1. /\ creating[c] = None /\ ~\E id \in Ids : raccoons[id] = o
      /\ twice' = IF AboutToStore(o) THEN twice \cup {o} ELSE twice
      /\ creating' = [creating EXCEPT ![c] = o] /\ raccoons' = raccoons
      /\ nextRaccoonId' = nextRaccoonId /\ store' = store
      /\ nodeNext' = nodeNext /\ members' = members /\ steal' = steal
      /\ queue' = queue /\ starting' = starting /\ faults' = faults
      /\ restarts' = restarts /\ known' = known
  BY MuxOraclesAssumption DEF CreateOracle, Mark, doIHaveThisOracle, Caged, cage,
     nodes, theft, bounds
<1>2. TypeOK' /\ faults' \in Nat
  BY <1>1, MuxOraclesAssumption DEF IInv, TypeOK, Stealing, Ids
<1>3. NodesNumberUpwards' /\ ThiefHolds'
  BY <1>1 DEF IInv, NodesNumberUpwards, ThiefHolds, InHand, Stealing
<1>4. KnownIsSomewhere' /\ DeletesCopies'
  BY <1>1 DEF IInv, KnownIsSomewhere, Somewhere, DeletesCopies, Elsewhere, Stealing
<1>5. NoDoubles'
  BY <1>1 DEF IInv, NoDoubles
<1>6. NoRaceUnmarked'
  BY <1>1 DEF IInv, NoRaceUnmarked, StoredByOne, AboutToStore, Stealing
<1>7. PassedIsTaken'
  BY <1>1 DEF IInv, PassedIsTaken, Stealing
<1> QED
  BY <1>2, <1>3, <1>4, <1>5, <1>6, <1>7 DEF IInv

LEMMA StoreOracleInv ==
    ASSUME IInv, NEW c \in Clients, StoreOracle(c)
    PROVE  IInv'
<1>1. /\ creating[c] # None /\ nextRaccoonId \in Ids
      /\ raccoons[nextRaccoonId] = None
      /\ raccoons' = [raccoons EXCEPT ![nextRaccoonId] = creating[c]]
      /\ nextRaccoonId' = nextRaccoonId + 1
      /\ known' = known \cup {creating[c]}
      /\ creating' = [creating EXCEPT ![c] = None] /\ store' = store
      /\ nodeNext' = nodeNext /\ members' = members /\ steal' = steal
      /\ queue' = queue /\ starting' = starting /\ faults' = faults
      /\ restarts' = restarts /\ twice' = twice
  BY DEF StoreOracle, Insert, Ids, IInv, TypeOK, nodes, theft, bounds
<1>2. TypeOK' /\ faults' \in Nat
  BY <1>1, MuxOraclesAssumption DEF IInv, TypeOK, Stealing, Ids
<1>3. NodesNumberUpwards' /\ ThiefHolds'
  BY <1>1 DEF IInv, NodesNumberUpwards, ThiefHolds, InHand, Stealing
<1>4. KnownIsSomewhere' /\ DeletesCopies'
  BY <1>1 DEF IInv, TypeOK, KnownIsSomewhere, Somewhere, DeletesCopies, Elsewhere,
     Stealing
<1>5. NoDoubles'
  BY <1>1 DEF IInv, TypeOK, NoDoubles, NoRaceUnmarked, StoredByOne, AboutToStore
<1>6. NoRaceUnmarked'
  BY <1>1, MuxOraclesAssumption DEF IInv, TypeOK, NoRaceUnmarked, StoredByOne,
     AboutToStore, Stealing
<1>7. PassedIsTaken'
  BY <1>1 DEF IInv, PassedIsTaken, Stealing
<1> QED
  BY <1>2, <1>3, <1>4, <1>5, <1>6, <1>7 DEF IInv

LEMMA UpdateOracleInv ==
    ASSUME IInv, NEW id \in Ids, NEW o \in Oracles, UpdateOracle(id, o)
    PROVE  IInv'
<1>1. /\ raccoons[id] # None /\ raccoons' = [raccoons EXCEPT ![id] = o]
      /\ known' = (known \ {raccoons[id]}) \cup {o}
      /\ twice' = IF AboutToStore(o) \/ o \in {raccoons[j] : j \in Ids \ {id}} THEN twice \cup {o} ELSE twice
      /\ nextRaccoonId' = nextRaccoonId /\ store' = store
      /\ nodeNext' = nodeNext /\ members' = members /\ creating' = creating
      /\ steal' = steal /\ queue' = queue /\ starting' = starting
      /\ faults' = faults /\ restarts' = restarts
  BY DEF UpdateOracle, Mark, cage, nodes, theft, bounds
<1>2. TypeOK' /\ faults' \in Nat
  BY <1>1, MuxOraclesAssumption DEF IInv, TypeOK, Stealing, Ids
<1>3. NodesNumberUpwards' /\ ThiefHolds'
  BY <1>1 DEF IInv, NodesNumberUpwards, ThiefHolds, InHand, Stealing
<1>4. KnownIsSomewhere' /\ DeletesCopies'
  BY <1>1, MuxOraclesAssumption DEF IInv, TypeOK, KnownIsSomewhere, Somewhere,
     DeletesCopies, Elsewhere, Stealing
<1>5. NoDoubles'
  BY <1>1 DEF IInv, NoDoubles
<1>6. NoRaceUnmarked'
  BY <1>1 DEF IInv, NoRaceUnmarked, StoredByOne, AboutToStore, Stealing
<1>7. PassedIsTaken'
  BY <1>1 DEF IInv, PassedIsTaken, Stealing
<1> QED
  BY <1>2, <1>3, <1>4, <1>5, <1>6, <1>7 DEF IInv

LEMMA DeleteOracleInv ==
    ASSUME IInv, NEW id \in Ids, DeleteOracle(id)
    PROVE  IInv'
<1>1. /\ raccoons[id] # None /\ raccoons' = [raccoons EXCEPT ![id] = None]
      /\ known' = known \ {raccoons[id]} /\ nextRaccoonId' = nextRaccoonId
      /\ store' = store /\ nodeNext' = nodeNext /\ members' = members
      /\ creating' = creating /\ steal' = steal /\ queue' = queue
      /\ starting' = starting /\ faults' = faults /\ restarts' = restarts
      /\ twice' = twice
  BY DEF DeleteOracle, cage, nodes, theft, bounds
<1>2. TypeOK' /\ faults' \in Nat
  BY <1>1, MuxOraclesAssumption DEF IInv, TypeOK, Stealing, Ids
<1>3. NodesNumberUpwards' /\ ThiefHolds'
  BY <1>1 DEF IInv, NodesNumberUpwards, ThiefHolds, InHand, Stealing
<1>4. KnownIsSomewhere' /\ DeletesCopies'
  BY <1>1 DEF IInv, KnownIsSomewhere, Somewhere, DeletesCopies, Elsewhere, Stealing
<1>5. NoDoubles'
  BY <1>1 DEF IInv, NoDoubles
<1>6. NoRaceUnmarked'
  BY <1>1, MuxOraclesAssumption DEF IInv, NoRaceUnmarked, StoredByOne, AboutToStore,
     Stealing
<1>7. PassedIsTaken'
  BY <1>1 DEF IInv, PassedIsTaken, Stealing
<1> QED
  BY <1>2, <1>3, <1>4, <1>5, <1>6, <1>7 DEF IInv

LEMMA NodeCreateOracleInv ==
    ASSUME IInv, NEW n \in Nodes, NEW o \in Oracles, NodeCreateOracle(n, o)
    PROVE  IInv'
<1>1. /\ n \notin members /\ nodeNext[n] \in Ids
      /\ store[n][nodeNext[n]] = None
      /\ store' = [store EXCEPT ![n][nodeNext[n]] = o]
      /\ nodeNext' = [nodeNext EXCEPT ![n] = @ + 1]
      /\ known' = known \cup {o} /\ raccoons' = raccoons
      /\ nextRaccoonId' = nextRaccoonId /\ members' = members
      /\ creating' = creating /\ steal' = steal /\ queue' = queue
      /\ starting' = starting /\ faults' = faults /\ restarts' = restarts
      /\ twice' = twice
  BY DEF NodeCreateOracle, PutOnNode, Ids, IInv, TypeOK, NodesNumberUpwards, cage,
     theft, bounds
<1>2. TypeOK' /\ faults' \in Nat
  BY <1>1, MuxOraclesAssumption DEF IInv, TypeOK, Stealing, Ids
<1>3. NodesNumberUpwards' /\ ThiefHolds'
  BY <1>1 DEF IInv, TypeOK, NodesNumberUpwards, ThiefHolds, InHand, Stealing, Ids
<1>4. KnownIsSomewhere' /\ DeletesCopies'
  BY <1>1, MuxOraclesAssumption DEF IInv, TypeOK, ThiefHolds, KnownIsSomewhere,
     Somewhere, DeletesCopies, Elsewhere, Stealing
<1>5. NoDoubles'
  BY <1>1 DEF IInv, NoDoubles
<1>6. NoRaceUnmarked'
  BY <1>1 DEF IInv, NoRaceUnmarked, StoredByOne, AboutToStore, Stealing
<1>7. PassedIsTaken'
  BY <1>1 DEF IInv, ThiefHolds, PassedIsTaken, Stealing
<1> QED
  BY <1>2, <1>3, <1>4, <1>5, <1>6, <1>7 DEF IInv

LEMMA LeaveTemporaryInv ==
    ASSUME IInv, NEW n \in Nodes, NEW o \in Oracles, LeaveTemporary(n, o)
    PROVE  IInv'
<1>1. /\ nodeNext[n] \in Ids /\ store[n][nodeNext[n]] = None
      /\ store' = [store EXCEPT ![n][nodeNext[n]] = o]
      /\ nodeNext' = [nodeNext EXCEPT ![n] = @ + 1] /\ raccoons' = raccoons
      /\ nextRaccoonId' = nextRaccoonId /\ members' = members
      /\ creating' = creating /\ steal' = steal /\ queue' = queue
      /\ starting' = starting /\ faults' = faults /\ restarts' = restarts
      /\ known' = known /\ twice' = twice
  BY DEF LeaveTemporary, PutOnNode, Ids, IInv, TypeOK, NodesNumberUpwards, cage,
     theft, bounds
<1>2. TypeOK' /\ faults' \in Nat
  BY <1>1, MuxOraclesAssumption DEF IInv, TypeOK, Stealing, Ids
<1>3. NodesNumberUpwards' /\ ThiefHolds'
  BY <1>1 DEF IInv, TypeOK, NodesNumberUpwards, ThiefHolds, InHand, Stealing, Ids
<1>4. KnownIsSomewhere' /\ DeletesCopies'
  BY <1>1 DEF IInv, KnownIsSomewhere, Somewhere, DeletesCopies, Elsewhere, Stealing
<1>5. NoDoubles'
  BY <1>1 DEF IInv, NoDoubles
<1>6. NoRaceUnmarked'
  BY <1>1 DEF IInv, NoRaceUnmarked, StoredByOne, AboutToStore, Stealing
<1>7. PassedIsTaken'
  BY <1>1 DEF IInv, TypeOK, ThiefHolds, PassedIsTaken, Stealing
<1> QED
  BY <1>2, <1>3, <1>4, <1>5, <1>6, <1>7 DEF IInv

LEMMA NodeDeleteOracleInv ==
    ASSUME IInv, NEW n \in Nodes, NEW id \in Ids, NodeDeleteOracle(n, id)
    PROVE  IInv'
<1>1. /\ n \notin members /\ store[n][id] # None
      /\ store' = [store EXCEPT ![n][id] = None]
      /\ known' = known \ {store[n][id]} /\ raccoons' = raccoons
      /\ nextRaccoonId' = nextRaccoonId /\ nodeNext' = nodeNext
      /\ members' = members /\ creating' = creating /\ steal' = steal
      /\ queue' = queue /\ starting' = starting /\ faults' = faults
      /\ restarts' = restarts /\ twice' = twice
  BY DEF NodeDeleteOracle, cage, nodes, theft, bounds
<1>2. TypeOK' /\ faults' \in Nat
  BY <1>1, MuxOraclesAssumption DEF IInv, TypeOK, Stealing, Ids
<1>3. NodesNumberUpwards' /\ ThiefHolds'
  BY <1>1 DEF IInv, NodesNumberUpwards, ThiefHolds, InHand, Stealing
<1>4. KnownIsSomewhere' /\ DeletesCopies'
  BY <1>1 DEF IInv, KnownIsSomewhere, Somewhere, DeletesCopies, Elsewhere, Stealing
<1>5. NoDoubles'
  BY <1>1 DEF IInv, NoDoubles
<1>6. NoRaceUnmarked'
  BY <1>1 DEF IInv, NoRaceUnmarked, StoredByOne, AboutToStore, Stealing
<1>7. PassedIsTaken'
  BY <1>1 DEF IInv, PassedIsTaken, Stealing
<1> QED
  BY <1>2, <1>3, <1>4, <1>5, <1>6, <1>7 DEF IInv

-----------------------------------------------------------------------------
(* The thief.  It counts to the number of oracles that the node has, which *)
(* is less than the node's next identifier.                                *)
LEMMA RobType ==
    ASSUME IInv, NEW n \in Nodes
    PROVE  /\ Rob(n) \in [node : Nodes, i : 1 .. MaxId + 1, n : 0 .. MaxId,
                          at : {"read", "check", "create", "store", "delete"},
                          oracle : Oracles \cup {None}]
           /\ Rob(n).node = n /\ Rob(n).i = 1 /\ Rob(n).at = "read"
           /\ Rob(n).n < nodeNext[n]
<1> DEFINE full == {id \in Ids : store[n][id] # None}
           k == nodeNext[n] - 1
<1>1. /\ nodeNext[n] \in 1 .. MaxId + 1 /\ k \in 0 .. MaxId /\ k = nodeNext[n] - 1
      /\ full \subseteq 1 .. k
  BY MuxOraclesAssumption DEF IInv, TypeOK, NodesNumberUpwards, Ids
<1> HIDE DEF k
<1>2. IsFiniteSet(1 .. k) /\ Cardinality(1 .. k) = k
  <2>1. 1 \in Int /\ k \in Int /\ k >= 0
    BY <1>1, MuxOraclesAssumption
  <2>2. IsFiniteSet(1 .. k) /\ Cardinality(1 .. k) = IF 1 > k THEN 0 ELSE k - 1 + 1
    BY <2>1, FS_Interval
  <2> QED
    BY <2>1, <2>2
<1>3. IsFiniteSet(full) /\ Cardinality(full) <= k
  BY <1>1, <1>2, FS_Subset
<1>4. Cardinality(full) \in Nat
  BY <1>3, FS_CardinalityType
<1> HIDE DEF full
<1>5. Cardinality(full) \in 0 .. MaxId /\ Cardinality(full) < nodeNext[n]
  BY <1>1, <1>3, <1>4, MuxOraclesAssumption
<1>6. NumOracles(n) = Cardinality(full)
  BY DEF NumOracles, full
<1> QED
  BY <1>5, <1>6, MuxOraclesAssumption DEF Rob

LEMMA AddNodeInv ==
    ASSUME IInv, NEW n \in Nodes, AddNode(n)
    PROVE  IInv'
<1>1. /\ ~Stealing /\ ~starting /\ members' = members \cup {n}
      /\ steal' = Rob(n) /\ raccoons' = raccoons
      /\ nextRaccoonId' = nextRaccoonId /\ store' = store
      /\ nodeNext' = nodeNext /\ creating' = creating /\ queue' = queue
      /\ starting' = starting /\ faults' = faults /\ restarts' = restarts
      /\ known' = known /\ twice' = twice
  BY DEF AddNode, cage, nodes, theft, bounds
<1>2. TypeOK' /\ faults' \in Nat
  BY <1>1, RobType, MuxOraclesAssumption DEF IInv, TypeOK, Stealing, Ids
<1>3. NodesNumberUpwards' /\ ThiefHolds'
  BY <1>1, RobType DEF IInv, NodesNumberUpwards, ThiefHolds, InHand
<1>4. KnownIsSomewhere' /\ DeletesCopies'
  BY <1>1, RobType DEF IInv, KnownIsSomewhere, Somewhere, DeletesCopies
<1>5. NoDoubles'
  BY <1>1, RobType, MuxOraclesAssumption DEF IInv, NoDoubles
<1>6. NoRaceUnmarked'
  BY <1>1, RobType DEF IInv, NoRaceUnmarked, StoredByOne, AboutToStore
<1>7. PassedIsTaken'
  BY <1>1, RobType, MuxOraclesAssumption DEF IInv, PassedIsTaken, Stealing
<1> QED
  BY <1>2, <1>3, <1>4, <1>5, <1>6, <1>7 DEF IInv

LEMMA DeleteNodeInv ==
    ASSUME IInv, NEW n \in Nodes, DeleteNode(n)
    PROVE  IInv'
<1>1. /\ ~Stealing /\ ~starting /\ members' = members \ {n}
      /\ raccoons' = raccoons /\ nextRaccoonId' = nextRaccoonId
      /\ store' = store /\ nodeNext' = nodeNext /\ creating' = creating
      /\ steal' = steal /\ queue' = queue /\ starting' = starting
      /\ faults' = faults /\ restarts' = restarts /\ known' = known
      /\ twice' = twice
  BY DEF DeleteNode, cage, nodes, theft, bounds
<1>2. TypeOK' /\ faults' \in Nat
  BY <1>1 DEF IInv, TypeOK, ThiefHolds, Stealing
<1>3. NodesNumberUpwards' /\ ThiefHolds'
  BY <1>1 DEF IInv, NodesNumberUpwards, ThiefHolds, InHand, Stealing
<1>4. KnownIsSomewhere' /\ DeletesCopies'
  BY <1>1 DEF IInv, KnownIsSomewhere, Somewhere, DeletesCopies, Stealing
<1>5. NoDoubles'
  BY <1>1 DEF IInv, NoDoubles
<1>6. NoRaceUnmarked'
  BY <1>1 DEF IInv, NoRaceUnmarked, StoredByOne, AboutToStore, Stealing
<1>7. PassedIsTaken'
  BY <1>1 DEF PassedIsTaken, Stealing
<1> QED
  BY <1>2, <1>3, <1>4, <1>5, <1>6, <1>7 DEF IInv

LEMMA stealOraclesInv ==
    ASSUME IInv, stealOracles
    PROVE  IInv'
<1>1. PICK n \in queue : steal' = Rob(n) /\ queue' = queue \ {n}
  BY DEF stealOracles
<1>2. ~Stealing /\ n \in Nodes /\ n \in members
  BY DEF stealOracles, IInv, TypeOK
<1>3. /\ raccoons' = raccoons /\ nextRaccoonId' = nextRaccoonId
      /\ store' = store /\ nodeNext' = nodeNext /\ members' = members
      /\ creating' = creating /\ starting' = starting /\ faults' = faults
      /\ restarts' = restarts /\ known' = known /\ twice' = twice
  BY DEF stealOracles, cage, nodes, theft, bounds
<1>4. TypeOK' /\ faults' \in Nat
  BY <1>1, <1>3, RobType DEF IInv, TypeOK
<1>5. NodesNumberUpwards' /\ ThiefHolds'
  BY <1>1, <1>3, RobType DEF IInv, TypeOK, NodesNumberUpwards, ThiefHolds, InHand
<1>6. KnownIsSomewhere' /\ DeletesCopies'
  BY <1>1, <1>2, <1>3, RobType DEF IInv, KnownIsSomewhere, Somewhere, DeletesCopies
<1>7. NoDoubles'
  BY <1>1, <1>2, <1>3, RobType, MuxOraclesAssumption DEF IInv, NoDoubles
<1>8. NoRaceUnmarked'
  BY <1>1, <1>2, <1>3, RobType DEF IInv, NoRaceUnmarked, StoredByOne, AboutToStore
<1>9. PassedIsTaken'
  BY <1>1, <1>2, RobType DEF PassedIsTaken
<1> QED
  BY <1>4, <1>5, <1>6, <1>7, <1>8, <1>9 DEF IInv

LEMMA CheckInv ==
    ASSUME IInv, Check
    PROVE  IInv'
<1>1. /\ Stealing /\ steal.at = "check"
      /\ steal' = [steal EXCEPT !.at = IF doIHaveThisOracle(steal.oracle) THEN "delete" ELSE "create"]
      /\ doIHaveThisOracle(steal.oracle) => \E id \in Ids : raccoons[id] = steal.oracle
      /\ raccoons' = raccoons /\ nextRaccoonId' = nextRaccoonId
      /\ store' = store /\ nodeNext' = nodeNext /\ members' = members
      /\ creating' = creating /\ queue' = queue /\ starting' = starting
      /\ faults' = faults /\ restarts' = restarts /\ known' = known
      /\ twice' = twice
  BY DEF Check, Continue, doIHaveThisOracle, Caged, cage, nodes, bounds
<1>2. TypeOK' /\ faults' \in Nat
  BY <1>1, MuxOraclesAssumption DEF IInv, TypeOK, Stealing, Ids
<1>3. NodesNumberUpwards' /\ ThiefHolds'
  BY <1>1 DEF IInv, NodesNumberUpwards, ThiefHolds, InHand
<1>4. KnownIsSomewhere' /\ DeletesCopies'
  BY <1>1 DEF IInv, KnownIsSomewhere, Somewhere, DeletesCopies, Elsewhere
<1>5. NoDoubles'
  BY <1>1 DEF IInv, NoDoubles
<1>6. NoRaceUnmarked'
  BY <1>1 DEF IInv, NoRaceUnmarked, StoredByOne, AboutToStore
<1>7. PassedIsTaken'
  BY <1>1 DEF IInv, PassedIsTaken
<1> QED
  BY <1>2, <1>3, <1>4, <1>5, <1>6, <1>7 DEF IInv

(* What the thief has in hand, and its step to the next oracle.             *)
LEMMA HandType ==
    ASSUME IInv, InHand
    PROVE  /\ steal.node \in Nodes /\ steal.i \in Ids /\ steal.n \in 0 .. MaxId
           /\ steal.i <= steal.n /\ steal.oracle \in Oracles
           /\ steal.oracle = store[steal.node][steal.i]
BY MuxOraclesAssumption DEF IInv, TypeOK, ThiefHolds, InHand, Ids

LEMMA NextOracleType ==
    ASSUME IInv, Stealing, steal.i <= steal.n, NextOracle
    PROVE  /\ steal' \in [node : Nodes, i : 1 .. MaxId + 1, n : 0 .. MaxId,
                          at : {"read", "check", "create", "store", "delete"},
                          oracle : Oracles \cup {None}]
           /\ steal'.node = steal.node /\ steal'.n = steal.n
           /\ steal'.i = steal.i + 1 /\ steal'.at = "read"
<1>1. steal \in [node : Nodes, i : 1 .. MaxId + 1, n : 0 .. MaxId,
                 at : {"read", "check", "create", "store", "delete"},
                 oracle : Oracles \cup {None}]
  BY DEF IInv, TypeOK
<1>2. steal.i + 1 \in 1 .. MaxId + 1
  BY <1>1, MuxOraclesAssumption
<1> QED
  BY <1>1, <1>2 DEF NextOracle

(* The thief goes on: with fewer oracles on its node, but none lost, and   *)
(* nothing left behind unless an RPC failed.                               *)
LEMMA NextOracleInv ==
    ASSUME IInv, Stealing, steal.i <= steal.n, NextOracle,
           faults' \in {faults, faults + 1}, twice \subseteq twice',
           UNCHANGED <<cage, nodeNext, members, queue, starting, creating, known>>,
           \/ store' = store
           \/ steal.at = "delete" /\ store' = [store EXCEPT ![steal.node][steal.i] = None],
           faults' = 0 => store'[steal.node][steal.i] \in Unparsable \cup twice' \cup {None}
    PROVE  IInv'
<1>1. /\ raccoons' = raccoons /\ nextRaccoonId' = nextRaccoonId /\ nodeNext' = nodeNext
      /\ members' = members /\ queue' = queue /\ starting' = starting
      /\ creating' = creating /\ known' = known
  BY DEF cage
<1>2. /\ steal' \in [node : Nodes, i : 1 .. MaxId + 1, n : 0 .. MaxId,
                     at : {"read", "check", "create", "store", "delete"},
                     oracle : Oracles \cup {None}]
      /\ steal'.node = steal.node /\ steal'.n = steal.n
      /\ steal'.i = steal.i + 1 /\ steal'.at = "read"
  BY NextOracleType
<1>3. steal.node \in Nodes /\ steal.n \in 0 .. MaxId /\ steal.i \in Ids
  BY MuxOraclesAssumption DEF IInv, TypeOK, Ids
<1>4. /\ store' \in [Nodes -> [Ids -> Oracles \cup {None}]]
      /\ \A n \in Nodes, id \in Ids :
            \/ store'[n][id] = store[n][id]
            \/ /\ n = steal.node /\ id = steal.i /\ steal.at = "delete"
               /\ store'[n][id] = None
  BY <1>3 DEF IInv, TypeOK
<1>5. TypeOK' /\ faults' \in Nat
  BY <1>1, <1>2, <1>4 DEF IInv, TypeOK
<1>6. NodesNumberUpwards' /\ ThiefHolds'
  BY <1>2, <1>4 DEF IInv, NodesNumberUpwards, ThiefHolds, InHand
<1>7. KnownIsSomewhere'
  <2>1. CASE steal.at = "delete"
    <3>1. steal.oracle = store[steal.node][steal.i]
      BY <2>1, HandType DEF InHand
    <3>2. ASSUME NEW o \in known
          PROVE  o # None /\ Somewhere(o)'
      <4>1. o # None /\ Somewhere(o)
        BY <3>2 DEF IInv, KnownIsSomewhere
      <4>2. o = steal.oracle => Elsewhere(o)
        BY <2>1, <3>2 DEF IInv, DeletesCopies
      <4> QED
        BY <1>1, <1>4, <3>1, <4>1, <4>2 DEF Somewhere, Elsewhere
    <3> QED
      BY <1>1, <3>2 DEF KnownIsSomewhere
  <2>2. CASE steal.at # "delete"
    BY <1>1, <2>2 DEF IInv, KnownIsSomewhere, Somewhere
  <2> QED
    BY <2>1, <2>2
<1>8. DeletesCopies'
  BY <1>2 DEF DeletesCopies
<1>9. NoDoubles' /\ NoRaceUnmarked'
  BY <1>1, <1>2 DEF IInv, NoDoubles, NoRaceUnmarked, StoredByOne, AboutToStore
<1>10. PassedIsTaken'
  <2> SUFFICES ASSUME faults' = 0, NEW id \in 1 .. steal.n, id < steal.i + 1
               PROVE  store'[steal.node][id] \in Unparsable \cup twice' \cup {None}
    BY <1>2 DEF PassedIsTaken
  <2>1. faults = 0 /\ id \in Ids
    BY <1>3, MuxOraclesAssumption DEF IInv, Ids
  <2>2. CASE id = steal.i
    BY <2>2
  <2>3. CASE id < steal.i
    BY <1>3, <1>4, <2>1, <2>3 DEF IInv, PassedIsTaken
  <2> QED
    BY <1>3, <2>2, <2>3 DEF Ids
<1> QED
  BY <1>5, <1>6, <1>7, <1>8, <1>9, <1>10 DEF IInv

(* The thief has, or is about to have, another use for what it holds.      *)
LEMMA InHandInv ==
    ASSUME IInv, Stealing, steal.i <= steal.n, NEW at \in {"check", "create", "store"},
           NEW o \in Oracles, o = store[steal.node][steal.i],
           steal' = [steal EXCEPT !.at = at, !.oracle = o],
           twice \subseteq twice',
           UNCHANGED <<cage, nodes, members, queue, starting, creating, faults, known>>,
           at = "store" =>
              /\ \A id \in Ids : raccoons[id] # o
              /\ AboutToStore(o) => o \in twice'
    PROVE  IInv'
<1>1. /\ raccoons' = raccoons /\ nextRaccoonId' = nextRaccoonId
      /\ store' = store /\ nodeNext' = nodeNext
      /\ members' = members /\ queue' = queue /\ starting' = starting
      /\ creating' = creating /\ faults' = faults /\ known' = known
  BY DEF cage, nodes
<1>2. /\ steal' \in [node : Nodes, i : 1 .. MaxId + 1, n : 0 .. MaxId,
                     at : {"read", "check", "create", "store", "delete"},
                     oracle : Oracles \cup {None}]
      /\ steal'.node = steal.node /\ steal'.n = steal.n /\ steal'.i = steal.i
      /\ steal'.at = at /\ steal'.oracle = o
  BY DEF IInv, TypeOK
<1>3. TypeOK' /\ faults' \in Nat
  BY <1>1, <1>2 DEF IInv, TypeOK
<1>4. NodesNumberUpwards' /\ ThiefHolds'
  BY <1>1, MuxOraclesAssumption DEF IInv, NodesNumberUpwards, ThiefHolds, InHand
<1>5. KnownIsSomewhere' /\ DeletesCopies'
  BY <1>1, <1>2 DEF IInv, KnownIsSomewhere, Somewhere, DeletesCopies
<1>6. NoDoubles'
  BY <1>1 DEF IInv, NoDoubles
<1>7. NoRaceUnmarked'
  BY <1>1, <1>2 DEF IInv, NoRaceUnmarked, StoredByOne, AboutToStore
<1>8. PassedIsTaken'
  BY <1>1, <1>2 DEF IInv, PassedIsTaken
<1> QED
  BY <1>3, <1>4, <1>5, <1>6, <1>7, <1>8 DEF IInv

LEMMA ReadInv ==
    ASSUME IInv, Read
    PROVE  IInv'
<1>1. /\ Stealing /\ steal.i <= steal.n
      /\ UNCHANGED <<cage, nodes, members, queue, starting, creating, known, twice>>
  BY DEF Read
<1>2. store' = store /\ nodeNext' = nodeNext
  BY <1>1 DEF nodes
<1> DEFINE o == store[steal.node][steal.i]
<1>3. o \in Oracles \cup {None}
  BY <1>1, MuxOraclesAssumption DEF IInv, TypeOK, Ids
<1>4. CASE NextOracle /\ ((o = None /\ faults' = faults) \/ faults' = faults + 1)
  <2>1. faults' = 0 => store'[steal.node][steal.i] = None
    BY <1>2, <1>4 DEF IInv
  <2> QED
    BY <1>1, <1>2, <1>4, <2>1, NextOracleInv
<1>5. CASE o # None /\ steal' = [steal EXCEPT !.at = "check", !.oracle = o] /\ UNCHANGED faults
  <2> HIDE DEF o
  <2>1. o \in Oracles /\ o = store[steal.node][steal.i]
    BY <1>3, <1>5 DEF o
  <2> QED
    BY <1>1, <1>5, <2>1, InHandInv
<1> QED
  BY <1>4, <1>5 DEF Read, ReadOracle, MayFail

(* CreateOracle of the master: the oracle is refused, or will be stored.   *)
LEMMA CreateInv ==
    ASSUME IInv, Create
    PROVE  IInv'
<1>1. /\ InHand /\ Stealing
      /\ UNCHANGED <<cage, nodes, members, queue, starting, creating, faults, known>>
  BY DEF Create, InHand, bounds
<1>2. /\ steal.i <= steal.n /\ steal.oracle \in Oracles
      /\ steal.oracle = store[steal.node][steal.i]
  BY <1>1, HandType
<1>3. doIHaveThisOracle(steal.oracle) <=> \E id \in Ids : raccoons[id] = steal.oracle
  BY <1>2, HaveIsCaged, MuxOraclesAssumption
<1>4. /\ twice \subseteq twice'
      /\ AboutToStore(steal.oracle) \/ doIHaveThisOracle(steal.oracle) => steal.oracle \in twice'
  BY DEF Create, Mark
<1>5. CASE doIHaveThisOracle(steal.oracle) \/ ~Parses(steal.oracle)
  <2>1. NextOracle /\ store' = store /\ nodeNext' = nodeNext
    BY <1>1, <1>5 DEF Create, nodes
  <2>2. store'[steal.node][steal.i] \in Unparsable \cup twice' \cup {None}
    BY <1>2, <1>4, <1>5, <2>1 DEF Parses
  <2> QED
    BY <1>1, <1>2, <1>4, <2>1, <2>2, NextOracleInv
<1>6. CASE ~doIHaveThisOracle(steal.oracle) /\ Parses(steal.oracle)
  <2>1. steal' = [steal EXCEPT !.at = "store"]
    BY <1>6 DEF Create, Continue
  <2>2. steal' = [steal EXCEPT !.at = "store", !.oracle = steal.oracle]
    BY <1>1, <2>1 DEF IInv, TypeOK
  <2> QED
    BY <1>1, <1>2, <1>3, <1>4, <1>6, <2>2, InHandInv
<1> QED
  BY <1>5, <1>6

LEMMA DeleteInv ==
    ASSUME IInv, Delete
    PROVE  IInv'
<1>1. /\ InHand /\ Stealing /\ steal.at = "delete" /\ NextOracle /\ twice' = twice
      /\ UNCHANGED <<cage, nodeNext, members, queue, starting, creating, known>>
  BY DEF Delete, InHand
<1>2. steal.i <= steal.n /\ steal.node \in Nodes /\ steal.i \in Ids
  BY <1>1, HandType
<1>3. \/ /\ store' = [store EXCEPT ![steal.node][steal.i] = None]
         /\ faults' \in {faults, faults + 1}
      \/ store' = store /\ faults' = faults + 1
  BY DEF Delete, MayFail
<1>4. faults' = 0 => store'[steal.node][steal.i] = None
  BY <1>2, <1>3 DEF IInv, TypeOK
<1>5. faults' \in {faults, faults + 1}
  BY <1>3
<1>6. store' = store \/ store' = [store EXCEPT ![steal.node][steal.i] = None]
  BY <1>3
<1> QED
  BY <1>1, <1>2, <1>4, <1>5, <1>6, NextOracleInv

LEMMA StoreInv ==
    ASSUME IInv, Store
    PROVE  IInv'
<1>1. /\ InHand /\ Stealing /\ steal.at = "store" /\ nextRaccoonId \in Ids
      /\ raccoons[nextRaccoonId] = None
      /\ raccoons' = [raccoons EXCEPT ![nextRaccoonId] = steal.oracle]
      /\ nextRaccoonId' = nextRaccoonId + 1
      /\ store' = store /\ nodeNext' = nodeNext /\ members' = members
      /\ queue' = queue /\ starting' = starting /\ creating' = creating
      /\ faults' = faults /\ known' = known /\ twice' = twice
  BY DEF Store, Insert, InHand, Ids, IInv, TypeOK, nodes, bounds
<1>2. /\ steal' \in [node : Nodes, i : 1 .. MaxId + 1, n : 0 .. MaxId,
                     at : {"read", "check", "create", "store", "delete"},
                     oracle : Oracles \cup {None}]
      /\ steal'.node = steal.node /\ steal'.n = steal.n /\ steal'.i = steal.i
      /\ steal'.at = "delete" /\ steal'.oracle = steal.oracle
  BY <1>1 DEF Store, Continue, IInv, TypeOK
<1>3. steal.oracle \in Oracles /\ nextRaccoonId + 1 \in 1 .. MaxId + 1
  BY <1>1, HandType, MuxOraclesAssumption DEF Ids
<1>4. /\ raccoons'[nextRaccoonId] = steal.oracle
      /\ \A id \in Ids \ {nextRaccoonId} : raccoons'[id] = raccoons[id]
  BY <1>1 DEF IInv, TypeOK
<1>5. TypeOK' /\ faults' \in Nat
  BY <1>1, <1>2, <1>3 DEF IInv, TypeOK
<1>6. NodesNumberUpwards' /\ ThiefHolds'
  BY <1>1, <1>2 DEF IInv, NodesNumberUpwards, ThiefHolds, InHand
<1>7. KnownIsSomewhere'
  BY <1>1, <1>4 DEF IInv, KnownIsSomewhere, Somewhere
<1>8. DeletesCopies'
  BY <1>1, <1>2, <1>4 DEF DeletesCopies, Elsewhere
<1>9. StoredByOne(steal.oracle) \/ steal.oracle \in twice
  BY <1>3 DEF IInv, NoRaceUnmarked
<1>10. NoDoubles'
  BY <1>1, <1>4, <1>9 DEF IInv, NoDoubles, StoredByOne, AboutToStore
<1>11. NoRaceUnmarked'
  BY <1>1, <1>2 DEF IInv, NoRaceUnmarked, StoredByOne, AboutToStore
<1>12. PassedIsTaken'
  BY <1>1, <1>2 DEF IInv, PassedIsTaken
<1> QED
  BY <1>5, <1>6, <1>7, <1>8, <1>10, <1>11, <1>12 DEF IInv

LEMMA EndTheftInv ==
    ASSUME IInv, EndTheft
    PROVE  IInv'
<1>1. /\ steal' = None /\ starting' = (queue # {}) /\ raccoons' = raccoons
      /\ nextRaccoonId' = nextRaccoonId /\ store' = store
      /\ nodeNext' = nodeNext /\ members' = members /\ creating' = creating
      /\ queue' = queue /\ faults' = faults /\ restarts' = restarts
      /\ known' = known /\ twice' = twice
  BY DEF EndTheft, cage, nodes, theft, bounds
<1>2. TypeOK' /\ faults' \in Nat
  BY <1>1, MuxOraclesAssumption DEF IInv, TypeOK, Stealing, Ids
<1>3. NodesNumberUpwards' /\ ThiefHolds'
  BY <1>1 DEF IInv, NodesNumberUpwards, ThiefHolds, InHand, Stealing
<1>4. KnownIsSomewhere' /\ DeletesCopies'
  BY <1>1 DEF IInv, KnownIsSomewhere, Somewhere, DeletesCopies, Stealing
<1>5. NoDoubles'
  BY <1>1 DEF IInv, NoDoubles
<1>6. NoRaceUnmarked'
  BY <1>1 DEF IInv, NoRaceUnmarked, StoredByOne, AboutToStore, Stealing
<1>7. PassedIsTaken'
  BY <1>1 DEF PassedIsTaken, Stealing
<1> QED
  BY <1>2, <1>3, <1>4, <1>5, <1>6, <1>7 DEF IInv

LEMMA RestartInv ==
    ASSUME IInv, Restart
    PROVE  IInv'
<1>1. /\ raccoons' = [id \in Ids |-> None] /\ nextRaccoonId' = 1
      /\ creating' = [c \in Clients |-> None] /\ steal' = None
      /\ queue' = members /\ starting' = (members # {})
      /\ known' = known \cap UNION {Kept(n) : n \in Nodes} /\ twice' = {}
      /\ store' = store /\ nodeNext' = nodeNext /\ members' = members
      /\ faults' = faults
  BY DEF Restart, cage, nodes, theft, bounds
<1>2. TypeOK' /\ faults' \in Nat
  BY <1>1, MuxOraclesAssumption DEF IInv, TypeOK, Stealing, Ids
<1>3. NodesNumberUpwards' /\ ThiefHolds'
  BY <1>1 DEF IInv, NodesNumberUpwards, ThiefHolds, InHand, Stealing
<1>4. KnownIsSomewhere' /\ DeletesCopies'
  BY <1>1 DEF IInv, KnownIsSomewhere, Somewhere, DeletesCopies, Stealing, Kept
<1>5. NoDoubles'
  BY <1>1 DEF NoDoubles
<1>6. NoRaceUnmarked'
  BY <1>1, MuxOraclesAssumption DEF NoRaceUnmarked, StoredByOne
<1>7. PassedIsTaken'
  BY <1>1 DEF PassedIsTaken, Stealing
<1> QED
  BY <1>2, <1>3, <1>4, <1>5, <1>6, <1>7 DEF IInv

-----------------------------------------------------------------------------
LEMMA NextInv == IInv /\ [Next]_vars => IInv'
<1> SUFFICES ASSUME IInv, [Next]_vars PROVE IInv'
  OBVIOUS
<1>1. CASE UNCHANGED vars
  BY <1>1 DEF vars, cage, nodes, theft, bounds, IInv, TypeOK, NodesNumberUpwards,
     ThiefHolds, InHand, KnownIsSomewhere, Somewhere, DeletesCopies, Elsewhere,
     NoDoubles, NoRaceUnmarked, StoredByOne, AboutToStore, PassedIsTaken, Stealing
<1>2. CASE \E o \in Oracles \ Temporaries :
              \/ \E c \in Clients : CreateOracle(c, o)
              \/ \E id \in Ids : UpdateOracle(id, o)
              \/ \E n \in Nodes : NodeCreateOracle(n, o)
  BY <1>2, CreateOracleInv, UpdateOracleInv, NodeCreateOracleInv
<1>3. CASE \/ \E c \in Clients : StoreOracle(c)
           \/ \E id \in Ids : DeleteOracle(id)
  BY <1>3, StoreOracleInv, DeleteOracleInv
<1>4. CASE \E n \in Nodes :
              \/ AddNode(n) \/ DeleteNode(n)
              \/ \E id \in Ids : NodeDeleteOracle(n, id)
              \/ \E o \in Temporaries : LeaveTemporary(n, o)
  BY <1>4, AddNodeInv, DeleteNodeInv, NodeDeleteOracleInv, LeaveTemporaryInv,
     MuxOraclesAssumption
<1>5. CASE Read \/ Check \/ Create \/ Store \/ Delete \/ EndTheft
  BY <1>5, ReadInv, CheckInv, CreateInv, StoreInv, DeleteInv, EndTheftInv
<1>6. CASE Restart \/ stealOracles
  BY <1>6, RestartInv, stealOraclesInv
<1> QED
  BY <1>1, <1>2, <1>3, <1>4, <1>5, <1>6 DEF Next

(* IInv is an invariant of the oracles of a master, whatever the bounds.   *)
THEOREM Invariance == Spec => []IInv
<1>1. Init => IInv
  BY InitInv
<1>2. IInv /\ [Next]_vars => IInv'
  BY NextInv
<1> QED
  BY <1>1, <1>2, PTL DEF Spec

(* The theft of oracles (oracle_stealer.go) loses none that a client has   *)
(* stored, with any RPC failing and any client calls in between.           *)
THEOREM TheftLosesNone == Spec => []NoOracleLost
<1>1. IInv => NoOracleLost
  BY DEF IInv, KnownIsSomewhere, Somewhere, NoOracleLost, Caged, Kept
<1> QED
  BY <1>1, Invariance, PTL

(* The cage of the master (mux_oracles.go) holds an oracle twice only if   *)
(* two calls raced for it or an UpdateOracle doubled it.                   *)
THEOREM CageHasNoDoubles == Spec => []NoDoubles
<1>1. IInv => NoDoubles
  BY DEF IInv
<1> QED
  BY <1>1, Invariance, PTL

(* stealOraclesFromNode without a failed RPC empties the identifiers it    *)
(* visits, but for what the master cannot parse or was racing for.         *)
THEOREM ThiefTakesAll == Spec => []TheftIsComplete
<1>1. IInv => TheftIsComplete
  BY DEF IInv, TypeOK, PassedIsTaken, TheftIsComplete
<1> QED
  BY <1>1, Invariance, PTL

=============================================================================
