--------------------------- MODULE ParallelProofs ---------------------------
(***************************************************************************)
(* A parallel call of the master gathers all that its workers send, and    *)
(* its answer is the truth, for every fleet, every number of records,      *)
(* failed RPCs and transfers beside it.                                    *)
(*                                                                         *)
(* The invariant follows each worker: what it has found, what of that is   *)
(* still in its outbox, and what the readers have of it.                   *)
(***************************************************************************)
EXTENDS Parallel, FiniteSetTheorems, TLAPS

Fetching == {"start", "load", "loaded", "call"}

Types ==
    /\ op \in Ops
    /\ members \subseteq Nodes
    /\ data \in [Nodes -> [Ids -> Versions \cup {None}]]
    /\ first \in [Nodes -> [Ids -> {"old", None}]]
    /\ pc \in [Nodes -> {"start", "load", "loaded", "call", "acted", "send", "fail", "done"}]
    /\ outbox \in [Nodes -> SUBSET Reports]
    /\ temps \subseteq members /\ ours \subseteq members
    /\ faults \in Nat /\ moves \in Nat
    /\ hand \in [Channels -> Results \cup Nodes \cup {None}]
    /\ reading \subseteq Channels
    /\ sent \in [Channels -> SUBSET (Results \cup Nodes)]
    /\ gathered \in [Channels -> SUBSET (Results \cup Nodes)]
    /\ main \in {"working", "closed", "ok", "not found", "error"}
    /\ nodeLock \in [Nodes -> {None, "worker", "transfer"}]
    /\ move \in Moves \cup {None}

(* The readers lose nothing: what was sent is gathered or in a hand, and   *)
(* they stop only after the workers have.                                  *)
Gathering ==
    /\ \A c \in Channels : /\ gathered[c] \subseteq sent[c]
                           /\ \A v \in sent[c] \ gathered[c] : hand[c] = v
                           /\ hand[c] # None => hand[c] \in sent[c]
                           /\ c \notin reading => hand[c] = None /\ main # "working"
    /\ main # "working" => \A n \in Nodes : pc[n] = "done"
    /\ Answered => reading = {}

(* The worker of n has sent the result v.                                  *)
Told(n, v) == \E r \in sent["result"] : r.from = n /\ r.found = v

(* Where a worker can be, and what it has said by then.                    *)
Worker(n) ==
    /\ pc[n] \in {"load", "loaded"} => op = "run"
    /\ pc[n] \in Fetching \cup {"fail"} => outbox[n] = {}
    /\ pc[n] \in Fetching \cup {"acted", "fail"} => \A v : ~Told(n, v)
    /\ pc[n] = "send" /\ op = "run" => \A v : ~Told(n, v)
    /\ pc[n] = "send" /\ op # "run" => outbox[n] # {}
    /\ pc[n] = "done" => outbox[n] = {}
    /\ pc[n] = "done" /\ n \in members /\ op = "run" =>
          n \in sent["error"] \/ \E v : Told(n, v)
    /\ n \notin members => pc[n] = "done" /\ \A v : ~Told(n, v)

Workers == \A n \in Nodes : Worker(n)

(* Only records that were asked for, and that the node had, are reported.  *)
Honest ==
    /\ \A n \in Nodes : \A v \in outbox[n] : v.node = n /\ v.id \in Wanted
    /\ \A r \in sent["result"] :
          /\ r \in Results
          /\ op # "run" => r.found \in Reports /\ r.found.id \in Wanted

(* Without transfers a node has what it had until the call changes it, and *)
(* its worker finds all of that, and tells or reports an error.            *)
Had(n) == {[node |-> n, id |-> id, version |-> "old"] :
              id \in {i \in Wanted : first[n][i] # None}}

Telling(n) ==
    /\ pc[n] \in Fetching \/ op \in {"read", "find", "run"} => data[n] = first[n]
    /\ op = "update" /\ pc[n] \in {"acted", "send", "done"}
          /\ (outbox[n] # {} \/ \E v : Told(n, v)) => data[n][Arg] = "new"
    /\ pc[n] = "acted" => outbox[n] = Had(n)
    /\ op = "run" =>
          /\ pc[n] = "send" => outbox[n] = Had(n)
          /\ \A v : Told(n, v) => v = Had(n)
    /\ op # "run" =>
          /\ \A v : Told(n, v) => v \in Had(n)
          /\ outbox[n] \subseteq Had(n)
          /\ pc[n] = "send" => \A v \in Had(n) : v \in outbox[n] \/ Told(n, v)
          /\ pc[n] = "done" /\ n \in members /\ n \notin sent["error"] =>
                \A v \in Had(n) : Told(n, v)

Unmoved == moves = 0 => move = None /\ \A n \in Nodes : Telling(n)

(* DeleteRecord holds the lock of a node from before the RPC to its end,   *)
(* and a transfer the locks of both nodes.                                 *)
Locking ==
    /\ op = "delete" => \A n \in Nodes :
          pc[n] \in {"call", "acted", "send", "fail"} => nodeLock[n] = "worker"
    /\ move # None => /\ nodeLock[move.from] = "transfer" /\ nodeLock[move.to] = "transfer"
                      /\ move.from # move.to /\ data[move.from][move.id] # None

Holds(n) == data[n][Arg] # None

(* A record that one node had is on one node, or on its way; and nowhere   *)
(* once a worker has deleted it.                                           *)
OneHolder ==
    op = "delete" /\ (\E n \in Nodes : FirstHolders(Arg) = {n}) =>
        /\ \A n, m \in Nodes : Holds(n) /\ Holds(m) =>
              n = m \/ (move # None /\ move.id = Arg /\ move.stored
                           /\ {n, m} = {move.from, move.to})
        /\ (\E n \in Nodes : outbox[n] # {} \/ \E v : Told(n, v)) =>
              \A n \in Nodes : ~Holds(n)

Answering ==
    /\ main = "not found" =>
          op \notin {"find", "run"} /\ sent["result"] = {} /\ sent["error"] = {}
    /\ main = "ok" =>
          IF op \in {"find", "run"} THEN sent["error"] = {} ELSE sent["result"] # {}

IInv ==
    /\ Types /\ Gathering /\ Workers /\ Honest /\ Unmoved
    /\ Locking /\ OneHolder /\ Answering


-----------------------------------------------------------------------------
(* Each part of the invariant is about a few variables, and holds as long  *)
(* as these do not change.                                                 *)
LEMMA SameGathering ==
    ASSUME Gathering,
           UNCHANGED <<gathered, sent, hand, reading, main, pc>>
    PROVE  Gathering'
BY DEF Gathering, Answered, Channels

LEMMA SameWorkers ==
    ASSUME Workers,
           UNCHANGED <<pc, op, outbox, sent, members>>
    PROVE  Workers'
BY DEF Workers, Worker, Told, Fetching

LEMMA SameHonest ==
    ASSUME Honest,
           UNCHANGED <<outbox, op, sent>>
    PROVE  Honest'
BY DEF Honest, Wanted

LEMMA SameUnmoved ==
    ASSUME Unmoved,
           UNCHANGED <<moves, move, op, pc, data, first, outbox, sent, members>>
    PROVE  Unmoved'
BY DEF Unmoved, Telling, Told, Had, Wanted, Fetching

LEMMA SameLocking ==
    ASSUME Locking,
           UNCHANGED <<op, pc, nodeLock, move, data>>
    PROVE  Locking'
BY DEF Locking

LEMMA SameOneHolder ==
    ASSUME OneHolder,
           UNCHANGED <<op, first, data, move, outbox, sent, members>>
    PROVE  OneHolder'
BY DEF OneHolder, Holds, FirstHolders, Told

LEMMA SameAnswering ==
    ASSUME Answering,
           UNCHANGED <<main, op, sent>>
    PROVE  Answering'
BY DEF Answering

(* A worker's step leaves the other workers where they are.                *)
LEMMA OthersWork ==
    ASSUME Workers, NEW n \in Nodes, Worker(n)',
           op' = op, members' = members,
           \A m \in Nodes \ {n} : /\ pc'[m] = pc[m] /\ outbox'[m] = outbox[m]
                                  /\ m \in sent'["error"] <=> m \in sent["error"]
                                  /\ \A v : Told(m, v)' <=> Told(m, v)
    PROVE  Workers'
<1> SUFFICES ASSUME NEW m \in Nodes, m # n PROVE Worker(m)'
  BY DEF Workers
<1> QED
  BY DEF Workers, Worker

(* And what they have told of their nodes.                                 *)
LEMMA OthersTell ==
    ASSUME Unmoved, NEW n \in Nodes, moves = 0 => Telling(n)',
           op' = op, members' = members, first' = first, moves' = moves, move' = move,
           \A m \in Nodes \ {n} : /\ pc'[m] = pc[m] /\ outbox'[m] = outbox[m]
                                  /\ data'[m] = data[m]
                                  /\ m \in sent'["error"] <=> m \in sent["error"]
                                  /\ \A v : Told(m, v)' <=> Told(m, v)
    PROVE  Unmoved'
<1> SUFFICES ASSUME moves = 0, NEW m \in Nodes, m # n PROVE Telling(m)'
  BY DEF Unmoved
<1>1. Had(m)' = Had(m)
  BY DEF Had, Wanted
<1> QED
  BY <1>1 DEF Unmoved, Telling

(* The call starts with nothing found, sent or gathered.                   *)
LEMMA InitInv == Init => IInv
<1> SUFFICES ASSUME Init PROVE IInv
  OBVIOUS
<1>1. /\ op \in Ops /\ members \in Fleets 
      /\ temps = {} /\ ours = {} /\ first = data /\ outbox = [n \in Nodes |-> {}]
      /\ pc = [n \in Nodes |-> IF n \in members THEN "start" ELSE "done"]
      /\ faults = 0 /\ reading = Channels /\ main = "working"
      /\ hand = [c \in Channels |-> None] /\ sent = [c \in Channels |-> {}]
      /\ gathered = [c \in Channels |-> {}] /\ nodeLock = [n \in Nodes |-> None]
      /\ move = None /\ moves = 0
  BY DEF Init
<1>2. PICK holders \in [Ids -> SUBSET members] :
         data = [n \in Nodes |-> [id \in Ids |-> IF n \in holders[id] THEN "old" ELSE None]]
  BY DEF Init
<1>3. Types
  <2>1. data \in [Nodes -> [Ids -> {"old", None}]]
    BY <1>2
  <2> QED
    BY <1>1, <2>1, ParallelAssumption DEF Types, Versions
<1>4. Gathering /\ Workers /\ Honest
  BY <1>1, <1>3 DEF Gathering, Answered, Channels, Workers, Worker, Told, Fetching, Honest, Types
<1>5. \A n, v : ~Told(n, v)
  BY <1>1 DEF Told, Channels
<1>6. Unmoved
  BY <1>1, <1>3, <1>5 DEF Unmoved, Telling, Fetching, Had, Types
<1>7. Locking /\ Answering
  BY <1>1 DEF Locking, Answering
<1>8. OneHolder
  <2> SUFFICES ASSUME NEW a \in Nodes, FirstHolders(Arg) = {a}, NEW n \in Nodes, Holds(n)
               PROVE  n = a
    BY <1>1, <1>5 DEF OneHolder
  <2>1. n \in members
    BY <1>2, ParallelAssumption DEF Holds
  <2> QED
    BY <1>1, <2>1 DEF FirstHolders, Holds
<1> QED
  BY <1>3, <1>4, <1>6, <1>7, <1>8 DEF IInv

(* The counters of faults and of transfers grow.                           *)
LEMMA OneMore ==
    ASSUME Types
    PROVE  faults \in Nat /\ faults + 1 \in Nat /\ faults + 1 # 0
<1>1. faults \in Nat
  BY DEF Types
<1> QED
  BY <1>1

LEMMA OneMoreMove ==
    ASSUME Types
    PROVE  moves + 1 \in Nat /\ moves + 1 # 0
<1>1. moves \in Nat
  BY DEF Types
<1> QED
  BY <1>1

(* The parts of a transfer.                                                *)
LEMMA MoveFields ==
    ASSUME Types, move # None
    PROVE  move \in Moves /\ move.from \in Nodes /\ move.to \in Nodes /\ move.id \in Ids
BY DEF Types, Moves

(* A worker starts, and locks its node if it is to delete.                 *)
LEMMA StartInv ==
    ASSUME IInv, NEW n \in members, Start(n)
    PROVE  IInv'
<1>1. /\ pc[n] = "start" /\ (op = "delete" => nodeLock[n] = None)
      /\ nodeLock' = IF op = "delete" THEN [nodeLock EXCEPT ![n] = "worker"] ELSE nodeLock
      /\ pc' = [pc EXCEPT ![n] = IF op = "run" THEN "load" ELSE "call"]
      /\ op' = op /\ members' = members /\ first' = first /\ data' = data
      /\ outbox' = outbox /\ faults' = faults /\ hand' = hand
      /\ reading' = reading /\ gathered' = gathered /\ sent' = sent
      /\ main' = main /\ move' = move /\ moves' = moves /\ temps' = temps
      /\ ours' = ours
  BY DEF Start, given, readers, transfers, oracles
<1>2. Types /\ Gathering /\ Workers /\ Honest /\ Unmoved
      /\ Locking /\ OneHolder /\ Answering
  BY DEF IInv
<1>3. /\ n \in Nodes /\ pc'[n] = IF op = "run" THEN "load" ELSE "call"
      /\ (\A m \in Nodes \ {n} : pc'[m] = pc[m] /\ outbox'[m] = outbox[m])
  BY <1>1, <1>2 DEF Types
<1>4. Honest' /\ OneHolder' /\ Answering'
  BY <1>1, <1>2, SameHonest, SameOneHolder, SameAnswering
<1>5. Types'
  <2>1. pc' \in [Nodes -> {"start", "load", "loaded", "call", "acted", "send", "fail", "done"}]
    BY <1>1, <1>2 DEF Types, Channels
  <2>2. nodeLock' \in [Nodes -> {None, "worker", "transfer"}]
    BY <1>1, <1>2 DEF Types, Channels
  <2> QED
    BY <1>1, <1>2, <2>1, <2>2 DEF Types
<1>6. Gathering'
  BY <1>1, <1>2, <1>3 DEF Gathering, Answered, Types, Channels
<1>7. Workers'
  <2>1. \A m, v : Told(m, v)' <=> Told(m, v)
    BY <1>1, <1>2 DEF Told, Types, Channels
  <2>2. Worker(n)'
    BY <1>1, <1>2, <1>3, <2>1 DEF Workers, Worker, Fetching, Types
  <2> QED
    BY <1>1, <1>2, <1>3, <2>1, <2>2, OthersWork DEF Types, Channels
<1>8. Unmoved'
  <2>1. \A m, v : Told(m, v)' <=> Told(m, v)
    BY <1>1, <1>2 DEF Told, Types, Channels
  <2>2. Had(n)' = Had(n)
    BY <1>1 DEF Had, Wanted
  <2>3. ASSUME moves = 0 PROVE Telling(n)'
    BY <1>1, <1>2, <1>3, <2>1, <2>2, <2>3 DEF Unmoved, Telling, Workers, Worker, Fetching, Types
  <2> QED
    BY <1>1, <1>2, <1>3, <2>1, <2>3, OthersTell DEF Types, Channels
<1>9. Locking'
  <2>1. nodeLock'[n] = IF op = "delete" THEN "worker" ELSE nodeLock[n]
    BY <1>1, <1>2, <1>3 DEF Types
  <2>2. \A m \in Nodes \ {n} : nodeLock'[m] = nodeLock[m]
    BY <1>1, <1>2, <1>3 DEF Types
  <2>3. move # None => /\ move.from \in Nodes /\ nodeLock[move.from] # None
                       /\ move.to \in Nodes /\ nodeLock[move.to] # None
    BY <1>2, MoveFields, NoneAssumption DEF Locking
  <2> QED
    BY <1>1, <1>2, <1>3, <2>1, <2>2, <2>3 DEF Locking
<1> QED
  BY <1>4, <1>5, <1>6, <1>7, <1>8, <1>9 DEF IInv

(* A node has stored the temporary oracle, which its worker does not know. *)
LEMMA LoadInv ==
    ASSUME IInv, NEW n \in members, Load(n)
    PROVE  IInv'
<1>1. /\ pc[n] = "load" /\ temps' = temps \cup {n}
      /\ pc' = [pc EXCEPT ![n] = "loaded"] /\ op' = op /\ members' = members
      /\ first' = first /\ data' = data /\ outbox' = outbox
      /\ faults' = faults /\ hand' = hand /\ reading' = reading
      /\ gathered' = gathered /\ sent' = sent /\ main' = main
      /\ nodeLock' = nodeLock /\ move' = move /\ moves' = moves
      /\ ours' = ours
  BY DEF Load, given, readers, transfers, oracles
<1>2. Types /\ Gathering /\ Workers /\ Honest /\ Unmoved
      /\ Locking /\ OneHolder /\ Answering
  BY DEF IInv
<1>3. /\ n \in Nodes /\ pc'[n] = "loaded"
      /\ (\A m \in Nodes \ {n} : pc'[m] = pc[m] /\ outbox'[m] = outbox[m])
  BY <1>1, <1>2 DEF Types
<1>4. Honest' /\ OneHolder' /\ Answering'
  BY <1>1, <1>2, SameHonest, SameOneHolder, SameAnswering
<1>5. Types'
  <2>1. pc' \in [Nodes -> {"start", "load", "loaded", "call", "acted", "send", "fail", "done"}]
    BY <1>1, <1>2 DEF Types, Channels
  <2>2. temps' \subseteq members
    BY <1>1, <1>2 DEF Types, Channels
  <2> QED
    BY <1>1, <1>2, <2>1, <2>2 DEF Types
<1>6. Gathering'
  BY <1>1, <1>2, <1>3 DEF Gathering, Answered, Types, Channels
<1>7. Workers'
  <2>1. \A m, v : Told(m, v)' <=> Told(m, v)
    BY <1>1, <1>2 DEF Told, Types, Channels
  <2>2. Worker(n)'
    BY <1>1, <1>2, <1>3, <2>1 DEF Workers, Worker, Fetching, Types
  <2> QED
    BY <1>1, <1>2, <1>3, <2>1, <2>2, OthersWork DEF Types, Channels
<1>8. Unmoved'
  <2>1. \A m, v : Told(m, v)' <=> Told(m, v)
    BY <1>1, <1>2 DEF Told, Types, Channels
  <2>2. Had(n)' = Had(n)
    BY <1>1 DEF Had, Wanted
  <2>3. ASSUME moves = 0 PROVE Telling(n)'
    BY <1>1, <1>2, <1>3, <2>1, <2>2, <2>3 DEF Unmoved, Telling, Workers, Worker, Fetching, Types
  <2> QED
    BY <1>1, <1>2, <1>3, <2>1, <2>3, OthersTell DEF Types, Channels
<1>9. Locking'
  BY <1>1, <1>2, <1>3 DEF Locking, Types, Moves, Unlocked
<1> QED
  BY <1>4, <1>5, <1>6, <1>7, <1>8, <1>9 DEF IInv

(* The worker learns of it.                                                *)
LEMMA RememberInv ==
    ASSUME IInv, NEW n \in members, Remember(n)
    PROVE  IInv'
<1>1. /\ pc[n] = "loaded" /\ ours' = ours \cup {n}
      /\ pc' = [pc EXCEPT ![n] = "call"] /\ op' = op /\ members' = members
      /\ first' = first /\ data' = data /\ outbox' = outbox
      /\ faults' = faults /\ hand' = hand /\ reading' = reading
      /\ gathered' = gathered /\ sent' = sent /\ main' = main
      /\ nodeLock' = nodeLock /\ move' = move /\ moves' = moves
      /\ temps' = temps
  BY DEF Remember, given, readers, transfers, oracles
<1>2. Types /\ Gathering /\ Workers /\ Honest /\ Unmoved
      /\ Locking /\ OneHolder /\ Answering
  BY DEF IInv
<1>3. /\ n \in Nodes /\ pc'[n] = "call"
      /\ (\A m \in Nodes \ {n} : pc'[m] = pc[m] /\ outbox'[m] = outbox[m])
  BY <1>1, <1>2 DEF Types
<1>4. Honest' /\ OneHolder' /\ Answering'
  BY <1>1, <1>2, SameHonest, SameOneHolder, SameAnswering
<1>5. Types'
  <2>1. pc' \in [Nodes -> {"start", "load", "loaded", "call", "acted", "send", "fail", "done"}]
    BY <1>1, <1>2 DEF Types, Channels
  <2>2. ours' \subseteq members
    BY <1>1, <1>2 DEF Types, Channels
  <2> QED
    BY <1>1, <1>2, <2>1, <2>2 DEF Types
<1>6. Gathering'
  BY <1>1, <1>2, <1>3 DEF Gathering, Answered, Types, Channels
<1>7. Workers'
  <2>1. \A m, v : Told(m, v)' <=> Told(m, v)
    BY <1>1, <1>2 DEF Told, Types, Channels
  <2>2. Worker(n)'
    BY <1>1, <1>2, <1>3, <2>1 DEF Workers, Worker, Fetching, Types
  <2> QED
    BY <1>1, <1>2, <1>3, <2>1, <2>2, OthersWork DEF Types, Channels
<1>8. Unmoved'
  <2>1. \A m, v : Told(m, v)' <=> Told(m, v)
    BY <1>1, <1>2 DEF Told, Types, Channels
  <2>2. Had(n)' = Had(n)
    BY <1>1 DEF Had, Wanted
  <2>3. ASSUME moves = 0 PROVE Telling(n)'
    BY <1>1, <1>2, <1>3, <2>1, <2>2, <2>3 DEF Unmoved, Telling, Workers, Worker, Fetching, Types
  <2> QED
    BY <1>1, <1>2, <1>3, <2>1, <2>3, OthersTell DEF Types, Channels
<1>9. Locking'
  BY <1>1, <1>2, <1>3 DEF Locking, Types, Moves, Unlocked, Workers, Worker
<1> QED
  BY <1>4, <1>5, <1>6, <1>7, <1>8, <1>9 DEF IInv

(* An RPC fails: what the node found is lost, and an error will be sent.   *)
LEMMA FailInv ==
    ASSUME IInv, NEW n \in members, Fail(n)
    PROVE  IInv'
<1>1. /\ pc[n] \in {"load", "loaded", "call", "acted"}
      /\ (faults' = faults \/ faults' = faults + 1)
      /\ pc' = [pc EXCEPT ![n] = "fail"]
      /\ outbox' = [outbox EXCEPT ![n] = {}] /\ op' = op
      /\ members' = members /\ first' = first /\ data' = data /\ hand' = hand
      /\ reading' = reading /\ gathered' = gathered /\ sent' = sent
      /\ main' = main /\ nodeLock' = nodeLock /\ move' = move
      /\ moves' = moves /\ temps' = temps /\ ours' = ours
  BY DEF Fail, given, readers, transfers, oracles
<1>2. Types /\ Gathering /\ Workers /\ Honest /\ Unmoved
      /\ Locking /\ OneHolder /\ Answering
  BY DEF IInv
<1>3. /\ n \in Nodes /\ pc'[n] = "fail" /\ outbox'[n] = {}
      /\ (\A m \in Nodes \ {n} : pc'[m] = pc[m] /\ outbox'[m] = outbox[m])
  BY <1>1, <1>2 DEF Types
<1>4. Answering'
  BY <1>1, <1>2, SameAnswering
<1>5. Types'
  <2>1. faults' \in Nat
    BY <1>1, <1>2, OneMore DEF Types, Channels
  <2>2. pc' \in [Nodes -> {"start", "load", "loaded", "call", "acted", "send", "fail", "done"}]
    BY <1>1, <1>2 DEF Types, Channels
  <2>3. outbox' \in [Nodes -> SUBSET Reports]
    BY <1>1, <1>2 DEF Types, Channels
  <2> QED
    BY <1>1, <1>2, <2>1, <2>2, <2>3 DEF Types
<1>6. Gathering'
  BY <1>1, <1>2, <1>3 DEF Gathering, Answered, Types, Channels
<1>7. Workers'
  <2>1. \A m, v : Told(m, v)' <=> Told(m, v)
    BY <1>1, <1>2 DEF Told, Types, Channels
  <2>2. Worker(n)'
    BY <1>1, <1>2, <1>3, <2>1 DEF Workers, Worker, Fetching, Types
  <2> QED
    BY <1>1, <1>2, <1>3, <2>1, <2>2, OthersWork DEF Types, Channels
<1>8. Honest'
  BY <1>1, <1>2, <1>3 DEF Honest, Wanted, Types
<1>9. Unmoved'
  <2>1. \A m, v : Told(m, v)' <=> Told(m, v)
    BY <1>1, <1>2 DEF Told, Types, Channels
  <2>2. Had(n)' = Had(n)
    BY <1>1 DEF Had, Wanted
  <2>3. ASSUME moves = 0 PROVE Telling(n)'
    BY <1>1, <1>2, <1>3, <2>1, <2>2, <2>3 DEF Unmoved, Telling, Workers, Worker, Fetching, Types
  <2> QED
    BY <1>1, <1>2, <1>3, <2>1, <2>3, OthersTell DEF Types, Channels
<1>10. Locking'
  BY <1>1, <1>2, <1>3 DEF Locking, Types, Moves, Unlocked, Workers, Worker
<1>11. OneHolder'
  <2>1. \A m \in Nodes : outbox'[m] # {} => outbox[m] # {}
    BY <1>3
  <2>2. \A m, v : Told(m, v)' <=> Told(m, v)
    BY <1>1 DEF Told
  <2> QED
    BY <1>1, <1>2, <2>1, <2>2 DEF OneHolder, Holds, FirstHolders
<1> QED
  BY <1>4, <1>5, <1>6, <1>7, <1>8, <1>9, <1>10, <1>11 DEF IInv

(* The answer arrives, and is worth sending or not.                        *)
LEMMA ReplyInv ==
    ASSUME IInv, NEW n \in members, Reply(n)
    PROVE  IInv'
<1>1. /\ pc[n] = "acted"
      /\ IF outbox[n] = {} /\ op # "run"
         THEN pc' = [pc EXCEPT ![n] = "done"] /\ nodeLock' = Unlocked(n)
         ELSE pc' = [pc EXCEPT ![n] = "send"] /\ nodeLock' = nodeLock
      /\ op' = op /\ members' = members /\ first' = first /\ data' = data
      /\ outbox' = outbox /\ faults' = faults /\ hand' = hand
      /\ reading' = reading /\ gathered' = gathered /\ sent' = sent
      /\ main' = main /\ move' = move /\ moves' = moves /\ temps' = temps
      /\ ours' = ours
  BY DEF Reply, given, readers, transfers, oracles
<1>2. Types /\ Gathering /\ Workers /\ Honest /\ Unmoved
      /\ Locking /\ OneHolder /\ Answering
  BY DEF IInv
<1>3. /\ n \in Nodes
      /\ pc'[n] = IF outbox[n] = {} /\ op # "run" THEN "done" ELSE "send"
      /\ (\A m \in Nodes \ {n} : pc'[m] = pc[m] /\ outbox'[m] = outbox[m])
  BY <1>1, <1>2 DEF Types
<1>4. Honest' /\ OneHolder' /\ Answering'
  BY <1>1, <1>2, SameHonest, SameOneHolder, SameAnswering
<1>5. Types'
  <2>1. pc' \in [Nodes -> {"start", "load", "loaded", "call", "acted", "send", "fail", "done"}]
    BY <1>1, <1>2 DEF Types, Channels
  <2>2. nodeLock' \in [Nodes -> {None, "worker", "transfer"}]
    BY <1>1, <1>2 DEF Types, Channels, Unlocked
  <2> QED
    BY <1>1, <1>2, <2>1, <2>2 DEF Types
<1>6. Gathering'
  BY <1>1, <1>2, <1>3 DEF Gathering, Answered, Types, Channels
<1>7. Workers'
  <2>1. \A m, v : Told(m, v)' <=> Told(m, v)
    BY <1>1, <1>2 DEF Told, Types, Channels
  <2>2. Worker(n)'
    BY <1>1, <1>2, <1>3, <2>1 DEF Workers, Worker, Fetching, Types
  <2> QED
    BY <1>1, <1>2, <1>3, <2>1, <2>2, OthersWork DEF Types, Channels
<1>8. Unmoved'
  <2>1. \A m, v : Told(m, v)' <=> Told(m, v)
    BY <1>1, <1>2 DEF Told, Types, Channels
  <2>2. Had(n)' = Had(n)
    BY <1>1 DEF Had, Wanted
  <2>3. ASSUME moves = 0 PROVE Telling(n)'
    <3>1. outbox'[n] = Had(n) /\ \A v : ~Told(n, v)
      BY <1>1, <1>2, <1>3, <2>3 DEF Unmoved, Telling, Workers, Worker
    <3>2. Telling(n)
      BY <1>2, <1>3, <2>3 DEF Unmoved
    <3> QED
      BY <1>1, <1>3, <2>1, <2>2, <3>1, <3>2 DEF Telling, Fetching
  <2> QED
    BY <1>1, <1>2, <1>3, <2>1, <2>3, OthersTell DEF Types, Channels
<1>9. Locking'
  <2>1. \A m \in Nodes : nodeLock'[m] # nodeLock[m] => m = n /\ nodeLock[m] = "worker"
    BY <1>1, <1>2, <1>3 DEF Types, Unlocked
  <2>2. move # None => move.from \in Nodes /\ move.to \in Nodes
    BY <1>2, MoveFields
  <2> QED
    BY <1>1, <1>2, <1>3, <2>1, <2>2 DEF Locking
<1> QED
  BY <1>4, <1>5, <1>6, <1>7, <1>8, <1>9 DEF IInv

(* A reader takes the error of a worker.                                   *)
LEMMA SendErrorInv ==
    ASSUME IInv, NEW n \in members, SendError(n)
    PROVE  IInv'
<1>1. /\ pc[n] = "fail" /\ "error" \in reading /\ hand["error"] = None
      /\ hand' = [hand EXCEPT !["error"] = n]
      /\ sent' = [sent EXCEPT !["error"] = @ \cup {n}]
      /\ pc' = [pc EXCEPT ![n] = "done"] /\ nodeLock' = Unlocked(n)
      /\ op' = op /\ members' = members /\ first' = first /\ data' = data
      /\ outbox' = outbox /\ faults' = faults /\ reading' = reading
      /\ gathered' = gathered /\ main' = main /\ move' = move
      /\ moves' = moves /\ temps' = temps /\ ours' = ours
  BY DEF SendError, Send, given, readers, transfers, oracles
<1>2. Types /\ Gathering /\ Workers /\ Honest /\ Unmoved
      /\ Locking /\ OneHolder /\ Answering
  BY DEF IInv
<1>3. /\ n \in Nodes /\ pc'[n] = "done"
      /\ (\A m \in Nodes \ {n} : pc'[m] = pc[m] /\ outbox'[m] = outbox[m])
  BY <1>1, <1>2 DEF Types
<1>4. Types'
  <2>1. hand' \in [Channels -> Results \cup Nodes \cup {None}]
    BY <1>1, <1>2 DEF Types, Channels
  <2>2. sent' \in [Channels -> SUBSET (Results \cup Nodes)]
    BY <1>1, <1>2 DEF Types, Channels
  <2>3. pc' \in [Nodes -> {"start", "load", "loaded", "call", "acted", "send", "fail", "done"}]
    BY <1>1, <1>2 DEF Types, Channels
  <2>4. nodeLock' \in [Nodes -> {None, "worker", "transfer"}]
    BY <1>1, <1>2 DEF Types, Channels, Unlocked
  <2> QED
    BY <1>1, <1>2, <2>1, <2>2, <2>3, <2>4 DEF Types
<1>5. Gathering'
  <2>1. hand'["error"] = n /\ sent'["error"] = sent["error"] \cup {n}
    BY <1>1, <1>2 DEF Types, Channels
  <2>2. \A d \in Channels \ {"error"} : hand'[d] = hand[d] /\ sent'[d] = sent[d]
    BY <1>1, <1>2 DEF Types
  <2>3. main = "working"
    BY <1>1, <1>2, <1>3 DEF Gathering
  <2>4. sent["error"] \subseteq gathered["error"]
    <3> SUFFICES ASSUME NEW v \in sent["error"] \ gathered["error"] PROVE FALSE
      OBVIOUS
    <3>1. v = None
      BY <1>1, <1>2 DEF Gathering, Channels
    <3>2. v \in Results \cup Nodes
      BY <1>2 DEF Types, Channels
    <3> QED
      BY <3>1, <3>2, NoneAssumption
  <2> QED
    BY <1>1, <1>2, <2>1, <2>2, <2>3, <2>4 DEF Gathering, Answered
<1>6. Workers'
  <2>1. \A m, v : Told(m, v)' <=> Told(m, v)
    BY <1>1, <1>2 DEF Told, Types, Channels
  <2>2. Worker(n)'
    BY <1>1, <1>2, <1>3, <2>1 DEF Workers, Worker, Fetching, Types
  <2> QED
    BY <1>1, <1>2, <1>3, <2>1, <2>2, OthersWork DEF Types, Channels
<1>7. Honest'
  BY <1>1, <1>2, <1>3 DEF Honest, Wanted, Types, Channels
<1>8. Unmoved'
  <2>1. \A m, v : Told(m, v)' <=> Told(m, v)
    BY <1>1, <1>2 DEF Told, Types, Channels
  <2>2. Had(n)' = Had(n)
    BY <1>1 DEF Had, Wanted
  <2>3. ASSUME moves = 0 PROVE Telling(n)'
    BY <1>1, <1>2, <1>3, <2>1, <2>2, <2>3 DEF Unmoved, Telling, Workers, Worker, Fetching, Types
  <2> QED
    BY <1>1, <1>2, <1>3, <2>1, <2>3, OthersTell DEF Types, Channels
<1>9. Locking'
  <2>1. \A m \in Nodes : nodeLock'[m] # nodeLock[m] => m = n /\ nodeLock[m] = "worker"
    BY <1>1, <1>2, <1>3 DEF Types, Unlocked
  <2>2. move # None => move.from \in Nodes /\ move.to \in Nodes
    BY <1>2, MoveFields
  <2> QED
    BY <1>1, <1>2, <1>3, <2>1, <2>2 DEF Locking
<1>10. OneHolder'
  <2>1. \A m, v : Told(m, v)' <=> Told(m, v)
    BY <1>1, <1>2 DEF Told, Types, Channels
  <2> QED
    BY <1>1, <1>2, <2>1 DEF OneHolder, Holds, FirstHolders
<1>12. Answering'
  BY <1>1, <1>2, <1>3 DEF Answering, Types, Gathering
<1> QED
  BY <1>4, <1>5, <1>6, <1>7, <1>8, <1>9, <1>10, <1>12 DEF IInv

(* A reader appends what it has received.                                  *)
LEMMA GatherInv ==
    ASSUME IInv, NEW c \in Channels, Gather(c)
    PROVE  IInv'
<1>1. /\ hand[c] # None
      /\ gathered' = [gathered EXCEPT ![c] = @ \cup {hand[c]}]
      /\ hand' = [hand EXCEPT ![c] = None] /\ op' = op /\ members' = members
      /\ first' = first /\ data' = data /\ pc' = pc /\ outbox' = outbox
      /\ faults' = faults /\ reading' = reading /\ sent' = sent
      /\ main' = main /\ nodeLock' = nodeLock /\ move' = move
      /\ moves' = moves /\ temps' = temps /\ ours' = ours
  BY DEF Gather, given, readers, transfers, oracles
<1>2. Types /\ Gathering /\ Workers /\ Honest /\ Unmoved
      /\ Locking /\ OneHolder /\ Answering
  BY DEF IInv
<1>3. hand[c] \in Results \cup Nodes
  BY <1>1, <1>2 DEF Types
<1>4. Workers' /\ Honest' /\ Unmoved' /\ Locking' /\ OneHolder' /\ Answering'
  BY <1>1, <1>2, SameWorkers, SameHonest, SameUnmoved, SameLocking,
     SameOneHolder, SameAnswering
<1>5. Types'
  <2>1. gathered' \in [Channels -> SUBSET (Results \cup Nodes)]
    BY <1>1, <1>2, <1>3 DEF Types, Channels
  <2>2. hand' \in [Channels -> Results \cup Nodes \cup {None}]
    BY <1>1, <1>2 DEF Types, Channels
  <2> QED
    BY <1>1, <1>2, <2>1, <2>2 DEF Types
<1>6. Gathering'
  <2>1. hand'[c] = None /\ gathered'[c] = gathered[c] \cup {hand[c]}
    BY <1>1, <1>2 DEF Types
  <2>2. \A d \in Channels \ {c} : hand'[d] = hand[d] /\ gathered'[d] = gathered[d]
    BY <1>1, <1>2 DEF Types
  <2>3. hand[c] \in sent[c] /\ c \in reading
    BY <1>1, <1>2 DEF Gathering
  <2> QED
    BY <1>1, <1>2, <2>1, <2>2, <2>3 DEF Gathering, Answered
<1> QED
  BY <1>4, <1>5, <1>6 DEF IInv

(* A reader finds its channel closed.                                      *)
LEMMA EndReaderInv ==
    ASSUME IInv, NEW c \in Channels, EndReader(c)
    PROVE  IInv'
<1>1. /\ main = "closed" /\ c \in reading /\ hand[c] = None
      /\ reading' = reading \ {c} /\ op' = op /\ members' = members
      /\ first' = first /\ data' = data /\ pc' = pc /\ outbox' = outbox
      /\ faults' = faults /\ hand' = hand /\ gathered' = gathered
      /\ sent' = sent /\ main' = main /\ nodeLock' = nodeLock /\ move' = move
      /\ moves' = moves /\ temps' = temps /\ ours' = ours
  BY DEF EndReader, given, readers, transfers, oracles
<1>2. Types /\ Gathering /\ Workers /\ Honest /\ Unmoved
      /\ Locking /\ OneHolder /\ Answering
  BY DEF IInv
<1>3. Workers' /\ Honest' /\ Unmoved' /\ Locking' /\ OneHolder' /\ Answering'
  BY <1>1, <1>2, SameWorkers, SameHonest, SameUnmoved, SameLocking,
     SameOneHolder, SameAnswering
<1>4. Types'
  <2>1. reading' \subseteq Channels
    BY <1>1, <1>2 DEF Types, Channels
  <2> QED
    BY <1>1, <1>2, <2>1 DEF Types
<1>5. Gathering'
  BY <1>1, <1>2 DEF Gathering, Answered, Types, Channels
<1> QED
  BY <1>3, <1>4, <1>5 DEF IInv

(* All workers are done.                                                   *)
LEMMA CloseInv ==
    ASSUME IInv, Close
    PROVE  IInv'
<1>1. /\ main = "working" /\ (\A n \in members : pc[n] = "done")
      /\ main' = "closed" /\ op' = op /\ members' = members /\ first' = first
      /\ data' = data /\ pc' = pc /\ outbox' = outbox /\ faults' = faults
      /\ hand' = hand /\ reading' = reading /\ gathered' = gathered
      /\ sent' = sent /\ nodeLock' = nodeLock /\ move' = move
      /\ moves' = moves /\ temps' = temps /\ ours' = ours
  BY DEF Close, given, readers, transfers, oracles
<1>2. Types /\ Gathering /\ Workers /\ Honest /\ Unmoved
      /\ Locking /\ OneHolder /\ Answering
  BY DEF IInv
<1>3. Workers' /\ Honest' /\ Unmoved' /\ Locking' /\ OneHolder'
  BY <1>1, <1>2, SameWorkers, SameHonest, SameUnmoved, SameLocking,
     SameOneHolder
<1>4. Types'
  <2>1. main' \in {"working", "closed", "ok", "not found", "error"}
    BY <1>1, <1>2 DEF Types, Channels
  <2> QED
    BY <1>1, <1>2, <2>1 DEF Types
<1>5. Gathering'
  BY <1>1, <1>2 DEF Gathering, Answered, Types, Channels, Workers, Worker
<1>6. Answering'
  BY <1>1, <1>2 DEF Answering, Types
<1> QED
  BY <1>3, <1>4, <1>5, <1>6 DEF IInv

(* Both readers have stopped: the handler answers.                         *)
LEMMA ReturnInv ==
    ASSUME IInv, Return
    PROVE  IInv'
<1>1. /\ main = "closed" /\ reading = {}
      /\ main' \in Answer(gathered["result"], gathered["error"]) /\ op' = op
      /\ members' = members /\ first' = first /\ data' = data /\ pc' = pc
      /\ outbox' = outbox /\ faults' = faults /\ hand' = hand
      /\ reading' = reading /\ gathered' = gathered /\ sent' = sent
      /\ nodeLock' = nodeLock /\ move' = move /\ moves' = moves
      /\ temps' = temps /\ ours' = ours
  BY DEF Return, given, readers, transfers, oracles
<1>2. Types /\ Gathering /\ Workers /\ Honest /\ Unmoved
      /\ Locking /\ OneHolder /\ Answering
  BY DEF IInv
<1>3. Workers' /\ Honest' /\ Unmoved' /\ Locking' /\ OneHolder'
  BY <1>1, <1>2, SameWorkers, SameHonest, SameUnmoved, SameLocking,
     SameOneHolder
<1>4. Types'
  <2>1. main' \in {"working", "closed", "ok", "not found", "error"}
    BY <1>1, <1>2 DEF Types, Channels, Answer, AnswerOfAll, AnswerOfRun,
       AnswerOfOne
  <2> QED
    BY <1>1, <1>2, <2>1 DEF Types
<1>5. Gathering'
  <2>1. main' # "working"
    BY <1>1 DEF Answer, AnswerOfAll, AnswerOfRun, AnswerOfOne
  <2> QED
    BY <1>1, <1>2, <2>1 DEF Gathering, Answered
<1>7. Answering'
  <2>1. \A c \in Channels : gathered[c] = sent[c]
    <3> SUFFICES ASSUME NEW c \in Channels, NEW v \in sent[c] \ gathered[c] PROVE FALSE
      BY <1>2 DEF Gathering
    <3>1. v = None
      BY <1>1, <1>2 DEF Gathering
    <3>2. v \in Results \cup Nodes
      BY <1>2 DEF Types
    <3> QED
      BY <3>1, <3>2, NoneAssumption
  <2>2. gathered["result"] = sent["result"] /\ gathered["error"] = sent["error"]
    BY <2>1 DEF Channels
  <2> QED
    BY <1>1, <2>2 DEF Answering, Answer, AnswerOfAll, AnswerOfRun, AnswerOfOne
<1> QED
  BY <1>3, <1>4, <1>5, <1>7 DEF IInv

(* Run deletes a temporary oracle, or fails to.                            *)
LEMMA CleanUpInv ==
    ASSUME IInv, NEW n \in members, CleanUp(n)
    PROVE  IInv'
<1>1. /\ Answered /\ n \in ours /\ ours' = ours \ {n}
      /\ \/ temps' = temps \ {n} /\ faults' = faults
         \/ temps' = temps /\ (faults' = faults \/ faults' = faults + 1)
      /\ op' = op /\ members' = members /\ first' = first /\ data' = data
      /\ pc' = pc /\ outbox' = outbox /\ hand' = hand /\ reading' = reading
      /\ gathered' = gathered /\ sent' = sent /\ main' = main
      /\ nodeLock' = nodeLock /\ move' = move /\ moves' = moves
  BY DEF CleanUp, given, readers, transfers, oracles
<1>2. Types /\ Gathering /\ Workers /\ Honest /\ Unmoved
      /\ Locking /\ OneHolder /\ Answering
  BY DEF IInv
<1>3. Gathering' /\ Workers' /\ Honest' /\ Unmoved' /\ Locking' /\ OneHolder' /\ Answering'
  BY <1>1, <1>2, SameGathering, SameWorkers, SameHonest, SameUnmoved,
     SameLocking, SameOneHolder, SameAnswering
<1>4. Types'
  <2>1. ours' \subseteq members
    BY <1>1, <1>2 DEF Types, Channels
  <2>2. temps' \subseteq members
    BY <1>1, <1>2 DEF Types, Channels
  <2>3. faults' \in Nat
    BY <1>1, <1>2, OneMore DEF Types, Channels
  <2> QED
    BY <1>1, <1>2, <2>1, <2>2, <2>3 DEF Types
<1> QED
  BY <1>3, <1>4 DEF IInv

(* What is asked for.                                                      *)
LEMMA WantedFields == Wanted \subseteq Ids /\ (op \notin {"find", "run"} => Wanted = {Arg})
BY ParallelAssumption DEF Wanted

(* What the node of n reports: its records that were asked for.            *)
LEMMA FoundFields ==
    ASSUME Types, NEW n \in Nodes
    PROVE  /\ Found(n) \subseteq Reports
           /\ \A v \in Found(n) : v.node = n /\ v.id \in Wanted /\ data[n][v.id] # None
<1> SUFFICES ASSUME NEW v \in Found(n)
             PROVE  v \in Reports /\ v.node = n /\ v.id \in Wanted /\ data[n][v.id] # None
  OBVIOUS
<1>1. PICK id \in Wanted : data[n][id] # None /\ v = [node |-> n, id |-> id, version |-> data[n][id]]
  BY DEF Found
<1>2. id \in Ids /\ data[n][id] \in Versions
  <2>1. id \in Ids
    BY <1>1, WantedFields
  <2>2. data[n] \in [Ids -> Versions \cup {None}]
    BY DEF Types
  <2> QED
    BY <1>1, <2>1, <2>2
<1> QED
  BY <1>1, <1>2 DEF Reports

(* The node serves the RPC: its worker has found all that it has.          *)
LEMMA ActInv ==
    ASSUME IInv, NEW n \in members, Act(n)
    PROVE  IInv'
<1>1. /\ pc[n] = "call" /\ pc' = [pc EXCEPT ![n] = "acted"]
      /\ outbox' = [outbox EXCEPT ![n] = Found(n)]
      /\ data' = IF data[n][Arg] = None THEN data
                 ELSE CASE op = "update" -> [data EXCEPT ![n][Arg] = "new"]
                        [] op = "delete" -> [data EXCEPT ![n][Arg] = None]
                        [] OTHER -> data
      /\ op' = op /\ members' = members /\ first' = first /\ faults' = faults
      /\ hand' = hand /\ reading' = reading /\ gathered' = gathered
      /\ sent' = sent /\ main' = main /\ nodeLock' = nodeLock /\ move' = move
      /\ moves' = moves /\ temps' = temps /\ ours' = ours
  BY DEF Act, given, readers, transfers, oracles
<1>2. Types /\ Gathering /\ Workers /\ Honest /\ Unmoved
      /\ Locking /\ OneHolder /\ Answering
  BY DEF IInv
<1>3. /\ n \in Nodes /\ pc'[n] = "acted" /\ outbox'[n] = Found(n)
      /\ (\A m \in Nodes \ {n} : pc'[m] = pc[m] /\ outbox'[m] = outbox[m])
  BY <1>1, <1>2 DEF Types
<1>4. /\ data' \in [Nodes -> [Ids -> Versions \cup {None}]]
      /\ \A m \in Nodes \ {n} : data'[m] = data[m]
      /\ \A i \in Ids \ {Arg} : data'[n][i] = data[n][i]
      /\ data'[n][Arg] = IF data[n][Arg] = None \/ op \notin {"update", "delete"} THEN data[n][Arg]
                         ELSE IF op = "update" THEN "new" ELSE None
      /\ op \notin {"update", "delete"} => data' = data
  <2>1. Arg \in Ids /\ data \in [Nodes -> [Ids -> Versions \cup {None}]] /\ "new" \in Versions
    BY <1>2, ParallelAssumption DEF Types, Versions
  <2>2. CASE data[n][Arg] = None \/ op \notin {"update", "delete"}
    BY <1>1, <2>1, <2>2
  <2>3. CASE data[n][Arg] # None /\ op = "update"
    <3>1. data' = [data EXCEPT ![n][Arg] = "new"]
      BY <1>1, <2>3
    <3> QED
      BY <1>3, <2>1, <2>3, <3>1
  <2>4. CASE data[n][Arg] # None /\ op = "delete"
    <3>1. data' = [data EXCEPT ![n][Arg] = None]
      BY <1>1, <2>4
    <3> QED
      BY <1>3, <2>1, <2>4, <3>1
  <2> QED
    BY <2>2, <2>3, <2>4
<1>5. Answering'
  BY <1>1, <1>2, SameAnswering
<1>6. Types'
  <2>1. pc' \in [Nodes -> {"start", "load", "loaded", "call", "acted", "send", "fail", "done"}]
    BY <1>1, <1>2 DEF Types
  <2>2. outbox' \in [Nodes -> SUBSET Reports]
    BY <1>1, <1>2, <1>3, FoundFields DEF Types
  <2> QED
    BY <1>1, <1>2, <1>4, <2>1, <2>2 DEF Types
<1>7. Gathering'
  BY <1>1, <1>2, <1>3 DEF Gathering, Answered, Types, Channels
<1>8. Workers'
  <2>1. \A m, v : Told(m, v)' <=> Told(m, v)
    BY <1>1, <1>2 DEF Told, Types, Channels
  <2>2. Worker(n)'
    BY <1>1, <1>2, <1>3, <2>1 DEF Workers, Worker, Fetching, Types
  <2> QED
    BY <1>1, <1>2, <1>3, <2>1, <2>2, OthersWork DEF Types, Channels
<1>9. Honest'
  <2>1. Wanted' = Wanted
    BY <1>1 DEF Wanted
  <2> QED
    BY <1>1, <1>2, <1>3, <2>1, FoundFields DEF Honest
<1>10. Unmoved'
  <2>1. \A m, v : Told(m, v)' <=> Told(m, v)
    BY <1>1, <1>2 DEF Told, Types, Channels
  <2>2. Had(n)' = Had(n)
    BY <1>1 DEF Had, Wanted
  <2>3. ASSUME moves = 0 PROVE Telling(n)'
    <3>1. Telling(n) /\ data[n] = first[n]
      BY <1>1, <1>2, <1>3, <2>3 DEF Unmoved, Telling, Fetching
    <3>2. Found(n) = Had(n)
      <4>1. \A i \in Wanted : first[n][i] # None => data[n][i] = "old"
        <5>1. first[n] \in [Ids -> {"old", None}]
          BY <1>2, <1>3 DEF Types
        <5> QED
          BY <3>1, <5>1, WantedFields
      <4> QED
        BY <3>1, <4>1 DEF Found, Had
    <3>3. \A v : ~Told(n, v)
      BY <1>1, <1>2, <1>3 DEF Workers, Worker, Fetching
    <3>4. op = "update" /\ Found(n) # {} => data'[n][Arg] = "new"
      BY <1>2, <1>3, <1>4, WantedFields, FoundFields
    <3> QED
      BY <1>1, <1>3, <1>4, <2>1, <2>2, <3>1, <3>2, <3>3, <3>4 DEF Telling, Fetching
  <2> QED
    BY <1>1, <1>2, <1>3, <1>4, <2>1, <2>3, OthersTell DEF Types, Channels
<1>11. Locking'
  <2>1. op = "delete" => nodeLock[n] = "worker"
    BY <1>1, <1>2, <1>3 DEF Locking
  <2>2. ASSUME move # None PROVE data'[move.from][move.id] # None
    <3>1. move.from \in Nodes /\ move.id \in Ids /\ data[move.from][move.id] # None
             /\ nodeLock[move.from] = "transfer"
      BY <1>2, <2>2, MoveFields DEF Locking
    <3> QED
      BY <1>3, <1>4, <2>1, <3>1, NoneAssumption DEF Versions
  <2> QED
    BY <1>1, <1>2, <1>3, <2>1, <2>2 DEF Locking
<1>12. OneHolder'
  <2> SUFFICES ASSUME op = "delete", NEW f \in Nodes, FirstHolders(Arg) = {f}
               PROVE  /\ \A k, m \in Nodes : Holds(k)' /\ Holds(m)' =>
                            k = m \/ (move # None /\ move.id = Arg /\ move.stored
                                         /\ {k, m} = {move.from, move.to})
                      /\ (\E k \in Nodes : outbox'[k] # {} \/ \E v : Told(k, v)') =>
                            \A k \in Nodes : ~Holds(k)'
    BY <1>1 DEF OneHolder, FirstHolders
  <2>1. ~Holds(n)' /\ \A m \in Nodes : Holds(m)' => Holds(m) /\ m # n
    BY <1>3, <1>4 DEF Holds
  <2>2. \A k, v : Told(k, v)' <=> Told(k, v)
    BY <1>1 DEF Told
  <2>3. /\ \A k, m \in Nodes : Holds(k) /\ Holds(m) =>
              k = m \/ (move # None /\ move.id = Arg /\ move.stored
                           /\ {k, m} = {move.from, move.to})
        /\ (\E k \in Nodes : outbox[k] # {} \/ \E v : Told(k, v)) =>
              \A k \in Nodes : ~Holds(k)
    BY <1>2 DEF OneHolder
  <2>4. ASSUME Found(n) # {} PROVE \A k \in Nodes : ~Holds(k)'
    <3>1. Holds(n)
      BY <1>2, <1>3, <2>4, WantedFields, FoundFields DEF Holds
    <3>2. move # None => n # move.from /\ n # move.to
      BY <1>1, <1>2, <1>3 DEF Locking
    <3> QED
      BY <1>3, <2>1, <2>3, <3>1, <3>2
  <2> QED
    BY <1>3, <2>1, <2>2, <2>3, <2>4
<1> QED
  BY <1>5, <1>6, <1>7, <1>8, <1>9, <1>10, <1>11, <1>12 DEF IInv

(* A reader takes a result of a worker.                                    *)
LEMMA SendResultInv ==
    ASSUME IInv, NEW n \in members, SendResult(n)
    PROVE  IInv'
<1>1. /\ pc[n] = "send" /\ "result" \in reading /\ hand["result"] = None
      /\ IF outbox'[n] = {} THEN pc' = [pc EXCEPT ![n] = "done"] /\ nodeLock' = Unlocked(n)
                            ELSE pc' = pc /\ nodeLock' = nodeLock
      /\ op' = op /\ members' = members /\ first' = first /\ data' = data
      /\ faults' = faults /\ reading' = reading /\ gathered' = gathered
      /\ main' = main /\ move' = move /\ moves' = moves
      /\ temps' = temps /\ ours' = ours
  BY DEF SendResult, Send, given, readers, transfers, oracles
<1>2. PICK r \in Values(n) :
         /\ hand' = [hand EXCEPT !["result"] = [from |-> n, found |-> r]]
         /\ sent' = [sent EXCEPT !["result"] = @ \cup {[from |-> n, found |-> r]}]
         /\ outbox' = [outbox EXCEPT ![n] = IF op = "run" THEN {} ELSE @ \ {r}]
  BY DEF SendResult, Send
<1>3. Types /\ Gathering /\ Workers /\ Honest /\ Unmoved
      /\ Locking /\ OneHolder /\ Answering
  BY DEF IInv
<1> DEFINE res == [from |-> n, found |-> r]
<1>4. /\ n \in Nodes /\ res.from = n /\ res.found = r /\ res \in Results /\ res # None
      /\ (op = "run" => r = outbox[n]) /\ (op # "run" => r \in outbox[n] /\ r \in Reports)
  <2>1. n \in Nodes /\ outbox[n] \in SUBSET Reports
    BY <1>3 DEF Types
  <2>2. (op = "run" => r = outbox[n]) /\ (op # "run" => r \in outbox[n] /\ r \in Reports)
    BY <2>1 DEF Values
  <2>3. res \in Results
    BY <2>1, <2>2 DEF Results
  <2> QED
    BY <2>1, <2>2, <2>3, NoneAssumption
<1> HIDE DEF res
<1>5. /\ hand' = [hand EXCEPT !["result"] = res]
      /\ sent' = [sent EXCEPT !["result"] = @ \cup {res}]
  BY <1>2 DEF res
<1>6. /\ hand'["result"] = res /\ sent'["result"] = sent["result"] \cup {res}
      /\ hand'["error"] = hand["error"] /\ sent'["error"] = sent["error"]
  BY <1>3, <1>5 DEF Types, Channels
<1>7. /\ outbox'[n] = (IF op = "run" THEN {} ELSE outbox[n] \ {r})
      /\ \A m \in Nodes \ {n} : outbox'[m] = outbox[m]
  BY <1>2, <1>3, <1>4 DEF Types
<1>8. /\ pc'[n] = IF outbox'[n] = {} THEN "done" ELSE "send"
      /\ \A m \in Nodes \ {n} : pc'[m] = pc[m]
  BY <1>1, <1>3, <1>4 DEF Types
<1>9. \A m, v : Told(m, v)' <=> Told(m, v) \/ (m = n /\ v = r)
  BY <1>4, <1>6 DEF Told
<1>10. Types'
  <2>1. pc' \in [Nodes -> {"start", "load", "loaded", "call", "acted", "send", "fail", "done"}]
    BY <1>1, <1>3 DEF Types
  <2>2. nodeLock' \in [Nodes -> {None, "worker", "transfer"}]
    BY <1>1, <1>3 DEF Types, Unlocked
  <2>3. outbox' \in [Nodes -> SUBSET Reports]
    <3>1. outbox \in [Nodes -> SUBSET Reports]
      BY <1>3 DEF Types
    <3> QED
      BY <1>2, <3>1
  <2>4. hand' \in [Channels -> Results \cup Nodes \cup {None}]
    BY <1>3, <1>4, <1>5 DEF Types
  <2>5. sent' \in [Channels -> SUBSET (Results \cup Nodes)]
    BY <1>3, <1>4, <1>5 DEF Types
  <2> QED
    BY <1>1, <1>3, <2>1, <2>2, <2>3, <2>4, <2>5 DEF Types
<1>11. Gathering'
  <2>1. main = "working"
    BY <1>1, <1>3, <1>4 DEF Gathering
  <2>2. sent["result"] \subseteq gathered["result"]
    <3> SUFFICES ASSUME NEW v \in sent["result"] \ gathered["result"] PROVE FALSE
      OBVIOUS
    <3>1. v = None
      BY <1>1, <1>3 DEF Gathering, Channels
    <3>2. v \in Results \cup Nodes
      BY <1>3 DEF Types, Channels
    <3> QED
      BY <3>1, <3>2, NoneAssumption
  <2>3. \A c \in Channels : c = "result" \/ c = "error"
    BY DEF Channels
  <2> QED
    BY <1>1, <1>3, <1>6, <2>1, <2>2, <2>3 DEF Gathering, Answered
<1>12. Workers'
  <2>1. Worker(n)'
    BY <1>1, <1>3, <1>4, <1>7, <1>8, <1>9 DEF Workers, Worker, Fetching
  <2> QED
    BY <1>1, <1>3, <1>4, <1>6, <1>7, <1>8, <1>9, <2>1, OthersWork
<1>13. Honest'
  <2>1. Wanted' = Wanted
    BY <1>1 DEF Wanted
  <2>2. \A m \in Nodes : outbox'[m] \subseteq outbox[m]
    BY <1>7
  <2> QED
    BY <1>1, <1>3, <1>4, <1>6, <2>1, <2>2 DEF Honest
<1>14. Unmoved'
  <2>1. Had(n)' = Had(n)
    BY <1>1 DEF Had, Wanted
  <2>2. ASSUME moves = 0 PROVE Telling(n)'
    <3>1. Telling(n)
      BY <1>3, <1>4, <2>2 DEF Unmoved
    <3>2. op = "run" => r = Had(n) /\ \A v : ~Told(n, v)
      BY <1>1, <1>3, <1>4, <3>1 DEF Telling, Workers, Worker
    <3>3. op # "run" => r \in Had(n) /\ outbox[n] # {} /\ outbox'[n] \subseteq outbox[n]
      BY <1>1, <1>3, <1>4, <1>7, <3>1 DEF Telling
    <3>4. op # "run" => \A v \in Had(n) : v \in outbox'[n] \/ Told(n, v)'
      BY <1>1, <1>4, <1>7, <1>9, <3>1 DEF Telling
    <3> QED
      BY <1>1, <1>3, <1>7, <1>8, <1>9, <2>1, <3>1, <3>2, <3>3, <3>4 DEF Telling, Fetching
  <2> QED
    BY <1>1, <1>3, <1>4, <1>6, <1>7, <1>8, <1>9, <2>2, OthersTell
<1>15. Locking'
  <2>1. \A m \in Nodes : nodeLock'[m] # nodeLock[m] => m = n /\ nodeLock[m] = "worker" /\ pc'[m] = "done"
    BY <1>1, <1>3, <1>4, <1>8 DEF Types, Unlocked
  <2>2. move # None => move.from \in Nodes /\ move.to \in Nodes
    BY <1>3, MoveFields
  <2>3. \A m \in Nodes : pc'[m] = pc[m] \/ pc'[m] = "done"
    BY <1>1, <1>8
  <2> QED
    BY <1>1, <1>3, <2>1, <2>2, <2>3 DEF Locking
<1>16. OneHolder'
  <2>1. op = "delete" => outbox[n] # {}
    BY <1>1, <1>3, <1>4
  <2>2. \A m \in Nodes : outbox'[m] # {} => outbox[m] # {}
    BY <1>7
  <2> QED
    BY <1>1, <1>3, <1>4, <1>9, <2>1, <2>2 DEF OneHolder, Holds, FirstHolders
<1>18. Answering'
  <2>1. main = "working"
    BY <1>1, <1>3, <1>4 DEF Gathering
  <2> QED
    BY <1>1, <2>1 DEF Answering
<1> QED
  BY <1>10, <1>11, <1>12, <1>13, <1>14, <1>15, <1>16, <1>18 DEF IInv

(* A transfer locks two nodes and lists a record of one of them.           *)
LEMMA StartMoveInv ==
    ASSUME IInv, NEW from \in members, NEW to \in members, StartMove(from, to)
    PROVE  IInv'
<1>1. /\ from # to /\ move = None /\ nodeLock[from] = None
      /\ nodeLock[to] = None /\ moves' = moves + 1
      /\ nodeLock' = [nodeLock EXCEPT ![from] = "transfer", ![to] = "transfer"]
      /\ \E id \in Ids : /\ data[from][id] # None
                         /\ move' = [from |-> from, to |-> to, id |-> id,
                                     version |-> data[from][id], stored |-> FALSE]
      /\ op' = op /\ members' = members /\ first' = first /\ data' = data
      /\ pc' = pc /\ outbox' = outbox /\ faults' = faults /\ hand' = hand
      /\ reading' = reading /\ gathered' = gathered /\ sent' = sent
      /\ main' = main /\ temps' = temps /\ ours' = ours
  BY DEF StartMove, given, readers, transfers, oracles
<1>2. Types /\ Gathering /\ Workers /\ Honest /\ Unmoved
      /\ Locking /\ OneHolder /\ Answering
  BY DEF IInv
<1>3. /\ from \in Nodes /\ to \in Nodes
      /\ nodeLock'[from] = "transfer" /\ nodeLock'[to] = "transfer"
      /\ \A m \in Nodes \ {from, to} : nodeLock'[m] = nodeLock[m]
  BY <1>1, <1>2 DEF Types
<1>4. PICK id \in Ids : /\ data[from][id] # None
                        /\ move' = [from |-> from, to |-> to, id |-> id,
                                    version |-> data[from][id], stored |-> FALSE]
  BY <1>1
<1>5. /\ move' \in Moves /\ move' # None /\ move'.from = from /\ move'.to = to
      /\ move'.id = id /\ move'.stored = FALSE
  <2>1. data[from][id] \in Versions
    <3>1. data[from] \in [Ids -> Versions \cup {None}]
      BY <1>2, <1>3 DEF Types
    <3> QED
      BY <1>4, <3>1
  <2>2. move' \in Moves
    BY <1>3, <1>4, <2>1 DEF Moves
  <2> QED
    BY <1>4, <2>2, NoneAssumption
<1>6. Gathering' /\ Workers' /\ Honest' /\ Answering'
  BY <1>1, <1>2, SameGathering, SameWorkers, SameHonest,
     SameAnswering
<1>7. Types'
  <2>1. moves' \in Nat /\ moves' # 0
    BY <1>1, <1>2, OneMoreMove
  <2>2. nodeLock' \in [Nodes -> {None, "worker", "transfer"}]
    BY <1>1, <1>2 DEF Types
  <2> QED
    BY <1>1, <1>2, <1>5, <2>1, <2>2 DEF Types
<1>8. Unmoved'
  BY <1>1, <1>2, OneMoreMove DEF Unmoved
<1>9. Locking'
  <2>1. \A m \in Nodes : nodeLock[m] = "worker" => nodeLock'[m] = "worker"
    BY <1>1, <1>3, NoneAssumption
  <2> QED
    BY <1>1, <1>2, <1>3, <1>4, <1>5, <2>1 DEF Locking
<1>10. OneHolder'
  <2>1. \A k, v : Told(k, v)' <=> Told(k, v)
    BY <1>1 DEF Told
  <2> QED
    BY <1>1, <1>2, <2>1 DEF OneHolder, Holds, FirstHolders
<1> QED
  BY <1>6, <1>7, <1>8, <1>9, <1>10 DEF IInv

(* The record is on both nodes, which the locks hide from DeleteRecord.    *)
LEMMA StoreMovedInv ==
    ASSUME IInv, StoreMoved
    PROVE  IInv'
<1>1. /\ move # None /\ ~move.stored
      /\ data' = [data EXCEPT ![move.to][move.id] = move.version]
      /\ move' = [move EXCEPT !.stored = TRUE] /\ op' = op
      /\ members' = members /\ first' = first /\ pc' = pc /\ outbox' = outbox
      /\ faults' = faults /\ hand' = hand /\ reading' = reading
      /\ gathered' = gathered /\ sent' = sent /\ main' = main
      /\ nodeLock' = nodeLock /\ moves' = moves /\ temps' = temps
      /\ ours' = ours
  BY DEF StoreMoved, given, readers, transfers, oracles
<1>2. Types /\ Gathering /\ Workers /\ Honest /\ Unmoved
      /\ Locking /\ OneHolder /\ Answering
  BY DEF IInv
<1>3. /\ move \in Moves /\ move.from \in Nodes /\ move.to \in Nodes /\ move.id \in Ids
      /\ move.version \in Versions /\ move.version # None
      /\ move' \in Moves /\ move' # None /\ move'.from = move.from /\ move'.to = move.to
      /\ move'.id = move.id /\ move'.stored = TRUE
  <2>1. move \in Moves
    BY <1>1, <1>2, MoveFields
  <2>2. move' \in Moves /\ move.version \in Versions
    BY <1>1, <2>1 DEF Moves
  <2>3. /\ move.from \in Nodes /\ move.to \in Nodes /\ move.id \in Ids
        /\ move'.from = move.from /\ move'.to = move.to
        /\ move'.id = move.id /\ move'.stored = TRUE
    BY <1>1, <2>1 DEF Moves
  <2> QED
    BY <2>1, <2>2, <2>3, NoneAssumption
<1>4. /\ data' \in [Nodes -> [Ids -> Versions \cup {None}]]
      /\ data'[move.to][move.id] = move.version
      /\ \A m \in Nodes, i \in Ids : m # move.to \/ i # move.id => data'[m][i] = data[m][i]
  <2>1. data \in [Nodes -> [Ids -> Versions \cup {None}]]
    BY <1>2 DEF Types
  <2> QED
    BY <1>1, <1>3, <2>1
<1>5. moves # 0
  BY <1>1, <1>2 DEF Unmoved
<1>6. Gathering' /\ Workers' /\ Honest' /\ Answering'
  BY <1>1, <1>2, SameGathering, SameWorkers, SameHonest,
     SameAnswering
<1>7. Types'
  BY <1>1, <1>2, <1>3, <1>4 DEF Types
<1>8. Unmoved'
  BY <1>1, <1>5 DEF Unmoved
<1>9. Locking'
  <2>1. data'[move.from][move.id] # None
    BY <1>1, <1>2, <1>3, <1>4 DEF Locking
  <2> QED
    BY <1>1, <1>2, <1>3, <2>1 DEF Locking
<1>10. OneHolder'
  <2> SUFFICES ASSUME op = "delete", NEW f \in Nodes, FirstHolders(Arg) = {f}
               PROVE  /\ \A k, m \in Nodes : Holds(k)' /\ Holds(m)' =>
                            k = m \/ (move' # None /\ move'.id = Arg /\ move'.stored
                                         /\ {k, m} = {move'.from, move'.to})
                      /\ (\E k \in Nodes : outbox'[k] # {} \/ \E v : Told(k, v)') =>
                            \A k \in Nodes : ~Holds(k)'
    BY <1>1 DEF OneHolder, FirstHolders
  <2>1. \A k, v : Told(k, v)' <=> Told(k, v)
    BY <1>1 DEF Told
  <2>2. /\ \A k, m \in Nodes : Holds(k) /\ Holds(m) => k = m
        /\ (\E k \in Nodes : outbox[k] # {} \/ \E v : Told(k, v)) =>
              \A k \in Nodes : ~Holds(k)
    BY <1>1, <1>2 DEF OneHolder
  <2>3. CASE move.id # Arg
    <3>1. \A k \in Nodes : Holds(k)' <=> Holds(k)
      BY <1>4, <2>3, ParallelAssumption DEF Holds
    <3> QED
      BY <1>1, <2>1, <2>2, <3>1
  <2>4. CASE move.id = Arg
    <3>1. Holds(move.from)
      BY <1>1, <1>2, <2>4 DEF Locking, Holds
    <3>2. \A k \in Nodes : Holds(k)' => k = move.from \/ k = move.to
      BY <1>3, <1>4, <2>2, <2>4, <3>1 DEF Holds
    <3>3. ~ \E k \in Nodes : outbox[k] # {} \/ \E v : Told(k, v)
      BY <1>3, <2>2, <3>1
    <3> QED
      BY <1>1, <1>3, <2>1, <2>4, <3>2, <3>3
  <2> QED
    BY <2>3, <2>4
<1> QED
  BY <1>6, <1>7, <1>8, <1>9, <1>10 DEF IInv

(* The transfer ends: the record is on the other node only.                *)
LEMMA DeleteMovedInv ==
    ASSUME IInv, DeleteMoved
    PROVE  IInv'
<1>1. /\ move # None /\ move.stored
      /\ data' = [data EXCEPT ![move.from][move.id] = None]
      /\ nodeLock' = [nodeLock EXCEPT ![move.from] = None, ![move.to] = None]
      /\ move' = None /\ op' = op /\ members' = members /\ first' = first
      /\ pc' = pc /\ outbox' = outbox /\ faults' = faults /\ hand' = hand
      /\ reading' = reading /\ gathered' = gathered /\ sent' = sent
      /\ main' = main /\ moves' = moves /\ temps' = temps /\ ours' = ours
  BY DEF DeleteMoved, given, readers, transfers, oracles
<1>2. Types /\ Gathering /\ Workers /\ Honest /\ Unmoved
      /\ Locking /\ OneHolder /\ Answering
  BY DEF IInv
<1>3. /\ move.from \in Nodes /\ move.to \in Nodes /\ move.id \in Ids
  BY <1>1, <1>2, MoveFields
<1>4. /\ data' \in [Nodes -> [Ids -> Versions \cup {None}]]
      /\ data'[move.from][move.id] = None
      /\ \A m \in Nodes, i \in Ids : m # move.from \/ i # move.id => data'[m][i] = data[m][i]
  <2>1. data \in [Nodes -> [Ids -> Versions \cup {None}]]
    BY <1>2 DEF Types
  <2> QED
    BY <1>1, <1>3, <2>1
<1>5. moves # 0
  BY <1>1, <1>2 DEF Unmoved
<1>6. Gathering' /\ Workers' /\ Honest' /\ Answering'
  BY <1>1, <1>2, SameGathering, SameWorkers, SameHonest,
     SameAnswering
<1>7. Types'
  <2>1. nodeLock' \in [Nodes -> {None, "worker", "transfer"}]
    BY <1>1, <1>2 DEF Types
  <2> QED
    BY <1>1, <1>2, <1>4, <2>1 DEF Types
<1>8. Unmoved'
  BY <1>1, <1>5 DEF Unmoved
<1>9. Locking'
  <2>1. \A m \in Nodes : nodeLock[m] = "worker" => nodeLock'[m] = "worker"
    BY <1>1, <1>2, <1>3 DEF Locking, Types
  <2> QED
    BY <1>1, <1>2, <2>1 DEF Locking
<1>10. OneHolder'
  <2>1. \A k, v : Told(k, v)' <=> Told(k, v)
    BY <1>1 DEF Told
  <2>2. \A k \in Nodes : Holds(k)' => Holds(k) /\ ~(move.id = Arg /\ k = move.from)
    BY <1>3, <1>4, ParallelAssumption DEF Holds
  <2>3. \A k, m \in Nodes : Holds(k)' /\ Holds(m)' =>
           ~(move.id = Arg /\ {k, m} = {move.from, move.to})
    BY <2>2
  <2> QED
    BY <1>1, <1>2, <2>1, <2>2, <2>3 DEF OneHolder, FirstHolders
<1> QED
  BY <1>6, <1>7, <1>8, <1>9, <1>10 DEF IInv

(* Every step preserves the invariant.                                     *)
LEMMA NextInv ==
    ASSUME IInv, [Next]_vars
    PROVE  IInv'
<1>1. ASSUME NEW n \in members, Work(n) PROVE IInv'
  BY <1>1, StartInv, LoadInv, RememberInv, ActInv, FailInv, ReplyInv, SendResultInv, SendErrorInv
     DEF Work
<1>2. ASSUME NEW c \in Channels, Read(c) PROVE IInv'
  BY <1>2, GatherInv, EndReaderInv DEF Read
<1>3. CASE UNCHANGED vars
  <2>1. UNCHANGED <<given, data, pc, outbox, faults, readers, sent, main, nodeLock, transfers, oracles>>
    BY <1>3 DEF vars
  <2>2. UNCHANGED <<op, members, first, data, pc, outbox, faults, hand, reading, gathered, sent, main,
                    nodeLock, move, moves, temps, ours>>
    BY <2>1 DEF given, readers, transfers, oracles
  <2>3. Types /\ Gathering /\ Workers /\ Honest /\ Unmoved
        /\ Locking /\ OneHolder /\ Answering
    BY DEF IInv
  <2>4. Types'
    BY <2>2, <2>3 DEF Types
  <2>5. Gathering' /\ Workers' /\ Honest' /\ Unmoved' /\ Locking' /\ OneHolder' /\ Answering'
    BY <2>2, <2>3, SameGathering, SameWorkers, SameHonest, SameUnmoved, SameLocking, SameOneHolder,
       SameAnswering
  <2> QED
    BY <2>4, <2>5 DEF IInv
<1> QED
  BY <1>1, <1>2, <1>3, CloseInv, ReturnInv, CleanUpInv, StartMoveInv, StoreMovedInv, DeleteMovedInv
     DEF Next

(* Every state of a parallel call satisfies the invariant.                 *)
THEOREM Invariance == Spec => []IInv
<1>1. Init => IInv
  BY InitInv
<1>2. IInv /\ [Next]_vars => IInv'
  BY NextInv
<1> QED
  BY <1>1, <1>2, PTL DEF Spec

(* Once the readers have stopped, results and errs are all that was sent.  *)
LEMMA GatheredIsSent ==
    ASSUME IInv, Answered
    PROVE  gathered = sent
<1>1. Types /\ Gathering
  BY DEF IInv
<1>2. \A c \in Channels : gathered[c] = sent[c]
  <2> SUFFICES ASSUME NEW c \in Channels, NEW v \in sent[c] \ gathered[c] PROVE FALSE
    BY <1>1 DEF Gathering
  <2>1. v = None
    BY <1>1 DEF Gathering
  <2>2. v \in Results \cup Nodes
    BY <1>1 DEF Types
  <2> QED
    BY <2>1, <2>2, NoneAssumption
<1>3. gathered \in [Channels -> SUBSET (Results \cup Nodes)] /\ sent \in [Channels -> SUBSET (Results \cup Nodes)]
  BY <1>1 DEF Types
<1> QED
  BY <1>2, <1>3

(* paralleliser.go: doParallel returns all that the workers sent, and no   *)
(* worker sends on a channel that doParallel has closed.                   *)
THEOREM NothingDropped == Spec => []AllGathered
<1>1. IInv => AllGathered
  <2> SUFFICES ASSUME IInv PROVE AllGathered
    OBVIOUS
  <2>1. main # "working" => \A n \in Nodes : pc[n] = "done"
    BY DEF IInv, Gathering
  <2> QED
    BY <2>1, GatheredIsSent DEF AllGathered, Returned
<1> QED
  BY <1>1, Invariance, PTL

(* A record of Had(n) is one that n had when the call started.             *)
LEMMA HadFields ==
    ASSUME NEW n
    PROVE  /\ \A v \in Had(n) : v.id \in Wanted /\ first[n][v.id] # None
           /\ \A i \in Wanted : first[n][i] # None => [node |-> n, id |-> i, version |-> "old"] \in Had(n)
BY DEF Had

(* mux_records.go: ReadRecord, UpdateRecord and DeleteRecord answer "not   *)
(* found" only if all nodes have said so and none had the record.          *)
THEOREM NotFoundIsTrue == Spec => []NotFoundMeansNowhere
<1>1. IInv => NotFoundMeansNowhere
  <2> SUFFICES ASSUME IInv, main = "not found" PROVE sent["error"] = {} /\ (moves = 0 => FirstHolders(Arg) = {})
    BY DEF NotFoundMeansNowhere
  <2>1. sent["error"] = {} /\ sent["result"] = {} /\ op \notin {"find", "run"}
    BY DEF IInv, Answering
  <2>2. ASSUME moves = 0, NEW n \in members, first[n][Arg] # None PROVE FALSE
    <3>1. n \in Nodes /\ pc[n] = "done"
      BY DEF IInv, Gathering, Types
    <3>2. Telling(n)
      BY <2>2, <3>1 DEF IInv, Unmoved
    <3>3. [node |-> n, id |-> Arg, version |-> "old"] \in Had(n)
      BY <2>1, <2>2, WantedFields, HadFields
    <3>4. Told(n, [node |-> n, id |-> Arg, version |-> "old"])
      BY <2>1, <3>1, <3>2, <3>3 DEF Telling
    <3> QED
      BY <2>1, <3>4 DEF Told
  <2> QED
    BY <2>1, <2>2 DEF FirstHolders
<1> QED
  BY <1>1, Invariance, PTL

(* A record that one node had: that node is the only first holder.         *)
LEMMA OneFirstHolder ==
    ASSUME IInv, Cardinality(FirstHolders(Arg)) = 1
    PROVE  \E a \in Nodes : FirstHolders(Arg) = {a}
<1>1. FirstHolders(Arg) \subseteq Nodes
  BY DEF IInv, Types, FirstHolders
<1>2. IsFiniteSet(FirstHolders(Arg))
  BY <1>1, FS_Subset, ParallelAssumption
<1>3. PICK a : FirstHolders(Arg) = {a}
  BY <1>2, FS_Singleton
<1> QED
  BY <1>1, <1>3

(* What is known when a handler has answered "ok".                         *)
LEMMA WhenOk ==
    ASSUME IInv, main = "ok"
    PROVE  /\ gathered["result"] = sent["result"]
           /\ \A n \in members : n \in Nodes /\ pc[n] = "done"
           /\ \A r \in sent["result"] :
                 r \in Results /\ r.from \in members /\ Told(r.from, r.found)
           /\ op \in {"find", "run"} => sent["error"] = {}
           /\ op \notin {"find", "run"} => sent["result"] # {}
<1>1. gathered["result"] = sent["result"]
  BY GatheredIsSent DEF Answered
<1>2. \A n \in members : n \in Nodes /\ pc[n] = "done"
  BY DEF IInv, Gathering, Types
<1>3. ASSUME NEW r \in sent["result"] PROVE r \in Results /\ r.from \in members /\ Told(r.from, r.found)
  <2>1. r \in Results /\ r.from \in Nodes
    BY <1>3 DEF IInv, Honest, Results
  <2>2. Told(r.from, r.found)
    BY <1>3 DEF Told
  <2>3. Worker(r.from)
    BY <2>1 DEF IInv, Workers
  <2> QED
    BY <2>1, <2>2, <2>3 DEF Worker
<1> QED
  BY <1>1, <1>2, <1>3 DEF IInv, Answering

(* DeleteRecord: nobody has the record any more.                           *)
LEMMA DeleteDone ==
    ASSUME IInv, main = "ok", op = "delete", Cardinality(FirstHolders(Arg)) = 1
    PROVE  \A n \in members : data[n][Arg] = None
<1>1. PICK r \in sent["result"] : r.from \in Nodes /\ Told(r.from, r.found)
  BY WhenOk DEF IInv, Types
<1>2. \A n \in Nodes : ~Holds(n)
  BY <1>1, OneFirstHolder DEF IInv, OneHolder
<1> QED
  BY <1>2, WhenOk DEF Holds

(* UpdateRecord: the node that has the record has the new contents.        *)
LEMMA UpdateDone ==
    ASSUME IInv, main = "ok", op = "update", Cardinality(FirstHolders(Arg)) = 1, moves = 0
    PROVE  \A n \in FirstHolders(Arg) : data[n][Arg] = "new"
<1>1. PICK r \in sent["result"] : r.from \in members /\ Told(r.from, r.found)
  BY WhenOk
<1>2. r.from \in Nodes /\ pc[r.from] = "done" /\ Telling(r.from)
  BY <1>1, WhenOk DEF IInv, Unmoved
<1>3. r.found \in Had(r.from) /\ data[r.from][Arg] = "new"
  BY <1>1, <1>2 DEF Telling
<1>4. r.from \in FirstHolders(Arg)
  BY <1>1, <1>3, HadFields, WantedFields DEF FirstHolders
<1> QED
  BY <1>3, <1>4, OneFirstHolder

(* ReadRecord: there is a record, and it is the one that was asked for.    *)
LEMMA ReadDone ==
    ASSUME IInv, main = "ok", op = "read"
    PROVE  \E r \in gathered["result"] : r.found.id = Arg
<1>1. PICK r \in sent["result"] : TRUE
  BY WhenOk
<1>2. r.found.id \in Wanted
  BY <1>1 DEF IInv, Honest
<1> QED
  BY <1>1, <1>2, WhenOk, WantedFields

(* All records are those that each node had.                               *)
LEMMA AllRecordsAreHad ==
    ASSUME op \in {"find", "run"}
    PROVE  AllRecords = UNION {Had(n) : n \in members}
<1>1. Wanted = Ids
  BY DEF Wanted
<1> QED
  BY <1>1 DEF AllRecords, Had

(* FindRecords: every record of every node, and no other.                  *)
LEMMA FindDone ==
    ASSUME IInv, main = "ok", op = "find", moves = 0
    PROVE  {r.found : r \in gathered["result"]} = AllRecords
<1>1. \A n \in members : Telling(n) /\ pc[n] = "done" /\ n \notin sent["error"]
  BY WhenOk DEF IInv, Unmoved
<1>2. ASSUME NEW r \in sent["result"] PROVE r.from \in members /\ r.found \in Had(r.from)
  BY <1>1, <1>2, WhenOk DEF Telling
<1>3. ASSUME NEW n \in members, NEW v \in Had(n) PROVE \E r \in sent["result"] : r.found = v
  <2>1. Told(n, v)
    BY <1>1, <1>3 DEF Telling
  <2> QED
    BY <2>1 DEF Told
<1> QED
  BY <1>2, <1>3, WhenOk, AllRecordsAreHad

(* Run: a result of every node, and together they are of every record.     *)
LEMMA RunDone ==
    ASSUME IInv, main = "ok", op = "run"
    PROVE  /\ {r.from : r \in gathered["result"]} = members
           /\ moves = 0 => UNION {r.found : r \in gathered["result"]} = AllRecords
<1>1. ASSUME NEW n \in members PROVE \E r \in sent["result"] : r.from = n
  <2>1. \E v : Told(n, v)
    BY WhenOk DEF IInv, Workers, Worker
  <2> QED
    BY <2>1 DEF Told
<1>2. {r.from : r \in gathered["result"]} = members
  BY <1>1, WhenOk
<1>3. ASSUME moves = 0 PROVE UNION {r.found : r \in gathered["result"]} = AllRecords
  <2>1. \A n \in members : Telling(n)
    BY <1>3, WhenOk DEF IInv, Unmoved
  <2>2. ASSUME NEW r \in sent["result"] PROVE r.from \in members /\ r.found = Had(r.from)
    BY <2>1, <2>2, WhenOk DEF Telling
  <2>3. {r.found : r \in gathered["result"]} = {Had(n) : n \in members}
    BY <1>1, <2>2, WhenOk
  <2> QED
    BY <2>3, AllRecordsAreHad
<1> QED
  BY <1>2, <1>3

(* mux_records.go and mux_runner.go: an answer without an error means what *)
(* SuccessMeansDone says of each handler, for every fleet, placement of    *)
(* the records, number of failed RPCs and transfers beside the call.       *)
THEOREM SuccessIsTrue == Spec => []SuccessMeansDone
<1>1. IInv => SuccessMeansDone
  <2> SUFFICES ASSUME IInv, main = "ok" PROVE SuccessMeansDone
    BY DEF SuccessMeansDone
  <2>1. op \in Ops
    BY DEF IInv, Types
  <2> QED
    BY <2>1, DeleteDone, UpdateDone, ReadDone, FindDone, RunDone DEF SuccessMeansDone, Ops
<1> QED
  BY <1>1, Invariance, PTL

=============================================================================
