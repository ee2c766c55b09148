---------------------------- MODULE ClusterProofs ----------------------------
(***************************************************************************)
(* The master does not destroy the records that clients were told are      *)
(* stored, whatever nodes come and go, RPCs fail and masters die; and as   *)
(* long as nodes only join and no RPC fails, each record is on one node,   *)
(* with the contents that clients know, and the counts that the master     *)
(* balances by are right.  The same holds while nodes leave and masters    *)
(* restart, if no record is created meanwhile.  For every number of nodes, *)
(* records, calls and failures.                                            *)
(***************************************************************************)
EXTENDS Cluster, BalancerProofs

(* No node of s is listed twice.                                           *)
Distinct(s) == \A i, j \in DOMAIN s : s[i] = s[j] => i = j

(* Types of the calls, transfers and joining nodes.                        *)
Calls == [to : Nodes, val : Vals, dropped : BOOLEAN]
Transfers == [from : Nodes, to : Nodes, n : Nat]
Joins == [records : Nat, next : Nat \ {0}]

Types ==
    /\ members \in Seq(Nodes) /\ config \in Seq(Nodes) \cup {None}
    /\ nextId \in Nat \ {0}
    /\ status \in [Nodes -> Nat]
    /\ plan \in Seq(Transfers)
    /\ creating \in [Threads -> Calls \cup {None}]
    /\ joining \in [Nodes -> Joins \cup {None}]
    /\ data \in [Nodes -> [Ids -> Vals \cup {None}]]
    /\ nodeNext \in [Nodes -> Nat \ {0}]
    /\ leaves \in Nat
    /\ acked \in [Ids -> Vals \cup {None}]

(* No node is managed twice, and one that joins is not managed yet.        *)
Apart ==
    /\ Distinct(members) /\ (config # None => Distinct(config))
    /\ \A n \in Nodes : joining[n] # None => n \notin Members

(* A transfer has two nodes: it would destroy the records of one.          *)
Moving == \A k \in 1 .. Len(plan) : plan[k].from # plan[k].to

(* A record that clients know of is on a node.                             *)
Kept == \A id \in Ids : acked[id] # None => \E n \in Nodes : Has(n, id)

IInv == Types /\ Apart /\ Moving /\ Kept

-----------------------------------------------------------------------------
(* The operators of the model.                                             *)

(* A set of identifiers is finite.                                         *)
LEMMA CardIds ==
    ASSUME NEW S, S \subseteq Ids
    PROVE  IsFiniteSet(S) /\ Cardinality(S) \in Nat
<1>1. IsFiniteSet(1 .. MaxId)
  <2>1. 1 \in Int /\ MaxId \in Int
    BY ClusterAssumption
  <2> QED
    BY <2>1, FS_Interval
<1>2. IsFiniteSet(S)
  BY <1>1, FS_Subset DEF Ids
<1> QED
  BY <1>2, FS_CardinalityType

LEMMA UnsignedType ==
    ASSUME NEW x \in Int
    PROVE  Unsigned(x) \in Nat
BY ModulusAssumption DEF Unsigned

(* The identifiers start from 1.                                           *)
LEMMA AfterLoadType ==
    ASSUME NEW ids, ids \subseteq Ids
    PROVE  AfterLoad(ids) \in Nat \ {0}
<1>1. CASE ids = {}
  BY <1>1 DEF AfterLoad
<1>2. CASE ids # {}
  <2>1. MaxId \in Nat /\ ids \subseteq 1 .. MaxId
    BY ClusterAssumption DEF Ids
  <2>2. PICK m \in ids : m = Max(ids)
    BY <1>2, <2>1, MaxOf
  <2>3. m \in Nat
    BY <2>1
  <2> QED
    BY <1>2, <2>2, <2>3 DEF AfterLoad
<1> QED
  BY <1>1, <1>2

LEMMA CountsType ==
    ASSUME NEW ms \in Seq(Nodes), NEW st \in [Nodes -> Nat]
    PROVE  /\ Counts(ms, st) \in Seq(Int) /\ Len(Counts(ms, st)) = Len(ms)
           /\ \A i \in 1 .. Len(ms) : Counts(ms, st)[i] \in Nat
<1>1. \A i \in 1 .. Len(ms) : ms[i] \in Nodes /\ st[ms[i]] \in Nat
  OBVIOUS
<1>2. DOMAIN ms = 1 .. Len(ms) /\ Len(ms) \in Nat
  OBVIOUS
<1>3. Counts(ms, st) \in [1 .. Len(ms) -> Nat]
  BY <1>1, <1>2 DEF Counts
<1> QED
  BY <1>2, <1>3

(* The transfers of a balance are between different nodes of the cluster.  *)
LEMMA RebalanceSound ==
    ASSUME NEW ms \in Seq(Nodes), Distinct(ms), NEW st \in [Nodes -> Nat]
    PROVE  /\ Rebalance(ms, st) \in Seq(Transfers)
           /\ \A k \in 1 .. Len(Rebalance(ms, st)) :
                 LET t == Rebalance(ms, st)[k] IN
                 t.from # t.to /\ t.from \in ToSet(ms) /\ t.to \in ToSet(ms)
<1> DEFINE p == BalancePlan(Counts(ms, st))
           r == [k \in 1 .. Len(p) |-> [from |-> ms[p[k].from], to |-> ms[p[k].to], n |-> p[k].n]]
<1>1. /\ p \in Seq(Moves(Len(ms)))
      /\ \A k \in 1 .. Len(p) : p[k].from # p[k].to
  BY CountsType, PlanIsSound
<1>2. Len(p) \in Nat /\ DOMAIN p = 1 .. Len(p) /\ DOMAIN ms = 1 .. Len(ms)
  BY <1>1
<1>3. Rebalance(ms, st) = r
  BY <1>2 DEF Rebalance
<1> HIDE DEF p
<1>4. ASSUME NEW k \in 1 .. Len(p)
      PROVE  /\ r[k] \in Transfers /\ r[k].from # r[k].to
             /\ r[k].from \in ToSet(ms) /\ r[k].to \in ToSet(ms)
  <2>1. p[k] \in Moves(Len(ms)) /\ p[k].from # p[k].to
    BY <1>1
  <2>2. p[k].from \in DOMAIN ms /\ p[k].to \in DOMAIN ms /\ p[k].n \in Nat
    BY <1>2, <2>1 DEF Moves
  <2>3. ms[p[k].from] \in Nodes /\ ms[p[k].to] \in Nodes /\ ms[p[k].from] # ms[p[k].to]
    BY <2>1, <2>2 DEF Distinct
  <2>4. ms[p[k].from] \in ToSet(ms) /\ ms[p[k].to] \in ToSet(ms)
    BY <2>2 DEF ToSet
  <2> QED
    BY <2>2, <2>3, <2>4 DEF Transfers
<1> HIDE DEF r
<1>5. r \in Seq(Transfers) /\ Len(r) = Len(p)
  BY <1>2, <1>4 DEF r
<1> QED
  BY <1>3, <1>4, <1>5

(* _findLessLoadedNode returns a node.                                     *)
LEMMA LessLoadedType ==
    ASSUME NEW ms \in Seq(Nodes), ms # <<>>, NEW st \in [Nodes -> Nat]
    PROVE  LessLoaded(Counts(ms, st)) \in 1 .. Len(ms)
<1> DEFINE c == Counts(ms, st)
           n == Len(ms)
<1>1. /\ \A i \in 1 .. n : c[i] \in Nat
      /\ DOMAIN c = 1 .. n /\ 1 \in 1 .. n /\ n \in Nat
  BY CountsType DEF Counts
<1> HIDE DEF c, n
<1>2. LessLoaded(c) \in 1 .. n
  BY <1>1, LessLoadedIn
<1> QED
  BY <1>2 DEF c, n

(* What CreateRecordsWithId and DeleteRecords change, record by record.    *)
LEMMA CopiedFields ==
    ASSUME NEW d \in [Nodes -> [Ids -> Vals \cup {None}]],
           NEW from \in Nodes, NEW to \in Nodes, NEW ids
    PROVE  /\ Copied(d, from, to, ids) \in [Nodes -> [Ids -> Vals \cup {None}]]
           /\ \A n \in Nodes \ {to} : Copied(d, from, to, ids)[n] = d[n]
           /\ \A id \in Ids : Copied(d, from, to, ids)[to][id] =
                                 IF id \in ids THEN d[from][id] ELSE d[to][id]
BY DEF Copied

LEMMA RemovedFields ==
    ASSUME NEW d \in [Nodes -> [Ids -> Vals \cup {None}]], NEW n \in Nodes, NEW ids
    PROVE  /\ Removed(d, n, ids) \in [Nodes -> [Ids -> Vals \cup {None}]]
           /\ \A m \in Nodes \ {n} : Removed(d, n, ids)[m] = d[m]
           /\ \A id \in Ids : Removed(d, n, ids)[n][id] = IF id \in ids THEN None ELSE d[n][id]
BY DEF Removed

(* The first page of a node is a part of its records.                      *)
LEMMA PageHeld ==
    ASSUME NEW n, NEW k
    PROVE  \A id \in FirstPage(n, k) : id \in Ids /\ Has(n, id)
BY DEF FirstPage, Held

(* What CreateRecord stores overwrites nothing.                            *)
LEMMA PutFields ==
    ASSUME data \in [Nodes -> [Ids -> Vals \cup {None}]],
           NEW n \in Nodes, NEW id \in Ids, NEW v \in Vals, Put(n, id, v)
    PROVE  /\ data' \in [Nodes -> [Ids -> Vals \cup {None}]]
           /\ \A m \in Nodes, j \in Ids :
                 data'[m][j] = IF m = n /\ j = id THEN v ELSE data[m][j]
<1>1. data[n] \in [Ids -> Vals \cup {None}]
  OBVIOUS
<1>2. data' = [data EXCEPT ![n] = [data[n] EXCEPT ![id] = v]]
  BY DEF Put
<1>3. [data[n] EXCEPT ![id] = v] \in [Ids -> Vals \cup {None}]
  BY <1>1
<1>4. data' \in [Nodes -> [Ids -> Vals \cup {None}]]
  BY <1>2, <1>3
<1> QED
  BY <1>1, <1>2, <1>4

(* A step that leaves every record where it is loses none.                 *)
Grows == \A n \in Nodes, id \in Ids : Has(n, id) => data'[n][id] # None

(* Then the records that clients know of are kept.                         *)
LEMMA KeptIfGrows ==
    ASSUME Kept, Grows, acked' = acked
    PROVE  Kept'
BY DEF Kept, Grows, Has

-----------------------------------------------------------------------------
(* Every step of the master and of its nodes.                              *)

LEMMA PickNodeInv ==
    ASSUME IInv, NEW t \in Threads, NEW v \in Vals, PickNode(t, v)
    PROVE  IInv'
<1> DEFINE c == LessLoaded(Counts(members, status))
<1>1. c \in 1 .. Len(members)
  BY LessLoadedType DEF IInv, Types, PickNode
<1> HIDE DEF c
<1>2. [to |-> members[c], val |-> v, dropped |-> FALSE] \in Calls
  BY <1>1 DEF IInv, Types, Calls
<1>3. Types'
  BY <1>2 DEF IInv, Types, PickNode, admin, c
<1>4. Apart' /\ Moving' /\ Kept'
  BY DEF IInv, Apart, Moving, Kept, PickNode, admin, Members, Has
<1> QED
  BY <1>3, <1>4 DEF IInv

(* CreateRecord stores under nextId, which the node does not have.         *)
LEMMA CreateRecordInv ==
    ASSUME IInv, NEW t \in Threads, CreateRecord(t)
    PROVE  IInv'
<1> DEFINE c == creating[t]
<1>1. /\ c.to \in Nodes /\ c.val \in Vals
      /\ nextId \in Ids /\ nextId + 1 \in Nat \ {0}
  <2>1. nextId \in Nat /\ nextId <= MaxId /\ c \in Calls /\ nextId # 0
    BY DEF IInv, Types, CreateRecord, Calls
  <2> QED
    BY <2>1, ClusterAssumption DEF Ids, Calls
<1>2. /\ creating' \in [Threads -> Calls \cup {None}]
      /\ members' = members /\ joining' = joining /\ config' = config
      /\ leaves' = leaves /\ plan' = plan /\ nodeNext' = nodeNext
  BY DEF IInv, Types, CreateRecord, admin
<1>3. CreateRefused(c) \/ CreateDone(c) \/ CreateError(c)
  BY DEF CreateRecord
<1> HIDE DEF c
<1>4. CASE CreateRefused(c)
  <2>1. Types'
    BY <1>2, <1>4 DEF IInv, Types, CreateRefused
  <2>2. Kept'
    BY <1>4 DEF IInv, Kept, Has, CreateRefused
  <2> QED
    BY <1>2, <2>1, <2>2 DEF IInv, Apart, Moving, Members
<1>5. CASE CreateDone(c)
  <2>1. /\ data' \in [Nodes -> [Ids -> Vals \cup {None}]]
        /\ \A m \in Nodes, j \in Ids :
              data'[m][j] = IF m = c.to /\ j = nextId THEN c.val ELSE data[m][j]
    BY <1>1, <1>5, PutFields DEF IInv, Types, CreateDone
  <2>2. status' \in [Nodes -> Nat]
    <3>1. status[c.to] \in Nat /\ status[c.to] + 1 \in Int
      BY <1>1 DEF IInv, Types
    <3>2. Unsigned(status[c.to] + 1) \in Nat
      BY <3>1, UnsignedType
    <3> QED
      BY <1>1, <1>5, <3>2 DEF IInv, Types, CreateDone
  <2>3. /\ acked' = [acked EXCEPT ![nextId] = c.val] /\ nextId' = nextId + 1
        /\ acked' \in [Ids -> Vals \cup {None}]
    BY <1>1, <1>5 DEF IInv, Types, CreateDone
  <2>4. Types'
    BY <1>1, <1>2, <2>1, <2>2, <2>3 DEF IInv, Types
  <2>5. Kept'
    <3> SUFFICES ASSUME NEW id \in Ids, acked'[id] # None
                 PROVE  \E n \in Nodes : data'[n][id] # None
      BY DEF Kept, Has
    <3>1. CASE id = nextId
      BY <1>1, <2>1, <3>1, ClusterAssumption
    <3>2. CASE id # nextId
      <4>1. acked[id] # None
        BY <1>1, <2>3, <3>2 DEF IInv, Types
      <4>2. PICK n \in Nodes : data[n][id] # None
        BY <4>1 DEF IInv, Kept, Has
      <4> QED
        BY <2>1, <3>2, <4>2
    <3> QED
      BY <3>1, <3>2
  <2> QED
    BY <1>2, <2>4, <2>5 DEF IInv, Apart, Moving, Members
<1>6. CASE CreateError(c)
  <2>1. data' \in [Nodes -> [Ids -> Vals \cup {None}]] /\ Grows
    <3>1. CASE UNCHANGED data
      BY <3>1 DEF IInv, Types, Grows, Has
    <3>2. CASE Put(c.to, nextId, c.val)
      <4>1. /\ data' \in [Nodes -> [Ids -> Vals \cup {None}]]
            /\ \A m \in Nodes, j \in Ids :
                  data'[m][j] = IF m = c.to /\ j = nextId THEN c.val ELSE data[m][j]
        BY <1>1, <3>2, PutFields DEF IInv, Types
      <4> QED
        BY <1>1, <4>1, ClusterAssumption DEF Grows, Has
    <3> QED
      BY <1>6, <3>1, <3>2 DEF CreateError
  <2>2. nextId' = nextId /\ status' = status /\ acked' = acked
    BY <1>6 DEF CreateError
  <2>3. Types'
    BY <1>2, <2>1, <2>2 DEF IInv, Types
  <2>4. Kept'
    BY <2>1, <2>2, KeptIfGrows DEF IInv
  <2> QED
    BY <1>2, <2>3, <2>4 DEF IInv, Apart, Moving, Members
<1> QED
  BY <1>3, <1>4, <1>5, <1>6

(* The nodes that serve an update have the record before and after it.     *)
LEMMA UpdateRecordInv ==
    ASSUME IInv, NEW id \in Ids, NEW v \in Vals, UpdateRecord(id, v)
    PROVE  IInv'
<1>1. PICK served \in SUBSET Holders(id) :
         /\ data' = [n \in Nodes |-> IF n \in served
                        THEN [data[n] EXCEPT ![id] = v] ELSE data[n]]
         /\ acked' = IF served = {} THEN acked ELSE [acked EXCEPT ![id] = v]
  BY DEF UpdateRecord
<1>2. /\ members' = members /\ joining' = joining /\ config' = config
      /\ leaves' = leaves /\ plan' = plan /\ nodeNext' = nodeNext
      /\ nextId' = nextId /\ status' = status /\ creating' = creating
  BY DEF UpdateRecord, admin
<1>3. \A n \in served : n \in Nodes
  BY DEF IInv, Types, Holders, Members, ToSet
<1>4. \A n \in Nodes : data[n] \in [Ids -> Vals \cup {None}]
  BY DEF IInv, Types
<1>5. /\ data' \in [Nodes -> [Ids -> Vals \cup {None}]]
      /\ \A n \in Nodes, j \in Ids :
            data'[n][j] = IF n \in served /\ j = id THEN v ELSE data[n][j]
  BY <1>1, <1>4
<1>6. Types'
  BY <1>1, <1>2, <1>5 DEF IInv, Types
<1>7. Kept'
  <2> SUFFICES ASSUME NEW j \in Ids, acked'[j] # None
               PROVE  \E n \in Nodes : data'[n][j] # None
    BY DEF Kept, Has
  <2>1. CASE served # {} /\ j = id
    BY <1>3, <1>5, <2>1, ClusterAssumption
  <2>2. CASE ~(served # {} /\ j = id)
    <3>1. acked[j] # None
      BY <1>1, <2>2 DEF IInv, Types
    <3>2. PICK n \in Nodes : data[n][j] # None
      BY <3>1 DEF IInv, Kept, Has
    <3> QED
      BY <1>5, <3>2, ClusterAssumption
  <2> QED
    BY <2>1, <2>2
<1> QED
  BY <1>2, <1>6, <1>7 DEF IInv, Apart, Moving, Members

(* A node that serves a deletion makes clients forget the record.          *)
LEMMA DeleteRecordInv ==
    ASSUME IInv, NEW id \in Ids, DeleteRecord(id)
    PROVE  IInv'
<1>0. PICK served \in SUBSET Holders(id) : \E answered \in SUBSET served :
         /\ data' = [n \in Nodes |-> IF n \in served
                        THEN [data[n] EXCEPT ![id] = None] ELSE data[n]]
         /\ status' = [n \in Nodes |-> IF n \in answered
                          THEN Unsigned(status[n] - 1) ELSE status[n]]
         /\ acked' = IF served = {} THEN acked ELSE [acked EXCEPT ![id] = None]
  BY DEF DeleteRecord
<1>1. PICK answered \in SUBSET served :
         /\ data' = [n \in Nodes |-> IF n \in served
                        THEN [data[n] EXCEPT ![id] = None] ELSE data[n]]
         /\ status' = [n \in Nodes |-> IF n \in answered
                          THEN Unsigned(status[n] - 1) ELSE status[n]]
         /\ acked' = IF served = {} THEN acked ELSE [acked EXCEPT ![id] = None]
  BY <1>0
<1>2. /\ members' = members /\ joining' = joining /\ config' = config
      /\ leaves' = leaves /\ plan' = plan /\ nodeNext' = nodeNext
      /\ nextId' = nextId /\ creating' = creating
  BY DEF DeleteRecord, admin
<1>3. \A n \in Nodes : data[n] \in [Ids -> Vals \cup {None}]
  BY DEF IInv, Types
<1>4. /\ data' \in [Nodes -> [Ids -> Vals \cup {None}]]
      /\ \A n \in Nodes, j \in Ids :
            data'[n][j] = IF n \in served /\ j = id THEN None ELSE data[n][j]
  BY <1>1, <1>3
<1>5. status' \in [Nodes -> Nat]
  <2>1. \A n \in Nodes : status[n] \in Nat /\ status[n] - 1 \in Int
    BY DEF IInv, Types
  <2>2. \A n \in Nodes : Unsigned(status[n] - 1) \in Nat
    BY <2>1, UnsignedType
  <2> QED
    BY <1>1, <2>1, <2>2
<1>6. Types'
  BY <1>1, <1>2, <1>4, <1>5 DEF IInv, Types
<1>7. Kept'
  <2> SUFFICES ASSUME NEW j \in Ids, acked'[j] # None
               PROVE  \E n \in Nodes : data'[n][j] # None
    BY DEF Kept, Has
  <2>1. acked[j] # None /\ ~(served # {} /\ j = id)
    BY <1>1 DEF IInv, Types
  <2>2. PICK n \in Nodes : data[n][j] # None
    BY <2>1 DEF IInv, Kept, Has
  <2> QED
    BY <1>4, <2>1, <2>2
<1> QED
  BY <1>2, <1>6, <1>7 DEF IInv, Apart, Moving, Members

(* The size of a node is a number.                                         *)
LEMMA SizeType ==
    ASSUME NEW n
    PROVE  Size(n) \in Nat
<1>1. Held(n) \subseteq Ids
  BY DEF Held
<1> QED
  BY <1>1, CardIds DEF Size

LEMMA UpdateStatusInv ==
    ASSUME IInv, NEW n \in Nodes, UpdateStatus(n)
    PROVE  IInv'
<1>1. Types'
  BY SizeType DEF IInv, Types, UpdateStatus, admin
<1> QED
  BY <1>1 DEF IInv, Apart, Moving, Kept, UpdateStatus, admin, Members, Has

LEMMA CreateNodeInv ==
    ASSUME IInv, NEW n \in Nodes, CreateNode(n)
    PROVE  IInv'
<1>1. [records |-> Size(n), next |-> nodeNext[n]] \in Joins
  BY SizeType DEF IInv, Types, Joins
<1>2. Types'
  BY <1>1 DEF IInv, Types, CreateNode
<1>3. Apart'
  BY DEF IInv, Types, Apart, CreateNode, Members
<1> QED
  BY <1>2, <1>3 DEF IInv, Moving, Kept, CreateNode, Has

(* A node that is not managed yet keeps the list of nodes distinct.        *)
LEMMA AppendDistinct ==
    ASSUME NEW ms \in Seq(Nodes), Distinct(ms), NEW n \in Nodes, n \notin ToSet(ms)
    PROVE  /\ Append(ms, n) \in Seq(Nodes) /\ Distinct(Append(ms, n))
           /\ ToSet(Append(ms, n)) = ToSet(ms) \cup {n}
<1> DEFINE l == Append(ms, n)
<1>1. /\ l \in Seq(Nodes) /\ Len(l) = Len(ms) + 1 /\ Len(ms) \in Nat
      /\ DOMAIN l = 1 .. Len(ms) + 1 /\ DOMAIN ms = 1 .. Len(ms)
      /\ \A i \in 1 .. Len(ms) : l[i] = ms[i] /\ ms[i] # n
      /\ l[Len(ms) + 1] = n
  BY DEF ToSet
<1> HIDE DEF l
<1>2. Distinct(l)
  <2> SUFFICES ASSUME NEW i \in 1 .. Len(ms) + 1, NEW j \in 1 .. Len(ms) + 1, l[i] = l[j]
               PROVE  i = j
    BY <1>1 DEF Distinct
  <2>1. /\ i \in 1 .. Len(ms) \/ i = Len(ms) + 1
        /\ j \in 1 .. Len(ms) \/ j = Len(ms) + 1
    BY <1>1
  <2>2. CASE i \in 1 .. Len(ms) /\ j \in 1 .. Len(ms)
    BY <1>1, <2>2 DEF Distinct
  <2> QED
    BY <1>1, <2>1, <2>2
<1>3. ToSet(l) = ToSet(ms) \cup {n}
  <2>1. \A i \in 1 .. Len(ms) + 1 : i \in 1 .. Len(ms) \/ i = Len(ms) + 1
    BY <1>1
  <2>2. \A i \in 1 .. Len(ms) : i \in 1 .. Len(ms) + 1
    BY <1>1
  <2>3. Len(ms) + 1 \in 1 .. Len(ms) + 1
    BY <1>1
  <2> QED
    BY <1>1, <2>1, <2>2, <2>3 DEF ToSet
<1> QED
  BY <1>1, <1>2, <1>3 DEF l

(* What the node that joins has becomes known to clients.                  *)
LEMMA AddNodeInv ==
    ASSUME IInv, NEW n \in Nodes, AddNode(n)
    PROVE  IInv'
<1>1. /\ members' = Append(members, n) /\ n \notin Members
      /\ joining[n] \in Joins /\ members \in Seq(Nodes)
      /\ status' = [status EXCEPT ![n] = joining[n].records]
  BY DEF IInv, Types, Apart, AddNode
<1>2. /\ members' \in Seq(Nodes) /\ Distinct(members')
      /\ Members' = Members \cup {n}
  BY <1>1, AppendDistinct DEF IInv, Apart, Members
<1>3. status' \in [Nodes -> Nat]
  BY <1>1 DEF IInv, Types, Joins
<1>4. plan' \in Seq(Transfers) /\ Moving'
  <2>1. /\ Rebalance(members', status') \in Seq(Transfers)
        /\ \A k \in 1 .. Len(Rebalance(members', status')) :
              Rebalance(members', status')[k].from # Rebalance(members', status')[k].to
    BY <1>2, <1>3, RebalanceSound
  <2>2. plan' = Rebalance(members', status')
    BY DEF AddNode
  <2> QED
    BY <2>1, <2>2 DEF Moving
<1>5. nextId' \in Nat \ {0}
  BY <1>1 DEF IInv, Types, AddNode, SetNextIdIfHigher, Joins
<1>6. /\ joining' = [joining EXCEPT ![n] = None]
      /\ acked' = [id \in Ids |-> IF acked[id] = None THEN data[n][id] ELSE acked[id]]
      /\ leaves' = leaves /\ config' = config /\ creating' = creating
      /\ data' = data /\ nodeNext' = nodeNext
  BY DEF AddNode
<1>7. acked' \in [Ids -> Vals \cup {None}]
  BY <1>6 DEF IInv, Types
<1>8. Types'
  BY <1>2, <1>3, <1>4, <1>5, <1>6, <1>7 DEF IInv, Types
<1>9. Apart'
  BY <1>2, <1>6 DEF IInv, Types, Apart
<1>10. Kept'
  <2> SUFFICES ASSUME NEW id \in Ids, acked'[id] # None
               PROVE  \E m \in Nodes : data[m][id] # None
    BY <1>6 DEF Kept, Has
  <2> QED
    BY <1>6 DEF IInv, Kept, Has
<1> QED
  BY <1>4, <1>8, <1>9, <1>10 DEF IInv

(* The list of nodes that DeleteNode leaves.                               *)
LEMMA WithoutNodeIs ==
    ASSUME members \in Seq(Nodes), Distinct(members), NEW i \in DOMAIN members
    PROVE  /\ WithoutNode(i) \in Seq(Nodes) /\ Distinct(WithoutNode(i))
           /\ Len(WithoutNode(i)) = Len(members) - 1
           /\ ToSet(WithoutNode(i)) = Members \ {members[i]}
<1> DEFINE L == Len(members)
           e == [members EXCEPT ![i] = members[L]]
           r == WithoutNode(i)
<1>1. /\ L \in Nat /\ i \in 1 .. L /\ DOMAIN members = 1 .. L /\ L \in 1 .. L
      /\ \A k \in 1 .. L : members[k] \in Nodes
  OBVIOUS
<1>2. /\ e \in Seq(Nodes) /\ Len(e) = L
      /\ \A k \in 1 .. L : e[k] = IF k = i THEN members[L] ELSE members[k]
  BY <1>1
<1>3. r = SubSeq(e, 1, L - 1)
  BY DEF WithoutNode
<1> HIDE DEF e, r, L
<1>4. L - 1 \in Nat /\ L - 1 <= Len(e) /\ \A k \in 1 .. L - 1 : k \in 1 .. L /\ k # L
  BY <1>1, <1>2
<1>5. /\ r \in Seq(Nodes) /\ Len(r) = L - 1 /\ DOMAIN r = 1 .. L - 1
      /\ \A k \in 1 .. L - 1 : r[k] = e[k]
  BY <1>2, <1>3, <1>4
<1>6. \A k \in 1 .. L - 1 : r[k] = IF k = i THEN members[L] ELSE members[k]
  BY <1>2, <1>4, <1>5
<1>7. Distinct(r)
  BY <1>1, <1>4, <1>5, <1>6 DEF Distinct
<1>8. ToSet(r) = Members \ {members[i]}
  <2>1. ASSUME NEW k \in 1 .. L - 1 PROVE r[k] \in Members \ {members[i]}
    BY <1>1, <1>4, <1>6 DEF Distinct, Members, ToSet
  <2>2. ASSUME NEW m \in Members \ {members[i]} PROVE \E k \in 1 .. L - 1 : r[k] = m
    <3>1. PICK k \in 1 .. L : members[k] = m
      BY <1>1 DEF Members, ToSet
    <3>2. CASE k # L
      <4>1. k \in 1 .. L - 1
        BY <1>1, <3>2
      <4> QED
        BY <1>6, <2>2, <3>1, <4>1
    <3>3. CASE k = L
      <4>1. i # L /\ i \in 1 .. L - 1
        BY <1>1, <2>2, <3>1, <3>3
      <4> QED
        BY <1>6, <3>1, <3>3, <4>1
    <3> QED
      BY <3>2, <3>3
  <2> QED
    BY <1>5, <2>1, <2>2 DEF ToSet
<1> QED
  BY <1>5, <1>7, <1>8 DEF r, L

(* The shares of a node that leaves.                                       *)
Shares(n) == [from : {0}, to : 1 .. n, n : Nat]

LEMMA DrainPlanType ==
    ASSUME NEW k \in Nat, NEW n \in Nat
    PROVE  /\ DrainPlan(k, n) \in Seq(Shares(n))
           /\ Len(DrainPlan(k, n)) \in Nat
           /\ DOMAIN DrainPlan(k, n) = 1 .. Len(DrainPlan(k, n))
<1>1. CASE n = 0 \/ k = 0
  BY <1>1 DEF DrainPlan
<1>2. CASE ~(n = 0 \/ k = 0)
  <2>1. \A i \in 1 .. n : Share(k, n, i) \in Nat
    BY <1>2 DEF Share
  <2> QED
    BY <1>2, <2>1 DEF DrainPlan, Shares
<1> QED
  BY <1>1, <1>2

(* The node that leaves is not one of those that get its records.          *)
LEMMA DeleteNodeInv ==
    ASSUME IInv, NEW i \in DOMAIN members, DeleteNode(i)
    PROVE  IInv'
<1> DEFINE n == members[i]
           rest == WithoutNode(i)
           p == DrainPlan(status[n], Len(rest))
           q == [k \in 1 .. Len(p) |-> [from |-> n, to |-> rest[p[k].to], n |-> p[k].n]]
<1>1. n \in Nodes /\ status[n] \in Nat
  BY DEF IInv, Types
<1>2. /\ rest \in Seq(Nodes) /\ Distinct(rest)
      /\ ToSet(rest) = Members \ {n} /\ Len(rest) \in Nat
  BY WithoutNodeIs DEF IInv, Types, Apart
<1> HIDE DEF rest
<1>3. /\ p \in Seq(Shares(Len(rest)))
      /\ Len(p) \in Nat /\ DOMAIN p = 1 .. Len(p)
  <2> DEFINE l == Len(rest)
             x == status[n]
  <2>1. l \in Nat /\ x \in Nat
    BY <1>1, <1>2
  <2> HIDE DEF l, x
  <2>2. /\ DrainPlan(x, l) \in Seq(Shares(l))
        /\ Len(DrainPlan(x, l)) \in Nat
        /\ DOMAIN DrainPlan(x, l) = 1 .. Len(DrainPlan(x, l))
    BY <2>1, DrainPlanType
  <2> QED
    BY <2>2 DEF l, x
<1>4. /\ leaves' = leaves + 1 /\ members' = rest
      /\ acked' = IF rest = <<>> THEN [id \in Ids |-> None] ELSE acked
      /\ config' = config /\ nextId' = nextId /\ status' = status
      /\ joining' = joining /\ data' = data /\ nodeNext' = nodeNext
  BY DEF DeleteNode, rest
<1>5. plan' = q
  BY <1>3 DEF DeleteNode, rest
<1> HIDE DEF p, q
<1>6. ASSUME NEW k \in 1 .. Len(p)
      PROVE  q[k] \in Transfers /\ q[k].from # q[k].to
  <2>1. p[k] \in Shares(Len(rest))
    BY <1>3
  <2>2. p[k].to \in 1 .. Len(rest) /\ p[k].n \in Nat
    BY <2>1 DEF Shares
  <2>3. rest[p[k].to] \in Nodes /\ rest[p[k].to] # n
    <3>1. rest[p[k].to] \in ToSet(rest)
      BY <1>2, <2>2 DEF ToSet
    <3> QED
      BY <1>2, <2>2, <3>1
  <2> QED
    BY <1>1, <2>2, <2>3 DEF q, Transfers
<1>7. q \in Seq(Transfers) /\ Len(q) = Len(p)
  BY <1>3, <1>6 DEF q
<1>8. creating' \in [Threads -> Calls \cup {None}]
  <2>1. creating' = [t \in Threads |->
              IF creating[t] # None /\ creating[t].to = n
              THEN [creating[t] EXCEPT !.dropped = TRUE] ELSE creating[t]]
    BY DEF DeleteNode
  <2>2. ASSUME NEW t \in Threads, creating[t] # None
        PROVE  [creating[t] EXCEPT !.dropped = TRUE] \in Calls
    <3>1. creating[t] \in Calls
      BY <2>2 DEF IInv, Types
    <3> QED
      BY <3>1 DEF Calls
  <2> QED
    BY <2>1, <2>2 DEF IInv, Types
<1>9. acked' \in [Ids -> Vals \cup {None}] /\ leaves' \in Nat
  BY <1>4 DEF IInv, Types
<1>10. Types'
  BY <1>2, <1>4, <1>5, <1>7, <1>8, <1>9 DEF IInv, Types
<1>11. Apart'
  BY <1>2, <1>4 DEF IInv, Apart, Members
<1>12. Moving'
  BY <1>5, <1>6, <1>7 DEF Moving
<1>13. Kept'
  BY <1>4 DEF IInv, Kept, Has
<1> QED
  BY <1>10, <1>11, <1>12, <1>13 DEF IInv

(* What a transfer takes from the source is on the target first, and the   *)
(* batch that the target rolls back is still on the source.                *)
LEMMA TransferInv ==
    ASSUME IInv, Transfer
    PROVE  IInv'
<1> DEFINE t == Head(plan)
           ids == FirstPage(t.from, t.n)
           D == [Nodes -> [Ids -> Vals \cup {None}]]
<1>1. t \in Transfers /\ t.from # t.to
  <2>1. plan \in Seq(Transfers) /\ plan # <<>> /\ t = plan[1] /\ 1 \in 1 .. Len(plan)
    BY DEF IInv, Types, Transfer
  <2> QED
    BY <2>1 DEF IInv, Moving
<1>2. t.from \in Nodes /\ t.to \in Nodes /\ t.n \in Nat
  BY <1>1 DEF Transfers
<1>3. /\ plan' = Tail(plan) /\ members' = members /\ joining' = joining
      /\ config' = config /\ leaves' = leaves /\ nextId' = nextId
      /\ creating' = creating /\ nodeNext' = nodeNext /\ acked' = acked
  BY DEF Transfer, admin
<1>4. TransferDone(t, ids) \/ TransferAborted(t, ids) \/ TransferKept(t, ids)
  BY DEF Transfer
<1>5. \A id \in ids : id \in Ids /\ data[t.from][id] # None
  BY PageHeld DEF Has
<1>6. data \in D
  BY DEF IInv, Types
<1> HIDE DEF t, ids
<1> DEFINE copied == Copied(data, t.from, t.to, ids)
<1>7. /\ copied \in D /\ \A n \in Nodes \ {t.to} : copied[n] = data[n]
      /\ \A id \in Ids : copied[t.to][id] = IF id \in ids THEN data[t.from][id]
                                            ELSE data[t.to][id]
  BY <1>2, <1>6, CopiedFields
<1> HIDE DEF copied
<1> DEFINE removed == Removed(copied, t.from, ids)
           rolled == Removed(data, t.to, ids)
<1>8. /\ removed \in D /\ \A n \in Nodes \ {t.from} : removed[n] = copied[n]
      /\ \A id \in Ids : removed[t.from][id] = IF id \in ids THEN None ELSE copied[t.from][id]
  BY <1>2, <1>7, RemovedFields
<1>9. /\ rolled \in D /\ \A n \in Nodes \ {t.to} : rolled[n] = data[n]
      /\ \A id \in Ids : rolled[t.to][id] = IF id \in ids THEN None ELSE data[t.to][id]
  BY <1>2, <1>6, RemovedFields
<1>10. data' = data \/ data' = copied \/ data' = removed \/ data' = rolled
  BY <1>4 DEF TransferDone, TransferAborted, TransferKept, copied
<1> HIDE DEF removed, rolled, D
<1>11. data' \in D
  BY <1>6, <1>7, <1>8, <1>9, <1>10
<1>12. status' \in [Nodes -> Nat]
  <2>1. CASE status' = status
    BY <2>1 DEF IInv, Types
  <2>2. CASE Count(t)
    <3>1. status \in [Nodes -> Nat]
      BY DEF IInv, Types
    <3> DEFINE x == Unsigned(status[t.from] - t.n)
               y == Unsigned(status[t.to] + t.n)
    <3>2. x \in Nat /\ y \in Nat
      BY <1>2, <3>1, UnsignedType
    <3>3. status' = [[status EXCEPT ![t.from] = x] EXCEPT ![t.to] = y]
      BY <1>1, <1>2, <2>2, <3>1 DEF Count
    <3> HIDE DEF x, y
    <3> QED
      BY <1>2, <3>1, <3>2, <3>3
  <2> QED
    BY <1>4, <2>1, <2>2 DEF TransferDone, TransferAborted, TransferKept
<1>13. plan' \in Seq(Transfers) /\ Moving'
  <2>1. plan \in Seq(Transfers) /\ plan # <<>>
    BY DEF IInv, Types, Transfer
  <2>2. /\ Tail(plan) \in Seq(Transfers) /\ Len(Tail(plan)) = Len(plan) - 1
        /\ \A k \in 1 .. Len(plan) - 1 : Tail(plan)[k] = plan[k + 1] /\ k + 1 \in 1 .. Len(plan)
    BY <2>1
  <2> QED
    BY <1>3, <2>2 DEF IInv, Moving
<1>14. Types'
  BY <1>3, <1>11, <1>12, <1>13 DEF IInv, Types, D
<1>15. Kept'
  <2> SUFFICES ASSUME NEW id \in Ids, acked[id] # None
               PROVE  \E n \in Nodes : data'[n][id] # None
    BY <1>3 DEF Kept, Has
  <2>1. PICK m \in Nodes : data[m][id] # None
    BY DEF IInv, Kept, Has
  <2>2. CASE data' = data
    BY <2>1, <2>2
  <2>3. CASE data' = copied
    BY <1>2, <1>5, <1>7, <2>1, <2>3
  <2>4. CASE data' = rolled
    BY <1>1, <1>2, <1>5, <1>9, <2>1, <2>4
  <2>5. CASE data' = removed
    <3>1. CASE id \in ids
      BY <1>1, <1>2, <1>5, <1>7, <1>8, <2>5, <3>1
    <3>2. CASE id \notin ids
      BY <1>1, <1>2, <1>7, <1>8, <2>1, <2>5, <3>2
    <3> QED
      BY <3>1, <3>2
  <2> QED
    BY <1>10, <2>2, <2>3, <2>4, <2>5
<1> QED
  BY <1>3, <1>13, <1>14, <1>15 DEF IInv, Apart, Members

LEMMA UpdateConfigInv ==
    ASSUME IInv, UpdateConfig
    PROVE  IInv'
<1>1. config' = config \/ config' = members \/ config' = None
  BY DEF UpdateConfig, NoConfigFile, StoreConfig, StoreConfigFails
<1>2. /\ members' = members /\ joining' = joining /\ leaves' = leaves
      /\ nextId' = nextId /\ status' = status /\ plan' = plan /\ acked' = acked
      /\ creating' = creating /\ data' = data /\ nodeNext' = nodeNext
  BY DEF UpdateConfig
<1>3. Types'
  BY <1>1, <1>2 DEF IInv, Types
<1>4. Apart'
  BY <1>1, <1>2 DEF IInv, Apart, Members
<1> QED
  BY <1>2, <1>3, <1>4 DEF IInv, Moving, Kept, Has

(* A master that dies in a transfer or in CreateRecord overwrites nothing. *)
LEMMA UnfinishedGrows ==
    ASSUME IInv, Unfinished
    PROVE  data' \in [Nodes -> [Ids -> Vals \cup {None}]] /\ Grows
<1> DEFINE D == [Nodes -> [Ids -> Vals \cup {None}]]
<1>1. CASE data' = data
  BY <1>1 DEF IInv, Types, Grows, Has
<1>2. CASE /\ plan # <<>>
           /\ data' = Copied(data, Head(plan).from, Head(plan).to,
                             FirstPage(Head(plan).from, Head(plan).n))
  <2> DEFINE t == Head(plan)
             ids == FirstPage(t.from, t.n)
  <2>1. t \in Transfers
    BY <1>2 DEF IInv, Types
  <2>2. t.from \in Nodes /\ t.to \in Nodes /\ data \in D
    BY <2>1 DEF Transfers, IInv, Types
  <2>3. \A id \in ids : id \in Ids /\ data[t.from][id] # None
    BY PageHeld DEF Has
  <2>4. data' = Copied(data, t.from, t.to, ids)
    BY <1>2
  <2> HIDE DEF t, ids
  <2>5. /\ data' \in D /\ \A n \in Nodes \ {t.to} : data'[n] = data[n]
        /\ \A id \in Ids : data'[t.to][id] = IF id \in ids THEN data[t.from][id]
                                             ELSE data[t.to][id]
    BY <2>2, <2>4, CopiedFields
  <2> QED
    BY <2>2, <2>3, <2>5 DEF Grows, Has
<1>3. ASSUME NEW t \in Threads, creating[t] # None, nextId <= MaxId,
             Put(creating[t].to, nextId, creating[t].val)
      PROVE  data' \in D /\ Grows
  <2>1. creating[t] \in Calls /\ nextId \in Ids
    BY <1>3, ClusterAssumption DEF IInv, Types, Ids
  <2>2. creating[t].to \in Nodes /\ creating[t].val \in Vals /\ data \in D
    BY <2>1 DEF Calls, IInv, Types
  <2>3. /\ data' \in D
        /\ \A m \in Nodes, j \in Ids :
              data'[m][j] = IF m = creating[t].to /\ j = nextId THEN creating[t].val
                            ELSE data[m][j]
    BY <1>3, <2>1, <2>2, PutFields
  <2> QED
    BY <2>2, <2>3, ClusterAssumption DEF Grows, Has
<1> QED
  BY <1>1, <1>2, <1>3 DEF Unfinished

(* The nodes of the configuration are different ones.                      *)
LEMMA MasterRestartInv ==
    ASSUME IInv, MasterRestart
    PROVE  IInv'
<1>1. data' \in [Nodes -> [Ids -> Vals \cup {None}]] /\ Grows
  BY UnfinishedGrows DEF MasterRestart
<1>0. config \in Seq(Nodes) /\ Distinct(config)
  BY DEF MasterRestart, LoadConfig, IInv, Types, Apart
<1>2. /\ members' = config /\ nextId' = 1
      /\ status' = [n \in Nodes |->
           IF n \in ToSet(config) THEN Cardinality({id \in Ids : data'[n][id] # None})
           ELSE status[n]]
      /\ plan' = Rebalance(config, status')
      /\ creating' = [t \in Threads |-> None] /\ joining' = [n \in Nodes |-> None]
      /\ config' = config /\ nodeNext' = nodeNext /\ leaves' = leaves /\ acked' = acked
  BY DEF MasterRestart
<1>3. status' \in [Nodes -> Nat]
  <2>1. \A n \in Nodes : Cardinality({id \in Ids : data'[n][id] # None}) \in Nat
    <3> TAKE n \in Nodes
    <3> DEFINE S == {id \in Ids : data'[n][id] # None}
    <3>1. S \subseteq Ids
      OBVIOUS
    <3> HIDE DEF S
    <3>2. Cardinality(S) \in Nat
      BY <3>1, CardIds
    <3> QED
      BY <3>2 DEF S
  <2> QED
    BY <1>2, <2>1 DEF IInv, Types
<1>4. plan' \in Seq(Transfers) /\ Moving'
  <2>1. /\ Rebalance(config, status') \in Seq(Transfers)
        /\ \A k \in 1 .. Len(Rebalance(config, status')) :
              Rebalance(config, status')[k].from # Rebalance(config, status')[k].to
    BY <1>0, <1>3, RebalanceSound
  <2> QED
    BY <1>2, <2>1 DEF Moving
<1>5. Types'
  BY <1>0, <1>1, <1>2, <1>3, <1>4 DEF IInv, Types
<1>6. Apart'
  BY <1>0, <1>2 DEF IInv, Apart
<1>7. Kept'
  BY <1>1, <1>2, KeptIfGrows DEF IInv
<1> QED
  BY <1>4, <1>5, <1>6, <1>7 DEF IInv

LEMMA NodeRestartInv ==
    ASSUME IInv, NEW n \in Nodes, NodeRestart(n)
    PROVE  IInv'
<1>1. AfterLoad(Held(n)) \in Nat \ {0}
  BY AfterLoadType DEF Held
<1>2. Types'
  BY <1>1 DEF IInv, Types, NodeRestart, admin
<1> QED
  BY <1>2 DEF IInv, Apart, Moving, Kept, NodeRestart, admin, Members, Has

LEMMA InitInv ==
    ASSUME Distinct(FirstMembers), Init
    PROVE  IInv
<1>1. PICK v \in Vals :
         /\ data = [n \in Nodes |-> [id \in Ids |-> IF id \in FirstIds[n] THEN v ELSE None]]
         /\ acked = [id \in Ids |-> IF \E n \in ToSet(FirstMembers) : id \in FirstIds[n]
                                    THEN v ELSE None]
  BY DEF Init
<1>2. /\ members = FirstMembers /\ config = FirstMembers /\ nextId = 1
      /\ status = [n \in Nodes |-> Cardinality(FirstIds[n])]
      /\ plan = Rebalance(FirstMembers, status)
      /\ creating = [t \in Threads |-> None] /\ joining = [n \in Nodes |-> None]
      /\ nodeNext = [n \in Nodes |-> AfterLoad(FirstIds[n])] /\ leaves = 0
  BY DEF Init
<1>3. ASSUME NEW n \in Nodes
      PROVE  Cardinality(FirstIds[n]) \in Nat /\ AfterLoad(FirstIds[n]) \in Nat \ {0}
  <2> DEFINE S == FirstIds[n]
  <2>1. S \subseteq Ids
    BY ClusterAssumption DEF Ids
  <2> HIDE DEF S
  <2>2. Cardinality(S) \in Nat /\ AfterLoad(S) \in Nat \ {0}
    BY <2>1, CardIds, AfterLoadType
  <2> QED
    BY <2>2 DEF S
<1>4. /\ status \in [Nodes -> Nat] /\ nodeNext \in [Nodes -> Nat \ {0}]
      /\ FirstMembers \in Seq(Nodes)
  BY <1>2, <1>3, ClusterAssumption
<1>5. plan \in Seq(Transfers) /\ Moving
  <2>1. /\ Rebalance(FirstMembers, status) \in Seq(Transfers)
        /\ \A k \in 1 .. Len(Rebalance(FirstMembers, status)) :
              Rebalance(FirstMembers, status)[k].from # Rebalance(FirstMembers, status)[k].to
    BY <1>4, RebalanceSound
  <2> QED
    BY <1>2, <2>1 DEF Moving
<1>6. /\ data \in [Nodes -> [Ids -> Vals \cup {None}]]
      /\ acked \in [Ids -> Vals \cup {None}]
  BY <1>1
<1>7. Types
  BY <1>2, <1>4, <1>5, <1>6 DEF Types
<1>8. Apart
  BY <1>2 DEF Apart
<1>9. Kept
  <2> SUFFICES ASSUME NEW id \in Ids, acked[id] # None
               PROVE  \E n \in Nodes : data[n][id] # None
    BY DEF Kept, Has
  <2>1. PICK n \in ToSet(FirstMembers) : id \in FirstIds[n]
    BY <1>1
  <2>2. n \in Nodes
    BY <1>4 DEF ToSet
  <2> QED
    BY <1>1, <2>1, <2>2, ClusterAssumption
<1> QED
  BY <1>5, <1>7, <1>8, <1>9 DEF IInv

LEMMA NextInv ==
    ASSUME IInv, [Next]_vars
    PROVE  IInv'
<1>1. ASSUME NEW t \in Threads, CreateRecord(t) \/ \E v \in Vals : PickNode(t, v)
      PROVE  IInv'
  BY <1>1, CreateRecordInv, PickNodeInv
<1>2. ASSUME NEW id \in Ids, DeleteRecord(id) \/ \E v \in Vals : UpdateRecord(id, v)
      PROVE  IInv'
  BY <1>2, DeleteRecordInv, UpdateRecordInv
<1>3. ASSUME UpdateNodes PROVE IInv'
  BY <1>3, UpdateStatusInv DEF UpdateNodes
<1>4. ASSUME NEW n \in Nodes, CreateNode(n) \/ AddNode(n) \/ NodeRestart(n)
      PROVE  IInv'
  BY <1>4, CreateNodeInv, AddNodeInv, NodeRestartInv
<1>5. ASSUME NEW i \in DOMAIN members, DeleteNode(i) PROVE IInv'
  BY <1>5, DeleteNodeInv
<1>6. ASSUME UNCHANGED vars PROVE IInv'
  BY <1>6 DEF IInv, Types, Apart, Moving, Kept, vars, admin, Members, Has
<1> QED
  BY <1>1, <1>2, <1>3, <1>4, <1>5, <1>6, TransferInv, UpdateConfigInv, MasterRestartInv
     DEF Next

(* Whatever fails and whoever restarts, a record that a client was told is *)
(* stored (CreateRecord, UpdateRecord, or found on a node by AddNode) is   *)
(* on some node until DeleteRecord removes it.                             *)
THEOREM Invariance ==
    ASSUME Distinct(FirstMembers)
    PROVE  Spec => []IInv
<1>1. Init => IInv
  BY InitInv
<1>2. IInv /\ [Next]_vars => IInv'
  BY NextInv
<1> QED
  BY <1>1, <1>2, PTL DEF Spec

(* Records of one contents: then the copy that is left of a record that a  *)
(* client was told is stored is the record (transfer, CreateRecord,        *)
(* DeleteNode, NewServiceFromConfig).  With more contents a copy that a    *)
(* failed DeleteRecords left behind may be an old one.                     *)
THEOREM NothingDestroyed ==
    ASSUME Distinct(FirstMembers), \A v, w \in Vals : v = w
    PROVE  Spec => []NoRecordDestroyed
<1>1. IInv => NoRecordDestroyed
  <2> SUFFICES ASSUME IInv, NEW id \in Ids, acked[id] # None
               PROVE  \E n \in Nodes : data[n][id] = acked[id]
    BY DEF NoRecordDestroyed
  <2>1. PICK n \in Nodes : data[n][id] # None
    BY DEF IInv, Kept, Has
  <2>2. data[n][id] \in Vals /\ acked[id] \in Vals
    BY <2>1 DEF IInv, Types
  <2> QED
    BY <2>2
<1> QED
  BY <1>1, Invariance, PTL

-----------------------------------------------------------------------------
(* As long as no RPC fails, nodes only join, the master runs, and nodes    *)
(* start with an empty folder, a cluster is what its balancer takes it for.*)
Calm ==
    /\ FaultyRPCs \subseteq {"save"} /\ MaxLeaves = 0 /\ Restarts = "never"
    /\ \A n \in Nodes : FirstIds[n] = {}
    /\ Distinct(FirstMembers)

(* A record is on a node of the cluster, with an identifier that was       *)
(* assigned and the contents that clients know.                            *)
Placed ==
    \A n \in Nodes, id \in Ids :
        Has(n, id) => n \in Members /\ id < nextId /\ acked[id] = data[n][id]

Single == \A m, n \in Nodes, id \in Ids : Has(m, id) /\ Has(n, id) => m = n

(* CreateRecord and balance work with nodes of the cluster.                *)
Within ==
    /\ \A t \in Threads : creating[t] # None => creating[t].to \in Members
    /\ \A k \in 1 .. Len(plan) : plan[k].from \in Members /\ plan[k].to \in Members

CalmInv == IInv /\ Placed /\ Single /\ Within

LEMMA Faultless ==
    ASSUME FaultyRPCs \subseteq {"save"}, NEW rpc, rpc # "save"
    PROVE  ~Fault(rpc)
BY DEF Fault

LEMMA NoFault ==
    ASSUME Calm, NEW rpc, rpc # "save"
    PROVE  ~Fault(rpc)
BY Faultless DEF Calm

(* The identifier is new, and the node was not deleted since it was chosen.*)
LEMMA CreateRecordCalm ==
    ASSUME Calm, CalmInv, NEW t \in Threads, CreateRecord(t)
    PROVE  Placed' /\ Single' /\ Within'
<1> DEFINE c == creating[t]
<1>1. /\ c.to \in Nodes /\ c.val \in Vals /\ c.to \in Members /\ nextId \in Nat
      /\ nextId \in Ids
  <2>1. nextId \in Nat /\ nextId <= MaxId /\ c \in Calls /\ nextId # 0 /\ c # None
    BY DEF CalmInv, IInv, Types, CreateRecord, Calls
  <2> QED
    BY <2>1, ClusterAssumption DEF Ids, Calls, CalmInv, Within
<1>2. members' = members /\ plan' = plan /\ creating' = [creating EXCEPT ![t] = None]
  BY DEF CreateRecord, admin
<1>3. Within'
  BY <1>2 DEF CalmInv, IInv, Types, Within, Members
<1>4. CreateRefused(c) \/ CreateDone(c)
  BY NoFault DEF CreateRecord, CreateError
<1> HIDE DEF c
<1>5. CASE CreateRefused(c)
  <2>1. nextId' = nextId /\ data' = data /\ acked' = acked
    BY <1>5 DEF CreateRefused
  <2> QED
    BY <1>2, <1>3, <2>1 DEF CalmInv, Placed, Single, Members, Has
<1>6. CASE CreateDone(c)
  <2>1. \A m \in Nodes, j \in Ids :
           data'[m][j] = IF m = c.to /\ j = nextId THEN c.val ELSE data[m][j]
    BY <1>1, <1>6, PutFields DEF CalmInv, IInv, Types, CreateDone
  <2>2. acked' = [acked EXCEPT ![nextId] = c.val] /\ nextId' = nextId + 1
    BY <1>6 DEF CreateDone
  <2>3. \A m \in Nodes : data[m][nextId] = None
    BY <1>1 DEF CalmInv, Placed, Has
  <2>4. \A j \in Ids : acked'[j] = IF j = nextId THEN c.val ELSE acked[j]
    BY <1>1, <2>2 DEF CalmInv, IInv, Types
  <2>5. Single'
    BY <1>1, <2>1, <2>3 DEF CalmInv, Single, Has
  <2>6. Placed'
    <3> SUFFICES ASSUME NEW n \in Nodes, NEW id \in Ids, data'[n][id] # None
                 PROVE  n \in Members /\ id < nextId + 1 /\ acked'[id] = data'[n][id]
      BY <1>2, <2>2 DEF Placed, Has, Members
    <3>1. CASE id = nextId
      BY <1>1, <2>1, <2>3, <2>4, <3>1
    <3>2. CASE id # nextId
      <4>1. data[n][id] = data'[n][id] /\ acked'[id] = acked[id]
        BY <2>1, <2>4, <3>2
      <4>2. n \in Members /\ id < nextId /\ acked[id] = data[n][id]
        BY <4>1 DEF CalmInv, Placed, Has
      <4> QED
        BY <1>1, <4>1, <4>2 DEF Ids
    <3> QED
      BY <3>1, <3>2
  <2> QED
    BY <1>3, <2>5, <2>6
<1> QED
  BY <1>4, <1>5, <1>6

LEMMA PickNodeCalm ==
    ASSUME CalmInv, NEW t \in Threads, NEW v \in Vals, PickNode(t, v)
    PROVE  Placed' /\ Single' /\ Within'
<1> DEFINE c == LessLoaded(Counts(members, status))
<1>1. c \in 1 .. Len(members)
  BY LessLoadedType DEF CalmInv, IInv, Types, PickNode
<1>2. /\ members' = members /\ plan' = plan /\ nextId' = nextId /\ data' = data
      /\ acked' = acked
      /\ creating' = [creating EXCEPT ![t] =
                        [to |-> members[c], val |-> v, dropped |-> FALSE]]
  BY DEF PickNode, admin
<1> HIDE DEF c
<1>3. members[c] \in Members
  BY <1>1 DEF CalmInv, IInv, Types, Members, ToSet
<1>4. Within'
  BY <1>2, <1>3 DEF CalmInv, IInv, Types, Within, Members
<1> QED
  BY <1>2, <1>4 DEF CalmInv, Placed, Single, Members, Has

(* The one node that has the record serves the update.                     *)
LEMMA UpdateRecordCalm ==
    ASSUME Calm, CalmInv, NEW id \in Ids, NEW v \in Vals, UpdateRecord(id, v)
    PROVE  Placed' /\ Single' /\ Within'
<1>1. PICK served \in SUBSET Holders(id) :
         /\ served # {}
         /\ data' = [n \in Nodes |-> IF n \in served
                        THEN [data[n] EXCEPT ![id] = v] ELSE data[n]]
         /\ acked' = IF served = {} THEN acked ELSE [acked EXCEPT ![id] = v]
  BY NoFault DEF UpdateRecord
<1>2. /\ members' = members /\ plan' = plan /\ nextId' = nextId /\ creating' = creating
  BY DEF UpdateRecord, admin
<1>3. \A n \in served : n \in Nodes /\ n \in Members /\ Has(n, id)
  BY DEF CalmInv, IInv, Types, Holders, Members, ToSet
<1>4. \A n \in Nodes, j \in Ids :
         data'[n][j] = IF n \in served /\ j = id THEN v ELSE data[n][j]
  BY <1>1 DEF CalmInv, IInv, Types
<1>5. \A j \in Ids : acked'[j] = IF j = id THEN v ELSE acked[j]
  BY <1>1 DEF CalmInv, IInv, Types
<1>6. \A n \in Nodes, j \in Ids : data'[n][j] # None => Has(n, j)
  BY <1>3, <1>4 DEF Has
<1>7. Single'
  BY <1>6 DEF CalmInv, Single, Has
<1>8. \A n \in Nodes : Has(n, id) => n \in served
  BY <1>1, <1>3 DEF CalmInv, Single
<1>9. Placed'
  <2> SUFFICES ASSUME NEW n \in Nodes, NEW j \in Ids, data'[n][j] # None
               PROVE  n \in Members /\ j < nextId /\ acked'[j] = data'[n][j]
    BY <1>2 DEF Placed, Has, Members
  <2>1. n \in Members /\ j < nextId /\ acked[j] = data[n][j]
    BY <1>6 DEF CalmInv, Placed
  <2> QED
    BY <1>4, <1>5, <1>6, <1>8, <2>1
<1> QED
  BY <1>2, <1>7, <1>9 DEF CalmInv, Within, Members

(* The one node that has the record serves the deletion.                   *)
LEMMA DeleteRecordCalm ==
    ASSUME Calm, CalmInv, NEW id \in Ids, DeleteRecord(id)
    PROVE  Placed' /\ Single' /\ Within'
<1>1. PICK served \in SUBSET Holders(id) :
         /\ served # {}
         /\ data' = [n \in Nodes |-> IF n \in served
                        THEN [data[n] EXCEPT ![id] = None] ELSE data[n]]
         /\ acked' = IF served = {} THEN acked ELSE [acked EXCEPT ![id] = None]
  BY NoFault DEF DeleteRecord
<1>2. /\ members' = members /\ plan' = plan /\ nextId' = nextId /\ creating' = creating
  BY DEF DeleteRecord, admin
<1>3. \A n \in served : n \in Nodes /\ Has(n, id)
  BY DEF CalmInv, IInv, Types, Holders, Members, ToSet
<1>4. \A n \in Nodes, j \in Ids :
         data'[n][j] = IF n \in served /\ j = id THEN None ELSE data[n][j]
  BY <1>1 DEF CalmInv, IInv, Types
<1>5. \A j \in Ids : acked'[j] = IF j = id THEN None ELSE acked[j]
  BY <1>1 DEF CalmInv, IInv, Types
<1>6. \A n \in Nodes, j \in Ids : data'[n][j] # None => data'[n][j] = data[n][j] /\ Has(n, j)
  BY <1>4 DEF Has
<1>7. Single'
  BY <1>6 DEF CalmInv, Single, Has
<1>8. \A n \in Nodes : Has(n, id) => n \in served
  BY <1>1, <1>3 DEF CalmInv, Single
<1>9. Placed'
  <2> SUFFICES ASSUME NEW n \in Nodes, NEW j \in Ids, data'[n][j] # None
               PROVE  n \in Members /\ j < nextId /\ acked'[j] = data'[n][j]
    BY <1>2 DEF Placed, Has, Members
  <2>1. n \in Members /\ j < nextId /\ acked[j] = data[n][j]
    BY <1>6 DEF CalmInv, Placed
  <2>2. j # id
    BY <1>4, <1>6, <1>8
  <2> QED
    BY <1>5, <1>6, <2>1, <2>2
<1> QED
  BY <1>2, <1>7, <1>9 DEF CalmInv, Within, Members

(* A node that joins has no records.                                       *)
LEMMA AddNodeCalm ==
    ASSUME CalmInv, NEW n \in Nodes, AddNode(n)
    PROVE  Placed' /\ Single' /\ Within'
<1>1. /\ members' = Append(members, n) /\ n \notin Members
      /\ joining[n] \in Joins /\ members \in Seq(Nodes)
      /\ status' = [status EXCEPT ![n] = joining[n].records]
      /\ data' = data /\ creating' = creating /\ plan' = Rebalance(members', status')
      /\ nextId' = SetNextIdIfHigher(joining[n].next)
      /\ acked' = [id \in Ids |-> IF acked[id] = None THEN data[n][id] ELSE acked[id]]
  BY DEF CalmInv, IInv, Types, Apart, AddNode
<1>2. /\ members' \in Seq(Nodes) /\ Distinct(members')
      /\ Members' = Members \cup {n}
  BY <1>1, AppendDistinct DEF CalmInv, IInv, Apart, Members
<1>3. status' \in [Nodes -> Nat]
  BY <1>1 DEF CalmInv, IInv, Types, Joins
<1>4. \A id \in Ids : data[n][id] = None
  BY <1>1 DEF CalmInv, Placed, Has
<1>5. acked' = acked
  BY <1>1, <1>4 DEF CalmInv, IInv, Types
<1>6. nextId \in Nat /\ nextId' \in Nat /\ nextId <= nextId'
  BY <1>1 DEF CalmInv, IInv, Types, SetNextIdIfHigher, Joins
<1>7. Placed' /\ Single'
  BY <1>1, <1>2, <1>5, <1>6 DEF CalmInv, Placed, Single, Has, Ids
<1>8. \A k \in 1 .. Len(Rebalance(members', status')) :
         /\ Rebalance(members', status')[k].from \in ToSet(members')
         /\ Rebalance(members', status')[k].to \in ToSet(members')
  BY <1>2, <1>3, RebalanceSound
<1>9. Within'
  BY <1>1, <1>2, <1>8 DEF CalmInv, Within, Members
<1> QED
  BY <1>7, <1>9

(* A transfer moves the first records of the source to the target.         *)
LEMMA TransferMoves ==
    ASSUME FaultyRPCs \subseteq {"save"}, IInv, Single, Transfer, NEW t, t = Head(plan),
           NEW ids, ids = FirstPage(t.from, t.n)
    PROVE  /\ t.from \in Nodes /\ t.to \in Nodes /\ t.n \in Nat
           /\ t.from # t.to
           /\ \A id \in ids : id \in Ids /\ data[t.from][id] # None /\ data[t.to][id] = None
           /\ \A n \in Nodes, id \in Ids :
                 data'[n][id] = IF id \notin ids THEN data[n][id]
                                ELSE IF n = t.from THEN None
                                ELSE IF n = t.to THEN data[t.from][id] ELSE data[n][id]
<1> DEFINE D == [Nodes -> [Ids -> Vals \cup {None}]]
<1>1. t \in Transfers /\ t.from # t.to
  <2>1. plan \in Seq(Transfers) /\ plan # <<>> /\ t = plan[1] /\ 1 \in 1 .. Len(plan)
    BY DEF IInv, Types, Transfer
  <2> QED
    BY <2>1 DEF IInv, Moving
<1>2. t.from \in Nodes /\ t.to \in Nodes /\ t.n \in Nat
  BY <1>1 DEF Transfers
<1>3. data' = Removed(Copied(data, t.from, t.to, ids), t.from, ids)
  BY Faultless DEF Transfer, TransferDone, TransferAborted, TransferKept
<1>4. \A id \in ids : id \in Ids /\ data[t.from][id] # None /\ data[t.to][id] = None
  BY <1>1, <1>2, PageHeld DEF Has, Single
<1>5. data \in D
  BY DEF IInv, Types
<1> DEFINE copied == Copied(data, t.from, t.to, ids)
<1>6. /\ copied \in D /\ \A n \in Nodes \ {t.to} : copied[n] = data[n]
      /\ \A id \in Ids : copied[t.to][id] = IF id \in ids THEN data[t.from][id]
                                            ELSE data[t.to][id]
  BY <1>2, <1>5, CopiedFields
<1> HIDE DEF copied
<1>7. /\ \A n \in Nodes \ {t.from} : data'[n] = copied[n]
      /\ \A id \in Ids : data'[t.from][id] = IF id \in ids THEN None ELSE copied[t.from][id]
  BY <1>2, <1>3, <1>6, RemovedFields DEF copied
<1>8. \A n \in Nodes, id \in Ids :
         data'[n][id] = IF id \notin ids THEN data[n][id]
                        ELSE IF n = t.from THEN None
                        ELSE IF n = t.to THEN data[t.from][id] ELSE data[n][id]
  BY <1>1, <1>2, <1>6, <1>7
<1> QED
  BY <1>1, <1>2, <1>4, <1>8

LEMMA HeadWithin ==
    ASSUME CalmInv, Transfer
    PROVE  Head(plan).from \in Members /\ Head(plan).to \in Members
<1>1. plan \in Seq(Transfers) /\ plan # <<>> /\ Head(plan) = plan[1] /\ 1 \in 1 .. Len(plan)
  BY DEF CalmInv, IInv, Types, Transfer
<1> QED
  BY <1>1 DEF CalmInv, Within

(* At every moment between two handlers or transfers.                      *)
LEMMA TransferCalm ==
    ASSUME Calm, CalmInv, Transfer
    PROVE  Placed' /\ Single' /\ Within'
<1> DEFINE t == Head(plan)
           ids == FirstPage(t.from, t.n)
<1>1. /\ t.from \in Nodes /\ t.to \in Nodes /\ t.from # t.to
      /\ t.from \in Members /\ t.to \in Members
      /\ \A id \in ids : id \in Ids /\ data[t.from][id] # None /\ data[t.to][id] = None
      /\ \A n \in Nodes, id \in Ids :
            data'[n][id] = IF id \notin ids THEN data[n][id]
                           ELSE IF n = t.from THEN None
                           ELSE IF n = t.to THEN data[t.from][id] ELSE data[n][id]
  BY TransferMoves, HeadWithin DEF CalmInv, Calm
<1>2. /\ plan' = Tail(plan) /\ members' = members /\ nextId' = nextId
      /\ creating' = creating /\ acked' = acked
  BY DEF Transfer, admin
<1> HIDE DEF t, ids
<1>3. Single'
  BY <1>1 DEF CalmInv, Single, Has
<1>4. Placed'
  BY <1>1, <1>2 DEF CalmInv, Placed, Has, Members
<1>5. Within'
  <2>1. plan \in Seq(Transfers) /\ plan # <<>>
    BY DEF CalmInv, IInv, Types, Transfer
  <2>2. /\ Len(Tail(plan)) = Len(plan) - 1
        /\ \A k \in 1 .. Len(plan) - 1 : Tail(plan)[k] = plan[k + 1] /\ k + 1 \in 1 .. Len(plan)
    BY <2>1
  <2> QED
    BY <1>2, <2>2 DEF CalmInv, Within, Members
<1> QED
  BY <1>3, <1>4, <1>5

LEMMA CalmInit ==
    ASSUME Calm, Init
    PROVE  CalmInv
<1>1. IInv
  BY InitInv DEF Calm
<1>2. Placed /\ Single
  BY DEF Init, Calm, Placed, Single, Has
<1>3. /\ members = FirstMembers /\ status \in [Nodes -> Nat]
      /\ plan = Rebalance(FirstMembers, status) /\ creating = [t \in Threads |-> None]
      /\ FirstMembers \in Seq(Nodes) /\ Distinct(FirstMembers)
  BY <1>1, ClusterAssumption DEF Init, IInv, Types, Calm
<1>4. \A k \in 1 .. Len(Rebalance(FirstMembers, status)) :
         /\ Rebalance(FirstMembers, status)[k].from \in ToSet(FirstMembers)
         /\ Rebalance(FirstMembers, status)[k].to \in ToSet(FirstMembers)
  BY <1>3, RebalanceSound
<1>5. Within
  BY <1>3, <1>4 DEF Within, Members
<1> QED
  BY <1>1, <1>2, <1>5 DEF CalmInv

LEMMA CalmNext ==
    ASSUME Calm, CalmInv, [Next]_vars
    PROVE  CalmInv'
<1> DEFINE P == Placed' /\ Single' /\ Within'
<1>1. IInv'
  BY NextInv DEF CalmInv
<1>2. ASSUME NEW t \in Threads, CreateRecord(t) \/ \E v \in Vals : PickNode(t, v)
      PROVE  P
  BY <1>2, CreateRecordCalm, PickNodeCalm
<1>3. ASSUME NEW id \in Ids, DeleteRecord(id) \/ \E v \in Vals : UpdateRecord(id, v)
      PROVE  P
  BY <1>3, DeleteRecordCalm, UpdateRecordCalm
<1>4. ASSUME \/ UpdateNodes \/ UpdateConfig \/ UNCHANGED vars
             \/ \E n \in Nodes : CreateNode(n) \/ NodeRestart(n)
      PROVE  P
  <2>1. /\ members' = members /\ plan' = plan /\ nextId' = nextId /\ data' = data
        /\ acked' = acked /\ creating' = creating
    BY <1>4 DEF UpdateNodes, UpdateStatus, UpdateConfig, CreateNode, NodeRestart, vars, admin
  <2> QED
    BY <2>1 DEF CalmInv, Placed, Single, Within, Members, Has
<1>5. ASSUME NEW n \in Nodes, AddNode(n) PROVE P
  BY <1>5, AddNodeCalm
<1>6. ASSUME NEW i \in DOMAIN members, DeleteNode(i) PROVE FALSE
  BY <1>6 DEF DeleteNode, Calm, CalmInv, IInv, Types
<1>7. ~MasterRestart
  BY DEF MasterRestart, Calm
<1>8. P
  BY <1>2, <1>3, <1>4, <1>5, <1>6, <1>7, TransferCalm DEF Next
<1> QED
  BY <1>1, <1>8 DEF CalmInv

(* As long as no RPC fails, no node leaves and the master is not           *)
(* restarted: every record is on one node of the cluster, with an          *)
(* identifier below nextId and the contents that clients know.             *)
THEOREM CalmInvariance ==
    ASSUME Calm
    PROVE  Spec => []CalmInv
<1>1. Init => CalmInv
  BY CalmInit
<1>2. CalmInv /\ [Next]_vars => CalmInv'
  BY CalmNext
<1> QED
  BY <1>1, <1>2, PTL DEF Spec

LEMMA SingleMeans ==
    ASSUME IInv, Single
    PROVE  NoDuplicates
<1> SUFFICES ASSUME NEW id \in Ids
             PROVE  Cardinality(Holders(id)) <= 1
  BY DEF NoDuplicates
<1>1. \A n \in Holders(id) : n \in Nodes /\ Has(n, id)
  BY DEF IInv, Types, Holders, Members, ToSet
<1>2. CASE Holders(id) = {}
  BY <1>2, FS_EmptySet
<1>3. CASE Holders(id) # {}
  <2>1. PICK n \in Holders(id) : TRUE
    BY <1>3
  <2>2. Holders(id) = {n}
    BY <1>1, <2>1 DEF Single
  <2>3. Cardinality({n}) = 1
    BY FS_Singleton, Zenon
  <2> QED
    BY <2>2, <2>3
<1> QED
  BY <1>2, <1>3

(* "Got %d results when only one was expected" (mux_records.go) is not     *)
(* reached: no record is on two nodes, in the middle of a balance neither. *)
THEOREM OnOneNode ==
    ASSUME Calm
    PROVE  Spec => []NoDuplicates
<1>1. CalmInv => NoDuplicates
  BY SingleMeans DEF CalmInv
<1> QED
  BY <1>1, CalmInvariance, PTL

(* A record that a client was told is stored is on a node of the cluster   *)
(* with the contents it was given last, however CreateRecord, UpdateRecord *)
(* and DeleteRecord interleave with AddNode and its transfers.             *)
THEOREM NothingLost ==
    ASSUME Calm
    PROVE  Spec => []NoRecordLost
<1>1. CalmInv => NoRecordLost
  <2> SUFFICES ASSUME CalmInv, NEW id \in Ids, acked[id] # None
               PROVE  \E n \in Members : data[n][id] = acked[id]
    BY DEF NoRecordLost
  <2>1. PICK n \in Nodes : Has(n, id)
    BY DEF CalmInv, IInv, Kept
  <2> QED
    BY <2>1 DEF CalmInv, Placed
<1> QED
  BY <1>1, CalmInvariance, PTL

(* nextId is an identifier that no node of the cluster has: CreateRecord   *)
(* does not fail with ErrInvalidID.                                        *)
THEOREM NextIdUnused ==
    ASSUME Calm
    PROVE  Spec => []NextIdIsFree
<1>1. CalmInv => NextIdIsFree
  <2> SUFFICES ASSUME CalmInv, NEW id \in Ids, Holders(id) # {}
               PROVE  id < nextId
    BY DEF NextIdIsFree
  <2>1. PICK n \in Nodes : Has(n, id)
    BY DEF CalmInv, IInv, Types, Holders, Members, ToSet
  <2> QED
    BY <2>1 DEF CalmInv, Placed
<1> QED
  BY <1>1, CalmInvariance, PTL

-----------------------------------------------------------------------------
(* The counts.                                                             *)

Rank(S, x) == Cardinality({y \in S : y < x})
Lowest(S, k) == {x \in S : Rank(S, x) < k}

(* A page of k records has k records, if the node has as many.             *)
LEMMA PageSize ==
    ASSUME NEW S, S \subseteq Ids, NEW k \in Nat, k <= Cardinality(S)
    PROVE  Cardinality(Lowest(S, k)) = k
<1>1. S \subseteq Nat /\ IsFiniteSet(S) /\ Cardinality(S) \in Nat
  <2>1. MaxId \in Nat /\ Ids \subseteq Nat
    BY ClusterAssumption DEF Ids
  <2>2. IsFiniteSet(S) /\ Cardinality(S) \in Nat
    BY CardIds
  <2> QED
    BY <2>1, <2>2
<1>2. \A x \in S : Rank(S, x) \in Nat
  <2> SUFFICES ASSUME NEW x \in S PROVE Rank(S, x) \in Nat
    OBVIOUS
  <2> DEFINE T == {y \in S : y < x}
  <2>1. T \subseteq Ids
    OBVIOUS
  <2> HIDE DEF T
  <2>2. Cardinality(T) \in Nat
    BY <2>1, CardIds
  <2> QED
    BY <2>2 DEF T, Rank
<1>3. \A i \in Nat : Lowest(S, i) \subseteq S /\ Lowest(S, i) \subseteq Ids
  BY DEF Lowest
<1> DEFINE R == {i \in Nat : i <= Cardinality(S) => Cardinality(Lowest(S, i)) = i}
<1>4. 0 \in R
  <2>1. Lowest(S, 0) = {}
    BY <1>2 DEF Lowest
  <2> QED
    BY <2>1, FS_EmptySet
<1>5. ASSUME NEW i \in Nat, i \in R PROVE i + 1 \in R
  <2> SUFFICES ASSUME i + 1 <= Cardinality(S) PROVE Cardinality(Lowest(S, i + 1)) = i + 1
    OBVIOUS
  <2> DEFINE P == Lowest(S, i)
             Rest == S \ P
  <2>1. Cardinality(P) = i
    BY <1>1, <1>5
  <2>2. P \subseteq S /\ P # S /\ IsFiniteSet(P)
    <3>1. Cardinality(P) # Cardinality(S) /\ P \subseteq S /\ P \subseteq Ids
      BY <1>1, <1>3, <2>1
    <3> HIDE DEF P
    <3> QED
      BY <3>1, CardIds
  <2>3. PICK x \in Rest : \A y \in Rest : x <= y
    <3>1. Rest \subseteq Nat /\ Rest # {}
      BY <1>1, <2>2
    <3> HIDE DEF Rest
    <3> QED
      BY <3>1, NatMin
  <2>4. x \in S /\ x \notin P /\ x \in Nat /\ ~(Rank(S, x) < i)
    BY <1>1, <2>3 DEF Lowest
  <2>5. \A y \in P : y < x
    <3> SUFFICES ASSUME NEW y \in P, ~(y < x) PROVE FALSE
      OBVIOUS
    <3>1. y \in S /\ Rank(S, y) < i /\ y \in Nat /\ x < y
      <4>1. y \in S /\ y # x /\ Rank(S, y) < i
        BY <2>4 DEF Lowest
      <4>2. y \in Nat
        BY <1>1, <4>1
      <4> QED
        BY <2>4, <4>1, <4>2
    <3>2. Rank(S, x) <= Rank(S, y)
      <4> DEFINE T == {z \in S : z < x}
                 U == {z \in S : z < y}
      <4>1. T \subseteq U /\ U \subseteq Ids
        <5>1. \A z \in S : z \in Nat /\ (z < x => z < y)
          BY <1>1, <2>4, <3>1
        <5> QED
          BY <5>1
      <4> HIDE DEF T, U
      <4>2. Cardinality(T) <= Cardinality(U)
        BY <4>1, CardIds, FS_Subset
      <4> QED
        BY <4>2 DEF T, U, Rank
    <3> QED
      BY <1>2, <2>4, <3>1, <3>2
  <2>6. {y \in S : y < x} = P
    <3>1. \A y \in S : y \notin P => ~(y < x)
      <4> SUFFICES ASSUME NEW y \in S, y \notin P PROVE ~(y < x)
        OBVIOUS
      <4>1. y \in Nat /\ x <= y
        BY <1>1, <2>3
      <4> QED
        BY <2>4, <4>1
    <3> HIDE DEF P
    <3> QED
      BY <2>2, <2>5, <3>1
  <2>7. Rank(S, x) = i
    BY <2>1, <2>6 DEF Rank
  <2>8. \A y \in Rest : y # x => ~(Rank(S, y) < i + 1)
    <3> SUFFICES ASSUME NEW y \in Rest, y # x PROVE ~(Rank(S, y) < i + 1)
      OBVIOUS
    <3>1. y \in S /\ y \in Nat /\ x < y
      BY <1>1, <2>3, <2>4
    <3> DEFINE T == P \cup {x}
               U == {z \in S : z < y}
    <3>2. T \subseteq U /\ U \subseteq Ids
      <4>1. \A z \in P : z \in S /\ z < y
        <5> SUFFICES ASSUME NEW z \in P PROVE z \in S /\ z < y
          OBVIOUS
        <5>1. z \in S /\ z \in Nat /\ z < x
          BY <1>1, <2>2, <2>5
        <5> QED
          BY <2>4, <3>1, <5>1
      <4> QED
        BY <2>4, <3>1, <4>1
    <3>3. Cardinality(T) = i + 1
      BY <2>1, <2>2, <2>4, FS_AddElement
    <3> HIDE DEF T, U
    <3>4. Cardinality(T) <= Cardinality(U) /\ Cardinality(U) \in Nat
      BY <3>2, CardIds, FS_Subset
    <3>5. Rank(S, y) = Cardinality(U)
      BY DEF Rank, U
    <3> QED
      BY <3>3, <3>4, <3>5
  <2>9. Lowest(S, i + 1) = P \cup {x}
    <3>1. \A y \in P : y \in Lowest(S, i + 1)
      BY <1>2 DEF Lowest
    <3>2. x \in Lowest(S, i + 1)
      BY <2>4, <2>7 DEF Lowest
    <3>3. \A y \in Lowest(S, i + 1) : y \in P \/ y = x
      BY <2>8 DEF Lowest
    <3> QED
      BY <3>1, <3>2, <3>3
  <2> HIDE DEF P
  <2> QED
    BY <2>1, <2>2, <2>4, <2>9, FS_AddElement
<1> HIDE DEF R
<1>6. Nat \subseteq R
  BY <1>4, <1>5, Induct
<1> QED
  BY <1>6 DEF R

(* The nodes in place of their positions.                                  *)
Named(ms, p) ==
    [k \in 1 .. Len(p) |-> [from |-> ms[p[k].from], to |-> ms[p[k].to], n |-> p[k].n]]

(* A plan that can be run on positions can be run on the nodes.            *)
LEMMA RunsNamed ==
    ASSUME NEW ms \in Seq(Nodes), Distinct(ms), NEW z \in [Nodes -> Nat],
           NEW c, \A i \in 1 .. Len(ms) : c[i] = z[ms[i]],
           NEW p \in Seq(Moves(Len(ms))), \A k \in 1 .. Len(p) : p[k].from # p[k].to,
           NEW f, Runs(f, c, p, 1 .. Len(ms))
    PROVE  \E g : Runs(g, z, Named(ms, p), Nodes)
<1> DEFINE L == Len(ms)
           l == Len(p)
           q == Named(ms, p)
           At(k, n) == IF \E i \in 1 .. L : ms[i] = n
                       THEN f[k][CHOOSE i \in 1 .. L : ms[i] = n] ELSE z[n]
           g == [k \in 0 .. l |-> [n \in Nodes |-> At(k, n)]]
<1>1. /\ L \in Nat /\ l \in Nat /\ \A i \in 1 .. L : ms[i] \in Nodes
      /\ \A i, j \in 1 .. L : ms[i] = ms[j] => i = j
      /\ \A i \in 1 .. L : c[i] = z[ms[i]]
  BY DEF Distinct
<1>2. /\ f \in [0 .. l -> [1 .. L -> Nat]] /\ f[0] = c
      /\ \A k \in 1 .. l : p[k].n \in 1 .. f[k - 1][p[k].from] /\ f[k] = After(f[k - 1], p[k])
  BY DEF Runs
<1>3. ASSUME NEW k \in 1 .. l
      PROVE  /\ p[k].from \in 1 .. L /\ p[k].to \in 1 .. L /\ p[k].from # p[k].to
             /\ q[k].from = ms[p[k].from] /\ q[k].to = ms[p[k].to] /\ q[k].n = p[k].n
  <2>1. p[k] \in Moves(L) /\ p[k].from # p[k].to
    OBVIOUS
  <2> QED
    BY <2>1 DEF Moves, Named
<1>4. Len(q) = l
  BY <1>1 DEF Named
<1> HIDE DEF L, l, q
<1>5. ASSUME NEW k \in 0 .. l, NEW i \in 1 .. L
      PROVE  At(k, ms[i]) = f[k][i]
  <2>1. (CHOOSE j \in 1 .. L : ms[j] = ms[i]) = i
    BY <1>1
  <2> QED
    BY <2>1
<1>6. ASSUME NEW k \in 0 .. l, NEW n \in Nodes, \A i \in 1 .. L : ms[i] # n
      PROVE  At(k, n) = z[n]
  BY <1>6
<1> HIDE DEF At
<1>7. ASSUME NEW k \in 0 .. l, NEW n \in Nodes
      PROVE  At(k, n) \in Nat
  <2>1. CASE \E i \in 1 .. L : ms[i] = n
    <3>1. PICK i \in 1 .. L : ms[i] = n
      BY <2>1
    <3>2. At(k, n) = f[k][i]
      BY <1>5, <3>1
    <3>3. f[k] \in [1 .. L -> Nat]
      BY <1>2
    <3> QED
      BY <3>2, <3>3
  <2>2. CASE ~ \E i \in 1 .. L : ms[i] = n
    BY <1>6, <2>2
  <2> QED
    BY <2>1, <2>2
<1>8. g \in [0 .. l -> [Nodes -> Nat]]
  BY <1>7
<1>9. \A k \in 0 .. l, n \in Nodes : g[k][n] = At(k, n)
  OBVIOUS
<1> HIDE DEF g
<1>10. g[0] = z
  <2>1. 0 \in 0 .. l
    BY <1>1
  <2>2. ASSUME NEW n \in Nodes PROVE g[0][n] = z[n]
    <3>1. CASE \E i \in 1 .. L : ms[i] = n
      <4>1. PICK i \in 1 .. L : ms[i] = n
        BY <3>1
      <4>2. g[0][n] = f[0][i]
        BY <1>5, <1>9, <2>1, <4>1
      <4> QED
        BY <1>1, <1>2, <4>1, <4>2
    <3>2. CASE ~ \E i \in 1 .. L : ms[i] = n
      BY <1>6, <1>9, <2>1, <3>2
    <3> QED
      BY <3>1, <3>2
  <2>3. g[0] \in [Nodes -> Nat]
    BY <1>8, <2>1
  <2> QED
    BY <2>2, <2>3
<1>11. ASSUME NEW k \in 1 .. l
       PROVE  q[k].n \in 1 .. g[k - 1][q[k].from] /\ g[k] = After(g[k - 1], q[k])
  <2>1. k \in 0 .. l /\ k - 1 \in 0 .. l
    BY <1>1
  <2> DEFINE h == k - 1
             i == p[k].from
             j == p[k].to
             r == p[k].n
             D == 1 .. L
             t == q[k]
  <2>2. /\ i \in D /\ j \in D /\ i # j
        /\ t.from = ms[i] /\ t.to = ms[j] /\ t.n = r /\ h \in 0 .. l
    BY <1>3, <2>1
  <2>3. r \in 1 .. f[h][i] /\ f[k] = After(f[h], p[k])
    BY <1>2
  <2>4. f[h] \in [D -> Nat] /\ f[k] \in [D -> Nat]
    BY <1>2, <2>1
  <2>5. IsAfter(f[k], f[h], p[k], D)
    <3> HIDE DEF h, D
    <3> QED
      BY <2>2, <2>3, <2>4, AfterIs
  <2>6. /\ f[k][i] = f[h][i] - r /\ f[k][j] = f[h][j] + r
        /\ \A m \in D \ {i, j} : f[k][m] = f[h][m]
    BY <2>5 DEF IsAfter
  <2> HIDE DEF h, i, j, r, t
  <2>7. g[k] \in [Nodes -> Nat] /\ g[h] \in [Nodes -> Nat]
    BY <1>8, <2>1, <2>2
  <2>8. ms[i] \in Nodes /\ ms[j] \in Nodes /\ ms[i] # ms[j]
    BY <1>1, <2>2
  <2>9. \A m \in D : g[k][ms[m]] = f[k][m] /\ g[h][ms[m]] = f[h][m]
    BY <1>1, <1>5, <1>9, <2>1, <2>2
  <2>10. t.n \in 1 .. g[h][t.from]
    BY <2>2, <2>3, <2>9
  <2>11. IsAfter(After(g[h], t), g[h], t, Nodes)
    BY <2>2, <2>7, <2>8, <2>10, AfterIs
  <2> DEFINE e == After(g[h], t)
  <2>12. /\ e \in [Nodes -> Nat] /\ e[ms[i]] = g[h][ms[i]] - r /\ e[ms[j]] = g[h][ms[j]] + r
         /\ \A n \in Nodes \ {ms[i], ms[j]} : e[n] = g[h][n]
    BY <2>2, <2>11 DEF IsAfter
  <2> HIDE DEF e
  <2>13. ASSUME NEW n \in Nodes PROVE g[k][n] = e[n]
    <3>1. CASE n = ms[i] \/ n = ms[j]
      BY <2>2, <2>6, <2>9, <2>12, <3>1
    <3>2. CASE n # ms[i] /\ n # ms[j] /\ \E m \in D : ms[m] = n
      <4>1. PICK m \in D : ms[m] = n
        BY <3>2
      <4>2. m # i /\ m # j
        BY <3>2, <4>1
      <4> QED
        BY <2>6, <2>9, <2>12, <3>2, <4>1, <4>2
    <3>3. CASE n # ms[i] /\ n # ms[j] /\ ~ \E m \in D : ms[m] = n
      <4>1. g[k][n] = z[n] /\ g[h][n] = z[n]
        BY <1>6, <1>9, <2>1, <2>2, <3>3
      <4> QED
        BY <2>12, <3>3, <4>1
    <3> QED
      BY <3>1, <3>2, <3>3
  <2>14. g[k] = e
    BY <2>7, <2>12, <2>13
  <2> QED
    BY <2>10, <2>14 DEF e, h, t
<1>12. Runs(g, z, q, Nodes)
  BY <1>4, <1>8, <1>10, <1>11 DEF Runs
<1> QED
  BY <1>12 DEF q

Sizes == [n \in Nodes |-> Size(n)]

(* The cluster has fewer records than half of Modulus, 2^63 in the code.   *)
Roomy == MaxId + 1 < Modulus \div 2

LEMMA RoomyMeans ==
    ASSUME Roomy
    PROVE  MaxId <= Modulus - 1 /\ MaxId \in Nat /\ Modulus \in Nat
BY ClusterAssumption, ModulusAssumption DEF Roomy

(* There are MaxId identifiers.                                            *)
LEMMA CardBound ==
    ASSUME NEW S, S \subseteq Ids
    PROVE  Cardinality(S) \in 0 .. MaxId
<1>1. IsFiniteSet(Ids) /\ Cardinality(Ids) = MaxId /\ MaxId \in Nat
  <2>1. 1 \in Int /\ MaxId \in Int /\ MaxId >= 1
    BY ClusterAssumption
  <2> QED
    BY <2>1, FS_Interval DEF Ids
<1>2. Cardinality(S) <= Cardinality(Ids) /\ Cardinality(S) \in Nat
  BY <1>1, FS_Subset, CardIds
<1> QED
  BY <1>1, <1>2

LEMMA HeldFinite ==
    ASSUME NEW n
    PROVE  Held(n) \subseteq Ids /\ IsFiniteSet(Held(n)) /\ Size(n) \in 0 .. MaxId
<1>1. Held(n) \subseteq Ids
  BY DEF Held
<1> QED
  BY <1>1, CardIds, CardBound DEF Size

(* A plan that is made from the right counts can be run.                   *)
LEMMA RebalanceRuns ==
    ASSUME Roomy, Single, NEW ms \in Seq(Nodes), Distinct(ms),
           NEW st \in [Nodes -> Nat], \A n \in ToSet(ms) : st[n] = Size(n)
    PROVE  \E f : Runs(f, Sizes, Rebalance(ms, st), Nodes)
<1> DEFINE L == Len(ms)
           c == Counts(ms, st)
           U(k) == {id \in Ids : \E i \in 1 .. k : Has(ms[i], id)}
           sums == [k \in 0 .. L |-> Cardinality(U(k))]
<1>1. /\ L \in Nat /\ DOMAIN ms = 1 .. L
      /\ \A i \in 1 .. L : ms[i] \in Nodes /\ st[ms[i]] = Size(ms[i]) /\ Size(ms[i]) \in Nat
      /\ \A i, j \in 1 .. L : ms[i] = ms[j] => i = j
  BY HeldFinite DEF ToSet, Distinct
<1>2. /\ c \in Seq(Int) /\ Len(c) = L
      /\ \A i \in 1 .. L : c[i] \in Nat /\ c[i] = st[ms[i]]
  BY <1>1, CountsType DEF Counts
<1>3. c \in Seq(Nat)
  <2> HIDE DEF c
  <2> QED
    BY <1>2
<1> HIDE DEF c, L
<1>4. \A k : U(k) \subseteq Ids
  OBVIOUS
<1>5. \A k : IsFiniteSet(U(k)) /\ Cardinality(U(k)) \in Nat
  <2> SUFFICES ASSUME NEW k PROVE IsFiniteSet(U(k)) /\ Cardinality(U(k)) \in Nat
    OBVIOUS
  <2>1. U(k) \subseteq Ids
    BY <1>4
  <2> HIDE DEF U
  <2> QED
    BY <2>1, CardIds
<1>6. ASSUME NEW k \in 0 .. L - 1
      PROVE  Cardinality(U(k + 1)) = Cardinality(U(k)) + c[k + 1]
  <2>1. k \in Nat /\ k + 1 \in 1 .. L /\ \A i \in 1 .. k : i \in 1 .. L /\ i # k + 1
    BY <1>1
  <2> DEFINE H == Held(ms[k + 1])
  <2>2. U(k + 1) = U(k) \cup H
    <3>1. \A i \in 1 .. k + 1 : i \in 1 .. k \/ i = k + 1
      BY <2>1
    <3>2. \A i \in 1 .. k : i \in 1 .. k + 1
      BY <2>1
    <3>3. k + 1 \in 1 .. k + 1
      BY <2>1
    <3> QED
      BY <3>1, <3>2, <3>3 DEF Held
  <2>3. U(k) \cap H = {}
    <3> SUFFICES ASSUME NEW id \in U(k), id \in H PROVE FALSE
      OBVIOUS
    <3>1. PICK i \in 1 .. k : Has(ms[i], id)
      OBVIOUS
    <3>2. Has(ms[k + 1], id) /\ id \in Ids
      BY DEF Held
    <3>3. ms[i] # ms[k + 1] /\ ms[i] \in Nodes /\ ms[k + 1] \in Nodes
      BY <1>1, <2>1, <3>1
    <3> QED
      BY <3>1, <3>2, <3>3 DEF Single
  <2>4. IsFiniteSet(H) /\ Cardinality(H) = c[k + 1] /\ c[k + 1] \in Nat
    BY <1>1, <1>2, <2>1, HeldFinite DEF Size
  <2>5. IsFiniteSet(U(k)) /\ Cardinality(U(k)) \in Nat
    BY <1>5
  <2> DEFINE V == U(k)
  <2> HIDE DEF H, V
  <2>6. Cardinality(V \cup H) = Cardinality(V) + Cardinality(H) - Cardinality(V \cap H)
    BY <2>4, <2>5, FS_Union DEF V
  <2>7. Cardinality({}) = 0
    BY FS_EmptySet
  <2>8. U(k + 1) = V \cup H /\ V \cap H = {} /\ Cardinality(V) \in Nat
    BY <2>2, <2>3, <2>5 DEF V
  <2>9. Cardinality(U(k + 1)) = Cardinality(V) + c[k + 1]
    <3> HIDE DEF U
    <3>1. Cardinality(V \cap H) = 0 /\ Cardinality(U(k + 1)) = Cardinality(V \cup H)
      BY <2>7, <2>8
    <3>2. Cardinality(V) \in Nat /\ Cardinality(H) \in Nat /\ Cardinality(H) = c[k + 1]
      BY <2>4, <2>8
    <3> QED
      BY <2>6, <3>1, <3>2
  <2> QED
    BY <2>9 DEF V
<1>7. PartialSums(sums, c) /\ Records(sums, c) = Cardinality(U(L))
  <2>1. 0 \in 0 .. L /\ L \in 0 .. L /\ \A i \in 0 .. L - 1 : i \in 0 .. L /\ i + 1 \in 0 .. L
    BY <1>1
  <2>2. U(0) = {}
    OBVIOUS
  <2>3. Cardinality(U(0)) = 0
    BY <2>2, FS_EmptySet
  <2> HIDE DEF U
  <2>4. sums \in [0 .. L -> Nat] /\ sums[0] = 0 /\ sums[L] = Cardinality(U(L))
    BY <1>5, <2>1, <2>3
  <2>5. \A i \in 0 .. L - 1 : sums[i + 1] = sums[i] + c[i + 1]
    BY <1>6, <2>1
  <2> HIDE DEF sums
  <2> QED
    BY <1>2, <2>4, <2>5 DEF PartialSums, Records
<1>8. Records(sums, c) + 1 < Modulus \div 2
  <2> DEFINE V == U(L)
  <2>1. V \subseteq Ids
    BY <1>4
  <2> HIDE DEF V
  <2>2. Cardinality(V) \in 0 .. MaxId
    BY <2>1, CardBound
  <2>3. Records(sums, c) = Cardinality(V)
    BY <1>7 DEF V
  <2>4. Modulus \div 2 \in Int /\ MaxId \in Nat
    BY ModulusAssumption, ClusterAssumption
  <2> QED
    BY <2>2, <2>3, <2>4 DEF Roomy
<1> HIDE DEF sums
<1> DEFINE p == BalancePlan(c)
<1>9. PICK f : Runs(f, c, p, 1 .. L)
  BY <1>2, <1>3, <1>7, <1>8, PlanIsAffordable
<1>10. p \in Seq(Moves(L)) /\ \A k \in 1 .. Len(p) : p[k].from # p[k].to
  BY <1>2, PlanIsSound
<1>11. Rebalance(ms, st) = Named(ms, p)
  <2>1. DOMAIN p = 1 .. Len(p)
    BY <1>10
  <2> QED
    BY <2>1 DEF Rebalance, Named, c
<1> HIDE DEF p
<1>12. Sizes \in [Nodes -> Nat] /\ \A i \in 1 .. L : c[i] = Sizes[ms[i]]
  BY <1>1, <1>2, SizeType DEF Sizes
<1>13. \E g : Runs(g, Sizes, Named(ms, p), Nodes)
  BY <1>9, <1>10, <1>12, RunsNamed DEF L
<1> QED
  BY <1>11, <1>13

(* The counts are the sizes of the nodes, and what is left of a balance    *)
(* can be done with them; a node that joins comes with nothing.            *)
Exact ==
    /\ CountsAreExact
    /\ \E f : Runs(f, Sizes, plan, Nodes)
    /\ \A n \in Nodes : joining[n] # None => joining[n].records = 0
    /\ \A t \in Threads : creating[t] # None => creating[t].dropped = FALSE

LEMMA SizesType == Sizes \in [Nodes -> Nat]
BY SizeType DEF Sizes

(* A step that changes no record and no count.                             *)
LEMMA SizesKept ==
    ASSUME \A n \in Nodes, id \in Ids : data'[n][id] # None <=> data[n][id] # None
    PROVE  Sizes' = Sizes /\ \A n \in Nodes : Size(n)' = Size(n)
<1>1. ASSUME NEW n \in Nodes PROVE Size(n)' = Size(n)
  <2>1. {id \in Ids : data'[n][id] # None} = {id \in Ids : data[n][id] # None}
    OBVIOUS
  <2> QED
    BY <2>1 DEF Size, Held, Has
<1> QED
  BY <1>1 DEF Sizes

LEMMA MembersAreNodes ==
    ASSUME IInv
    PROVE  \A n \in Members : n \in Nodes
BY DEF IInv, Types, Members, ToSet

(* A record that is stored in the middle of a balance, on a node whose     *)
(* records are to be moved, does not upset its plan.                       *)
LEMMA CreateRecordExact ==
    ASSUME Calm, Roomy, CalmInv, Exact, NEW t \in Threads, CreateRecord(t)
    PROVE  Exact'
<1> DEFINE c == creating[t]
<1>1. /\ c.to \in Nodes /\ c.val \in Vals /\ nextId \in Ids /\ c.dropped = FALSE
  <2>1. nextId \in Nat /\ nextId <= MaxId /\ c \in Calls /\ nextId # 0 /\ c # None
    BY DEF CalmInv, IInv, Types, CreateRecord, Calls
  <2> QED
    BY <2>1, ClusterAssumption DEF Ids, Calls, Exact
<1>2. /\ members' = members /\ plan' = plan /\ joining' = joining
      /\ creating' = [creating EXCEPT ![t] = None]
  BY DEF CreateRecord, admin
<1>3. \A u \in Threads : creating'[u] # None => creating'[u].dropped = FALSE
  BY <1>2 DEF Exact, CalmInv, IInv, Types
<1>4. CreateRefused(c) \/ CreateDone(c)
  BY NoFault DEF CreateRecord, CreateError
<1> HIDE DEF c
<1>5. CASE CreateRefused(c)
  <2>1. data' = data /\ status' = status
    BY <1>5 DEF CreateRefused
  <2>2. Sizes' = Sizes /\ \A n \in Nodes : Size(n)' = Size(n)
    BY <2>1, SizesKept
  <2> QED
    BY <1>2, <1>3, <2>1, <2>2, MembersAreNodes DEF Exact, CountsAreExact, Members, CalmInv
<1>6. CASE CreateDone(c)
  <2>0. PICK m \in Nodes : m = c.to
    BY <1>1
  <2>1. \A n \in Nodes, j \in Ids :
           data'[n][j] = IF n = m /\ j = nextId THEN c.val ELSE data[n][j]
    BY <1>1, <1>6, <2>0, PutFields DEF CalmInv, IInv, Types, CreateDone
  <2>2. status' = [status EXCEPT ![m] = Unsigned(@ + 1)] /\ ~Has(m, nextId)
    BY <1>1, <1>6, <2>0 DEF CreateDone
  <2>3. \A n \in Nodes : n # m => Size(n)' = Size(n)
    <3> SUFFICES ASSUME NEW n \in Nodes, n # m PROVE Size(n)' = Size(n)
      OBVIOUS
    <3>1. {id \in Ids : data'[n][id] # None} = {id \in Ids : data[n][id] # None}
      BY <2>1
    <3> QED
      BY <3>1 DEF Size, Held, Has
  <2>4. Size(m)' = Size(m) + 1 /\ Size(m)' \in 0 .. MaxId /\ Size(m) \in Nat
    <3> DEFINE H == Held(m)
    <3>1. {id \in Ids : data'[m][id] # None} = H \cup {nextId}
      BY <1>1, <2>1, ClusterAssumption DEF Held, Has
    <3>2. IsFiniteSet(H) /\ nextId \notin H /\ Size(m) \in 0 .. MaxId
      BY <2>2, HeldFinite DEF Held
    <3>3. Size(m)' = Cardinality(H \cup {nextId}) /\ Size(m) = Cardinality(H)
      BY <3>1 DEF Size, Held, Has
    <3>4. (H \cup {nextId}) \subseteq Ids
      BY <1>1, HeldFinite
    <3> HIDE DEF H
    <3>5. Cardinality(H \cup {nextId}) = Cardinality(H) + 1
      BY <3>2, FS_AddElement
    <3> DEFINE G == H \cup {nextId}
    <3>6. G \subseteq Ids
      BY <3>4
    <3> HIDE DEF G
    <3>7. Cardinality(G) \in 0 .. MaxId
      BY <3>6, CardBound
    <3> QED
      BY <3>2, <3>3, <3>5, <3>7 DEF G
  <2>5. Sizes' = [Sizes EXCEPT ![m] = @ + 1]
    <3>1. \A n \in Nodes : Size(n)' = IF n = m THEN Size(n) + 1 ELSE Size(n)
      BY <2>3, <2>4
    <3> QED
      BY <1>1, <3>1 DEF Sizes
  <2>6. \E f : Runs(f, Sizes', plan', Nodes)
    <3>1. PICK f : Runs(f, Sizes, plan, Nodes)
      BY DEF Exact
    <3>2. /\ Len(plan) \in Nat
          /\ \A k \in 1 .. Len(plan) : /\ plan[k].from \in Nodes /\ plan[k].to \in Nodes
                                       /\ plan[k].from # plan[k].to
      <4>1. plan \in Seq(Transfers)
        BY DEF CalmInv, IInv, Types
      <4>2. \A k \in 1 .. Len(plan) : plan[k] \in Transfers
        BY <4>1
      <4> QED
        BY <4>1, <4>2 DEF CalmInv, IInv, Moving, Transfers
    <3> DEFINE z == Sizes
    <3> HIDE DEF z
    <3>3. \E g : Runs(g, [z EXCEPT ![m] = @ + 1], plan, Nodes)
      BY <1>1, <3>1, <3>2, RunsMore DEF z
    <3> QED
      BY <1>2, <2>5, <3>3 DEF z
  <2>7. CountsAreExact'
    <3> SUFFICES ASSUME NEW n \in Members PROVE status'[n] = Size(n)'
      BY <1>2 DEF CountsAreExact, Members
    <3>1. n \in Nodes /\ status[n] = Size(n) /\ status \in [Nodes -> Nat]
      BY MembersAreNodes DEF Exact, CountsAreExact, CalmInv, IInv, Types
    <3>2. CASE n # m
      BY <2>2, <2>3, <3>1, <3>2
    <3>3. CASE n = m
      <4> DEFINE x == Size(m) + 1
      <4>1. x \in 0 .. MaxId /\ status'[n] = Unsigned(x) /\ Size(n)' = x
        BY <1>1, <2>2, <2>4, <3>1, <3>3
      <4>2. MaxId <= Modulus - 1 /\ MaxId \in Nat /\ Modulus \in Nat
        BY RoomyMeans
      <4> HIDE DEF x
      <4>3. x \in 0 .. Modulus - 1
        BY <4>1, <4>2
      <4>4. Unsigned(x) = x
        BY <4>3, UnsignedIs
      <4> QED
        BY <4>1, <4>4
    <3> QED
      BY <3>2, <3>3
  <2> QED
    BY <1>2, <1>3, <2>6, <2>7 DEF Exact
<1> QED
  BY <1>4, <1>5, <1>6

LEMMA PickNodeExact ==
    ASSUME CalmInv, Exact, NEW t \in Threads, NEW v \in Vals, PickNode(t, v)
    PROVE  Exact'
<1>1. data' = data /\ members' = members /\ status' = status /\ plan' = plan /\ joining' = joining
  BY DEF PickNode, admin
<1>2. Sizes' = Sizes /\ \A n \in Nodes : Size(n)' = Size(n)
  BY <1>1, SizesKept
<1>3. \A u \in Threads : creating'[u] # None => creating'[u].dropped = FALSE
  BY DEF PickNode, Exact, CalmInv, IInv, Types
<1> QED
  BY <1>1, <1>2, <1>3, MembersAreNodes DEF Exact, CountsAreExact, Members, CalmInv

LEMMA UpdateRecordExact ==
    ASSUME CalmInv, Exact, NEW id \in Ids, NEW v \in Vals, UpdateRecord(id, v)
    PROVE  Exact'
<1>1. PICK served \in SUBSET Holders(id) :
         data' = [n \in Nodes |-> IF n \in served
                        THEN [data[n] EXCEPT ![id] = v] ELSE data[n]]
  BY DEF UpdateRecord
<1>2. /\ members' = members /\ plan' = plan /\ status' = status /\ joining' = joining
      /\ creating' = creating
  BY DEF UpdateRecord, admin
<1>3. \A n \in served : Has(n, id)
  BY DEF Holders
<1>4. \A n \in Nodes, j \in Ids :
         data'[n][j] = IF n \in served /\ j = id THEN v ELSE data[n][j]
  BY <1>1 DEF CalmInv, IInv, Types
<1>5. \A n \in Nodes, j \in Ids : data'[n][j] # None <=> data[n][j] # None
  BY <1>3, <1>4, ClusterAssumption DEF Has
<1>6. Sizes' = Sizes /\ \A n \in Nodes : Size(n)' = Size(n)
  BY <1>5, SizesKept
<1> QED
  BY <1>2, <1>6, MembersAreNodes DEF Exact, CountsAreExact, Members, CalmInv

(* The only node that has the record is the one that is counted down.      *)
LEMMA DeleteCounts ==
    ASSUME FaultyRPCs \subseteq {"save"}, Roomy, IInv, Single, CountsAreExact, NEW id \in Ids, DeleteRecord(id)
    PROVE  CountsAreExact' /\ \A n \in Nodes : n \notin Members => Size(n)' = Size(n)
<1>0. PICK served \in SUBSET Holders(id) : \E answered \in SUBSET served :
         /\ answered # {}
         /\ data' = [n \in Nodes |-> IF n \in served
                        THEN [data[n] EXCEPT ![id] = None] ELSE data[n]]
         /\ status' = [n \in Nodes |-> IF n \in answered
                          THEN Unsigned(status[n] - 1) ELSE status[n]]
  BY Faultless DEF DeleteRecord
<1>1. PICK answered \in SUBSET served :
         /\ answered # {}
         /\ data' = [n \in Nodes |-> IF n \in served
                        THEN [data[n] EXCEPT ![id] = None] ELSE data[n]]
         /\ status' = [n \in Nodes |-> IF n \in answered
                          THEN Unsigned(status[n] - 1) ELSE status[n]]
  BY <1>0
<1>2. /\ members' = members /\ plan' = plan /\ plan = <<>> /\ joining' = joining
      /\ creating' = creating
  BY DEF DeleteRecord, admin, Unlocked
<1>3. \A n \in served : n \in Nodes /\ Has(n, id)
  BY DEF IInv, Types, Holders, Members, ToSet
<1>4. PICK m \in Nodes : served = {m} /\ answered = {m} /\ Has(m, id) /\ m \in Members
  <2>1. PICK m \in answered : m \in served /\ m \in Nodes /\ Has(m, id) /\ m \in Members
    BY <1>1, <1>3 DEF Holders
  <2>2. \A n \in served : n = m
    BY <1>3, <2>1 DEF Single
  <2> QED
    BY <2>1, <2>2
<1>5. \A n \in Nodes, j \in Ids :
         data'[n][j] = IF n = m /\ j = id THEN None ELSE data[n][j]
  BY <1>1, <1>4 DEF IInv, Types
<1>6. \A n \in Nodes : n # m => Size(n)' = Size(n)
  <2> SUFFICES ASSUME NEW n \in Nodes, n # m PROVE Size(n)' = Size(n)
    OBVIOUS
  <2>1. {j \in Ids : data'[n][j] # None} = {j \in Ids : data[n][j] # None}
    BY <1>5
  <2> QED
    BY <2>1 DEF Size, Held, Has
<1>7. Size(m)' = Size(m) - 1 /\ Size(m) - 1 \in 0 .. MaxId
  <2> DEFINE H == Held(m)
  <2>1. {j \in Ids : data'[m][j] # None} = H \ {id}
    BY <1>5 DEF Held, Has
  <2>2. IsFiniteSet(H) /\ id \in H /\ Size(m) \in 0 .. MaxId /\ H \subseteq Ids
    BY <1>4, HeldFinite DEF Held
  <2>3. Size(m)' = Cardinality(H \ {id}) /\ Size(m) = Cardinality(H)
    BY <2>1 DEF Size, Held, Has
  <2> HIDE DEF H
  <2>4. Cardinality(H \ {id}) = Cardinality(H) - 1
    BY <2>2, FS_RemoveElement
  <2> DEFINE G == H \ {id}
  <2>5. G \subseteq Ids
    BY <2>2
  <2> HIDE DEF G
  <2>6. Cardinality(G) \in 0 .. MaxId
    BY <2>5, CardBound
  <2> QED
    BY <2>2, <2>3, <2>4, <2>6 DEF G
<1>8. CountsAreExact'
  <2> SUFFICES ASSUME NEW n \in Members PROVE status'[n] = Size(n)'
    BY <1>2 DEF CountsAreExact, Members
  <2>1. n \in Nodes /\ status[n] = Size(n)
    BY MembersAreNodes DEF CountsAreExact
  <2>2. CASE n # m
    BY <1>1, <1>4, <1>6, <2>1, <2>2
  <2>3. CASE n = m
    <3> DEFINE x == Size(m) - 1
    <3>1. x \in 0 .. MaxId /\ status'[n] = Unsigned(x) /\ Size(n)' = x
      BY <1>1, <1>4, <1>7, <2>1, <2>3
    <3>2. MaxId <= Modulus - 1 /\ MaxId \in Nat /\ Modulus \in Nat
      BY RoomyMeans
    <3> HIDE DEF x
    <3>3. x \in 0 .. Modulus - 1
      BY <3>1, <3>2
    <3>4. Unsigned(x) = x
      BY <3>3, UnsignedIs
    <3> QED
      BY <3>1, <3>4
  <2> QED
    BY <2>2, <2>3
<1> QED
  BY <1>4, <1>6, <1>8

LEMMA NothingRuns == \E f : Runs(f, Sizes', <<>>, Nodes)
<1> DEFINE z == Sizes'
<1>1. z \in [Nodes -> Nat]
  <2>1. \A n \in Nodes : Size(n)' \in Nat
    <3> TAKE n \in Nodes
    <3> DEFINE S == {id \in Ids : data'[n][id] # None}
    <3>1. S \subseteq Ids
      OBVIOUS
    <3>2. Size(n)' = Cardinality(S)
      BY DEF Size, Held, Has
    <3> HIDE DEF S
    <3> QED
      BY <3>1, <3>2, CardIds
  <2> QED
    BY <2>1 DEF Sizes
<1> HIDE DEF z
<1>2. \E f : Runs(f, z, <<>>, Nodes)
  BY <1>1, RunsEmpty
<1> QED
  BY <1>2 DEF z

LEMMA DeleteRecordExact ==
    ASSUME Calm, Roomy, CalmInv, Exact, NEW id \in Ids, DeleteRecord(id)
    PROVE  Exact'
<1>1. /\ plan' = <<>> /\ joining' = joining /\ creating' = creating
  BY DEF DeleteRecord, admin, Unlocked
<1>2. CountsAreExact'
  BY DeleteCounts DEF Calm, CalmInv, Exact
<1> QED
  BY <1>1, <1>2, NothingRuns DEF Exact

LEMMA UpdateStatusExact ==
    ASSUME CalmInv, Exact, NEW n \in Nodes, UpdateStatus(n)
    PROVE  Exact'
<1>1. /\ data' = data /\ members' = members /\ plan' = plan /\ joining' = joining
      /\ creating' = creating /\ status' = [status EXCEPT ![n] = Size(n)]
  BY DEF UpdateStatus, admin
<1>2. Sizes' = Sizes /\ \A m \in Nodes : Size(m)' = Size(m)
  BY <1>1, SizesKept
<1>3. \A m \in Members : m \in Nodes /\ status'[m] = Size(m)
  BY <1>1, MembersAreNodes DEF Exact, CountsAreExact, CalmInv, IInv, Types
<1> QED
  BY <1>1, <1>2, <1>3 DEF Exact, CountsAreExact, Members

(* A node outside of the cluster has no records.                           *)
LEMMA EmptyOutside ==
    ASSUME CalmInv, NEW n \in Nodes, n \notin Members
    PROVE  Size(n) = 0
<1>1. Held(n) = {}
  BY DEF CalmInv, Placed, Held
<1> QED
  BY <1>1, FS_EmptySet DEF Size

LEMMA CreateNodeExact ==
    ASSUME CalmInv, Exact, NEW n \in Nodes, CreateNode(n)
    PROVE  Exact'
<1>1. /\ data' = data /\ members' = members /\ plan' = plan /\ status' = status
      /\ creating' = creating /\ n \notin Members
      /\ joining' = [joining EXCEPT ![n] = [records |-> Size(n), next |-> nodeNext[n]]]
  BY DEF CreateNode
<1>2. Sizes' = Sizes /\ \A m \in Nodes : Size(m)' = Size(m)
  BY <1>1, SizesKept
<1>3. \A m \in Nodes : joining'[m] # None => joining'[m].records = 0
  BY <1>1, EmptyOutside DEF Exact, CalmInv, IInv, Types
<1> QED
  BY <1>1, <1>2, <1>3, MembersAreNodes DEF Exact, CountsAreExact, Members, CalmInv

(* The new plan is made from the right counts.                             *)
LEMMA AddNodeExact ==
    ASSUME Roomy, CalmInv, Exact, NEW n \in Nodes, AddNode(n)
    PROVE  Exact'
<1>1. /\ members' = Append(members, n) /\ n \notin Members
      /\ joining[n] # None /\ members \in Seq(Nodes) /\ status \in [Nodes -> Nat]
      /\ status' = [status EXCEPT ![n] = joining[n].records]
      /\ data' = data /\ creating' = creating /\ plan' = Rebalance(members', status')
      /\ joining' = [joining EXCEPT ![n] = None]
  BY DEF CalmInv, IInv, Types, Apart, AddNode
<1>2. /\ members' \in Seq(Nodes) /\ Distinct(members')
      /\ Members' = Members \cup {n}
  BY <1>1, AppendDistinct DEF CalmInv, IInv, Apart, Members
<1>3. Sizes' = Sizes /\ \A m \in Nodes : Size(m)' = Size(m)
  BY <1>1, SizesKept
<1>4. joining[n].records = 0 /\ Size(n) = 0
  BY <1>1, EmptyOutside DEF Exact
<1>5. status' \in [Nodes -> Nat] /\ \A m \in Members' : m \in Nodes /\ status'[m] = Size(m)
  BY <1>1, <1>2, <1>4, MembersAreNodes DEF Exact, CountsAreExact, CalmInv
<1>6. \E f : Runs(f, Sizes, Rebalance(members', status'), Nodes)
  <2> DEFINE ms == members'
             st == status'
  <2>1. /\ ms \in Seq(Nodes) /\ Distinct(ms) /\ st \in [Nodes -> Nat]
        /\ \A m \in ToSet(ms) : st[m] = Size(m)
    BY <1>2, <1>5 DEF Members
  <2>2. Single
    BY DEF CalmInv
  <2> HIDE DEF ms, st
  <2>3. \E f : Runs(f, Sizes, Rebalance(ms, st), Nodes)
    BY <2>1, <2>2, RebalanceRuns
  <2> QED
    BY <2>3 DEF ms, st
<1>7. \A m \in Nodes : joining'[m] # None => joining'[m].records = 0
  BY <1>1 DEF Exact, CalmInv, IInv, Types
<1> QED
  BY <1>1, <1>3, <1>5, <1>6, <1>7 DEF Exact, CountsAreExact

(* The sizes after a transfer.                                             *)
LEMMA SizesAfter ==
    ASSUME NEW t, t.from \in Nodes, t.to \in Nodes, t.from # t.to, t.n \in 1 .. Size(t.from),
           \A n \in Nodes : Size(n)' = IF n = t.from THEN Size(n) - t.n
                                    ELSE IF n = t.to THEN Size(n) + t.n ELSE Size(n)
    PROVE  Sizes' = After(Sizes, t)
<1> DEFINE e == After(Sizes, t)
           z == Sizes
<1>1. z \in [Nodes -> Nat] /\ (\A n \in Nodes : z[n] = Size(n)) /\ t.n \in 1 .. z[t.from]
  BY SizesType DEF Sizes
<1>2. IsAfter(After(z, t), z, t, Nodes)
  <2> HIDE DEF z
  <2> QED
    BY <1>1, AfterIs
<1>3. /\ e \in [Nodes -> Nat] /\ e[t.from] = z[t.from] - t.n /\ e[t.to] = z[t.to] + t.n
      /\ \A n \in Nodes \ {t.from, t.to} : e[n] = z[n]
  BY <1>2 DEF IsAfter
<1> HIDE DEF e
<1>4. \A n \in Nodes : Size(n)' = e[n]
  BY <1>1, <1>3
<1>5. Sizes' = [n \in Nodes |-> e[n]]
  BY <1>4 DEF Sizes
<1> QED
  BY <1>3, <1>5 DEF e

(* The page that is listed has the size that is asked for, if the source   *)
(* has as many, and is empty itself if nothing is asked for.               *)
LEMMA TransferSizes ==
    ASSUME FaultyRPCs \subseteq {"save"}, IInv, Single, Transfer, NEW t, t = Head(plan),
           t.n <= Size(t.from), t.n = 0 => Size(t.from) = 0
    PROVE  /\ Size(t.from) - t.n \in 0 .. MaxId /\ Size(t.to) + t.n \in 0 .. MaxId
           /\ \A n \in Nodes : Size(n)' = IF n = t.from THEN Size(n) - t.n
                                       ELSE IF n = t.to THEN Size(n) + t.n ELSE Size(n)
<1>1. PICK ids : ids = FirstPage(t.from, t.n)
  OBVIOUS
<1>2. /\ t.from \in Nodes /\ t.to \in Nodes /\ t.n \in Nat /\ t.from # t.to
      /\ \A id \in ids : id \in Ids /\ data[t.from][id] # None /\ data[t.to][id] = None
      /\ \A n \in Nodes, id \in Ids :
            data'[n][id] = IF id \notin ids THEN data[n][id]
                           ELSE IF n = t.from THEN None
                           ELSE IF n = t.to THEN data[t.from][id] ELSE data[n][id]
  BY <1>1, TransferMoves
<1> DEFINE a == t.from
           b == t.to
           r == t.n
<1>4. r <= Size(a) /\ (r = 0 => Size(a) = 0)
  OBVIOUS
<1>5. /\ a \in Nodes /\ b \in Nodes /\ a # b /\ r \in Nat
      /\ \A id \in ids : id \in Ids /\ data[a][id] # None /\ data[b][id] = None
      /\ \A n \in Nodes, id \in Ids :
            data'[n][id] = IF id \notin ids THEN data[n][id]
                           ELSE IF n = a THEN None
                           ELSE IF n = b THEN data[a][id] ELSE data[n][id]
  BY <1>2
<1>6. ids = FirstPage(a, r)
  BY <1>1
<1> HIDE DEF a, b, r
<1>7. Cardinality(ids) = r /\ IsFiniteSet(ids) /\ ids \subseteq Held(a) /\ ids \cap Held(b) = {}
  <2> DEFINE S == Held(a)
  <2>1. S \subseteq Ids /\ r <= Cardinality(S) /\ IsFiniteSet(S) /\ (r = 0 => Cardinality(S) = 0)
    BY <1>4, <1>5, HeldFinite DEF Size
  <2>2. ids = Lowest(S, r)
    <3>1. CASE r # 0
      BY <1>6, <3>1 DEF FirstPage, Lowest, Rank
    <3>2. CASE r = 0
      <4>1. S = {}
        BY <2>1, <3>2, FS_EmptySet
      <4> QED
        BY <1>6, <4>1 DEF FirstPage, Lowest
    <3> QED
      BY <3>1, <3>2
  <2>3. ids \subseteq S /\ ids \cap Held(b) = {} /\ ids \subseteq Ids
    BY <1>5, <2>1, <2>2 DEF Lowest, Held, Has
  <2> HIDE DEF S
  <2>4. Cardinality(Lowest(S, r)) = r
    BY <1>5, <2>1, PageSize
  <2> QED
    BY <2>2, <2>3, <2>4, CardIds DEF S
<1>8. \A n \in Nodes : n \notin {a, b} => Size(n)' = Size(n)
  <2> SUFFICES ASSUME NEW n \in Nodes, n \notin {a, b} PROVE Size(n)' = Size(n)
    OBVIOUS
  <2>1. {j \in Ids : data'[n][j] # None} = {j \in Ids : data[n][j] # None}
    BY <1>5
  <2> QED
    BY <2>1 DEF Size, Held, Has
<1>9. /\ Cardinality({j \in Ids : data'[a][j] # None}) = Size(a) - r
       /\ Size(a) - r \in 0 .. MaxId
  <2> DEFINE H == Held(a)
  <2>1. {j \in Ids : data'[a][j] # None} = H \ ids
    BY <1>5 DEF Held, Has
  <2>2. IsFiniteSet(H) /\ H \subseteq Ids /\ Size(a) = Cardinality(H) /\ Size(a) \in 0 .. MaxId
    BY HeldFinite DEF Size
  <2>3. ids \subseteq H /\ Cardinality(ids) = r
    BY <1>7
  <2> HIDE DEF H
  <2>4. H \cap ids = ids
    BY <2>3
  <2>5. Cardinality(H \ ids) = Cardinality(H) - Cardinality(H \cap ids)
    BY <2>2, FS_Difference
  <2> DEFINE G == H \ ids
  <2>6. G \subseteq Ids
    BY <2>2
  <2> HIDE DEF G
  <2>7. Cardinality(G) \in 0 .. MaxId
    BY <2>6, CardBound
  <2> QED
    BY <2>1, <2>2, <2>3, <2>4, <2>5, <2>7 DEF G
<1>10. /\ Cardinality({j \in Ids : data'[b][j] # None}) = Size(b) + r
       /\ Size(b) + r \in 0 .. MaxId
  <2> DEFINE H == Held(b)
  <2>1. {j \in Ids : data'[b][j] # None} = H \cup ids
    BY <1>5 DEF Held, Has
  <2>2. IsFiniteSet(H) /\ H \subseteq Ids /\ Size(b) = Cardinality(H) /\ Size(b) \in 0 .. MaxId
    BY HeldFinite DEF Size
  <2>3. ids \cap H = {} /\ Cardinality(ids) = r /\ IsFiniteSet(ids) /\ ids \subseteq Ids
    BY <1>5, <1>7
  <2> HIDE DEF H
  <2>4. Cardinality(H \cup ids) = Cardinality(H) + Cardinality(ids) - Cardinality(H \cap ids)
    BY <2>2, <2>3, FS_Union
  <2>5. H \cap ids = {} /\ Cardinality({}) = 0
    BY <2>3, FS_EmptySet
  <2> DEFINE G == H \cup ids
  <2>6. G \subseteq Ids
    BY <2>2, <2>3
  <2> HIDE DEF G
  <2>7. Cardinality(G) \in 0 .. MaxId
    BY <2>6, CardBound
  <2>8. Cardinality(H \cap ids) = 0
    BY <2>5
  <2>9. Cardinality(H \cup ids) = Cardinality(H) + r
    BY <1>5, <2>2, <2>3, <2>4, <2>8
  <2> QED
    BY <2>1, <2>2, <2>7, <2>9 DEF G
<1>11. PICK m \in Nodes : m = a
  BY <1>5
<1>12. PICK k \in Nodes : k = b
  BY <1>5
<1>13. Size(m)' = Size(m) - r /\ Size(k)' = Size(k) + r
  BY <1>9, <1>10, <1>11, <1>12 DEF Size, Held, Has
<1>14. \A n \in Nodes : Size(n)' = IF n = a THEN Size(n) - r
                                  ELSE IF n = b THEN Size(n) + r ELSE Size(n)
  BY <1>8, <1>11, <1>12, <1>13
<1>15. Size(a) - r \in 0 .. MaxId /\ Size(b) + r \in 0 .. MaxId
  BY <1>9, <1>10
<1> QED
  BY <1>14, <1>15 DEF a, b, r

(* The master counts what is moved.                                        *)
LEMMA TransferCounts ==
    ASSUME FaultyRPCs \subseteq {"save"}, Roomy, IInv, Single, Transfer, CountsAreExact,
           NEW t, t = Head(plan), t.to \in Members,
           t.n <= Size(t.from), t.n = 0 => Size(t.from) = 0
    PROVE  CountsAreExact'
<1> DEFINE a == t.from
           b == t.to
           r == t.n
           x == Size(a) - r
           y == Size(b) + r
<1>1. /\ x \in 0 .. MaxId /\ y \in 0 .. MaxId
      /\ \A n \in Nodes : Size(n)' = IF n = a THEN x ELSE IF n = b THEN y ELSE Size(n)
  BY TransferSizes
<1>2. a \in Nodes /\ b \in Nodes /\ a # b /\ b \in Members
  <2>1. t \in Transfers /\ t.from # t.to
    <3>1. plan \in Seq(Transfers) /\ plan # <<>> /\ t = plan[1] /\ 1 \in 1 .. Len(plan)
      BY DEF IInv, Types, Transfer
    <3> QED
      BY <3>1 DEF IInv, Moving
  <2> QED
    BY <2>1 DEF Transfers
<1>3. /\ members' = members
      /\ status' = [status EXCEPT ![a] = Unsigned(@ - r), ![b] = Unsigned(@ + r)]
  BY Faultless DEF Transfer, TransferDone, TransferAborted, TransferKept, Count, admin
<1>4. \A n \in Members : n \in Nodes /\ status[n] = Size(n)
  BY MembersAreNodes DEF CountsAreExact
<1>5. status \in [Nodes -> Nat]
  BY DEF IInv, Types
<1> HIDE DEF a, b, r
<1>6. /\ status'[a] = Unsigned(status[a] - r) /\ status'[b] = Unsigned(status[b] + r)
      /\ \A n \in Nodes \ {a, b} : status'[n] = status[n]
  BY <1>2, <1>3, <1>5
<1>7. (a \in Members => status'[a] = Unsigned(x)) /\ status'[b] = Unsigned(y)
  BY <1>2, <1>4, <1>6
<1> HIDE DEF x, y
<1>8. Unsigned(x) = x /\ Unsigned(y) = y
  <2>1. MaxId <= Modulus - 1 /\ MaxId \in Nat /\ Modulus \in Nat
    BY RoomyMeans
  <2>2. x \in 0 .. Modulus - 1 /\ y \in 0 .. Modulus - 1
    BY <1>1, <2>1
  <2> QED
    BY <2>2, UnsignedIs
<1>9. ASSUME NEW n \in Members PROVE status'[n] = Size(n)'
  <2>1. n \in Nodes /\ status[n] = Size(n)
    BY <1>4
  <2>2. CASE n \notin {a, b}
    BY <1>1, <1>6, <2>1, <2>2
  <2>3. CASE n = a
    BY <1>1, <1>7, <1>8, <2>1, <2>3
  <2>4. CASE n = b
    BY <1>1, <1>2, <1>7, <1>8, <2>1, <2>4
  <2> QED
    BY <2>2, <2>3, <2>4
<1> QED
  BY <1>3, <1>9 DEF CountsAreExact, Members

LEMMA TransferExact ==
    ASSUME Calm, Roomy, CalmInv, Exact, Transfer
    PROVE  Exact'
<1>1. PICK t : t = Head(plan)
  OBVIOUS
<1>2. FaultyRPCs \subseteq {"save"} /\ IInv /\ Single /\ CountsAreExact
  BY DEF Calm, CalmInv, Exact
<1>3. /\ t.from \in Nodes /\ t.to \in Nodes /\ t.from # t.to /\ t.to \in Members
      /\ plan \in Seq(Transfers) /\ plan # <<>>
  <2>1. plan \in Seq(Transfers) /\ plan # <<>> /\ t = plan[1] /\ 1 \in 1 .. Len(plan)
    BY <1>1 DEF CalmInv, IInv, Types, Transfer
  <2>2. t \in Transfers /\ t.from # t.to /\ t.to \in Members
    BY <1>1, <2>1, HeadWithin DEF CalmInv, IInv, Moving
  <2> QED
    BY <2>1, <2>2 DEF Transfers
<1>4. plan' = Tail(plan) /\ joining' = joining /\ creating' = creating
  BY DEF Transfer, admin
<1>5. t.n \in 1 .. Size(t.from) /\ \E g : Runs(g, After(Sizes, t), Tail(plan), Nodes)
  <2>1. PICK f : Runs(f, Sizes, plan, Nodes)
    BY DEF Exact
  <2> DEFINE z == Sizes
  <2>2. z[t.from] = Size(t.from)
    BY <1>3 DEF Sizes
  <2> HIDE DEF z
  <2>3. t.n \in 1 .. z[t.from] /\ \E g : Runs(g, After(z, t), Tail(plan), Nodes)
    BY <1>1, <1>3, <2>1, RunsTail DEF z
  <2> QED
    BY <2>2, <2>3 DEF z
<1>6. t.n <= Size(t.from) /\ t.n # 0 /\ t.n \in Nat
  BY <1>5, SizeType
<1>7. \A n \in Nodes : Size(n)' = IF n = t.from THEN Size(n) - t.n
                               ELSE IF n = t.to THEN Size(n) + t.n ELSE Size(n)
  BY <1>1, <1>2, <1>6, TransferSizes
<1>8. Sizes' = After(Sizes, t)
  BY <1>3, <1>5, <1>7, SizesAfter
<1>9. CountsAreExact'
  BY <1>1, <1>2, <1>3, <1>6, TransferCounts
<1> QED
  BY <1>4, <1>5, <1>8, <1>9 DEF Exact

LEMMA InitExact ==
    ASSUME Calm, Roomy, Init
    PROVE  Exact
<1>1. CalmInv
  BY CalmInit
<1>2. \A n \in Nodes : Size(n) = 0
  <2> TAKE n \in Nodes
  <2>1. Held(n) = {}
    BY DEF Init, Calm, Held, Has
  <2> QED
    BY <2>1, FS_EmptySet DEF Size
<1>3. /\ members = FirstMembers /\ status = [n \in Nodes |-> Cardinality(FirstIds[n])]
      /\ plan = Rebalance(FirstMembers, status)
      /\ creating = [t \in Threads |-> None] /\ joining = [n \in Nodes |-> None]
  BY DEF Init
<1>4. \A n \in Nodes : status[n] = 0
  BY <1>3, FS_EmptySet DEF Calm
<1>5. \A n \in Members : status[n] = Size(n)
  BY <1>1, <1>2, <1>4, MembersAreNodes DEF CalmInv
<1>6. \E f : Runs(f, Sizes, plan, Nodes)
  BY <1>1, <1>3, <1>5, RebalanceRuns, ClusterAssumption DEF Calm, Members, CalmInv, IInv, Types
<1> QED
  BY <1>3, <1>5, <1>6 DEF Exact, CountsAreExact

LEMMA NextExact ==
    ASSUME Calm, Roomy, CalmInv, Exact, [Next]_vars
    PROVE  Exact'
<1>1. ASSUME NEW t \in Threads, CreateRecord(t) \/ \E v \in Vals : PickNode(t, v)
      PROVE  Exact'
  BY <1>1, CreateRecordExact, PickNodeExact
<1>2. ASSUME NEW id \in Ids, DeleteRecord(id) \/ \E v \in Vals : UpdateRecord(id, v)
      PROVE  Exact'
  BY <1>2, DeleteRecordExact, UpdateRecordExact
<1>3. ASSUME UpdateNodes PROVE Exact'
  BY <1>3, UpdateStatusExact DEF UpdateNodes
<1>4. ASSUME UpdateConfig \/ UNCHANGED vars \/ \E n \in Nodes : NodeRestart(n)
      PROVE  Exact'
  <2>1. /\ members' = members /\ plan' = plan /\ data' = data /\ status' = status
        /\ creating' = creating /\ joining' = joining
    BY <1>4 DEF UpdateConfig, NodeRestart, vars, admin
  <2>2. Sizes' = Sizes /\ \A m \in Nodes : Size(m)' = Size(m)
    BY <2>1, SizesKept
  <2> QED
    BY <2>1, <2>2, MembersAreNodes DEF Exact, CountsAreExact, Members, CalmInv
<1>5. ASSUME NEW n \in Nodes, CreateNode(n) \/ AddNode(n) PROVE Exact'
  BY <1>5, CreateNodeExact, AddNodeExact
<1>6. ASSUME NEW i \in DOMAIN members, DeleteNode(i) PROVE FALSE
  BY <1>6 DEF DeleteNode, Calm, CalmInv, IInv, Types
<1>7. ~MasterRestart
  BY DEF MasterRestart, Calm
<1> QED
  BY <1>1, <1>2, <1>3, <1>4, <1>5, <1>6, <1>7, TransferExact DEF Next

(* The record counts that the master caches (NodeInfo.status.Records), and *)
(* that _findLessLoadedNode, balance and Info work with, are the numbers   *)
(* of records that the nodes have, whatever CreateRecord, DeleteRecord,    *)
(* AddNode and transfer interleave: no counter wraps, and no transfer asks *)
(* for more records than its source has.                                   *)
THEOREM CountsAreRight ==
    ASSUME Calm, Roomy
    PROVE  Spec => []CountsAreExact
<1>1. Init => CalmInv /\ Exact
  BY CalmInit, InitExact
<1>2. CalmInv /\ Exact /\ [Next]_vars => (CalmInv /\ Exact)'
  BY CalmNext, NextExact
<1>3. Exact => CountsAreExact
  BY DEF Exact
<1> QED
  BY <1>1, <1>2, <1>3, PTL DEF Spec

-----------------------------------------------------------------------------
(* Nodes that leave, and a master that restarts: as long as no RPC fails,  *)
(* no records are created meanwhile (CreateRecord may store one on a node  *)
(* that has left, and a restarted master counts from 1), a node that is    *)
(* being emptied does not join again, and the master is restarted only     *)
(* when its configuration is saved.  Each record is on one node at first.  *)
Orderly ==
    /\ FaultyRPCs \subseteq {"save"} /\ Threads = {} /\ Rejoin = FALSE /\ Restarts # "any"
    /\ Distinct(FirstMembers)
    /\ \A m, n \in Nodes : m # n => FirstIds[m] \cap FirstIds[n] = {}

(* What clients know of is on a node of the cluster, or on the one that is *)
(* being emptied.                                                          *)
Reachable(n) == n \in Members \/ (plan # <<>> /\ n = Head(plan).from)
Homed ==
    \A id \in Ids : acked[id] # None =>
        \E n \in Nodes : Reachable(n) /\ data[n][id] = acked[id]

(* What AddNode has read of a node before it took the lock is still true.  *)
Ready ==
    \A n \in Nodes : joining[n] # None =>
        joining[n].records = Size(n) /\ \A k \in 1 .. Len(plan) : plan[k].from # n

(* The transfers of a balance.                                             *)
Balancing ==
    /\ \A k \in 1 .. Len(plan) : plan[k].from \in Members /\ plan[k].to \in Members
    /\ \E f : Runs(f, Sizes, plan, Nodes)

(* left[k] records are to be moved by the transfers from the k-th on; one  *)
(* that asks for no records (and gets one) has none left to move.          *)
Drains(left, p) ==
    /\ left \in [1 .. Len(p) + 1 -> Nat] /\ left[Len(p) + 1] = 0
    /\ \A k \in 1 .. Len(p) : left[k] = left[k + 1] + p[k].n /\ (p[k].n = 0 => left[k] = 0)

(* The transfers of DeleteNode: they empty the node.                       *)
Draining ==
    \E n \in Nodes \ Members :
        /\ \A k \in 1 .. Len(plan) : plan[k].from = n /\ plan[k].to \in Members
        /\ \E left : Drains(left, plan) /\ left[1] = Size(n)

Keeps == Single /\ Homed /\ Ready /\ CountsAreExact /\ (Balancing \/ Draining)

(* Nothing is planned, so nothing is left to do.                           *)
LEMMA BalancingNothing ==
    ASSUME plan' = <<>>
    PROVE  Balancing'
<1>1. \E f : Runs(f, Sizes', plan', Nodes)
  BY NothingRuns
<1>2. Len(plan') = 0
  OBVIOUS
<1> QED
  BY <1>1, <1>2 DEF Balancing

(* Steps that move no records and leave the list of nodes alone.           *)
LEMMA KeepsIfSame ==
    ASSUME IInv, Keeps, members' = members, plan' = plan, data' = data, acked' = acked
    PROVE  /\ Single' /\ Homed' /\ (Balancing \/ Draining)'
           /\ \A n \in Nodes : Size(n)' = Size(n)
<1>1. Sizes' = Sizes /\ \A n \in Nodes : Size(n)' = Size(n)
  BY SizesKept
<1>2. Single' /\ Homed'
  BY DEF Keeps, Single, Homed, Reachable, Has, Members
<1>3. ASSUME Balancing PROVE Balancing'
  BY <1>1, <1>3 DEF Balancing, Members
<1>4. ASSUME Draining PROVE Draining'
  BY <1>1, <1>4 DEF Draining, Members
<1> QED
  BY <1>1, <1>2, <1>3, <1>4 DEF Keeps

LEMMA UpdateRecordKeeps ==
    ASSUME Orderly, IInv, Keeps, NEW id \in Ids, NEW v \in Vals, UpdateRecord(id, v)
    PROVE  Keeps'
<1>1. PICK served \in SUBSET Holders(id) :
         /\ served # {}
         /\ data' = [n \in Nodes |-> IF n \in served
                        THEN [data[n] EXCEPT ![id] = v] ELSE data[n]]
         /\ acked' = IF served = {} THEN acked ELSE [acked EXCEPT ![id] = v]
  BY Faultless DEF UpdateRecord, Orderly
<1>2. /\ members' = members /\ plan' = plan
      /\ joining' = joining /\ status' = status /\ plan = <<>>
  BY DEF UpdateRecord, admin, Unlocked
<1>3. \A n \in served : n \in Nodes /\ n \in Members /\ Has(n, id)
  BY DEF IInv, Types, Holders, Members, ToSet
<1>4. \A n \in Nodes, j \in Ids :
         data'[n][j] = IF n \in served /\ j = id THEN v ELSE data[n][j]
  BY <1>1 DEF IInv, Types
<1>5. \A j \in Ids : acked'[j] = IF j = id THEN v ELSE acked[j]
  BY <1>1 DEF IInv, Types
<1>6. \A n \in Nodes, j \in Ids : data'[n][j] # None <=> data[n][j] # None
  BY <1>3, <1>4, ClusterAssumption DEF Has
<1>7. \A n \in Nodes : Size(n)' = Size(n)
  BY <1>6, SizesKept
<1>8. Single'
  BY <1>6 DEF Keeps, Single, Has
<1>9. Homed'
  <2> SUFFICES ASSUME NEW j \in Ids, acked'[j] # None
               PROVE  \E n \in Nodes : n \in Members /\ data'[n][j] = acked'[j]
    BY <1>2 DEF Homed, Reachable, Members
  <2>1. CASE j = id
    BY <1>1, <1>3, <1>4, <1>5, <2>1
  <2>2. CASE j # id
    <3>1. PICK n \in Nodes : n \in Members /\ data[n][j] = acked[j]
      BY <1>2, <1>5, <2>2 DEF Keeps, Homed, Reachable
    <3> QED
      BY <1>4, <1>5, <2>2, <3>1
  <2> QED
    BY <2>1, <2>2
<1>10. Ready' /\ CountsAreExact'
  BY <1>2, <1>7, MembersAreNodes DEF Keeps, Ready, CountsAreExact, Members
<1> QED
  BY <1>2, <1>8, <1>9, <1>10, BalancingNothing DEF Keeps

LEMMA DeleteRecordKeeps ==
    ASSUME Orderly, Roomy, IInv, Keeps, NEW id \in Ids, DeleteRecord(id)
    PROVE  Keeps'
<1>1. PICK served \in SUBSET Holders(id) :
         /\ served # {}
         /\ data' = [n \in Nodes |-> IF n \in served
                        THEN [data[n] EXCEPT ![id] = None] ELSE data[n]]
         /\ acked' = IF served = {} THEN acked ELSE [acked EXCEPT ![id] = None]
  BY Faultless DEF DeleteRecord, Orderly
<1>2. /\ members' = members /\ plan' = plan
      /\ joining' = joining /\ plan = <<>>
  BY DEF DeleteRecord, admin, Unlocked
<1>3. \A n \in Nodes, j \in Ids :
         data'[n][j] = IF n \in served /\ j = id THEN None ELSE data[n][j]
  BY <1>1 DEF IInv, Types
<1>4. \A j \in Ids : acked'[j] = IF j = id THEN None ELSE acked[j]
  BY <1>1 DEF IInv, Types
<1>5. CountsAreExact' /\ \A n \in Nodes : n \notin Members => Size(n)' = Size(n)
  BY DeleteCounts DEF Orderly, Keeps
<1>6. Single'
  BY <1>3 DEF Keeps, Single, Has
<1>7. Homed'
  <2> SUFFICES ASSUME NEW j \in Ids, acked'[j] # None
               PROVE  \E n \in Nodes : n \in Members /\ data'[n][j] = acked'[j]
    BY <1>2 DEF Homed, Reachable, Members
  <2>1. j # id
    BY <1>4
  <2>2. PICK n \in Nodes : n \in Members /\ data[n][j] = acked[j]
    BY <1>2, <1>4, <2>1 DEF Keeps, Homed, Reachable
  <2> QED
    BY <1>3, <1>4, <2>1, <2>2
<1>8. Ready'
  BY <1>2, <1>5 DEF Keeps, Ready, IInv, Apart
<1> QED
  BY <1>2, <1>5, <1>6, <1>7, <1>8, BalancingNothing DEF Keeps

LEMMA UpdateStatusKeeps ==
    ASSUME IInv, Keeps, NEW n \in Nodes, UpdateStatus(n)
    PROVE  Keeps'
<1>1. /\ data' = data /\ members' = members /\ plan' = plan /\ joining' = joining
      /\ acked' = acked
      /\ status' = [status EXCEPT ![n] = Size(n)]
  BY DEF UpdateStatus, admin
<1>2. /\ Single' /\ Homed' /\ (Balancing \/ Draining)'
      /\ \A m \in Nodes : Size(m)' = Size(m)
  BY <1>1, KeepsIfSame
<1>3. CountsAreExact'
  BY <1>1, <1>2, MembersAreNodes DEF Keeps, CountsAreExact, Members, IInv, Types
<1> QED
  BY <1>1, <1>2, <1>3 DEF Keeps, Ready

(* A node that is not managed, and not being emptied: nobody changes what  *)
(* AddNode has read of it.                                                 *)
LEMMA CreateNodeKeeps ==
    ASSUME Orderly, IInv, Keeps, NEW n \in Nodes, CreateNode(n)
    PROVE  Keeps'
<1>1. /\ data' = data /\ members' = members /\ plan' = plan /\ status' = status
      /\ acked' = acked
      /\ joining' = [joining EXCEPT ![n] = [records |-> Size(n), next |-> nodeNext[n]]]
      /\ \A t \in ToSet(plan) : t.from # n
  BY DEF CreateNode, Orderly
<1>2. /\ Single' /\ Homed' /\ (Balancing \/ Draining)'
      /\ \A m \in Nodes : Size(m)' = Size(m)
  BY <1>1, KeepsIfSame
<1>3. \A k \in 1 .. Len(plan) : plan[k].from # n
  BY <1>1 DEF ToSet, IInv, Types
<1>4. Ready'
  BY <1>1, <1>2, <1>3 DEF Keeps, Ready, IInv, Types
<1>5. CountsAreExact'
  BY <1>1, <1>2, MembersAreNodes DEF Keeps, CountsAreExact, Members
<1> QED
  BY <1>1, <1>2, <1>4, <1>5 DEF Keeps

(* The new plan is made from the right counts.                             *)
LEMMA RebalanceKeeps ==
    ASSUME Roomy, IInv, Single, data' = data, members' \in Seq(Nodes), Distinct(members'),
           status' \in [Nodes -> Nat], CountsAreExact',
           plan' = Rebalance(members', status')
    PROVE  Balancing'
<1> DEFINE ms == members'
           st == status'
<1>1. Sizes' = Sizes /\ \A n \in Nodes : Size(n)' = Size(n)
  BY SizesKept
<1>2. ms \in Seq(Nodes) /\ Distinct(ms) /\ st \in [Nodes -> Nat]
  OBVIOUS
<1>3. \A n \in ToSet(ms) : st[n] = Size(n)
  <2>1. \A n \in ToSet(ms) : n \in Nodes
    BY <1>2 DEF ToSet
  <2>2. \A n \in ToSet(ms) : st[n] = Size(n)'
    BY DEF CountsAreExact, Members
  <2> QED
    BY <1>1, <2>1, <2>2
<1> HIDE DEF ms, st
<1>4. \E f : Runs(f, Sizes, Rebalance(ms, st), Nodes)
  BY <1>2, <1>3, RebalanceRuns
<1>5. \A k \in 1 .. Len(Rebalance(ms, st)) :
         Rebalance(ms, st)[k].from \in ToSet(ms) /\ Rebalance(ms, st)[k].to \in ToSet(ms)
  BY <1>2, RebalanceSound
<1> QED
  BY <1>1, <1>4, <1>5 DEF Balancing, Members, ms, st

LEMMA AddNodeKeeps ==
    ASSUME Roomy, IInv, IInv', Keeps, NEW n \in Nodes, AddNode(n)
    PROVE  Keeps'
<1>1. /\ members' = Append(members, n) /\ n \notin Members
      /\ joining[n] # None /\ members \in Seq(Nodes) /\ status \in [Nodes -> Nat]
      /\ status' = [status EXCEPT ![n] = joining[n].records]
      /\ data' = data /\ plan' = Rebalance(members', status') /\ plan = <<>>
      /\ joining' = [joining EXCEPT ![n] = None]
      /\ acked' = [id \in Ids |-> IF acked[id] = None THEN data[n][id] ELSE acked[id]]
  BY DEF IInv, Types, Apart, AddNode, Unlocked, GoUpdateConfig
<1>2. /\ members' \in Seq(Nodes) /\ Distinct(members')
      /\ Members' = Members \cup {n} /\ status' \in [Nodes -> Nat]
  BY <1>1, AppendDistinct DEF IInv, Apart, Members, Types
<1>3. \A m \in Nodes : Size(m)' = Size(m)
  BY <1>1, SizesKept
<1>4. Single'
  BY <1>1 DEF Keeps, Single, Has
<1>5. CountsAreExact'
  BY <1>1, <1>2, <1>3, MembersAreNodes DEF Keeps, Ready, CountsAreExact
<1>6. Balancing'
  BY <1>1, <1>2, <1>5, RebalanceKeeps DEF Keeps
<1>7. Homed'
  <2> SUFFICES ASSUME NEW id \in Ids, acked'[id] # None
               PROVE  \E m \in Nodes : m \in Members' /\ data[m][id] = acked'[id]
    BY <1>1 DEF Homed, Reachable
  <2>1. CASE acked[id] = None
    BY <1>1, <1>2, <2>1
  <2>2. CASE acked[id] # None
    <3>1. PICK m \in Nodes : m \in Members /\ data[m][id] = acked[id]
      BY <1>1, <2>2 DEF Keeps, Homed, Reachable
    <3> QED
      BY <1>1, <1>2, <2>2, <3>1
  <2> QED
    BY <2>1, <2>2
<1>8. Ready'
  <2> SUFFICES ASSUME NEW m \in Nodes, joining'[m] # None
               PROVE  joining'[m].records = Size(m) /\ \A k \in 1 .. Len(plan') : plan'[k].from # m
    BY <1>3 DEF Ready
  <2>1. m # n /\ joining'[m] = joining[m]
    BY <1>1 DEF IInv, Types
  <2>2. m \notin Members'
    BY <1>2, <2>1 DEF IInv, Apart
  <2> QED
    BY <1>6, <2>1, <2>2 DEF Keeps, Ready, Balancing
<1> QED
  BY <1>1, <1>4, <1>5, <1>6, <1>7, <1>8 DEF Keeps

(* The shares of DeleteNode add up to what the node has.                   *)
LEMMA DrainPlanDrains ==
    ASSUME NEW x \in Nat \ {0}, NEW n \in Nat \ {0}, NEW p, Len(p) = n,
           \A k \in 1 .. n : p[k].n = Share(x, n, k)
    PROVE  \E left : Drains(left, p) /\ left[1] = x
<1> DEFINE q == x \div n
           r == x % n
           left == [k \in 1 .. n + 1 |-> (n - (k - 1)) * q + (IF k <= r THEN r - (k - 1) ELSE 0)]
<1>1. q \in Nat /\ r \in 0 .. n - 1 /\ x = n * q + r
  OBVIOUS
<1>2. \A k \in 1 .. n : p[k].n = q + (IF k <= r THEN 1 ELSE 0)
  BY DEF Share
<1> HIDE DEF q, r
<1>3. ASSUME NEW k \in 1 .. n + 1
      PROVE  left[k] \in Nat
  <2>1. n - (k - 1) \in Nat
    OBVIOUS
  <2>2. (n - (k - 1)) * q \in Nat
    BY <1>1, <2>1
  <2>3. (IF k <= r THEN r - (k - 1) ELSE 0) \in Nat
    BY <1>1
  <2> QED
    BY <2>2, <2>3
<1>4. left[n + 1] = 0
  <2>1. (n - ((n + 1) - 1)) * q = 0
    BY <1>1
  <2> QED
    BY <1>1, <2>1
<1>5. ASSUME NEW k \in 1 .. n
      PROVE  left[k] = left[k + 1] + p[k].n /\ (p[k].n = 0 => left[k] = 0)
  <2> DEFINE a == n - k
  <2>1. a \in Nat /\ n - (k - 1) = a + 1 /\ n - ((k + 1) - 1) = a
    OBVIOUS
  <2>2. (a + 1) * q = a * q + q /\ a * q \in Nat
    BY <1>1, <2>1
  <2>3. left[k] = a * q + q + (IF k <= r THEN r - (k - 1) ELSE 0)
    BY <1>1, <2>1, <2>2
  <2>4. left[k + 1] = a * q + (IF k + 1 <= r THEN r - k ELSE 0)
    BY <1>1, <2>1
  <2>5. q = 0 => a * q = 0
    BY <2>1
  <2> DEFINE b == a * q
             s == p[k].n
  <2>6. /\ b \in Nat /\ (q = 0 => b = 0) /\ q \in Nat /\ r \in Nat /\ k \in Nat
        /\ s = q + (IF k <= r THEN 1 ELSE 0)
        /\ left[k] = b + q + (IF k <= r THEN r - (k - 1) ELSE 0)
        /\ left[k + 1] = b + (IF k + 1 <= r THEN r - k ELSE 0)
    BY <1>1, <1>2, <2>2, <2>3, <2>4, <2>5
  <2> HIDE DEF left, a, b, s
  <2>7. left[k] = left[k + 1] + s /\ (s = 0 => left[k] = 0)
    BY <2>6
  <2> QED
    BY <2>7 DEF s
<1>6. left[1] = x
  <2>1. 1 \in 1 .. n + 1 /\ n - (1 - 1) = n /\ r - (1 - 1) = r /\ n * q \in Nat
    BY <1>1
  <2>2. left[1] = n * q + (IF 1 <= r THEN r ELSE 0)
    BY <2>1
  <2> HIDE DEF left
  <2> QED
    BY <1>1, <2>1, <2>2
<1>7. left \in [1 .. n + 1 -> Nat]
  BY <1>3
<1> HIDE DEF left
<1> QED
  BY <1>4, <1>5, <1>6, <1>7 DEF Drains

(* What the node that leaves has is what is shared out.                    *)
LEMMA DeleteNodeKeeps ==
    ASSUME IInv, Keeps, NEW i \in DOMAIN members, DeleteNode(i)
    PROVE  Keeps'
<1>0. PICK n : n = members[i]
  OBVIOUS
<1> DEFINE rest == WithoutNode(i)
           l == Len(rest)
           x == status[n]
           p == DrainPlan(x, l)
           q == [k \in DOMAIN p |-> [from |-> n, to |-> rest[p[k].to], n |-> p[k].n]]
<1>1. n \in Nodes /\ n \in Members /\ x \in Nat
  BY <1>0 DEF IInv, Types, Members, ToSet
<1>2. /\ rest \in Seq(Nodes) /\ ToSet(rest) = Members \ {n} /\ l \in Nat
  BY <1>0, WithoutNodeIs DEF IInv, Types, Apart
<1>3. /\ members' = rest /\ plan' = q /\ data' = data /\ status' = status
      /\ joining' = joining /\ plan = <<>>
      /\ acked' = IF rest = <<>> THEN [id \in Ids |-> None] ELSE acked
  BY <1>0 DEF DeleteNode, Unlocked, GoUpdateConfig
<1>4. x = Size(n)
  BY <1>1 DEF Keeps, CountsAreExact
<1>5. Members' = Members \ {n}
  BY <1>2, <1>3 DEF Members
<1> HIDE DEF rest, l, x
<1>6. \A m \in Nodes : Size(m)' = Size(m)
  BY <1>3, SizesKept
<1>7. Single' /\ CountsAreExact'
  BY <1>3, <1>5, <1>6, MembersAreNodes DEF Keeps, Single, Has, CountsAreExact
<1>8. CASE l = 0 \/ x = 0
  <2>1. plan' = <<>>
    <3>1. p = <<>>
      BY <1>8 DEF DrainPlan
    <3> QED
      BY <1>3, <3>1
  <2>2. Homed'
    <3> SUFFICES ASSUME NEW id \in Ids, acked'[id] # None
                 PROVE  \E m \in Nodes : m \in Members' /\ data[m][id] = acked'[id]
      BY <1>3 DEF Homed, Reachable
    <3>1. rest # <<>> /\ acked'[id] = acked[id]
      BY <1>3
    <3>2. PICK m \in Nodes : m \in Members /\ data[m][id] = acked[id]
      BY <1>3, <3>1 DEF Keeps, Homed, Reachable
    <3>3. Held(n) = {}
      <4>1. l # 0
        BY <1>2, <3>1 DEF l
      <4>2. Size(n) = 0 /\ IsFiniteSet(Held(n))
        BY <1>4, <1>8, <4>1, HeldFinite
      <4> QED
        BY <4>2, FS_EmptySet DEF Size
    <3>4. m # n
      BY <3>1, <3>2, <3>3 DEF Held, Has
    <3> QED
      BY <1>5, <3>1, <3>2, <3>4
  <2>3. Ready'
    BY <1>3, <1>6, <2>1 DEF Keeps, Ready
  <2> QED
    BY <1>7, <2>1, <2>2, <2>3, BalancingNothing DEF Keeps
<1>9. CASE ~(l = 0 \/ x = 0)
  <2>1. /\ DOMAIN p = 1 .. l
        /\ \A k \in 1 .. l : p[k].to = k /\ p[k].n = Share(x, l, k)
    BY <1>9 DEF DrainPlan
  <2> HIDE DEF p
  <2>2. /\ DOMAIN q = 1 .. l
        /\ \A k \in 1 .. l : q[k].from = n /\ q[k].to = rest[k] /\ q[k].n = Share(x, l, k)
    BY <2>1
  <2>3. q \in Seq(Transfers)
    <3>1. IInv'
      BY DeleteNodeInv
    <3> QED
      BY <1>3, <3>1 DEF IInv, Types
  <2>4. Len(q) = l /\ q # <<>> /\ Head(q).from = n
    <3> HIDE DEF q
    <3>1. Len(q) = l
      BY <1>2, <2>2, <2>3
    <3> QED
      BY <1>2, <1>9, <2>2, <2>3, <3>1
  <2> HIDE DEF q
  <2>5. Draining'
    <3>1. n \in Nodes \ Members'
      BY <1>1, <1>5
    <3>2. \A k \in 1 .. Len(plan') : plan'[k].from = n /\ plan'[k].to \in Members'
      <4>1. \A k \in 1 .. l : rest[k] \in ToSet(rest)
        BY <1>2 DEF ToSet, l
      <4> QED
        BY <1>2, <1>3, <1>5, <2>2, <2>4, <4>1
    <3>3. \E left : Drains(left, q) /\ left[1] = x
      <4>1. x \in Nat \ {0} /\ l \in Nat \ {0}
        BY <1>1, <1>2, <1>9
      <4> QED
        BY <2>2, <2>4, <4>1, DrainPlanDrains
    <3>4. Size(n)' = x
      BY <1>1, <1>4, <1>6
    <3> QED
      BY <1>3, <3>1, <3>2, <3>3, <3>4 DEF Draining
  <2>6. Homed'
    <3> SUFFICES ASSUME NEW id \in Ids, acked'[id] # None
                 PROVE  \E m \in Nodes : (m \in Members' \/ m = n) /\ data[m][id] = acked'[id]
      BY <1>3, <2>4 DEF Homed, Reachable
    <3>1. acked'[id] = acked[id]
      BY <1>3
    <3>2. PICK m \in Nodes : m \in Members /\ data[m][id] = acked[id]
      BY <1>3, <3>1 DEF Keeps, Homed, Reachable
    <3> QED
      BY <1>5, <3>1, <3>2
  <2>7. Ready'
    <3> SUFFICES ASSUME NEW m \in Nodes, joining[m] # None
                 PROVE  joining[m].records = Size(m) /\ \A k \in 1 .. Len(q) : q[k].from # m
      BY <1>3, <1>6 DEF Ready
    <3>1. m # n
      BY <1>1 DEF IInv, Apart
    <3> QED
      BY <2>2, <2>4, <3>1 DEF Keeps, Ready
  <2> QED
    BY <1>7, <2>5, <2>6, <2>7 DEF Keeps
<1> QED
  BY <1>8, <1>9

(* What the next transfer asks for: the source has as many, and none if it *)
(* asks for none.                                                          *)
LEMMA NextTransfer ==
    ASSUME IInv, Keeps, plan # <<>>, NEW t, t = Head(plan)
    PROVE  /\ t \in Transfers /\ t.from # t.to /\ t.to \in Members
           /\ t.n <= Size(t.from) /\ (t.n = 0 => Size(t.from) = 0)
           /\ \A n \in Nodes : joining[n] # None => n # t.from /\ n # t.to
<1>1. plan \in Seq(Transfers) /\ t = plan[1] /\ 1 \in 1 .. Len(plan) /\ Len(plan) \in Nat
  BY DEF IInv, Types
<1>2. t \in Transfers /\ t.from # t.to
  BY <1>1 DEF IInv, Moving
<1>3. t.to \in Members /\ t.n <= Size(t.from) /\ (t.n = 0 => Size(t.from) = 0)
  <2>1. CASE Balancing
    <3>1. PICK f : Runs(f, Sizes, plan, Nodes)
      BY <2>1 DEF Balancing
    <3> DEFINE z == Sizes
    <3>2. z[t.from] = Size(t.from) /\ Size(t.from) \in Nat
      BY <1>2, SizeType DEF Sizes, Transfers
    <3> HIDE DEF z
    <3>3. t.n \in 1 .. z[t.from]
      BY <1>1, <3>1, RunsTail DEF z
    <3> QED
      BY <1>1, <2>1, <3>2, <3>3 DEF Balancing
  <2>2. CASE Draining
    <3>1. PICK n \in Nodes \ Members :
             /\ \A k \in 1 .. Len(plan) : plan[k].from = n /\ plan[k].to \in Members
             /\ \E left : Drains(left, plan) /\ left[1] = Size(n)
      BY <2>2 DEF Draining
    <3>2. PICK left : Drains(left, plan) /\ left[1] = Size(n)
      BY <3>1
    <3>3. left[1] = left[1 + 1] + t.n /\ (t.n = 0 => left[1] = 0) /\ left[1 + 1] \in Nat
      BY <1>1, <3>2 DEF Drains
    <3>4. t.n \in Nat /\ t.from = n /\ t.to \in Members
      BY <1>1, <1>2, <3>1 DEF Transfers
    <3>5. Size(t.from) = left[1]
      BY <3>2, <3>4
    <3>6. t.n <= left[1]
      <4> DEFINE a == left[1]
                 b == left[1 + 1]
                 r == t.n
      <4>1. a = b + r /\ b \in Nat /\ r \in Nat
        BY <3>3, <3>4
      <4> HIDE DEF a, b, r
      <4>2. r <= a
        BY <4>1
      <4> QED
        BY <4>2 DEF a, r
    <3> QED
      BY <3>3, <3>4, <3>5, <3>6
  <2> QED
    BY <2>1, <2>2 DEF Keeps
<1>4. \A n \in Nodes : joining[n] # None => n # t.from /\ n # t.to
  BY <1>1, <1>3 DEF Keeps, Ready, IInv, Apart
<1> QED
  BY <1>2, <1>3, <1>4

(* A transfer of a balance, or of DeleteNode.  After the last one of these *)
(* the node that leaves is empty.                                          *)
LEMMA TransferKeeps ==
    ASSUME Orderly, Roomy, IInv, Keeps, Transfer
    PROVE  Keeps'
<1>1. PICK t : t = Head(plan)
  OBVIOUS
<1>2. FaultyRPCs \subseteq {"save"} /\ Single /\ CountsAreExact /\ plan # <<>>
  BY DEF Orderly, Keeps, Transfer
<1>3. /\ t \in Transfers /\ t.from # t.to /\ t.to \in Members
      /\ t.n <= Size(t.from) /\ (t.n = 0 => Size(t.from) = 0)
      /\ \A n \in Nodes : joining[n] # None => n # t.from /\ n # t.to
  BY <1>1, <1>2, NextTransfer
<1>4. t.from \in Nodes /\ t.to \in Nodes /\ t.n \in Nat
  BY <1>3 DEF Transfers
<1>5. PICK ids : ids = FirstPage(t.from, t.n)
  OBVIOUS
<1>6. /\ \A id \in ids : id \in Ids /\ data[t.from][id] # None /\ data[t.to][id] = None
      /\ \A n \in Nodes, id \in Ids :
            data'[n][id] = IF id \notin ids THEN data[n][id]
                           ELSE IF n = t.from THEN None
                           ELSE IF n = t.to THEN data[t.from][id] ELSE data[n][id]
  BY <1>1, <1>2, <1>5, TransferMoves
<1>7. /\ plan' = Tail(plan) /\ members' = members /\ joining' = joining
      /\ acked' = acked
  BY DEF Transfer, admin
<1>8. /\ Len(plan') = Len(plan) - 1 /\ Len(plan) \in Nat
      /\ \A k \in 1 .. Len(plan) - 1 : plan'[k] = plan[k + 1] /\ k + 1 \in 1 .. Len(plan)
  BY <1>2, <1>7 DEF IInv, Types
<1>9. \A n \in Nodes : Size(n)' = IF n = t.from THEN Size(n) - t.n
                               ELSE IF n = t.to THEN Size(n) + t.n ELSE Size(n)
  BY <1>1, <1>2, <1>3, TransferSizes
<1>10. CountsAreExact'
  BY <1>1, <1>2, <1>3, TransferCounts
<1>11. Single'
  BY <1>2, <1>3, <1>4, <1>6 DEF Single, Has
<1>12. Ready'
  BY <1>3, <1>7, <1>8, <1>9 DEF Keeps, Ready
<1>13. ASSUME Balancing PROVE Balancing' /\ Homed'
  <2>1. PICK f : Runs(f, Sizes, plan, Nodes)
    BY <1>13 DEF Balancing
  <2> DEFINE z == Sizes
  <2>2. z[t.from] = Size(t.from)
    BY <1>4 DEF Sizes
  <2> HIDE DEF z
  <2>3. t.n \in 1 .. z[t.from] /\ \E g : Runs(g, After(z, t), Tail(plan), Nodes)
    BY <1>1, <1>2, <2>1, RunsTail DEF z, IInv, Types
  <2>4. Sizes' = After(z, t)
    BY <1>3, <1>4, <1>9, <2>2, <2>3, SizesAfter DEF z
  <2>5. Balancing'
    BY <1>7, <1>8, <1>13, <2>3, <2>4 DEF Balancing, Members
  <2>6. Homed'
    <3> SUFFICES ASSUME NEW id \in Ids, acked[id] # None
                 PROVE  \E n \in Nodes : n \in Members /\ data'[n][id] = acked[id]
      BY <1>7 DEF Homed, Reachable, Members
    <3>1. PICK n \in Nodes : Reachable(n) /\ data[n][id] = acked[id]
      BY DEF Keeps, Homed
    <3>2. n \in Members
      <4>1. t.from \in Members
        <5>1. plan \in Seq(Transfers) /\ t = plan[1] /\ 1 \in 1 .. Len(plan)
          BY <1>1, <1>2 DEF IInv, Types
        <5> QED
          BY <1>13, <5>1 DEF Balancing
      <4> QED
        BY <1>1, <3>1, <4>1 DEF Reachable
    <3>3. CASE id \in ids /\ n = t.from
      BY <1>3, <1>4, <1>6, <3>1, <3>3
    <3>4. CASE ~(id \in ids /\ n = t.from)
      BY <1>6, <3>1, <3>2, <3>4
    <3> QED
      BY <3>3, <3>4
  <2> QED
    BY <2>5, <2>6
<1>14. ASSUME Draining PROVE Draining' /\ Homed'
  <2>1. PICK n \in Nodes \ Members :
           /\ \A k \in 1 .. Len(plan) : plan[k].from = n /\ plan[k].to \in Members
           /\ \E left : Drains(left, plan) /\ left[1] = Size(n)
    BY <1>14 DEF Draining
  <2>2. PICK left : Drains(left, plan) /\ left[1] = Size(n)
    BY <2>1
  <2>3. t.from = n /\ t = plan[1] /\ 1 \in 1 .. Len(plan)
    <3>1. plan \in Seq(Transfers) /\ t = plan[1] /\ 1 \in 1 .. Len(plan)
      BY <1>1, <1>2 DEF IInv, Types
    <3> QED
      BY <2>1, <3>1
  <2> DEFINE l == Len(plan)
             rest == [k \in 1 .. l |-> left[k + 1]]
  <2>4. /\ left \in [1 .. l + 1 -> Nat] /\ left[l + 1] = 0 /\ l \in Nat /\ l - 1 + 1 = l
        /\ \A k \in 1 .. l : left[k] = left[k + 1] + plan[k].n /\ (plan[k].n = 0 => left[k] = 0)
    BY <1>8, <2>2 DEF Drains
  <2>5. rest \in [1 .. l -> Nat] /\ rest[l] = 0 /\ rest[1] = left[1 + 1]
    <3>1. \A k \in 1 .. l : k + 1 \in 1 .. l + 1
      BY <2>4
    <3>2. l \in 1 .. l
      BY <2>3, <2>4
    <3> QED
      BY <2>3, <2>4, <3>1, <3>2
  <2>6. ASSUME NEW k \in 1 .. l - 1
        PROVE  rest[k] = rest[k + 1] + plan'[k].n /\ (plan'[k].n = 0 => rest[k] = 0)
    <3>1. k \in 1 .. l /\ k + 1 \in 1 .. l
      BY <2>4
    <3>2. rest[k] = left[k + 1] /\ rest[k + 1] = left[k + 1 + 1]
      BY <3>1
    <3>3. plan'[k] = plan[k + 1]
      BY <1>8
    <3>4. left[k + 1] = left[k + 1 + 1] + plan[k + 1].n /\ (plan[k + 1].n = 0 => left[k + 1] = 0)
      BY <2>4, <3>1
    <3> QED
      BY <3>2, <3>3, <3>4
  <2> HIDE DEF rest
  <2>7. Drains(rest, plan')
    BY <1>8, <2>4, <2>5, <2>6 DEF Drains
  <2>8. Size(n)' = rest[1]
    <3> DEFINE a == left[1]
               b == left[1 + 1]
               r == t.n
    <3>1. a = b + r /\ b \in Nat /\ r \in Nat
      <4>1. 1 + 1 \in 1 .. l + 1
        BY <2>3, <2>4
      <4> QED
        BY <1>4, <2>3, <2>4, <4>1
    <3>2. Size(n)' = a - r /\ rest[1] = b
      BY <1>9, <2>2, <2>3, <2>5
    <3> HIDE DEF a, b, r
    <3> QED
      BY <3>1, <3>2
  <2>9. Draining'
    <3>1. \A k \in 1 .. Len(plan') : plan'[k].from = n /\ plan'[k].to \in Members
      BY <1>8, <2>1
    <3> QED
      BY <1>7, <2>1, <2>7, <2>8, <3>1 DEF Draining, Members
  <2>10. Homed'
    <3> SUFFICES ASSUME NEW id \in Ids, acked[id] # None
                 PROVE  \E m \in Nodes : /\ m \in Members \/ (plan' # <<>> /\ m = Head(plan').from)
                                         /\ data'[m][id] = acked[id]
      BY <1>7 DEF Homed, Reachable, Members
    <3>1. PICK m \in Nodes : Reachable(m) /\ data[m][id] = acked[id]
      BY DEF Keeps, Homed
    <3>2. m \in Members \/ m = n
      BY <1>1, <2>3, <3>1 DEF Reachable
    <3>3. CASE id \in ids /\ m = t.from
      BY <1>3, <1>4, <1>6, <3>1, <3>3
    <3>4. CASE ~(id \in ids /\ m = t.from) /\ m \in Members
      BY <1>6, <3>1, <3>4
    <3>5. CASE ~(id \in ids /\ m = t.from) /\ m = n
      <4>1. data'[n][id] = acked[id]
        BY <1>6, <3>1, <3>5
      <4>2. Len(plan') # 0
        <5> SUFFICES ASSUME Len(plan') = 0 PROVE FALSE
          OBVIOUS
        <5>1. l = 1 /\ rest[1] = 0
          BY <1>8, <2>4, <2>5
        <5> DEFINE H == {j \in Ids : data'[n][j] # None}
        <5>2. Size(n)' = Cardinality(H)
          BY DEF Size, Held, Has
        <5>3. id \in H /\ H \subseteq Ids
          BY <4>1
        <5> HIDE DEF H
        <5>4. IsFiniteSet(H) /\ Cardinality(H) = 0
          BY <2>8, <5>1, <5>2, <5>3, CardIds
        <5> QED
          BY <5>3, <5>4, FS_EmptySet
      <4>3. plan' # <<>> /\ Head(plan').from = n
        <5>1. plan' \in Seq(Transfers)
          BY <1>2, <1>7 DEF IInv, Types
        <5>2. plan' # <<>> /\ Head(plan') = plan'[1] /\ 1 \in 1 .. Len(plan) - 1
          BY <1>8, <4>2, <5>1
        <5> QED
          BY <1>8, <2>1, <5>2
      <4> QED
        BY <3>5, <4>1, <4>3
    <3> QED
      BY <3>2, <3>3, <3>4, <3>5
  <2> QED
    BY <2>9, <2>10
<1> QED
  BY <1>7, <1>10, <1>11, <1>12, <1>13, <1>14 DEF Keeps

(* The configuration that the new master reads is the list of nodes of the *)
(* old one.                                                                *)
LEMMA MasterRestartKeeps ==
    ASSUME Orderly, Roomy, IInv, IInv', Keeps, MasterRestart
    PROVE  Keeps'
<1>1. plan = <<>> /\ config = members
  BY DEF MasterRestart, Orderly, Unlocked
<1>2. data' = data
  BY <1>1 DEF MasterRestart, Unfinished, Orderly
<1>3. /\ members' = config /\ acked' = acked
      /\ status' = [n \in Nodes |->
           IF n \in ToSet(config) THEN Cardinality({id \in Ids : data'[n][id] # None})
           ELSE status[n]]
      /\ plan' = Rebalance(config, status') /\ joining' = [n \in Nodes |-> None]
  BY DEF MasterRestart
<1>4. config = members
  BY <1>1
<1>5. Single'
  BY <1>2 DEF Keeps, Single, Has
<1>6. CountsAreExact'
  <2> SUFFICES ASSUME NEW n \in ToSet(config) PROVE status'[n] = Size(n)'
    BY <1>3 DEF CountsAreExact, Members
  <2>1. n \in Nodes
    BY <1>4, MembersAreNodes DEF Members
  <2>2. Size(n)' = Cardinality({id \in Ids : data'[n][id] # None})
    BY DEF Size, Held, Has
  <2> QED
    BY <1>3, <2>1, <2>2
<1>7. Balancing'
  <2>1. members' \in Seq(Nodes) /\ Distinct(members') /\ status' \in [Nodes -> Nat]
    BY DEF IInv, Types, Apart
  <2> QED
    BY <1>2, <1>3, <1>6, <2>1, RebalanceKeeps DEF Keeps
<1>8. Homed'
  <2> SUFFICES ASSUME NEW id \in Ids, acked[id] # None
               PROVE  \E n \in Nodes : n \in Members /\ data[n][id] = acked[id]
    BY <1>2, <1>3, <1>4 DEF Homed, Reachable, Members
  <2> QED
    BY <1>1 DEF Keeps, Homed, Reachable
<1>9. Ready'
  BY <1>3 DEF Ready
<1> QED
  BY <1>5, <1>6, <1>7, <1>8, <1>9 DEF Keeps

LEMMA InitKeeps ==
    ASSUME Orderly, Roomy, Init
    PROVE  Keeps
<1>1. IInv
  BY InitInv DEF Orderly
<1>2. PICK v \in Vals :
         /\ data = [n \in Nodes |-> [id \in Ids |-> IF id \in FirstIds[n] THEN v ELSE None]]
         /\ acked = [id \in Ids |-> IF \E n \in ToSet(FirstMembers) : id \in FirstIds[n]
                                    THEN v ELSE None]
  BY DEF Init
<1>3. /\ members = FirstMembers
      /\ status = [n \in Nodes |-> Cardinality(FirstIds[n])]
      /\ plan = Rebalance(FirstMembers, status) /\ joining = [n \in Nodes |-> None]
  BY DEF Init
<1>4. \A n \in Nodes, id \in Ids : data[n][id] = IF id \in FirstIds[n] THEN v ELSE None
  BY <1>2
<1>5. Single
  BY <1>4 DEF Single, Has, Orderly
<1>6. \A n \in Nodes : status[n] = Size(n)
  <2> SUFFICES ASSUME NEW n \in Nodes PROVE Held(n) = FirstIds[n]
    BY <1>3 DEF Size
  <2>1. FirstIds[n] \subseteq Ids
    BY ClusterAssumption DEF Ids
  <2> QED
    BY <1>4, <2>1, ClusterAssumption DEF Held, Has
<1>7. CountsAreExact
  BY <1>1, <1>6, MembersAreNodes DEF CountsAreExact
<1>8. Balancing
  <2>1. /\ FirstMembers \in Seq(Nodes) /\ Distinct(FirstMembers) /\ status \in [Nodes -> Nat]
        /\ \A n \in ToSet(FirstMembers) : status[n] = Size(n)
    BY <1>1, <1>3, <1>7, ClusterAssumption DEF Orderly, IInv, Types, CountsAreExact, Members
  <2>2. \E f : Runs(f, Sizes, plan, Nodes)
    BY <1>3, <1>5, <2>1, RebalanceRuns
  <2> QED
    BY <1>3, <2>1, <2>2, RebalanceSound DEF Balancing, Members
<1>9. Homed
  <2> SUFFICES ASSUME NEW id \in Ids, acked[id] # None
               PROVE  \E n \in Nodes : n \in Members /\ data[n][id] = acked[id]
    BY DEF Homed, Reachable
  <2>1. PICK n \in ToSet(FirstMembers) : id \in FirstIds[n]
    BY <1>2
  <2>2. n \in Nodes /\ n \in Members
    BY <1>1, <1>3, <2>1, MembersAreNodes DEF Members
  <2> QED
    BY <1>2, <1>4, <2>1, <2>2
<1>10. Ready
  BY <1>3 DEF Ready
<1> QED
  BY <1>5, <1>7, <1>8, <1>9, <1>10 DEF Keeps

LEMMA NextKeeps ==
    ASSUME Orderly, Roomy, IInv, Keeps, [Next]_vars
    PROVE  Keeps'
<1>1. IInv'
  BY NextInv
<1>2. ASSUME NEW id \in Ids, DeleteRecord(id) \/ \E v \in Vals : UpdateRecord(id, v)
      PROVE  Keeps'
  BY <1>2, DeleteRecordKeeps, UpdateRecordKeeps
<1>3. ASSUME UpdateNodes PROVE Keeps'
  BY <1>3, UpdateStatusKeeps DEF UpdateNodes
<1>4. ASSUME NEW n \in Nodes, CreateNode(n) \/ AddNode(n) PROVE Keeps'
  BY <1>1, <1>4, CreateNodeKeeps, AddNodeKeeps
<1>5. ASSUME UpdateConfig \/ UNCHANGED vars \/ \E n \in Nodes : NodeRestart(n)
      PROVE  Keeps'
  <2>1. /\ members' = members /\ plan' = plan /\ data' = data /\ acked' = acked
        /\ status' = status /\ joining' = joining
    BY <1>5 DEF UpdateConfig, NodeRestart, vars, admin
  <2>2. /\ Single' /\ Homed' /\ (Balancing \/ Draining)'
        /\ \A n \in Nodes : Size(n)' = Size(n)
    BY <2>1, KeepsIfSame
  <2> QED
    BY <2>1, <2>2, MembersAreNodes DEF Keeps, Ready, CountsAreExact, Members
<1>6. ASSUME NEW i \in DOMAIN members, DeleteNode(i) PROVE Keeps'
  BY <1>6, DeleteNodeKeeps
<1> QED
  BY <1>1, <1>2, <1>3, <1>4, <1>5, <1>6, TransferKeeps, MasterRestartKeeps DEF Next, Orderly

(* service_test.go, TestDeleteNode, for every cluster: nodes leave and     *)
(* join in any order (DeleteNode, AddNode, balance), records are updated   *)
(* and deleted, and the master is restarted (NewServiceFromConfig).  Every *)
(* record stays on exactly one node, the counts stay right, and when the   *)
(* transfers of DeleteNode are done all that clients know of is on the     *)
(* nodes that stay.                                                        *)
THEOREM LeavingLosesNone ==
    ASSUME Orderly, Roomy
    PROVE  Spec => []RecordsKept
<1>1. Init => IInv /\ Keeps
  BY InitInv, InitKeeps DEF Orderly
<1>2. IInv /\ Keeps /\ [Next]_vars => (IInv /\ Keeps)'
  BY NextInv, NextKeeps
<1>3. IInv /\ Keeps => RecordsKept
  <2> SUFFICES ASSUME IInv, Keeps PROVE NoDuplicates /\ NoRecordLost
    BY DEF RecordsKept, Keeps
  <2>1. NoRecordLost
    BY DEF NoRecordLost, Unlocked, Keeps, Homed, Reachable
  <2>2. NoDuplicates
    BY SingleMeans DEF Keeps
  <2> QED
    BY <2>1, <2>2
<1> QED
  BY <1>1, <1>2, <1>3, PTL DEF Spec

=============================================================================
