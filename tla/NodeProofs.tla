----------------------------- MODULE NodeProofs -----------------------------
(***************************************************************************)
(* The parts of a node: an Index, its two users, storage.Records and its   *)
(* meta index, and the oracle handlers and their cache, and the VMs that   *)
(* oracles run on, for every number of goroutines, records, tags, oracles, *)
(* VMs and faults.  In the code each user has an Index of its own: Spec,   *)
(* RSpec, OSpec and PoolSpec are separate specifications, and no theorem   *)
(* uses two of them.                                                       *)
(*                                                                         *)
(* Index, for every bound on identifiers, faults and batch sizes and every *)
(* set of messages.  The invariants are proved together: Durable needs     *)
(* FilesHoldTheirId in the step of Load, where a file could otherwise be   *)
(* filed under somebody else's identifier.                                 *)
(*                                                                         *)
(* Records: FindBy misses no record, and finds an untouched one once.      *)
(* FindByIsComplete holds by what the pending calls still add, and is      *)
(* nearly inductive; UntouchedFoundOnce counts, and needs to know that two *)
(* calls never add the same untouched record, nor a call one that is not   *)
(* stored or already in the bucket.                                        *)
(*                                                                         *)
(* Oracles: the cache follows the index.  CacheFollowsStore speaks of      *)
(* oracles nobody works on; the invariant has to say what the handlers     *)
(* that have changed the index, but not yet the cache, are going to write. *)
(*                                                                         *)
(* Pool: no two calls share a VM, and none is lost.                        *)
(***************************************************************************)
EXTENDS Records, OracleService, ExecPool, FiniteSetTheorems, TLAPS

(***************************************************************************)
(* Index.                                                                  *)
(***************************************************************************)

IInv == TypeOK /\ FilesHoldTheirId /\ Durable /\ NextIdIsFresh

-----------------------------------------------------------------------------
(* Encoded is a file that holds its identifier and its body.               *)
LEMMA EncodedFile ==
    ASSUME NEW id \in Ids, NEW body \in Bodies
    PROVE  /\ Encoded(id, body) \in Files
           /\ Encoded(id, body).id = id
           /\ Encoded(id, body).body = body
           /\ Encoded(id, body) \notin {NoFile, Corrupt}
<1>1. Encoded(id, body) \in Files
  BY DEF Encoded, Files
<1>2. Encoded(id, body).id = id /\ Encoded(id, body).body = body
  BY DEF Encoded
<1> QED
  BY <1>1, <1>2, OutsideAssumption

(* The fields of a file are an identifier and a body.                      *)
LEMMA FileFields ==
    ASSUME NEW f \in Files
    PROVE  f.id \in Ids /\ f.body \in Bodies
BY DEF Files

(* Copy, the RecordDriver's merge, gives a message.                        *)
LEMMA CopyType ==
    ASSUME NEW dst \in Bodies, NEW src \in Bodies
    PROVE  Copy(dst, src) \in Bodies
BY DEF Copy, Bodies

LEMMA ZeroType == Zero \in Bodies /\ 0 \in Ids
BY MetasAssumption, MaxIdAssumption DEF Zero, Bodies, Ids

(* What a cut WriteFile leaves decodes to its own identifier or to zero.   *)
LEMMA PrefixFile ==
    ASSUME NEW id \in Ids, NEW body \in Bodies, NEW f \in Prefixes(id, body)
    PROVE  /\ f \in Files \cup {NoFile, Corrupt}
           /\ f \notin {NoFile, Corrupt} => f.id = id \/ f = Encoded(0, Zero)
<1>1. CASE f \in {Corrupt, Encoded(0, Zero), Encoded(id, Zero)}
  BY <1>1, ZeroType, EncodedFile
<1>2. CASE \E m \in SUBSET body.meta : f = Encoded(id, [body EXCEPT !.meta = m])
  <2>1. PICK m \in SUBSET body.meta : f = Encoded(id, [body EXCEPT !.meta = m])
    BY <1>2
  <2>2. body.meta \in Metas
    BY DEF Bodies
  <2>3. m \in Metas
    BY <2>1, <2>2, MetasAssumption
  <2>4. [body EXCEPT !.meta = m] \in Bodies
    BY <2>3 DEF Bodies
  <2> QED
    BY <2>1, <2>4, EncodedFile
<1> QED
  BY <1>1, <1>2 DEF Prefixes

LEMMA IdsFacts ==
    /\ Ids \subseteq Nat
    /\ \A n \in 1 .. MaxId + 1 : n <= MaxId => n \in Ids /\ n + 1 \in 1 .. MaxId + 1
BY MaxIdAssumption DEF Ids

-----------------------------------------------------------------------------
(* The four parts of the invariant hold of the empty folder.               *)
LEMMA InitInv == Init => IInv
<1> SUFFICES ASSUME Init PROVE IInv
  OBVIOUS
<1>1. TypeOK
  BY MaxIdAssumption, BoundAssumption DEF Init, TypeOK
<1>2. FilesHoldTheirId
  BY DEF Init, FilesHoldTheirId
<1>3. Durable
  BY DEF Init, Durable, DurableAt
<1>4. NextIdIsFresh
  BY DEF Init, NextIdIsFresh, Stored
<1> QED
  BY <1>1, <1>2, <1>3, <1>4 DEF IInv

(* A method that refuses changes nothing but its result.                   *)
LEMMA RefuseInv ==
    ASSUME IInv, NEW e \in {"ErrInvalidID", "ErrRecordNotFound"}, Refuse(e)
    PROVE  IInv'
BY DEF IInv, Refuse, Returns, TypeOK, FilesHoldTheirId, Durable, DurableAt,
       NextIdIsFresh, Stored

(* A flush that succeeds keeps file, memory and promise in step.           *)
LEMMA CommitInv ==
    ASSUME IInv, NEW id \in Ids, NEW body \in Bodies, Commit(id, body)
    PROVE  /\ FilesHoldTheirId'
           /\ Durable'
           /\ index' \in [Ids -> Bodies \cup {NoRecord}]
           /\ disk' \in [Ids -> Files \cup {NoFile, Corrupt}]
           /\ acked' \in [Ids -> Bodies \cup {NoRecord, Unknown}]
<1> USE EncodedFile, OutsideAssumption
<1>1. FilesHoldTheirId'
  BY DEF IInv, TypeOK, Commit, FilesHoldTheirId
<1>2. Durable'
  BY DEF IInv, TypeOK, Commit, Durable, DurableAt
<1>3. /\ index' \in [Ids -> Bodies \cup {NoRecord}]
      /\ disk' \in [Ids -> Files \cup {NoFile, Corrupt}]
      /\ acked' \in [Ids -> Bodies \cup {NoRecord, Unknown}]
  BY DEF IInv, TypeOK, Commit
<1> QED
  BY <1>1, <1>2, <1>3

LEMMA FaultType ==
    ASSUME TypeOK, Fault
    PROVE  faults' \in 0 .. MaxFaults
BY BoundAssumption DEF TypeOK, Fault

(* A flush that fails hits the file and the promise of one identifier.     *)
LEMMA FlushErrorInv ==
    ASSUME IInv, NEW id \in Ids, NEW body \in Bodies, FlushError(id, body),
           \/ index' = index
           \/ index' = [index EXCEPT ![id] = body]
    PROVE  /\ FilesHoldTheirId'
           /\ Durable'
           /\ TypeOK'
<1>1. PICK f \in FailedWrite(id, body) :
          /\ disk' = [disk EXCEPT ![id] = f]
          /\ acked' = [acked EXCEPT ![id] =
                IF f = disk[id] /\ index' = index THEN @ ELSE Unknown]
  BY DEF FlushError
<1>2. /\ f \in Files \cup {NoFile, Corrupt}
      /\ f \notin {NoFile, Corrupt} => f.id = id \/ f = Encoded(0, Zero)
  BY PrefixFile DEF FailedWrite, IInv, TypeOK, FilesHoldTheirId
<1>3. /\ disk' \in [Ids -> Files \cup {NoFile, Corrupt}]
      /\ acked' \in [Ids -> Bodies \cup {NoRecord, Unknown}]
  BY <1>1, <1>2 DEF IInv, TypeOK
<1>4. FilesHoldTheirId'
  BY <1>1, <1>2 DEF IInv, TypeOK, FilesHoldTheirId
<1>5. up' = up
  BY DEF FlushError
<1>6. ASSUME NEW i \in Ids \ {0}
      PROVE  DurableAt(i)'
  <2>1. DurableAt(i)
    BY <1>6 DEF IInv, Durable
  <2>2. CASE i = id
    BY <2>1, <2>2, <1>1, <1>5 DEF DurableAt, IInv, TypeOK
  <2>3. CASE i # id
    BY <2>1, <2>3, <1>1, <1>5 DEF DurableAt, IInv, TypeOK
  <2> QED
    BY <2>2, <2>3
<1>7. index' \in [Ids -> Bodies \cup {NoRecord}]
  BY DEF IInv, TypeOK
<1>8. /\ faults' \in 0 .. MaxFaults
      /\ err' = "flush" /\ nextID' = nextID /\ foreign' = foreign
  BY FaultType DEF IInv, FlushError, Returns
<1>9. TypeOK'
  BY <1>3, <1>5, <1>7, <1>8 DEF IInv, TypeOK
<1> QED
  BY <1>4, <1>6, <1>9 DEF Durable

-----------------------------------------------------------------------------
(* One lemma per method.                                                   *)
LEMMA CreateInv ==
    ASSUME IInv, NEW body \in Bodies, Create(body)
    PROVE  IInv'
<1>1. nextID \in Ids /\ nextID + 1 \in 1 .. MaxId + 1
  BY IdsFacts DEF IInv, TypeOK, Create
<1>2. CASE Refuse("ErrInvalidID")
  BY <1>2, RefuseInv
<1>3. CASE CreateStored(body)
  <2>1. Commit(nextID, body)
    BY <1>3 DEF CreateStored
  <2>2. FilesHoldTheirId' /\ Durable' /\ TypeOK'
    BY <2>1, <1>1, <1>3, CommitInv DEF CreateStored, Commit, Returns, IInv, TypeOK
  <2>3. NextIdIsFresh'
    BY <2>1, <1>1, <1>3, IdsFacts DEF CreateStored, Commit, IInv, TypeOK,
       NextIdIsFresh, Stored
  <2> QED
    BY <2>2, <2>3 DEF IInv
<1>4. CASE UNCHANGED index /\ FlushError(nextID, body)
  <2>1. index' = index
    BY <1>4
  <2>2. FilesHoldTheirId' /\ Durable' /\ TypeOK'
    BY <2>1, <1>1, <1>4, FlushErrorInv
  <2>3. NextIdIsFresh'
    BY <2>1, <1>4 DEF FlushError, IInv, NextIdIsFresh, Stored
  <2> QED
    BY <2>2, <2>3 DEF IInv
<1> QED
  BY <1>2, <1>3, <1>4 DEF Create

LEMMA CreateWithIdInv ==
    ASSUME IInv, NEW id \in Ids, NEW body \in Bodies, CreateWithId(id, body)
    PROVE  IInv'
<1>1. CASE Refuse("ErrInvalidID")
  BY <1>1, RefuseInv
<1>2. CASE Commit(id, body) /\ foreign' = foreign \cup {id} /\ UNCHANGED nextID
  <2>1. FilesHoldTheirId' /\ Durable' /\ TypeOK'
    BY <1>2, CommitInv DEF Commit, Returns, IInv, TypeOK
  <2>2. NextIdIsFresh'
    BY <1>2 DEF Commit, IInv, TypeOK, NextIdIsFresh, Stored
  <2> QED
    BY <2>1, <2>2 DEF IInv
<1>3. CASE UNCHANGED index /\ FlushError(id, body)
  <2>1. index' = index
    BY <1>3
  <2>2. FilesHoldTheirId' /\ Durable' /\ TypeOK'
    BY <2>1, <1>3, FlushErrorInv
  <2>3. NextIdIsFresh'
    BY <2>1, <1>3 DEF FlushError, IInv, NextIdIsFresh, Stored
  <2> QED
    BY <2>2, <2>3 DEF IInv
<1> QED
  BY <1>1, <1>2, <1>3 DEF CreateWithId

LEMMA UpdateInv ==
    ASSUME IInv, NEW id \in Ids, NEW src \in Bodies, Update(id, src)
    PROVE  IInv'
<1> DEFINE body == Copy(index[id], src)
<1>1. CASE Refuse("ErrRecordNotFound")
  BY <1>1, RefuseInv
<1>2. ASSUME Stored(id)
      PROVE  body \in Bodies
  BY <1>2, CopyType DEF Stored, IInv, TypeOK
<1>3. CASE Stored(id) /\ Commit(id, body) /\ UNCHANGED <<nextID, foreign>>
  <2> HIDE DEF body
  <2>1. FilesHoldTheirId' /\ Durable' /\ TypeOK'
    BY <1>2, <1>3, CommitInv DEF Commit, Returns, IInv, TypeOK
  <2>2. NextIdIsFresh'
    BY <1>3 DEF Commit, IInv, TypeOK, NextIdIsFresh, Stored
  <2> QED
    BY <2>1, <2>2 DEF IInv
<1>4. CASE Stored(id) /\ index' = [index EXCEPT ![id] = body] /\ FlushError(id, body)
  <2> HIDE DEF body
  <2>1. FilesHoldTheirId' /\ Durable' /\ TypeOK'
    BY <1>2, <1>4, FlushErrorInv
  <2>2. NextIdIsFresh'
    BY <1>4 DEF FlushError, IInv, TypeOK, NextIdIsFresh, Stored
  <2> QED
    BY <2>1, <2>2 DEF IInv
<1> QED
  BY <1>1, <1>3, <1>4 DEF Update

(* A batch that is stored.                                                 *)
LEMMA CreateManyStoredInv ==
    ASSUME IInv, NEW s \in SUBSET Ids, NEW b \in [s -> Bodies], CreateManyStored(b)
    PROVE  IInv'
<1> USE EncodedFile, OutsideAssumption
<1>1. TypeOK'
  BY DEF IInv, TypeOK, CreateManyStored, Returns
<1>2. FilesHoldTheirId'
  BY DEF IInv, TypeOK, CreateManyStored, FilesHoldTheirId
<1>3. Durable'
  BY DEF IInv, TypeOK, CreateManyStored, Durable, DurableAt
<1>4. NextIdIsFresh'
  BY DEF IInv, TypeOK, CreateManyStored, NextIdIsFresh, Stored
<1> QED
  BY <1>1, <1>2, <1>3, <1>4 DEF IInv

(* A batch that fails: the rollback may leave the file of one of its       *)
(* identifiers behind.                                                     *)
LEMMA CreateManyRollbackInv ==
    ASSUME IInv, NEW s \in SUBSET Ids, NEW b \in [s -> Bodies], CreateManyRollback(b)
    PROVE  IInv'
<1>1. /\ index' = [id \in Ids |-> IF id \in s THEN NoRecord ELSE index[id]]
      /\ faults' \in 0 .. MaxFaults
      /\ err' = "flush" /\ up' = up /\ nextID' = nextID /\ foreign' = foreign
  BY FaultType DEF CreateManyRollback, Returns, IInv
<1>2. NextIdIsFresh'
  BY <1>1 DEF IInv, NextIdIsFresh, Stored
<1>3. index' \in [Ids -> Bodies \cup {NoRecord}]
  BY <1>1 DEF IInv, TypeOK
<1>4. CASE /\ disk' = [id \in Ids |-> IF id \in s THEN NoFile ELSE disk[id]]
           /\ acked' = [id \in Ids |-> IF id \in s THEN NoRecord ELSE acked[id]]
  <2>1. TypeOK'
    BY <1>1, <1>3, <1>4 DEF IInv, TypeOK
  <2>2. FilesHoldTheirId'
    BY <1>4 DEF IInv, FilesHoldTheirId
  <2>3. Durable'
    BY <1>1, <1>4 DEF IInv, Durable, DurableAt
  <2> QED
    BY <1>2, <2>1, <2>2, <2>3 DEF IInv
<1>5. CASE \E kept \in s : \E f \in Leftovers(kept, b[kept]) :
             /\ disk' = [id \in Ids |-> IF id = kept THEN f
                           ELSE IF id \in s THEN NoFile ELSE disk[id]]
             /\ acked' = [id \in Ids |-> IF id = kept THEN Unknown
                            ELSE IF id \in s THEN NoRecord ELSE acked[id]]
  <2>1. PICK kept \in s : \E f \in Leftovers(kept, b[kept]) :
             /\ disk' = [id \in Ids |-> IF id = kept THEN f
                           ELSE IF id \in s THEN NoFile ELSE disk[id]]
             /\ acked' = [id \in Ids |-> IF id = kept THEN Unknown
                            ELSE IF id \in s THEN NoRecord ELSE acked[id]]
    BY <1>5
  <2>2. PICK f \in Leftovers(kept, b[kept]) :
             /\ disk' = [id \in Ids |-> IF id = kept THEN f
                           ELSE IF id \in s THEN NoFile ELSE disk[id]]
             /\ acked' = [id \in Ids |-> IF id = kept THEN Unknown
                            ELSE IF id \in s THEN NoRecord ELSE acked[id]]
    BY <2>1
  <2>3. kept \in Ids /\ b[kept] \in Bodies
    OBVIOUS
  <2>4. /\ f \in Files \cup {NoFile, Corrupt}
        /\ f \notin {NoFile, Corrupt} => f.id = kept \/ f = Encoded(0, Zero)
    BY <2>3, PrefixFile, EncodedFile
       DEF Leftovers, FailedWrite, IInv, TypeOK, FilesHoldTheirId
  <2>5. TypeOK'
    BY <1>1, <1>3, <2>2, <2>4 DEF IInv, TypeOK
  <2>6. FilesHoldTheirId'
    BY <2>2, <2>4 DEF IInv, FilesHoldTheirId
  <2>7. Durable'
    BY <1>1, <2>2 DEF IInv, Durable, DurableAt
  <2> QED
    BY <1>2, <2>5, <2>6, <2>7 DEF IInv
<1> QED
  BY <1>4, <1>5 DEF CreateManyRollback

LEMMA DeleteManyInv ==
    ASSUME IInv, NEW ids \in SUBSET Ids, DeleteMany(ids)
    PROVE  IInv'
<1> DEFINE gone == {id \in ids : Stored(id)}
<1>1. /\ index' = [id \in Ids |-> IF id \in gone THEN NoRecord ELSE index[id]]
      /\ err' = "nil" /\ up' = up /\ nextID' = nextID /\ foreign' = foreign
  BY DEF DeleteMany, Returns
<1>2. NextIdIsFresh'
  BY <1>1 DEF IInv, NextIdIsFresh, Stored
<1>3. index' \in [Ids -> Bodies \cup {NoRecord}]
  BY <1>1 DEF IInv, TypeOK
<1>4. CASE /\ disk' = [id \in Ids |-> IF id \in gone THEN NoFile ELSE disk[id]]
           /\ acked' = [id \in Ids |-> IF id \in gone THEN NoRecord ELSE acked[id]]
           /\ UNCHANGED faults
  <2> HIDE DEF gone
  <2>1. TypeOK'
    BY <1>1, <1>3, <1>4 DEF IInv, TypeOK
  <2>2. FilesHoldTheirId'
    BY <1>4 DEF IInv, FilesHoldTheirId
  <2>3. Durable'
    BY <1>1, <1>4 DEF IInv, Durable, DurableAt
  <2> QED
    BY <1>2, <2>1, <2>2, <2>3 DEF IInv
<1>5. CASE \E kept \in gone :
             /\ Fault
             /\ disk' = [id \in Ids |->
                           IF id \in gone \ {kept} THEN NoFile ELSE disk[id]]
             /\ acked' = [id \in Ids |-> IF id = kept THEN Unknown
                            ELSE IF id \in gone THEN NoRecord ELSE acked[id]]
  <2>1. PICK kept \in gone :
             /\ Fault
             /\ disk' = [id \in Ids |->
                           IF id \in gone \ {kept} THEN NoFile ELSE disk[id]]
             /\ acked' = [id \in Ids |-> IF id = kept THEN Unknown
                            ELSE IF id \in gone THEN NoRecord ELSE acked[id]]
    BY <1>5
  <2>2. faults' \in 0 .. MaxFaults
    BY <2>1, FaultType DEF IInv
  <2> HIDE DEF gone
  <2>3. TypeOK'
    BY <1>1, <1>3, <2>1, <2>2 DEF IInv, TypeOK
  <2>4. FilesHoldTheirId'
    BY <2>1 DEF IInv, FilesHoldTheirId
  <2>5. Durable'
    BY <1>1, <2>1 DEF IInv, Durable, DurableAt
  <2> QED
    BY <1>2, <2>3, <2>4, <2>5 DEF IInv
<1> QED
  BY <1>4, <1>5 DEF DeleteMany

-----------------------------------------------------------------------------
(* Crashes.                                                                *)
LEMMA LoseMemoryType ==
    ASSUME LoseMemory, TypeOK
    PROVE  /\ up' \in BOOLEAN /\ foreign' \subseteq Ids /\ err' = err
           /\ index' \in [Ids -> Bodies \cup {NoRecord}]
           /\ nextID' \in 1 .. MaxId + 1
<1>1. 1 \in 1 .. MaxId + 1
  BY MaxIdAssumption
<1> QED
  BY <1>1 DEF LoseMemory

LEMMA CrashInv ==
    ASSUME IInv, Crash
    PROVE  IInv'
<1>1. TypeOK'
  BY LoseMemoryType DEF IInv, TypeOK, Crash
<1>2. FilesHoldTheirId' /\ Durable' /\ NextIdIsFresh'
  BY DEF IInv, TypeOK, Crash, LoseMemory, FilesHoldTheirId, Durable, DurableAt,
         NextIdIsFresh
<1> QED
  BY <1>1, <1>2 DEF IInv

LEMMA CrashInFlushInv ==
    ASSUME IInv, NEW id \in Ids, NEW body \in Bodies, CrashInFlush(id, body)
    PROVE  IInv'
<1>1. PICK f \in Prefixes(id, body) : disk' = [disk EXCEPT ![id] = f]
  BY DEF CrashInFlush
<1>2. /\ f \in Files \cup {NoFile, Corrupt}
      /\ f \notin {NoFile, Corrupt} => f.id = id \/ f = Encoded(0, Zero)
  BY PrefixFile
<1>3. faults' \in 0 .. MaxFaults
  BY FaultType DEF IInv, CrashInFlush
<1>4. TypeOK'
  BY <1>1, <1>2, <1>3, LoseMemoryType DEF IInv, TypeOK, CrashInFlush
<1>5. FilesHoldTheirId'
  BY <1>1, <1>2 DEF IInv, TypeOK, FilesHoldTheirId
<1>6. Durable' /\ NextIdIsFresh'
  BY <1>1 DEF IInv, TypeOK, CrashInFlush, LoseMemory, Durable, DurableAt,
              NextIdIsFresh
<1> QED
  BY <1>4, <1>5, <1>6 DEF IInv

(* Load files a record under its own identifier, because no other file     *)
(* holds that identifier.                                                  *)
LEMMA LoadInv ==
    ASSUME IInv, Load
    PROVE  IInv'
<1>1. disk' = disk /\ faults' = faults /\ acked' = acked /\ foreign' = foreign /\ ~up
  BY DEF Load
<1>2. FilesHoldTheirId'
  BY <1>1 DEF IInv, FilesHoldTheirId
<1>3. CASE LoadFails
  BY <1>1, <1>2, <1>3 DEF LoadFails, Returns, IInv, TypeOK, Durable, DurableAt,
                          NextIdIsFresh
<1>4. CASE LoadStarts
  <2>1. PICK n \in 1 .. MaxId + 1 : IsNextAfterLoad(n) /\ nextID' = n
    BY <1>4 DEF LoadStarts
  <2>2. ASSUME NEW id \in Ids
        PROVE  IF Holding(id) = {} THEN index'[id] = NoRecord
               ELSE \E m \in Holding(id) : index'[id] = disk[m].body
    BY <1>4 DEF LoadStarts, Loaded
  <2>3. ASSUME NEW id \in Ids, NEW m \in Holding(id)
        PROVE  m \in Ids /\ disk[m] \in Files /\ disk[m].id = id
               /\ disk[m].body \in Bodies
    BY FileFields DEF Holding, IInv, TypeOK
  <2>4. index' \in [Ids -> Bodies \cup {NoRecord}]
    <3>1. ASSUME NEW id \in Ids
          PROVE  index'[id] \in Bodies \cup {NoRecord}
      BY <2>2, <2>3
    <3>2. index' = [id \in Ids |-> index'[id]]
      BY <1>4 DEF LoadStarts, Loaded
    <3> QED
      BY <3>1, <3>2
  <2>5. TypeOK'
    BY <1>1, <1>4, <2>1, <2>4 DEF IInv, TypeOK, LoadStarts, Returns
  <2>6. NextIdIsFresh'
    BY <2>1, <2>2 DEF IsNextAfterLoad, NextIdIsFresh, Stored
  <2>7. ASSUME NEW id \in Ids \ {0}
        PROVE  DurableAt(id)'
    <3>1. DurableAt(id)
      BY DEF IInv, Durable
    <3>2. Holding(id) \subseteq {id}
      BY EncodedFile, ZeroType DEF Holding, IInv, FilesHoldTheirId
    <3>3. CASE acked[id] = Unknown
      BY <1>1, <3>3 DEF DurableAt
    <3>4. CASE acked[id] = NoRecord
      <4>1. disk[id] = NoFile
        BY <3>1, <3>4, OutsideAssumption DEF DurableAt
      <4>2. Holding(id) = {}
        BY <3>2, <4>1 DEF Holding
      <4> QED
        BY <1>1, <2>2, <3>4, <4>1, <4>2 DEF DurableAt
    <3>5. CASE acked[id] \in Bodies
      <4>1. disk[id] = Encoded(id, acked[id])
        BY <3>1, <3>5, OutsideAssumption DEF DurableAt
      <4>2. Holding(id) = {id}
        BY <3>2, <3>5, <4>1, EncodedFile DEF Holding
      <4>3. index'[id] = acked[id]
        BY <2>2, <3>5, <4>1, <4>2, EncodedFile
      <4> QED
        BY <1>1, <3>5, <4>1, <4>3, OutsideAssumption DEF DurableAt
    <3> QED
      BY <3>3, <3>4, <3>5 DEF IInv, TypeOK
  <2> QED
    BY <1>2, <2>5, <2>6, <2>7 DEF IInv, Durable
<1> QED
  BY <1>3, <1>4 DEF Load

-----------------------------------------------------------------------------
LEMMA NextInv == IInv /\ [Next]_vars => IInv'
<1> SUFFICES ASSUME IInv, [Next]_vars PROVE IInv'
  OBVIOUS
<1>1. CASE \E body \in Bodies : Create(body)
  BY <1>1, CreateInv
<1>2. CASE \E id \in Ids, body \in Bodies : CreateWithId(id, body)
  BY <1>2, CreateWithIdInv
<1>3. CASE \E s \in Batches : \E b \in [s -> Bodies] : CreateManyWIthId(b)
  <2>1. PICK s \in SUBSET Ids : \E b \in [s -> Bodies] : CreateManyWIthId(b)
    BY <1>3 DEF Batches
  <2>2. PICK b \in [s -> Bodies] : CreateManyWIthId(b)
    BY <2>1
  <2> QED
    BY <2>2, CreateManyStoredInv, CreateManyRollbackInv DEF CreateManyWIthId
<1>4. CASE \E id \in Ids, src \in Bodies : Update(id, src)
  BY <1>4, UpdateInv
<1>5. CASE \E s \in Batches : DeleteMany(s)
  BY <1>5, DeleteManyInv DEF Batches
<1>6. CASE Crash
  BY <1>6, CrashInv
<1>7. CASE \E id \in Ids, body \in Bodies : CrashInFlush(id, body)
  BY <1>7, CrashInFlushInv
<1>8. CASE Load
  BY <1>8, LoadInv
<1>9. CASE UNCHANGED vars
  BY <1>9 DEF vars, IInv, TypeOK, FilesHoldTheirId, Durable, DurableAt,
              NextIdIsFresh, Stored
<1> QED
  BY <1>1, <1>2, <1>3, <1>4, <1>5, <1>6, <1>7, <1>8, <1>9 DEF Next

(* IInv is an invariant of every run of an Index, whatever the bounds.     *)
THEOREM Invariance == Spec => []IInv
<1>1. Init => IInv
  BY InitInv
<1>2. IInv /\ [Next]_vars => IInv'
  BY NextInv
<1> QED
  BY <1>1, <1>2, PTL DEF Spec

(* The variables of index.go and of the data folder keep their types.      *)
THEOREM TypeCorrect == Spec => []TypeOK
<1>1. IInv => TypeOK
  BY DEF IInv
<1> QED
  BY <1>1, Invariance, PTL

(* What the methods of Index promised is on disk and is what a running     *)
(* node serves, for every identifier no failure of the file system hit.    *)
THEOREM Durability == Spec => []Durable
<1>1. IInv => Durable
  BY DEF IInv
<1> QED
  BY <1>1, Invariance, PTL

(* Index.Create numbers above every stored record, except the ones callers *)
(* numbered themselves since the last Load.                                *)
THEOREM Freshness == Spec => []NextIdIsFresh
<1>1. IInv => NextIdIsFresh
  BY DEF IInv
<1> QED
  BY <1>1, Invariance, PTL

(* No file of the folder can be loaded as the record of another one.       *)
THEOREM OwnFiles == Spec => []FilesHoldTheirId
<1>1. IInv => FilesHoldTheirId
  BY DEF IInv
<1> QED
  BY <1>1, Invariance, PTL

-----------------------------------------------------------------------------
(***************************************************************************)
(* Index implements DurableMap.  While no file operation has failed,       *)
(* memory and folder agree, for identifier 0 too.                          *)
(***************************************************************************)
FolderOf(idx) ==
    [id \in Ids |-> IF idx[id] = NoRecord THEN NoFile ELSE Encoded(id, idx[id])]

Clean ==
    faults = 0 => \E idx \in [Ids -> Bodies \cup {NoRecord}] :
                     disk = FolderOf(idx) /\ (up => idx = index)

(* What a folder without faults serves is what was in memory.              *)
LEMMA ServedClean ==
    ASSUME TypeOK, NEW idx \in [Ids -> Bodies \cup {NoRecord}],
           disk = FolderOf(idx), up => idx = index
    PROVE  Served = idx
<1>1. ASSUME NEW id \in Ids
      PROVE  Served[id] = idx[id]
  <2>1. CASE idx[id] = NoRecord
    BY <2>1 DEF Served, FolderOf
  <2>2. CASE idx[id] # NoRecord
    <3>1. disk[id] = Encoded(id, idx[id]) /\ idx[id] \in Bodies
      BY <2>2 DEF FolderOf
    <3> QED
      BY <3>1, EncodedFile DEF Served
  <2> QED
    BY <2>1, <2>2
<1> QED
  BY <1>1 DEF Served

LEMMA FaultsCount ==
    ASSUME TypeOK, Fault
    PROVE  faults' # 0
BY BoundAssumption DEF TypeOK, Fault

(* A process that is up serves its memory, which without faults is what    *)
(* the folder holds.                                                       *)
LEMMA RunningClean ==
    ASSUME TypeOK, Clean, up, faults = 0
    PROVE  Served = index /\ disk = FolderOf(index)
BY ServedClean DEF Clean, TypeOK

(* A method that keeps the process up, and memory and folder in step.      *)
LEMMA StepClean ==
    ASSUME up', index' \in [Ids -> Bodies \cup {NoRecord}], disk' = FolderOf(index')
    PROVE  Clean' /\ Served' = index'
<1>1. Clean'
  BY DEF Clean, FolderOf
<1>2. Served' = index'
  BY DEF Served
<1> QED
  BY <1>1, <1>2

(* A successful flush keeps them in step.                                  *)
LEMMA CommitClean ==
    ASSUME TypeOK, Clean, up, faults = 0,
           NEW id \in Ids, NEW body \in Bodies, Commit(id, body)
    PROVE  /\ Clean' /\ Served = index /\ Served' = [Served EXCEPT ![id] = body]
           /\ up' = up /\ err' = "nil"
<1>1. Served = index /\ disk = FolderOf(index)
  BY RunningClean
<1>2. /\ index' = [index EXCEPT ![id] = body]
      /\ disk' = [disk EXCEPT ![id] = Encoded(id, body)]
      /\ up' = up /\ err' = "nil"
  BY DEF Commit, Returns
<1>3. index' \in [Ids -> Bodies \cup {NoRecord}]
  BY <1>2 DEF TypeOK
<1>4. disk' = FolderOf(index')
  BY <1>1, <1>2, <1>3, OutsideAssumption DEF FolderOf, TypeOK
<1>5. Clean' /\ Served' = index'
  BY <1>2, <1>3, <1>4, StepClean
<1> QED
  BY <1>1, <1>2, <1>5

(* A refusal changes nothing.                                              *)
LEMMA RefuseClean ==
    ASSUME Clean, NEW e, Refuse(e)
    PROVE  Clean' /\ Served' = Served /\ up' = up /\ err' = e
BY DEF Refuse, Returns, Clean, Served, FolderOf

AbstractStep == Clean' /\ (faults' = 0 => [Abstract!Next]_(Abstract!vars))

(* A step with a fault, and any step after one, needs no counterpart.      *)
LEMMA FaultyStep ==
    ASSUME faults' # 0
    PROVE  AbstractStep
BY DEF AbstractStep, Clean

LEMMA CreateImplements ==
    ASSUME TypeOK, Clean, faults = 0, NEW body \in Bodies, Create(body)
    PROVE  AbstractStep
<1>1. nextID \in Ids /\ up
  BY IdsFacts DEF TypeOK, Create
<1>2. CASE Stored(nextID) /\ Refuse("ErrInvalidID")
  <2>1. Abstract!Insert(nextID, body)
    BY <1>1, <1>2, RefuseClean, RunningClean
       DEF Abstract!Insert, Abstract!Present, Abstract!Answers, Stored
  <2> QED
    BY <1>1, <1>2, <2>1, RefuseClean DEF AbstractStep, Abstract!Next
<1>3. CASE CreateStored(body)
  <2>1. Commit(nextID, body) /\ ~Stored(nextID)
    BY <1>3 DEF CreateStored
  <2>2. Abstract!Insert(nextID, body)
    BY <1>1, <2>1, CommitClean DEF Abstract!Insert, Abstract!Present, Abstract!Answers, Stored
  <2> QED
    BY <1>1, <2>1, <2>2, CommitClean DEF AbstractStep, Abstract!Next
<1>4. CASE FlushError(nextID, body)
  BY <1>4, FaultsCount, FaultyStep DEF FlushError
<1> QED
  BY <1>2, <1>3, <1>4 DEF Create

LEMMA CreateWithIdImplements ==
    ASSUME TypeOK, Clean, faults = 0,
           NEW id \in Ids, NEW body \in Bodies, CreateWithId(id, body)
    PROVE  AbstractStep
<1>1. up
  BY DEF CreateWithId
<1>2. CASE Stored(id) /\ Refuse("ErrInvalidID")
  <2>1. Abstract!Insert(id, body)
    BY <1>1, <1>2, RefuseClean, RunningClean
       DEF Abstract!Insert, Abstract!Present, Abstract!Answers, Stored
  <2> QED
    BY <1>2, <2>1, RefuseClean DEF AbstractStep, Abstract!Next
<1>3. CASE ~Stored(id) /\ Commit(id, body)
  <2>1. Abstract!Insert(id, body)
    BY <1>1, <1>3, CommitClean DEF Abstract!Insert, Abstract!Present, Abstract!Answers, Stored
  <2> QED
    BY <1>1, <1>3, <2>1, CommitClean DEF AbstractStep, Abstract!Next
<1>4. CASE FlushError(id, body)
  BY <1>4, FaultsCount, FaultyStep DEF FlushError
<1> QED
  BY <1>2, <1>3, <1>4 DEF CreateWithId

LEMMA UpdateImplements ==
    ASSUME TypeOK, Clean, faults = 0,
           NEW id \in Ids, NEW src \in Bodies, Update(id, src)
    PROVE  AbstractStep
<1> DEFINE body == Copy(index[id], src)
<1>1. up
  BY DEF Update
<1>2. CASE ~Stored(id) /\ Refuse("ErrRecordNotFound")
  <2>1. Abstract!Change(id, src)
    BY <1>1, <1>2, RefuseClean, RunningClean
       DEF Abstract!Change, Abstract!Present, Abstract!Answers, Stored
  <2> QED
    BY <1>2, <2>1, RefuseClean DEF AbstractStep, Abstract!Next
<1>3. CASE Stored(id) /\ Commit(id, body)
  <2>1. body \in Bodies
    BY <1>3, CopyType DEF Stored, TypeOK
  <2>2. /\ Clean' /\ Served = index /\ Served' = [Served EXCEPT ![id] = body]
        /\ up' = up /\ err' = "nil"
    <3> HIDE DEF body
    <3> QED
      BY <1>1, <1>3, <2>1, CommitClean
  <2>3. Abstract!Change(id, src)
    BY <1>1, <1>3, <2>2 DEF Abstract!Change, Abstract!Present, Abstract!Answers, Stored
  <2> QED
    BY <2>2, <2>3 DEF AbstractStep, Abstract!Next
<1>4. CASE FlushError(id, body)
  BY <1>4, FaultsCount, FaultyStep DEF FlushError
<1> QED
  BY <1>2, <1>3, <1>4 DEF Update

LEMMA CreateManyImplements ==
    ASSUME TypeOK, Clean, faults = 0,
           NEW s \in SUBSET Ids, NEW b \in [s -> Bodies], CreateManyWIthId(b)
    PROVE  AbstractStep
<1>1. CASE CreateManyRollback(b)
  BY <1>1, FaultsCount, FaultyStep DEF CreateManyRollback
<1>2. CASE CreateManyStored(b)
  <2>1. up /\ up' = up /\ err' = "nil" /\ Served = index /\ disk = FolderOf(index)
    BY <1>2, RunningClean DEF CreateManyWIthId, CreateManyStored, Returns
  <2>2. /\ index' = [id \in Ids |-> IF id \in s THEN b[id] ELSE index[id]]
        /\ disk' = [id \in Ids |-> IF id \in s THEN Encoded(id, b[id]) ELSE disk[id]]
    BY <1>2 DEF CreateManyStored
  <2>3. index' \in [Ids -> Bodies \cup {NoRecord}]
    BY <2>2 DEF TypeOK
  <2>4. disk' = FolderOf(index')
    BY <2>1, <2>2, OutsideAssumption DEF FolderOf, TypeOK
  <2>5. Clean' /\ Served' = index'
    BY <2>1, <2>3, <2>4, StepClean
  <2>6. Abstract!Overwrite(b)
    BY <2>1, <2>2, <2>5 DEF Abstract!Overwrite, Abstract!Answers
  <2> QED
    BY <2>5, <2>6 DEF AbstractStep, Abstract!Next
<1> QED
  BY <1>1, <1>2 DEF CreateManyWIthId

LEMMA DeleteManyImplements ==
    ASSUME TypeOK, Clean, faults = 0, NEW ids \in SUBSET Ids, DeleteMany(ids)
    PROVE  AbstractStep
<1>1. CASE Fault
  BY <1>1, FaultsCount, FaultyStep
<1>2. CASE ~Fault
  <2>1. up /\ up' = up /\ err' = "nil" /\ Served = index /\ disk = FolderOf(index)
    BY RunningClean DEF DeleteMany, Returns
  <2>2. /\ index' = [id \in Ids |-> IF id \in {i \in ids : Stored(i)} THEN NoRecord
                                    ELSE index[id]]
        /\ disk' = [id \in Ids |-> IF id \in {i \in ids : Stored(i)} THEN NoFile
                                   ELSE disk[id]]
    BY <1>2 DEF DeleteMany
  <2>3. index' \in [Ids -> Bodies \cup {NoRecord}]
    BY <2>2 DEF TypeOK
  <2>4. disk' = FolderOf(index')
    BY <2>1, <2>2 DEF FolderOf
  <2>5. Clean' /\ Served' = index'
    BY <2>1, <2>3, <2>4, StepClean
  <2>6. index' = [id \in Ids |-> IF id \in ids THEN NoRecord ELSE index[id]]
    BY <2>2 DEF Stored
  <2>7. Abstract!Remove(ids)
    BY <2>1, <2>5, <2>6 DEF Abstract!Remove, Abstract!Answers
  <2> QED
    BY <2>5, <2>7 DEF AbstractStep, Abstract!Next
<1> QED
  BY <1>1, <1>2

(* The end of the process leaves the folder, which holds what memory held. *)
LEMMA CrashImplements ==
    ASSUME TypeOK, Clean, faults = 0, Crash
    PROVE  AbstractStep
<1>1. up /\ ~up' /\ disk' = disk /\ err' = err
  BY DEF Crash, LoseMemory, TypeOK
<1>2. Served = index /\ disk = FolderOf(index) /\ index \in [Ids -> Bodies \cup {NoRecord}]
  BY <1>1, RunningClean DEF TypeOK
<1>3. Clean'
  BY <1>1, <1>2 DEF Clean, FolderOf
<1>4. ASSUME NEW id \in Ids
      PROVE  Served'[id] = index[id]
  <2>1. CASE index[id] = NoRecord
    BY <1>1, <1>2, <2>1 DEF Served, FolderOf
  <2>2. CASE index[id] # NoRecord
    <3>1. disk'[id] = Encoded(id, index[id]) /\ index[id] \in Bodies
      BY <1>1, <1>2, <2>2 DEF FolderOf
    <3> QED
      BY <1>1, <3>1, EncodedFile DEF Served
  <2> QED
    BY <2>1, <2>2
<1>5. Served' = Served
  BY <1>2, <1>4 DEF Served
<1>6. Abstract!Stop
  BY <1>1, <1>5 DEF Abstract!Stop, LoseMemory, Crash
<1> QED
  BY <1>3, <1>6 DEF AbstractStep, Abstract!Next

(* Load finds every record under its own identifier and no other file.     *)
LEMMA LoadImplements ==
    ASSUME TypeOK, Clean, faults = 0, Load
    PROVE  AbstractStep
<1>1. PICK idx \in [Ids -> Bodies \cup {NoRecord}] : disk = FolderOf(idx)
  BY DEF Clean
<1>2. ~up /\ disk' = disk
  BY DEF Load
<1>3. Served = idx
  BY <1>1, <1>2, ServedClean
<1>4. ASSUME NEW n \in Ids
      PROVE  /\ disk[n] # Corrupt
             /\ idx[n] = NoRecord => disk[n] = NoFile
             /\ idx[n] # NoRecord => disk[n].id = n /\ disk[n].body = idx[n]
                                     /\ disk[n] # NoFile
  <2>1. CASE idx[n] = NoRecord
    BY <1>1, <2>1, OutsideAssumption DEF FolderOf
  <2>2. CASE idx[n] # NoRecord
    <3>1. disk[n] = Encoded(n, idx[n]) /\ idx[n] \in Bodies
      BY <1>1, <2>2 DEF FolderOf
    <3> QED
      BY <2>2, <3>1, EncodedFile
  <2> QED
    BY <2>1, <2>2
<1>5. LoadStarts
  BY <1>4 DEF Load, LoadFails
<1>6. ASSUME NEW id \in Ids
      PROVE  index'[id] = idx[id]
  <2>1. IF Holding(id) = {} THEN index'[id] = NoRecord
        ELSE \E n \in Holding(id) : index'[id] = disk[n].body
    BY <1>5 DEF LoadStarts, Loaded
  <2>2. Holding(id) = IF idx[id] = NoRecord THEN {} ELSE {id}
    BY <1>4 DEF Holding
  <2> QED
    BY <1>4, <2>1, <2>2
<1>7. index' = idx
  <2>1. index' = [id \in Ids |-> index'[id]]
    BY <1>5 DEF LoadStarts, Loaded
  <2> QED
    BY <1>6, <2>1
<1>8. Clean' /\ Served' = index' /\ up' /\ err' = "nil"
  <2>1. up' /\ err' = "nil"
    BY <1>5 DEF LoadStarts, Returns
  <2> QED
    BY <1>1, <1>2, <1>7, <2>1, StepClean
<1>9. Abstract!Start
  <2>1. up' = TRUE
    BY <1>5 DEF LoadStarts
  <2> QED
    BY <1>2, <1>3, <1>7, <1>8, <2>1 DEF Abstract!Start
<1> QED
  BY <1>8, <1>9 DEF AbstractStep, Abstract!Next

LEMMA NextImplements ==
    ASSUME TypeOK, Clean, [Next]_vars
    PROVE  AbstractStep
<1>1. CASE faults # 0
  <2>1. faults' # 0
    BY <1>1, BoundAssumption, FaultsCount
       DEF TypeOK, Next, vars, Create, CreateStored, CreateWithId, CreateManyWIthId,
           CreateManyStored, CreateManyRollback, Update, DeleteMany, Crash, CrashInFlush,
           Load, Refuse, Commit, FlushError
  <2> QED
    BY <2>1, FaultyStep
<1>2. CASE faults = 0
  <2> USE <1>2
  <2>1. CASE \E body \in Bodies : Create(body)
    BY <2>1, CreateImplements
  <2>2. CASE \E id \in Ids, body \in Bodies : CreateWithId(id, body)
    BY <2>2, CreateWithIdImplements
  <2>3. CASE \E s \in Batches : \E b \in [s -> Bodies] : CreateManyWIthId(b)
    <3>1. PICK s \in SUBSET Ids : \E b \in [s -> Bodies] : CreateManyWIthId(b)
      BY <2>3 DEF Batches
    <3> QED
      BY <3>1, CreateManyImplements
  <2>4. CASE \E id \in Ids, src \in Bodies : Update(id, src)
    BY <2>4, UpdateImplements
  <2>5. CASE \E s \in Batches : DeleteMany(s)
    BY <2>5, DeleteManyImplements DEF Batches
  <2>6. CASE Crash
    BY <2>6, CrashImplements
  <2>7. CASE \E id \in Ids, body \in Bodies : CrashInFlush(id, body)
    BY <2>7, FaultsCount, FaultyStep DEF CrashInFlush
  <2>8. CASE Load
    BY <2>8, LoadImplements
  <2>9. CASE UNCHANGED vars
    <3>1. Clean'
      BY <2>9 DEF vars, Clean, FolderOf
    <3>2. UNCHANGED Abstract!vars
      BY <2>9 DEF vars, Abstract!vars, Served
    <3> QED
      BY <3>1, <3>2 DEF AbstractStep
  <2> QED
    BY <2>1, <2>2, <2>3, <2>4, <2>5, <2>6, <2>7, <2>8, <2>9 DEF Next
<1> QED
  BY <1>1, <1>2

LEMMA InitImplements == Init => Clean /\ Abstract!Init
<1> SUFFICES ASSUME Init PROVE Clean /\ Abstract!Init
  OBVIOUS
<1>1. disk = FolderOf(index) /\ index \in [Ids -> Bodies \cup {NoRecord}]
  BY DEF Init, FolderOf
<1>2. Served = [id \in Ids |-> NoRecord]
  BY DEF Init, Served
<1> QED
  BY <1>1, <1>2 DEF Init, Clean, Abstract!Init

(* Index implements DurableMap: until a file operation fails, every step   *)
(* of index.go, and every crash and load, is a step of the durable map     *)
(* that the callers of Index think of.                                     *)
THEOREM Refinement == Spec => ImplementsDurableMap
<1>1. Init => Clean /\ Abstract!Init
  BY InitImplements
<1>2. TypeOK /\ Clean /\ [Next]_vars => Clean'
  BY NextImplements DEF AbstractStep
<1>3. TypeOK /\ Clean /\ [Next]_vars
        => [faults' = 0 => [Abstract!Next]_(Abstract!vars)]_vars
  BY NextImplements DEF AbstractStep
<1> QED
  BY <1>1, <1>2, <1>3, TypeCorrect, PTL DEF Spec, ImplementsDurableMap

(***************************************************************************)
(* Records.                                                                *)
(***************************************************************************)

(* The calls that will still append to a bucket, and to which.             *)
Adding(call) == call.steps \in {<<"create">>, <<"remove", "create">>, <<"update">>}

Carries(call, tag, id) == \E r \in call.recs : r.id = id /\ tag \in r.meta

Adds(call, tag, id) == Adding(call) /\ Carries(call, tag, id)

(* A call holds one pointer to a record, and none when it has no step left.*)
WellFormed(call) ==
    /\ \A r, q \in call.recs : r.id = q.id => r = q
    /\ call.steps = <<>> => call.recs = {}

CallsWellFormed == \A t \in Threads : WellFormed(pending[t])

(* A live wrapper points to a stored record.                               *)
WrapperPoints == wrapping # NoRecord => up /\ (wrapping.live => Stored(wrapping.id))

(* A node that is down has no records, no buckets and no calls.            *)
DownIsEmpty ==
    ~up => /\ \A id \in Ids : ~Stored(id)
           /\ \A t \in Threads : pending[t] = Idle
           /\ \A tag \in Tags, id \in Ids : metaBy[tag][id] = 0

CompleteAt(id) ==
    Stored(id) => \A tag \in index[id].meta :
        metaBy[tag][id] > 0 \/ \E t \in Threads : Adds(pending[t], tag, id)

(* A bucket gets an untouched record from one call, once.                  *)
OnceAt(id) ==
    /\ \A tag \in Tags, t \in Threads : Adds(pending[t], tag, id) =>
          Stored(id) /\ tag \in index[id].meta /\ metaBy[tag][id] = 0
    /\ \A tag \in Tags : \A t, u \in Threads :
          Adds(pending[t], tag, id) /\ Adds(pending[u], tag, id) => t = u
    /\ \A tag \in Tags : metaBy[tag][id] # 0 =>
          Stored(id) /\ tag \in index[id].meta /\ metaBy[tag][id] = 1
    /\ CompleteAt(id)

Complete == \A id \in Ids \ halfUpdated : CompleteAt(id)

Once == \A id \in Ids \ touched : OnceAt(id)

RInv ==
    /\ IInv /\ RTypeOK
    /\ CallsWellFormed /\ WrapperPoints /\ DownIsEmpty
    /\ Complete /\ Once

-----------------------------------------------------------------------------
(* Calls and the pointers they hold.                                       *)
LEMMA CallFields ==
    ASSUME NEW call \in Calls
    PROVE  /\ call = [steps |-> call.steps, recs |-> call.recs]
           /\ call.steps \in {<<>>, <<"remove">>, <<"create">>, <<"remove", "create">>,
                              <<"update">>}
           /\ call.recs \in SUBSET Held
BY DEF Calls

LEMMA IdleCall ==
    /\ Idle \in Calls /\ WellFormed(Idle)
    /\ \A tag, id : ~Adds(Idle, tag, id)
BY DEF Idle, Calls, WellFormed, Adds, Carries

LEMMA NewCall ==
    ASSUME NEW recs \in SUBSET Held
    PROVE  /\ Call(<<"create">>, recs) \in Calls /\ Call(<<"update">>, recs) \in Calls
           /\ Call(<<"remove">>, recs) \in Calls
           /\ Call(<<"remove", "create">>, recs) \in Calls
           /\ Adding(Call(<<"create">>, recs)) /\ Adding(Call(<<"update">>, recs))
           /\ Adding(Call(<<"remove", "create">>, recs))
           /\ ~Adding(Call(<<"remove">>, recs))
           /\ \A steps : Call(steps, recs).recs = recs
           /\ (\A r, q \in recs : r.id = q.id => r = q) =>
                 /\ WellFormed(Call(<<"create">>, recs)) /\ WellFormed(Call(<<"update">>, recs))
                 /\ WellFormed(Call(<<"remove">>, recs))
                 /\ WellFormed(Call(<<"remove", "create">>, recs))
BY DEF Call, Calls, Adding, WellFormed

(* WillAdd, the words of the properties, is Adds.                          *)
LEMMA WillAddIsAdds ==
    ASSUME NEW t \in Threads, pending[t] \in Calls, NEW tag, NEW id
    PROVE  WillAdd(t, tag, id) <=> Adds(pending[t], tag, id)
<1> DEFINE c == pending[t]
<1>1. c.steps \in {<<>>, <<"remove">>, <<"create">>, <<"remove", "create">>, <<"update">>}
  BY CallFields
<1>2. (\E s \in {"create", "update"} : \E n \in DOMAIN c.steps : c.steps[n] = s) <=> Adding(c)
  <2>1. CASE c.steps = <<>>
    BY <2>1 DEF Adding
  <2>2. CASE c.steps = <<"remove">>
    BY <2>2 DEF Adding
  <2>3. CASE c.steps = <<"create">>
    BY <2>3 DEF Adding
  <2>4. CASE c.steps = <<"remove", "create">>
    BY <2>4 DEF Adding
  <2>5. CASE c.steps = <<"update">>
    BY <2>5 DEF Adding
  <2> QED
    BY <1>1, <2>1, <2>2, <2>3, <2>4, <2>5
<1> QED
  BY <1>2 DEF WillAdd, Adds, Carries

LEMMA DetachedCall ==
    ASSUME NEW call \in Calls, NEW s, WellFormed(call)
    PROVE  /\ Detached(call, s) \in Calls /\ WellFormed(Detached(call, s))
           /\ \A tag, id : Adds(Detached(call, s), tag, id) <=> Adds(call, tag, id)
<1> DEFINE Cut(r) == [r EXCEPT !.live = @ /\ r.id \notin s]
           recs == {Cut(r) : r \in call.recs}
<1>1. \A r \in call.recs : Cut(r) \in Held /\ Cut(r).id = r.id /\ Cut(r).meta = r.meta
  BY CallFields DEF Held
<1>2. /\ Detached(call, s) \in Calls
      /\ Detached(call, s).steps = call.steps /\ Detached(call, s).recs = recs
  BY <1>1, CallFields DEF Detached, Calls
<1> HIDE DEF Cut
<1>3. WellFormed(Detached(call, s))
  BY <1>1, <1>2 DEF WellFormed
<1>4. \A tag, id : Carries(Detached(call, s), tag, id) <=> Carries(call, tag, id)
  BY <1>1, <1>2 DEF Carries
<1> QED
  BY <1>2, <1>3, <1>4 DEF Adds, Adding

LEMMA FollowedCall ==
    ASSUME NEW call \in Calls, NEW id \in Ids, WellFormed(call), index'[id].meta \in Metas
    PROVE  /\ Followed(call, id) \in Calls /\ WellFormed(Followed(call, id))
           /\ \A tag, i : i # id =>
                 (Adds(Followed(call, id), tag, i) <=> Adds(call, tag, i))
           /\ \A tag \in index'[id].meta :
                 Adds(call, tag, id) => Adds(Followed(call, id), tag, id)
<1> DEFINE Fol(r) == IF r.live /\ r.id = id THEN [r EXCEPT !.meta = index'[id].meta] ELSE r
           recs == {Fol(r) : r \in call.recs}
<1>1. \A r \in call.recs : /\ Fol(r) \in Held /\ Fol(r).id = r.id
                           /\ r.id # id => Fol(r).meta = r.meta
                           /\ Fol(r).meta \in {r.meta, index'[id].meta}
  BY CallFields DEF Held
<1>2. /\ Followed(call, id) \in Calls
      /\ Followed(call, id).steps = call.steps /\ Followed(call, id).recs = recs
  BY <1>1, CallFields DEF Followed, Calls
<1> HIDE DEF Fol
<1>3. WellFormed(Followed(call, id))
  BY <1>1, <1>2 DEF WellFormed
<1>4. \A tag, i : i # id => (Carries(Followed(call, id), tag, i) <=> Carries(call, tag, i))
  BY <1>1, <1>2 DEF Carries
<1>5. \A tag \in index'[id].meta : Carries(call, tag, id) => Carries(Followed(call, id), tag, id)
  BY <1>1, <1>2 DEF Carries
<1> QED
  BY <1>2, <1>3, <1>4, <1>5 DEF Adds, Adding

(* _metaIndexCreate appends a record once to the bucket of each of its     *)
(* tags.                                                                   *)
LEMMA MetaIndexCreateAdds ==
    ASSUME NEW mb \in [Tags -> [Ids -> Nat]], NEW recs \in SUBSET Held,
           \A r, q \in recs : r.id = q.id => r = q
    PROVE  /\ MetaIndexCreate(mb, recs) \in [Tags -> [Ids -> Nat]]
           /\ \A tag \in Tags, id \in Ids :
                 MetaIndexCreate(mb, recs)[tag][id] =
                     IF \E r \in recs : r.id = id /\ tag \in r.meta
                     THEN mb[tag][id] + 1 ELSE mb[tag][id]
<1> DEFINE own(tag, id) == {r \in recs : r.id = id /\ tag \in r.meta}
<1>1. ASSUME NEW tag \in Tags, NEW id \in Ids
      PROVE  Cardinality(own(tag, id)) =
                 IF \E r \in recs : r.id = id /\ tag \in r.meta THEN 1 ELSE 0
  <2>1. CASE \E r \in recs : r.id = id /\ tag \in r.meta
    <3>1. PICK r \in recs : r.id = id /\ tag \in r.meta
      BY <2>1
    <3>2. own(tag, id) = {r}
      BY <3>1
    <3> QED
      BY <2>1, <3>2, FS_Singleton
  <2>2. CASE ~\E r \in recs : r.id = id /\ tag \in r.meta
    <3>1. own(tag, id) = {}
      BY <2>2
    <3> QED
      BY <2>2, <3>1, FS_EmptySet
  <2> QED
    BY <2>1, <2>2
<1>2. MetaIndexCreate(mb, recs) =
          [tag \in Tags |-> [id \in Ids |-> mb[tag][id] + Cardinality(own(tag, id))]]
  BY DEF MetaIndexCreate
<1> HIDE DEF own
<1>3. MetaIndexCreate(mb, recs) =
          [tag \in Tags |-> [id \in Ids |->
              mb[tag][id] + IF \E r \in recs : r.id = id /\ tag \in r.meta THEN 1 ELSE 0]]
  BY <1>1, <1>2
<1> QED
  BY <1>3
-----------------------------------------------------------------------------
(***************************************************************************)
(* What a step of the index does to one record, and to what the pending    *)
(* calls will add of it.                                                   *)
(***************************************************************************)
SameAdds(id) ==
    \A u \in Threads, tag \in Tags : Adds(pending'[u], tag, id) <=> Adds(pending[u], tag, id)

(* Nothing.                                                                *)
Kept(id) ==
    /\ SameAdds(id)
    /\ index'[id] # NoRecord <=> Stored(id)
    /\ Stored(id) => index'[id].meta = index[id].meta

(* It is removed, by a deletion or a rollback.                             *)
Dropped(id) ==
    /\ SameAdds(id)
    /\ index'[id] = NoRecord
    /\ Stored(id) => id \in touched'

(* The call of t stores it, and will add it to its buckets.                *)
Added(t, id) ==
    /\ index'[id] # NoRecord
    /\ Stored(id) => id \in touched'
    /\ \A tag \in Tags : ~Adds(pending[t], tag, id)
    /\ \A tag \in Tags : Adds(pending'[t], tag, id) <=> tag \in index'[id].meta
    /\ \A u \in Threads \ {t}, tag \in Tags :
          Adds(pending'[u], tag, id) <=> Adds(pending[u], tag, id)

(* It is updated: a tag that it has now it had before, or the call of t    *)
(* will add it there.                                                      *)
Changed(t, id) ==
    /\ id \in touched' /\ Stored(id)
    /\ \/ id \in halfUpdated'
       \/ \A tag \in index'[id].meta :
             \/ /\ tag \in index[id].meta
                /\ \A u \in Threads : Adds(pending[u], tag, id) => Adds(pending'[u], tag, id)
             \/ Adds(pending'[t], tag, id)

(* Steps of the index leave the buckets complete and free of doubles.      *)
LEMMA IndexStep ==
    ASSUME RInv, RTypeOK', metaBy' = metaBy,
           touched \subseteq touched', halfUpdated \subseteq halfUpdated',
           NEW t \in Threads,
           \A id \in Ids : Kept(id) \/ Dropped(id) \/ Added(t, id) \/ Changed(t, id)
    PROVE  Complete' /\ Once'
<1>1. \A id \in Ids : /\ Stored(id) => index[id].meta \subseteq Tags
                      /\ index'[id] # NoRecord => index'[id].meta \subseteq Tags
  BY DEF RInv, RTypeOK, TypeOK, Stored, Tags, Bodies
<1>2. \A tag \in Tags, id \in Ids : metaBy[tag][id] \in Nat
  BY DEF RInv, RTypeOK
<1>3. ASSUME NEW id \in Ids \ halfUpdated'
      PROVE  CompleteAt(id)'
  <2>1. CompleteAt(id)
    BY DEF RInv, Complete
  <2>2. CASE Kept(id)
    BY <1>1, <2>1, <2>2 DEF Kept, SameAdds, CompleteAt, Stored
  <2>3. CASE Dropped(id)
    BY <2>3 DEF Dropped, CompleteAt, Stored
  <2>4. CASE Added(t, id)
    BY <1>1, <2>4 DEF Added, CompleteAt
  <2>5. CASE Changed(t, id)
    BY <1>1, <2>1, <2>5 DEF Changed, CompleteAt, Stored
  <2> QED
    BY <2>2, <2>3, <2>4, <2>5
<1>4. ASSUME NEW id \in Ids \ touched'
      PROVE  OnceAt(id)'
  <2>1. OnceAt(id)
    BY DEF RInv, Once
  <2>2. CASE Kept(id)
    BY <1>1, <2>1, <2>2 DEF Kept, SameAdds, OnceAt, CompleteAt, Stored
  <2>3. CASE Dropped(id)
    BY <2>1, <2>3 DEF Dropped, SameAdds, OnceAt, CompleteAt, Stored
  <2>4. CASE Added(t, id)
    <3>1. ~Stored(id)
      BY <2>4 DEF Added
    <3>2. \A tag \in Tags : metaBy[tag][id] = 0 /\ \A u \in Threads : ~Adds(pending[u], tag, id)
      BY <2>1, <3>1 DEF OnceAt
    <3>3. \A tag \in Tags, u \in Threads :
              Adds(pending'[u], tag, id) <=> u = t /\ tag \in index'[id].meta
      BY <2>4, <3>2 DEF Added
    <3> QED
      BY <1>1, <2>4, <3>2, <3>3 DEF Added, OnceAt, CompleteAt, Stored
  <2>5. CASE Changed(t, id)
    BY <2>5 DEF Changed
  <2> QED
    BY <2>2, <2>3, <2>4, <2>5
<1> QED
  BY <1>3, <1>4 DEF Complete, Once

(* A call of t is the only one whose rest changes.                         *)
LEMMA OnlyMine ==
    ASSUME RInv, NEW t \in Threads, NEW call \in Calls,
           pending' = [pending EXCEPT ![t] = call], WellFormed(call)
    PROVE  /\ pending' \in [Threads -> Calls] /\ CallsWellFormed'
           /\ pending'[t] = call
           /\ \A u \in Threads \ {t} : pending'[u] = pending[u]
BY DEF RInv, RTypeOK, CallsWellFormed

(* The pointer that CreateRecord keeps of what it stored.                  *)
LEMMA NewPointers ==
    ASSUME NEW s \in SUBSET Ids, index' \in [Ids -> Bodies \cup {NoRecord}],
           \A i \in s : index'[i] # NoRecord
    PROVE  /\ Pointers(s) \in SUBSET Held
           /\ \A r, q \in Pointers(s) : r.id = q.id => r = q
           /\ \A i, tag : (\E r \in Pointers(s) : r.id = i /\ tag \in r.meta) <=>
                             i \in s /\ tag \in index'[i].meta
<1> DEFINE P(i) == [id |-> i, meta |-> index'[i].meta, live |-> TRUE]
<1>1. \A i \in s : P(i) \in Held /\ P(i).id = i /\ P(i).meta = index'[i].meta
  BY DEF Bodies, Held
<1>2. Pointers(s) = {P(i) : i \in s}
  BY DEF Pointers
<1> HIDE DEF P
<1> QED
  BY <1>1, <1>2

(* t stored the record id, which was not there, or failed to.              *)
LEMMA SingleCreateInv ==
    ASSUME RInv, IInv', up, up', NEW t \in Threads, Free(t), NEW id \in Ids,
           UNCHANGED <<metaBy, wrapping, halfUpdated, touched>>,
           \/ /\ ~Stored(id) /\ index'[id] # NoRecord
              /\ \A i \in Ids \ {id} : index'[i] = index[i]
              /\ Then(t, Call(<<"create">>, Pointers({id})))
           \/ index' = index /\ pending' = pending
    PROVE  RInv'
<1>1. index' \in [Ids -> Bodies \cup {NoRecord}] /\ pending[t] = Idle
  BY DEF IInv, TypeOK, Free
<1>2. DownIsEmpty'
  BY DEF DownIsEmpty
<1>3. CASE index' = index /\ pending' = pending
  <2>1. RTypeOK' /\ CallsWellFormed' /\ WrapperPoints'
    BY <1>3 DEF RInv, RTypeOK, IInv, CallsWellFormed, WrapperPoints, Stored
  <2>2. \A i \in Ids : Kept(i)
    BY <1>3 DEF Kept, SameAdds, Stored
  <2> QED
    BY <1>2, <2>1, <2>2, IndexStep DEF RInv
<1>4. CASE /\ ~Stored(id) /\ index'[id] # NoRecord
           /\ \A i \in Ids \ {id} : index'[i] = index[i]
           /\ Then(t, Call(<<"create">>, Pointers({id})))
  <2> DEFINE call == Call(<<"create">>, Pointers({id}))
  <2>1. /\ call \in Calls /\ WellFormed(call)
        /\ \A i, tag : Adds(call, tag, i) <=> i = id /\ tag \in index'[i].meta
    <3> DEFINE mine == {id}
               recs == Pointers(mine)
    <3>0. mine \in SUBSET Ids /\ \A i \in mine : index'[i] # NoRecord
      BY <1>4
    <3>1. /\ recs \in SUBSET Held
          /\ \A r, q \in recs : r.id = q.id => r = q
          /\ \A i, tag : (\E r \in recs : r.id = i /\ tag \in r.meta) <=>
                            i \in mine /\ tag \in index'[i].meta
      <4> HIDE DEF mine
      <4> QED
        BY <1>1, <3>0, NewPointers
    <3> HIDE DEF recs
    <3>2. Call(<<"create">>, recs) \in Calls /\ Adding(Call(<<"create">>, recs))
          /\ Call(<<"create">>, recs).recs = recs
          /\ WellFormed(Call(<<"create">>, recs))
      BY <3>1, NewCall
    <3>3. call = Call(<<"create">>, recs)
      BY DEF recs
    <3> HIDE DEF call
    <3> QED
      BY <3>1, <3>2, <3>3 DEF Adds, Carries
  <2> HIDE DEF call
  <2>2. /\ pending' \in [Threads -> Calls] /\ CallsWellFormed'
        /\ pending'[t] = call /\ \A u \in Threads \ {t} : pending'[u] = pending[u]
    BY <1>4, <2>1, OnlyMine DEF Then, call
  <2>3. RTypeOK'
    BY <2>2 DEF RInv, RTypeOK, IInv
  <2>4. WrapperPoints'
    BY <1>4 DEF RInv, RTypeOK, WrapperPoints, Stored, Wraps
  <2>5. Added(t, id)
    BY <1>1, <1>4, <2>1, <2>2, IdleCall DEF Added
  <2>6. \A i \in Ids \ {id} : Kept(i)
    BY <1>1, <1>4, <2>1, <2>2, IdleCall DEF Kept, SameAdds, Stored
  <2> QED
    BY <1>2, <2>2, <2>3, <2>4, <2>5, <2>6, IndexStep DEF RInv
<1> QED
  BY <1>3, <1>4
-----------------------------------------------------------------------------
(* One lemma per method.                                                   *)
LEMMA CreateRecordInv ==
    ASSUME RInv, NEW t \in Threads, NEW body \in Bodies, CreateRecord(t, body)
    PROVE  RInv'
<1>1. Free(t) /\ Create(body) /\ UNCHANGED <<metaBy, wrapping, halfUpdated, touched>>
  BY DEF CreateRecord
<1>2. IInv' /\ up /\ up' /\ nextID \in Ids
  BY <1>1, CreateInv, IdsFacts
     DEF RInv, IInv, TypeOK, Create, CreateStored, Refuse, Commit, FlushError
<1>3. CASE CreateStored(body)
  <2>1. ~Stored(nextID) /\ index' = [index EXCEPT ![nextID] = body] /\ err' = "nil"
    BY <1>3 DEF CreateStored, Commit, Returns
  <2>2. index'[nextID] # NoRecord /\ \A i \in Ids \ {nextID} : index'[i] = index[i]
    BY <1>2, <2>1, OutsideAssumption DEF RInv, IInv, TypeOK
  <2>3. Then(t, Call(<<"create">>, Pointers({nextID})))
    BY <2>1 DEF CreateRecord
  <2> QED
    BY <1>1, <1>2, <2>1, <2>2, <2>3, SingleCreateInv
<1>4. CASE ~CreateStored(body)
  <2>1. index' = index /\ err' # "nil"
    BY <1>1, <1>4 DEF Create, Refuse, FlushError, Returns
  <2>2. pending' = pending
    BY <2>1 DEF CreateRecord
  <2> QED
    BY <1>1, <1>2, <2>1, <2>2, SingleCreateInv
<1> QED
  BY <1>3, <1>4

LEMMA CreateRecordWithIdInv ==
    ASSUME RInv, NEW t \in Threads, NEW id \in Ids, NEW body \in Bodies,
           CreateRecordWithId(t, id, body)
    PROVE  RInv'
<1>1. Free(t) /\ CreateWithId(id, body) /\ UNCHANGED <<metaBy, wrapping, halfUpdated, touched>>
  BY DEF CreateRecordWithId
<1>2. IInv' /\ up /\ up'
  BY <1>1, CreateWithIdInv DEF RInv, CreateWithId, Refuse, Commit, FlushError
<1>3. CASE ~Stored(id) /\ Commit(id, body)
  <2>1. index' = [index EXCEPT ![id] = body] /\ err' = "nil"
    BY <1>3 DEF Commit, Returns
  <2>2. index'[id] # NoRecord /\ \A i \in Ids \ {id} : index'[i] = index[i]
    BY <2>1, OutsideAssumption DEF RInv, IInv, TypeOK
  <2>3. Then(t, Call(<<"create">>, Pointers({id})))
    BY <2>1 DEF CreateRecordWithId
  <2> QED
    BY <1>1, <1>2, <1>3, <2>2, <2>3, SingleCreateInv
<1>4. CASE ~(~Stored(id) /\ Commit(id, body))
  <2>1. index' = index /\ err' # "nil"
    BY <1>1, <1>4 DEF CreateWithId, Refuse, FlushError, Returns
  <2>2. pending' = pending
    BY <2>1 DEF CreateRecordWithId
  <2> QED
    BY <1>1, <1>2, <2>1, <2>2, SingleCreateInv
<1> QED
  BY <1>3, <1>4

(* The records of gone left the index: wrappers of them are detached.      *)
LEMMA DetachedWrapper ==
    ASSUME RInv, up', NEW gone \in SUBSET Ids, WrapDetached(gone),
           \A i \in Ids \ gone : index'[i] = index[i]
    PROVE  WrapperPoints' /\ wrapping' \in Wraps \cup {NoRecord}
BY DEF RInv, RTypeOK, WrapperPoints, WrapDetached, Stored, Wraps

(* The other calls after gone left the index.                              *)
LEMMA DetachedOthers ==
    ASSUME RInv, NEW gone
    PROVE  LET others == [u \in Threads |-> Detached(pending[u], gone)] IN
           /\ others \in [Threads -> Calls]
           /\ \A u \in Threads : WellFormed(others[u])
           /\ \A u \in Threads : \A tag, i :
                 Adds(others[u], tag, i) <=> Adds(pending[u], tag, i)
<1>1. \A u \in Threads : pending[u] \in Calls /\ WellFormed(pending[u])
  BY DEF RInv, RTypeOK, CallsWellFormed
<1> QED
  BY <1>1, DetachedCall

LEMMA CreateRecordsWithIdInv ==
    ASSUME RInv, NEW t \in Threads, NEW s \in SUBSET Ids, NEW b \in [s -> Bodies],
           CreateRecordsWithId(t, b)
    PROVE  RInv'
<1> DEFINE others == [u \in Threads |-> Detached(pending[u], s)]
           call == Call(<<"update">>, Pointers(s))
<1>1. /\ pending[t] = Idle /\ CreateManyWIthId(b) /\ WrapDetached(s)
      /\ touched' = touched \cup {id \in s : Stored(id)}
      /\ metaBy' = metaBy /\ halfUpdated' = halfUpdated
      /\ pending' = IF err' = "nil" THEN [others EXCEPT ![t] = call] ELSE others
  BY DEF CreateRecordsWithId, Free
<1>2. IInv' /\ up /\ up'
  BY <1>1, CreateManyStoredInv, CreateManyRollbackInv
     DEF RInv, CreateManyWIthId, CreateManyStored, CreateManyRollback
<1>3. \A i \in Ids \ s : index'[i] = index[i]
  BY <1>1 DEF CreateManyWIthId, CreateManyStored, CreateManyRollback
<1>4. WrapperPoints' /\ wrapping' \in Wraps \cup {NoRecord} /\ DownIsEmpty'
  BY <1>1, <1>2, <1>3, DetachedWrapper DEF DownIsEmpty
<1>5. /\ others \in [Threads -> Calls]
      /\ \A u \in Threads : WellFormed(others[u])
      /\ \A u \in Threads : \A tag, i : Adds(others[u], tag, i) <=> Adds(pending[u], tag, i)
  BY DetachedOthers
<1>6. index' \in [Ids -> Bodies \cup {NoRecord}] /\ touched' \subseteq Ids
  BY <1>1, <1>2 DEF IInv, TypeOK, RInv, RTypeOK
<1> HIDE DEF others
<1>7. CASE CreateManyStored(b)
  <2>1. \A i \in s : index'[i] = b[i] /\ index'[i] # NoRecord
    BY <1>7, OutsideAssumption DEF CreateManyStored
  <2>2. err' = "nil" /\ pending' = [others EXCEPT ![t] = call]
    BY <1>1, <1>7 DEF CreateManyStored, Returns
  <2>3. /\ call \in Calls /\ WellFormed(call)
        /\ \A i, tag : Adds(call, tag, i) <=> i \in s /\ tag \in index'[i].meta
    <3>1. /\ Pointers(s) \in SUBSET Held
          /\ \A r, q \in Pointers(s) : r.id = q.id => r = q
          /\ \A i, tag : (\E r \in Pointers(s) : r.id = i /\ tag \in r.meta) <=>
                            i \in s /\ tag \in index'[i].meta
      BY <1>6, <2>1, NewPointers
    <3>2. call \in Calls /\ Adding(call) /\ call.recs = Pointers(s) /\ WellFormed(call)
      BY <3>1, NewCall
    <3> HIDE DEF call
    <3> QED
      BY <3>1, <3>2 DEF Adds, Carries
  <2> HIDE DEF call
  <2>4. /\ pending' \in [Threads -> Calls] /\ CallsWellFormed'
        /\ pending'[t] = call /\ \A u \in Threads \ {t} : pending'[u] = others[u]
    BY <1>5, <2>2, <2>3 DEF CallsWellFormed
  <2>5. RTypeOK'
    BY <1>1, <1>2, <1>4, <1>6, <2>4 DEF RInv, RTypeOK, IInv
  <2>6. \A i \in s : Added(t, i)
    BY <1>1, <1>5, <2>1, <2>3, <2>4, IdleCall DEF Added
  <2>7. \A i \in Ids \ s : Kept(i)
    BY <1>1, <1>3, <1>5, <2>3, <2>4, IdleCall DEF Kept, SameAdds, Stored
  <2> QED
    BY <1>1, <1>2, <1>4, <2>4, <2>5, <2>6, <2>7, IndexStep DEF RInv
<1>8. CASE CreateManyRollback(b)
  <2>1. \A i \in s : index'[i] = NoRecord
    BY <1>8 DEF CreateManyRollback
  <2>2. pending' = others
    BY <1>1, <1>8 DEF CreateManyRollback, Returns
  <2>3. RTypeOK' /\ CallsWellFormed'
    BY <1>1, <1>2, <1>4, <1>5, <1>6, <2>2 DEF RInv, RTypeOK, IInv, CallsWellFormed
  <2>4. \A i \in s : Dropped(i)
    BY <1>1, <1>5, <2>1, <2>2 DEF Dropped, SameAdds
  <2>5. \A i \in Ids \ s : Kept(i)
    BY <1>3, <1>5, <2>2 DEF Kept, SameAdds, Stored
  <2> QED
    BY <1>1, <1>2, <1>4, <2>3, <2>4, <2>5, IndexStep DEF RInv
<1> QED
  BY <1>1, <1>7, <1>8 DEF CreateManyWIthId

(* An Update that changed the record in memory, flushed or not.            *)
LEMMA InPlaceInv ==
    ASSUME RInv, IInv', up, up', NEW t \in Threads, pending[t] = Idle,
           NEW id \in Ids, NEW src \in Bodies, Stored(id),
           index' = [index EXCEPT ![id] = Copy(index[id], src)],
           WrapRaced(id), metaBy' = metaBy, touched' = touched \cup {id},
           LET others == [u \in Threads |-> Followed(pending[u], id)]
               request == [id |-> id, meta |-> src.meta, live |-> FALSE]
           IN  \/ /\ halfUpdated' = halfUpdated
                  /\ pending' = [others EXCEPT ![t] = Call(<<"remove", "create">>, {request})]
               \/ halfUpdated' = halfUpdated \cup {id} /\ pending' = others
    PROVE  RInv'
<1> DEFINE others == [u \in Threads |-> Followed(pending[u], id)]
           request == [id |-> id, meta |-> src.meta, live |-> FALSE]
           call == Call(<<"remove", "create">>, {request})
<1>1. /\ index[id] \in Bodies /\ index'[id] = Copy(index[id], src)
      /\ index'[id] \in Bodies
      /\ \A i \in Ids \ {id} : index'[i] = index[i]
  BY CopyType DEF RInv, RTypeOK, TypeOK, Stored
<1>2. /\ index'[id].meta \in Metas /\ index'[id] # NoRecord
      /\ index'[id].meta = src.meta \/ index'[id].meta = index[id].meta
  BY <1>1, OutsideAssumption DEF Copy, Bodies
<1>3. /\ others \in [Threads -> Calls]
      /\ \A u \in Threads : WellFormed(others[u])
      /\ \A u \in Threads : \A tag, i : i # id =>
            (Adds(others[u], tag, i) <=> Adds(pending[u], tag, i))
      /\ \A u \in Threads : \A tag \in index'[id].meta :
            Adds(pending[u], tag, id) => Adds(others[u], tag, id)
  <2>1. \A u \in Threads : pending[u] \in Calls /\ WellFormed(pending[u])
    BY DEF RInv, RTypeOK, CallsWellFormed
  <2> QED
    BY <1>2, <2>1, FollowedCall
<1>4. /\ call \in Calls /\ WellFormed(call)
      /\ \A tag, i : Adds(call, tag, i) <=> i = id /\ tag \in src.meta
  <2>1. /\ {request} \in SUBSET Held /\ request.id = id /\ request.meta = src.meta
    BY DEF Held, Bodies
  <2> HIDE DEF request
  <2> DEFINE recs == {request}
  <2>2. recs \in SUBSET Held /\ \A r : r \in recs <=> r = request
    BY <2>1
  <2> HIDE DEF recs
  <2>3. /\ Call(<<"remove", "create">>, recs) \in Calls
        /\ Adding(Call(<<"remove", "create">>, recs))
        /\ Call(<<"remove", "create">>, recs).recs = recs
        /\ WellFormed(Call(<<"remove", "create">>, recs))
    BY <2>2, NewCall
  <2>4. call = Call(<<"remove", "create">>, recs)
    BY DEF recs
  <2> HIDE DEF call
  <2> QED
    BY <2>1, <2>2, <2>3, <2>4 DEF Adds, Carries
<1>5. \/ halfUpdated' = halfUpdated /\ pending' = [others EXCEPT ![t] = call]
      \/ halfUpdated' = halfUpdated \cup {id} /\ pending' = others
  OBVIOUS
<1> HIDE DEF others, call
<1>6. WrapperPoints' /\ wrapping' \in Wraps \cup {NoRecord} /\ DownIsEmpty'
  BY <1>1, <1>2 DEF RInv, RTypeOK, WrapperPoints, WrapRaced, Stored, Wraps, DownIsEmpty
<1>7. pending' \in [Threads -> Calls] /\ CallsWellFormed'
  BY <1>3, <1>4, <1>5 DEF CallsWellFormed
<1>8. RTypeOK'
  BY <1>5, <1>6, <1>7 DEF RInv, RTypeOK, IInv
<1>9. \A i \in Ids \ {id} : Kept(i)
  BY <1>1, <1>3, <1>4, <1>5, IdleCall DEF Kept, SameAdds, Stored
<1>10. Changed(t, id)
  <2>1. CASE halfUpdated' = halfUpdated \cup {id}
    BY <2>1 DEF Changed
  <2>2. CASE pending' = [others EXCEPT ![t] = call]
    <3>1. pending'[t] = call /\ \A u \in Threads \ {t} : pending'[u] = others[u]
      BY <1>3, <2>2
    <3>2. CASE index'[id].meta = src.meta
      BY <1>4, <3>1, <3>2 DEF Changed
    <3>3. CASE index'[id].meta = index[id].meta
      BY <1>3, <3>1, <3>3, IdleCall DEF Changed
    <3> QED
      BY <1>2, <3>2, <3>3
  <2> QED
    BY <1>5, <2>1, <2>2
<1> QED
  BY <1>5, <1>6, <1>7, <1>8, <1>9, <1>10, IndexStep DEF RInv

LEMMA UpdateRecordInv ==
    ASSUME RInv, NEW t \in Threads, NEW id \in Ids, NEW src \in Bodies,
           UpdateRecord(t, id, src)
    PROVE  RInv'
<1>1. pending[t] = Idle /\ Update(id, src) /\ metaBy' = metaBy
  BY DEF UpdateRecord, Free
<1>2. IInv' /\ up /\ up'
  BY <1>1, UpdateInv DEF RInv, Update, Refuse, Commit, FlushError
<1>3. CASE ~Stored(id) /\ Refuse("ErrRecordNotFound")
  <2>1. /\ index' = index /\ pending' = pending /\ wrapping' = wrapping
        /\ halfUpdated' = halfUpdated /\ touched' = touched
    BY <1>3 DEF UpdateRecord, Refuse, Returns
  <2>2. RTypeOK' /\ CallsWellFormed' /\ WrapperPoints' /\ DownIsEmpty'
    BY <1>1, <1>2, <2>1 DEF RInv, RTypeOK, IInv, CallsWellFormed, WrapperPoints, Stored, DownIsEmpty
  <2>3. \A i \in Ids : Kept(i)
    BY <2>1 DEF Kept, SameAdds, Stored
  <2> QED
    BY <1>1, <1>2, <2>1, <2>2, <2>3, IndexStep DEF RInv
<1>4. CASE Stored(id) /\ Commit(id, Copy(index[id], src))
  <2>1. err' = "nil" /\ index' = [index EXCEPT ![id] = Copy(index[id], src)]
    BY <1>4 DEF Commit, Returns
  <2>2. /\ WrapRaced(id) /\ touched' = touched \cup {id} /\ halfUpdated' = halfUpdated
        /\ pending' = [[u \in Threads |-> Followed(pending[u], id)] EXCEPT ![t] =
               Call(<<"remove", "create">>, {[id |-> id, meta |-> src.meta, live |-> FALSE]})]
    BY <1>4, <2>1 DEF UpdateRecord
  <2> QED
    BY <1>1, <1>2, <1>4, <2>1, <2>2, InPlaceInv
<1>5. CASE /\ Stored(id)
           /\ index' = [index EXCEPT ![id] = Copy(index[id], src)]
           /\ FlushError(id, Copy(index[id], src))
  <2>1. err' = "flush"
    BY <1>5 DEF FlushError, Returns
  <2>2. /\ WrapRaced(id) /\ touched' = touched \cup {id}
        /\ halfUpdated' = halfUpdated \cup {id}
        /\ pending' = [u \in Threads |-> Followed(pending[u], id)]
    BY <1>5, <2>1 DEF UpdateRecord
  <2> QED
    BY <1>1, <1>2, <1>5, <2>2, InPlaceInv
<1> QED
  BY <1>1, <1>3, <1>4, <1>5 DEF Update

LEMMA DeleteRecordsInv ==
    ASSUME RInv, NEW t \in Threads, NEW ids \in SUBSET Ids, DeleteRecords(t, ids)
    PROVE  RInv'
<1> DEFINE gone == {id \in ids : Stored(id)}
           recs == {[id |-> i, meta |-> index[i].meta, live |-> FALSE] : i \in gone}
           others == [u \in Threads |-> Detached(pending[u], gone)]
           call == Call(<<"remove">>, recs)
<1>1. /\ pending[t] = Idle /\ DeleteMany(ids) /\ WrapDetached(gone)
      /\ touched' = touched \cup gone /\ metaBy' = metaBy /\ halfUpdated' = halfUpdated
      /\ pending' = IF gone = {} THEN pending ELSE [others EXCEPT ![t] = call]
      /\ gone \in SUBSET Ids
  BY DEF DeleteRecords, Free
<1>2. IInv' /\ up /\ up'
  BY <1>1, DeleteManyInv DEF RInv, DeleteMany
<1>3. \A i \in Ids : index'[i] = IF i \in gone THEN NoRecord ELSE index[i]
  BY <1>1 DEF DeleteMany
<1>4. call \in Calls /\ WellFormed(call) /\ \A tag, i : ~Adds(call, tag, i)
  <2> DEFINE P(i) == [id |-> i, meta |-> index[i].meta, live |-> FALSE]
  <2>1. \A i \in gone : P(i) \in Held /\ P(i).id = i
    BY DEF Held, Stored, RInv, RTypeOK, TypeOK, Bodies
  <2>2. recs = {P(i) : i \in gone}
    OBVIOUS
  <2> HIDE DEF P, gone, recs
  <2>3. recs \in SUBSET Held /\ \A r, q \in recs : r.id = q.id => r = q
    BY <2>1, <2>2
  <2>4. call \in Calls /\ ~Adding(call) /\ WellFormed(call)
    BY <2>3, NewCall
  <2> QED
    BY <2>4 DEF Adds
<1>5. /\ others \in [Threads -> Calls]
      /\ \A u \in Threads : WellFormed(others[u])
      /\ \A u \in Threads : \A tag, i : Adds(others[u], tag, i) <=> Adds(pending[u], tag, i)
  BY DetachedOthers
<1>6. \A i \in gone : Stored(i)
  OBVIOUS
<1> HIDE DEF gone, recs, others, call
<1>7. WrapperPoints' /\ wrapping' \in Wraps \cup {NoRecord} /\ DownIsEmpty'
  BY <1>1, <1>2, <1>3, DetachedWrapper DEF DownIsEmpty
<1>8. /\ pending' \in [Threads -> Calls] /\ CallsWellFormed'
      /\ \A i \in Ids : SameAdds(i)
  <2>1. CASE gone = {}
    BY <1>1, <2>1 DEF RInv, RTypeOK, CallsWellFormed, SameAdds
  <2>2. CASE gone # {}
    BY <1>1, <1>4, <1>5, <2>2, IdleCall DEF CallsWellFormed, SameAdds
  <2> QED
    BY <2>1, <2>2
<1>9. RTypeOK'
  BY <1>1, <1>2, <1>7, <1>8 DEF RInv, RTypeOK, IInv
<1>10. \A i \in Ids : Kept(i) \/ Dropped(i)
  BY <1>1, <1>3, <1>8 DEF Kept, Dropped, Stored
<1> QED
  BY <1>1, <1>2, <1>7, <1>8, <1>9, <1>10, IndexStep DEF RInv

(* A step that changes no record and no bucket.                            *)
LEMMA QuietStep ==
    ASSUME RInv, IInv', RTypeOK', CallsWellFormed', WrapperPoints', DownIsEmpty',
           UNCHANGED <<metaBy, pending, halfUpdated, touched>>,
           \A i \in Ids : /\ index'[i] # NoRecord <=> Stored(i)
                          /\ Stored(i) => index'[i].meta = index[i].meta
    PROVE  RInv'
<1>1. Complete'
  BY DEF RInv, Complete, CompleteAt, Stored
<1>2. Once'
  BY DEF RInv, Once, OnceAt, CompleteAt, Stored
<1> QED
  BY <1>1, <1>2 DEF RInv

LEMMA WrapRecordInv ==
    ASSUME RInv, NEW t \in Threads, NEW id \in Ids, WrapRecord(t, id)
    PROVE  RInv'
<1>1. /\ up /\ Stored(id) /\ UNCHANGED <<vars, metaBy, pending, halfUpdated, touched>>
      /\ wrapping' = [by |-> t, id |-> id, data |-> index[id].data,
                      live |-> TRUE, made |-> FALSE, raced |-> FALSE]
  BY DEF WrapRecord
<1>2. IInv' /\ up' /\ index' = index
  BY <1>1, NextInv DEF RInv, vars
<1>3. wrapping' \in Wraps
  BY <1>1 DEF Wraps, RInv, RTypeOK, TypeOK, Stored, Bodies
<1>4. WrapperPoints'
  BY <1>1, <1>2 DEF WrapperPoints, Stored
<1>5. RTypeOK' /\ CallsWellFormed' /\ DownIsEmpty'
  BY <1>1, <1>2, <1>3 DEF RInv, RTypeOK, IInv, CallsWellFormed, DownIsEmpty
<1> QED
  BY <1>1, <1>2, <1>4, <1>5, QuietStep DEF Stored

(* SetData changes the Data of one record, and then its promise is gone.   *)
LEMMA SetDataInv ==
    ASSUME RInv, wrapping # NoRecord, NEW d \in Datas \cup {Nil}, SetData(wrapping, d), up,
           UNCHANGED <<up, nextID, err, faults, foreign>>
    PROVE  /\ IInv'
           /\ \A i \in Ids : /\ index'[i] # NoRecord <=> Stored(i)
                             /\ Stored(i) => index'[i].meta = index[i].meta
<1> DEFINE w == wrapping
<1>1. w \in Wraps /\ w.id \in Ids /\ w.live \in BOOLEAN
  BY DEF RInv, RTypeOK, Wraps
<1>2. w.live => Stored(w.id) /\ index[w.id] \in Bodies
  BY <1>1 DEF RInv, RTypeOK, TypeOK, WrapperPoints, Stored
<1>3. CASE UNCHANGED <<index, disk, acked>>
  BY <1>3, NextInv DEF RInv, vars, Stored
<1>5. CASE /\ w.live
           /\ index' = [index EXCEPT ![w.id].data = d]
           /\ disk' \in {disk, [disk EXCEPT ![w.id] = Encoded(w.id, index'[w.id])]}
           /\ acked' = IF index' = index /\ disk' = disk THEN acked
                       ELSE [acked EXCEPT ![w.id] = Unknown]
  <2> DEFINE body == [index[w.id] EXCEPT !.data = d]
  <2>2. body \in Bodies /\ body.meta = index[w.id].meta /\ body # NoRecord
    BY <1>2, <1>5, OutsideAssumption DEF Bodies
  <2> HIDE DEF body
  <2>3. index' = [index EXCEPT ![w.id] = body]
    BY <1>5 DEF body
  <2>4. index'[w.id] = body /\ \A i \in Ids \ {w.id} : index'[i] = index[i]
    BY <1>1, <2>3 DEF RInv, RTypeOK, TypeOK
  <2>5. Encoded(w.id, body) \in Files \cup {NoFile, Corrupt} /\ Encoded(w.id, body).id = w.id
    BY <1>1, <2>2, EncodedFile
  <2>6. TypeOK' /\ FilesHoldTheirId'
    BY <1>1, <1>5, <2>2, <2>3, <2>4, <2>5 DEF RInv, IInv, TypeOK, FilesHoldTheirId
  <2>7. Durable'
    BY <1>1, <1>5, <2>4 DEF RInv, IInv, TypeOK, Durable, DurableAt
  <2>8. \A i \in Ids : /\ index'[i] # NoRecord <=> Stored(i)
                       /\ Stored(i) => index'[i].meta = index[i].meta
    BY <1>2, <1>5, <2>2, <2>4 DEF Stored
  <2>9. NextIdIsFresh'
    BY <2>8 DEF RInv, IInv, NextIdIsFresh, Stored
  <2> QED
    BY <2>6, <2>7, <2>8, <2>9 DEF IInv
<1> QED
  BY <1>3, <1>5 DEF SetData

(* A step in which at most SetData happens to the stored records.          *)
LEMMA WrapperStep ==
    ASSUME RInv, NEW d \in Datas \cup {Nil}, SetData(wrapping, d), up,
           wrapping # NoRecord, wrapping' \in Wraps,
           wrapping'.id = wrapping.id, wrapping'.live = wrapping.live,
           UNCHANGED <<up, nextID, err, faults, foreign, metaBy, pending, halfUpdated, touched>>
    PROVE  RInv'
<1>1. /\ IInv'
      /\ \A i \in Ids : /\ index'[i] # NoRecord <=> Stored(i)
                        /\ Stored(i) => index'[i].meta = index[i].meta
  BY SetDataInv
<1>2. wrapping.id \in Ids
  BY DEF RInv, RTypeOK, Wraps
<1>3. RTypeOK' /\ CallsWellFormed' /\ DownIsEmpty'
  BY <1>1 DEF RInv, RTypeOK, IInv, CallsWellFormed, DownIsEmpty
<1>4. WrapperPoints'
  BY <1>1, <1>2 DEF RInv, WrapperPoints, Stored
<1> QED
  BY <1>1, <1>3, <1>4, QuietStep

LEMMA WrappedInv ==
    ASSUME RInv, Wrapped
    PROVE  RInv'
<1>1. /\ up /\ wrapping # NoRecord /\ wrapping' = [wrapping EXCEPT !.made = TRUE]
      /\ UNCHANGED <<up, nextID, err, faults, foreign, metaBy, pending, halfUpdated, touched>>
      /\ \E d \in Datas \cup {Nil} : SetData(wrapping, d)
  BY DEF Wrapped
<1>2. wrapping \in Wraps
  BY <1>1 DEF RInv, RTypeOK
<1>3. wrapping' \in Wraps /\ wrapping'.id = wrapping.id /\ wrapping'.live = wrapping.live
  BY <1>1, <1>2 DEF Wraps
<1> QED
  BY <1>1, <1>3, WrapperStep

LEMMA OracleSetsDataInv ==
    ASSUME RInv, OracleSetsData
    PROVE  RInv'
<1>1. /\ up /\ wrapping # NoRecord /\ wrapping' = wrapping
      /\ UNCHANGED <<up, nextID, err, faults, foreign, metaBy, pending, halfUpdated, touched>>
      /\ \E d \in Datas \cup {Nil} : SetData(wrapping, d)
  BY DEF OracleSetsData
<1>2. wrapping' \in Wraps
  BY <1>1 DEF RInv, RTypeOK
<1> QED
  BY <1>1, <1>2, WrapperStep

LEMMA OracleReturnsInv ==
    ASSUME RInv, OracleReturns
    PROVE  RInv'
<1>1. up /\ wrapping' = NoRecord /\ UNCHANGED <<vars, metaBy, pending, halfUpdated, touched>>
  BY DEF OracleReturns
<1>2. IInv' /\ up' /\ index' = index
  BY <1>1, NextInv DEF RInv, vars
<1>3. RTypeOK' /\ CallsWellFormed' /\ WrapperPoints' /\ DownIsEmpty'
  BY <1>1, <1>2 DEF RInv, RTypeOK, IInv, CallsWellFormed, WrapperPoints, DownIsEmpty
<1> QED
  BY <1>1, <1>2, <1>3, QuietStep DEF Stored

(* A critical section of a call: it takes nothing out of the buckets, or   *)
(* it is the one that appends.                                             *)
LEMMA MetaStepCases ==
    ASSUME RInv, NEW t \in Threads, MetaStep(t)
    PROVE  \E call \in Calls :
              /\ WellFormed(call) /\ pending' = [pending EXCEPT ![t] = call]
              /\ \/ /\ metaBy' = metaBy
                    /\ \A tag, id : Adds(call, tag, id) <=> Adds(pending[t], tag, id)
                 \/ /\ Adding(pending[t]) /\ call = Idle
                    /\ metaBy' = MetaIndexCreate(metaBy, pending[t].recs)
<1> DEFINE c == pending[t]
<1>1. c \in Calls /\ WellFormed(c) /\ c # Idle
  BY DEF RInv, RTypeOK, CallsWellFormed, MetaStep
<1>2. /\ metaBy' = CASE Head(c.steps) = "remove" -> MetaIndexRemove(metaBy, c.recs)
                     [] Head(c.steps) = "create" -> MetaIndexCreate(metaBy, c.recs)
                     [] Head(c.steps) = "update" -> MetaIndexUpdate(metaBy, c.recs)
      /\ pending' = [pending EXCEPT ![t] =
                        IF Len(c.steps) = 1 THEN Idle ELSE [c EXCEPT !.steps = Tail(@)]]
  BY DEF MetaStep, Then
<1>3. c.recs \in SUBSET Held
  BY <1>1, CallFields
<1>4. CASE c.steps = <<>>
  BY <1>1, <1>4, CallFields DEF WellFormed, Idle
<1>5. CASE c.steps = <<"remove">>
  <2>1. metaBy' = metaBy /\ pending' = [pending EXCEPT ![t] = Idle] /\ ~Adding(c)
    BY <1>2, <1>5 DEF MetaIndexRemove, Adding
  <2> QED
    BY <2>1, IdleCall DEF Adds
<1>6. CASE c.steps = <<"remove", "create">>
  <2> DEFINE rest == [c EXCEPT !.steps = Tail(@)]
  <2>1. metaBy' = metaBy /\ pending' = [pending EXCEPT ![t] = rest] /\ Adding(c)
    BY <1>2, <1>6 DEF MetaIndexRemove, Adding
  <2>2. rest = Call(<<"create">>, c.recs)
    BY <1>1, <1>6, CallFields DEF Call
  <2> HIDE DEF rest
  <2>3. \A r, q \in c.recs : r.id = q.id => r = q
    BY <1>1 DEF WellFormed
  <2>4. rest \in Calls /\ WellFormed(rest) /\ Adding(rest) /\ rest.recs = c.recs
    BY <1>3, <2>2, <2>3, NewCall
  <2> QED
    BY <2>1, <2>4 DEF Adds, Carries
<1>7. CASE c.steps \in {<<"create">>, <<"update">>}
  <2>1. /\ metaBy' = MetaIndexCreate(metaBy, c.recs)
        /\ pending' = [pending EXCEPT ![t] = Idle] /\ Adding(c)
    <3>1. CASE c.steps = <<"create">>
      BY <1>2, <3>1 DEF Adding
    <3>2. CASE c.steps = <<"update">>
      BY <1>2, <3>2 DEF Adding, MetaIndexUpdate, MetaIndexRemove
    <3> QED
      BY <1>7, <3>1, <3>2
  <2> QED
    BY <2>1, IdleCall
<1> QED
  BY <1>1, <1>4, <1>5, <1>6, <1>7, CallFields

LEMMA MetaStepInv ==
    ASSUME RInv, NEW t \in Threads, MetaStep(t)
    PROVE  RInv'
<1>1. up /\ UNCHANGED <<vars, wrapping, halfUpdated, touched>>
  BY DEF MetaStep
<1>2. IInv' /\ up' /\ index' = index
  BY <1>1, NextInv DEF RInv, vars
<1>3. WrapperPoints' /\ DownIsEmpty'
  BY <1>1, <1>2 DEF RInv, WrapperPoints, DownIsEmpty, Stored
<1>4. PICK call \in Calls :
          /\ WellFormed(call) /\ pending' = [pending EXCEPT ![t] = call]
          /\ \/ /\ metaBy' = metaBy
                /\ \A tag, id : Adds(call, tag, id) <=> Adds(pending[t], tag, id)
             \/ /\ Adding(pending[t]) /\ call = Idle
                /\ metaBy' = MetaIndexCreate(metaBy, pending[t].recs)
  BY MetaStepCases
<1>5. /\ pending' \in [Threads -> Calls] /\ CallsWellFormed' /\ pending'[t] = call
      /\ \A u \in Threads \ {t} : pending'[u] = pending[u]
  BY <1>4, OnlyMine
<1>6. CASE /\ metaBy' = metaBy
           /\ \A tag, id : Adds(call, tag, id) <=> Adds(pending[t], tag, id)
  <2>1. RTypeOK'
    BY <1>1, <1>2, <1>5, <1>6 DEF RInv, RTypeOK, IInv
  <2>2. \A i \in Ids : Kept(i)
    BY <1>2, <1>5, <1>6 DEF Kept, SameAdds, Stored
  <2> QED
    BY <1>1, <1>2, <1>3, <1>5, <1>6, <2>1, <2>2, IndexStep DEF RInv
<1>7. CASE /\ Adding(pending[t]) /\ call = Idle
           /\ metaBy' = MetaIndexCreate(metaBy, pending[t].recs)
  <2>1. /\ pending[t].recs \in SUBSET Held /\ metaBy \in [Tags -> [Ids -> Nat]]
        /\ \A r, q \in pending[t].recs : r.id = q.id => r = q
    BY CallFields DEF RInv, RTypeOK, CallsWellFormed, WellFormed
  <2>2. /\ metaBy' \in [Tags -> [Ids -> Nat]]
        /\ \A tag \in Tags, id \in Ids :
              metaBy'[tag][id] = IF Adds(pending[t], tag, id)
                                 THEN metaBy[tag][id] + 1 ELSE metaBy[tag][id]
    BY <1>7, <2>1, MetaIndexCreateAdds DEF Adds, Carries
  <2>3. RTypeOK'
    BY <1>1, <1>2, <1>5, <2>2 DEF RInv, RTypeOK, IInv
  <2>4. \A tag, id : /\ ~Adds(pending'[t], tag, id)
                     /\ \A u \in Threads \ {t} :
                           Adds(pending'[u], tag, id) <=> Adds(pending[u], tag, id)
    BY <1>5, <1>7, IdleCall
  <2>5. \A id \in Ids : Stored(id) => index[id].meta \subseteq Tags
    BY DEF RInv, RTypeOK, TypeOK, Stored, Tags, Bodies
  <2>6. \A id \in Ids, tag \in Tags : metaBy[tag][id] \in Nat
    BY <2>1
  <2>7. ASSUME NEW id \in Ids, CompleteAt(id)
        PROVE  CompleteAt(id)'
    <3>1. Stored(id)' <=> Stored(id)
      BY <1>2 DEF Stored
    <3> QED
      BY <1>2, <2>2, <2>4, <2>5, <2>6, <2>7, <3>1 DEF CompleteAt
  <2>8. ASSUME NEW id \in Ids \ touched
        PROVE  OnceAt(id)'
    <3>1. OnceAt(id) /\ (Stored(id)' <=> Stored(id))
      BY <1>2 DEF RInv, Once, Stored
    <3>2. CompleteAt(id)'
      BY <2>7, <3>1 DEF OnceAt
    <3> QED
      BY <1>2, <2>2, <2>4, <2>6, <3>1, <3>2 DEF OnceAt
  <2>9. Complete' /\ Once'
    BY <1>1, <2>7, <2>8 DEF RInv, Complete, Once
  <2> QED
    BY <1>2, <1>3, <1>5, <2>3, <2>9 DEF RInv
<1> QED
  BY <1>4, <1>6, <1>7

-----------------------------------------------------------------------------
(* The process dies and starts.                                            *)
LEMMA EmptyBuckets ==
    ASSUME IInv, metaBy = [tag \in Tags |-> [id \in Ids |-> 0]],
           pending = [t \in Threads |-> Idle], wrapping = NoRecord,
           halfUpdated = {}, touched = {}, \A id \in Ids : ~Stored(id)
    PROVE  RInv
<1>1. RTypeOK /\ CallsWellFormed /\ WrapperPoints /\ DownIsEmpty
  BY IdleCall DEF IInv, RTypeOK, CallsWellFormed, WrapperPoints, DownIsEmpty
<1>2. Complete
  BY DEF Complete, CompleteAt
<1>3. Once
  BY IdleCall DEF Once, OnceAt, CompleteAt
<1> QED
  BY <1>1, <1>2, <1>3 DEF RInv

LEMMA RInitInv == RInit => RInv
<1> SUFFICES ASSUME RInit PROVE RInv
  OBVIOUS
<1>1. IInv /\ \A id \in Ids : ~Stored(id)
  BY InitInv DEF RInit, Init, Stored
<1> QED
  BY <1>1, EmptyBuckets DEF RInit

LEMMA DieInv ==
    ASSUME RInv, Die
    PROVE  RInv'
<1>1. IInv'
  BY CrashInv, CrashInFlushInv DEF Die, RInv
<1>2. ~up' /\ \A id \in Ids : index'[id] = NoRecord
  BY DEF Die, Crash, CrashInFlush, LoseMemory
<1>3. RTypeOK' /\ CallsWellFormed' /\ WrapperPoints' /\ DownIsEmpty'
  BY <1>1, <1>2, IdleCall
     DEF Die, IInv, RTypeOK, CallsWellFormed, WrapperPoints, DownIsEmpty, Stored
<1>4. Complete'
  BY <1>2 DEF Complete, CompleteAt, Stored
<1>5. Once'
  BY <1>2, IdleCall DEF Die, Once, OnceAt, CompleteAt, Stored
<1> QED
  BY <1>1, <1>3, <1>4, <1>5 DEF RInv

(* LoadRecords appends every record it has loaded to empty buckets.        *)
LEMMA LoadRecordsInv ==
    ASSUME RInv, LoadRecords
    PROVE  RInv'
<1>1. /\ Load /\ ~up /\ metaBy' = MetaIndexCreate(metaBy, LoadedRecords)
      /\ pending' = pending /\ wrapping' = wrapping
      /\ halfUpdated' = halfUpdated /\ touched' = touched
  BY DEF LoadRecords, Load
<1>2. IInv' /\ index' \in [Ids -> Bodies \cup {NoRecord}]
  BY <1>1, LoadInv DEF RInv, IInv, TypeOK
<1>3. /\ \A t \in Threads : pending[t] = Idle
      /\ \A tag \in Tags, id \in Ids : metaBy[tag][id] = 0
      /\ wrapping = NoRecord
  BY <1>1 DEF RInv, DownIsEmpty, WrapperPoints
<1>4. /\ LoadedRecords \in SUBSET Held
      /\ \A r, q \in LoadedRecords : r.id = q.id => r = q
      /\ \A i \in Ids, tag \in Tags :
            (\E r \in LoadedRecords : r.id = i /\ tag \in r.meta) <=>
                index'[i] # NoRecord /\ tag \in index'[i].meta
  <2> DEFINE here == {j \in Ids : index'[j] # NoRecord}
             P(i) == [id |-> i, meta |-> index'[i].meta, live |-> FALSE]
  <2>1. \A i \in here : P(i) \in Held /\ P(i).id = i /\ P(i).meta = index'[i].meta
    BY <1>2 DEF Bodies, Held
  <2>2. LoadedRecords = {P(i) : i \in here} /\ \A i \in Ids : i \in here <=> index'[i] # NoRecord
    BY DEF LoadedRecords
  <2> HIDE DEF P, here
  <2> QED
    BY <2>1, <2>2
<1>5. metaBy \in [Tags -> [Ids -> Nat]]
  BY DEF RInv, RTypeOK
<1>6. /\ metaBy' \in [Tags -> [Ids -> Nat]]
      /\ \A tag \in Tags, id \in Ids :
            metaBy'[tag][id] = IF index'[id] # NoRecord /\ tag \in index'[id].meta
                               THEN 1 ELSE 0
  BY <1>1, <1>3, <1>4, <1>5, MetaIndexCreateAdds
<1>7. RTypeOK' /\ CallsWellFormed' /\ WrapperPoints'
  BY <1>1, <1>2, <1>3, <1>6 DEF RInv, RTypeOK, IInv, CallsWellFormed, WrapperPoints
<1>8. ~up' => \A id \in Ids : index'[id] = NoRecord
  BY <1>1 DEF Load, LoadStarts, LoadFails, RInv, DownIsEmpty, Stored
<1>9. DownIsEmpty'
  BY <1>1, <1>3, <1>6, <1>8 DEF DownIsEmpty, Stored
<1>10. \A id \in Ids : index'[id] # NoRecord => index'[id].meta \subseteq Tags
  BY <1>2 DEF Bodies, Tags
<1>11. Complete'
  BY <1>6, <1>10 DEF Complete, CompleteAt, Stored
<1>12. Once'
  BY <1>1, <1>3, <1>6, <1>10, IdleCall DEF Once, OnceAt, CompleteAt, Stored
<1> QED
  BY <1>2, <1>7, <1>9, <1>11, <1>12 DEF RInv

-----------------------------------------------------------------------------
LEMMA RNextInv == RInv /\ [RNext]_rvars => RInv'
<1> SUFFICES ASSUME RInv, [RNext]_rvars PROVE RInv'
  OBVIOUS
<1>1. ASSUME NEW t \in Threads, Handler(t)
      PROVE  RInv'
  <2>1. CASE \E s \in Batches : \E b \in [s -> Bodies] : CreateRecordsWithId(t, b)
    <3>1. PICK s \in SUBSET Ids : \E b \in [s -> Bodies] : CreateRecordsWithId(t, b)
      BY <2>1 DEF Batches
    <3> QED
      BY <3>1, CreateRecordsWithIdInv
  <2>2. CASE Deletion(t)
    BY <2>2, DeleteRecordsInv DEF Deletion, Batches
  <2> QED
    BY <1>1, <2>1, <2>2, CreateRecordInv, CreateRecordWithIdInv, UpdateRecordInv,
       WrapRecordInv, MetaStepInv DEF Handler
<1>2. CASE Wrapped
  BY <1>2, WrappedInv
<1>3. CASE Die
  BY <1>3, DieInv
<1>6. CASE OracleSetsData
  BY <1>6, OracleSetsDataInv
<1>7. CASE OracleReturns
  BY <1>7, OracleReturnsInv
<1>4. CASE LoadRecords
  BY <1>4, LoadRecordsInv
<1>5. CASE UNCHANGED rvars
  <2>1. UNCHANGED <<vars, metaBy, pending, wrapping, halfUpdated, touched>>
    BY <1>5 DEF rvars
  <2>2. IInv' /\ index' = index /\ up' = up
    BY <2>1, NextInv DEF RInv, vars
  <2>3. RTypeOK' /\ CallsWellFormed' /\ WrapperPoints' /\ DownIsEmpty'
    BY <2>1, <2>2 DEF RInv, RTypeOK, IInv, CallsWellFormed, WrapperPoints, DownIsEmpty, Stored
  <2> QED
    BY <2>1, <2>2, <2>3, QuietStep DEF Stored
<1> QED
  BY <1>1, <1>2, <1>3, <1>4, <1>5, <1>6, <1>7 DEF RNext

(* RInv is an invariant of the records of a node, whatever the bounds.     *)
THEOREM RInvariance == RSpec => []RInv
<1>1. RInit => RInv
  BY RInitInv
<1>2. RInv /\ [RNext]_rvars => RInv'
  BY RNextInv
<1> QED
  BY <1>1, <1>2, PTL DEF RSpec

(* Records.FindBy misses no record, however many calls are between the     *)
(* critical sections that store a record and that index it.                *)
THEOREM FindByMissesNone == RSpec => []FindByIsComplete
<1>1. RInv => FindByIsComplete
  <2> SUFFICES ASSUME RInv, NEW id \in Ids \ halfUpdated, Stored(id),
                      NEW tag \in index[id].meta
               PROVE  metaBy[tag][id] > 0 \/ \E t \in Threads : WillAdd(t, tag, id)
    BY DEF FindByIsComplete
  <2>1. metaBy[tag][id] > 0 \/ \E t \in Threads : Adds(pending[t], tag, id)
    BY DEF RInv, Complete, CompleteAt
  <2>2. \A t \in Threads : pending[t] \in Calls
    BY DEF RInv, RTypeOK
  <2> QED
    BY <2>1, <2>2, WillAddIsAdds
<1> QED
  BY <1>1, RInvariance, PTL

(* A record nobody updated, deleted or overwrote is, or is about to be,    *)
(* exactly once in the bucket of each of its tags and in no other.         *)
THEOREM UntouchedOnce == RSpec => []UntouchedFoundOnce
<1>1. RInv => UntouchedFoundOnce
  <2> SUFFICES ASSUME RInv, NEW id \in Ids \ touched, Stored(id), NEW tag \in Tags
               PROVE  metaBy[tag][id] + Cardinality({t \in Threads : WillAdd(t, tag, id)})
                          = IF tag \in index[id].meta THEN 1 ELSE 0
    BY DEF UntouchedFoundOnce
  <2> DEFINE adders == {t \in Threads : WillAdd(t, tag, id)}
  <2>1. \A t \in Threads : t \in adders <=> Adds(pending[t], tag, id)
    BY WillAddIsAdds DEF RInv, RTypeOK
  <2>2. OnceAt(id) /\ metaBy[tag][id] \in Nat
    BY DEF RInv, Once, RTypeOK
  <2>3. adders \subseteq Threads
    OBVIOUS
  <2> HIDE DEF adders
  <2>4. CASE adders = {}
    <3>1. Cardinality(adders) = 0
      BY <2>4, FS_EmptySet
    <3>2. metaBy[tag][id] = IF tag \in index[id].meta THEN 1 ELSE 0
      BY <2>1, <2>2, <2>4 DEF OnceAt, CompleteAt
    <3> QED
      BY <3>1, <3>2 DEF adders
  <2>5. CASE adders # {}
    <3>1. PICK t \in Threads : t \in adders
      BY <2>3, <2>5
    <3>2. adders = {t} /\ metaBy[tag][id] = 0 /\ tag \in index[id].meta
      BY <2>1, <2>2, <2>3, <3>1 DEF OnceAt
    <3>3. Cardinality(adders) = 1
      BY <3>2, FS_Singleton
    <3> QED
      BY <3>2, <3>3 DEF adders
  <2> QED
    BY <2>4, <2>5
<1> QED
  BY <1>1, RInvariance, PTL


(***************************************************************************)
(* Oracles.                                                                *)
(***************************************************************************)

(* A node that is down serves no call.                                     *)
DownIsIdle == ~up => \A t \in Handlers : Ready(t)

WorksOn(t, id) == ~Ready(t) /\ caching[t].id = id

(* The one handler that works on id, if there is one, will make the cache  *)
(* what the index is, and if there is none it is so already.               *)
Follows(id) ==
    /\ \A t, u \in Handlers : WorksOn(t, id) /\ WorksOn(u, id) => t = u
    /\ \A t \in Handlers : WorksOn(t, id) => caching[t].code = ReadOracle(id)
    /\ (\A t \in Handlers : ~WorksOn(t, id)) => cache[id] = ReadOracle(id)

Following == up => \A id \in Ids \ (contended \cup unflushed) : Follows(id)

OInv == IInv /\ OTypeOK /\ DownIsIdle /\ Following

-----------------------------------------------------------------------------
(* A code that compiles makes a message.                                   *)
LEMMA OracleType ==
    ASSUME NEW code \in Good
    PROVE  /\ Oracle(code) \in Bodies
           /\ Oracle(code).data = code
           /\ code # Nil /\ code # NoCode
BY GoodAssumption, MetasAssumption, SentinelAssumption DEF Oracle, Bodies

(* Update replaces the code of an oracle.                                  *)
LEMMA UpdatedCode ==
    ASSUME NEW dst, NEW code \in Good
    PROVE  Copy(dst, Oracle(code)).data = code
BY OracleType DEF Copy

LEMMA TodoType ==
    /\ Nothing \in Todo
    /\ \A id \in Ids, code \in Good : [op |-> "add", id |-> id, code |-> code] \in Todo \ {Nothing}
    /\ \A id \in Ids : [op |-> "del", id |-> id, code |-> NoCode] \in Todo \ {Nothing}
    /\ \A p \in Todo \ {Nothing} : p.id \in Ids /\ p.code \in Good \cup {NoCode}
BY DEF Todo, Nothing

LEMMA OInitInv == OInit => OInv
<1> SUFFICES ASSUME OInit PROVE OInv
  OBVIOUS
<1>1. IInv
  BY InitInv DEF OInit
<1>2. OTypeOK
  BY <1>1, TodoType DEF OInit, OTypeOK, IInv
<1>3. DownIsIdle
  BY DEF OInit, DownIsIdle, Ready
<1>4. Following
  BY DEF OInit, Init, Following, Follows, WorksOn, Ready, ReadOracle, Stored
<1> QED
  BY <1>1, <1>2, <1>3, <1>4 DEF OInv

(* A handler that has put code under id, in the index or out of it, and    *)
(* has the same to do in the cache.                                        *)
LEMMA LeavesInv ==
    ASSUME OInv, IInv', up, up',
           NEW t \in Handlers, Ready(t), NEW id \in Ids, NEW op, NEW code,
           [op |-> op, id |-> id, code |-> code] \in Todo \ {Nothing},
           Leaves(t, op, id, code),
           code = IF index'[id] # NoRecord THEN index'[id].data ELSE NoCode,
           \A i \in Ids \ {id} : index'[i] = index[i],
           cache' = cache, unflushed' = unflushed
    PROVE  OInv'
<1> DEFINE todo == [op |-> op, id |-> id, code |-> code]
<1>1. /\ caching' = [caching EXCEPT ![t] = todo]
      /\ contended' = IF Busy(id) THEN contended \cup {id} ELSE contended
      /\ todo.id = id /\ todo.code = code
  BY DEF Leaves
<1> HIDE DEF todo
<1>2. todo \in Todo \ {Nothing}
  BY DEF todo
<1>3. OTypeOK'
  BY <1>1, <1>2 DEF OInv, OTypeOK, IInv
<1>4. DownIsIdle'
  BY DEF DownIsIdle
<1>5. caching'[t] = todo /\ \A u \in Handlers \ {t} : caching'[u] = caching[u]
  BY <1>1 DEF OInv, OTypeOK
<1>6. ASSUME NEW i \in Ids \ (contended' \cup unflushed')
      PROVE  Follows(i)'
  <2>1. Follows(i)
    BY <1>1, <1>6 DEF OInv, Following
  <2>2. CASE i = id
    <3>1. ~Busy(id)
      BY <1>1, <1>6, <2>2
    <3>2. \A u \in Handlers : WorksOn(u, i)' <=> u = t
      BY <1>1, <1>2, <1>5, <2>2, <3>1 DEF Busy, WorksOn, Ready
    <3> QED
      BY <1>1, <1>5, <2>2, <3>2 DEF Follows, ReadOracle, Stored
  <2>3. CASE i # id
    <3>1. \A u \in Handlers : WorksOn(u, i)' <=> WorksOn(u, i)
      BY <1>1, <1>5, <2>3 DEF WorksOn, Ready
    <3>2. \A u \in Handlers : WorksOn(u, i) => caching'[u] = caching[u]
      BY <1>5 DEF WorksOn
    <3>3. ReadOracle(i)' = ReadOracle(i)
      BY <2>3 DEF ReadOracle, Stored
    <3> QED
      BY <2>1, <3>1, <3>2, <3>3 DEF Follows
  <2> QED
    BY <2>2, <2>3
<1> QED
  BY <1>3, <1>4, <1>6 DEF OInv, Following

(* A call that has changed no oracle but those it half updated.            *)
LEMMA FailsInv ==
    ASSUME OInv, IInv', up, up',
           caching' = caching, contended' = contended, cache' = cache,
           unflushed \subseteq unflushed', unflushed' \subseteq Ids,
           \A i \in Ids \ unflushed' : index'[i] = index[i]
    PROVE  OInv'
<1>1. OTypeOK'
  BY DEF OInv, OTypeOK, IInv
<1>2. DownIsIdle'
  BY DEF DownIsIdle
<1>3. ASSUME NEW i \in Ids \ (contended' \cup unflushed')
      PROVE  Follows(i)'
  <2>1. Follows(i)
    BY <1>3 DEF OInv, Following
  <2>2. ReadOracle(i)' = ReadOracle(i)
    BY <1>3 DEF ReadOracle, Stored
  <2> QED
    BY <2>1, <2>2 DEF Follows, WorksOn, Ready
<1> QED
  BY <1>1, <1>2, <1>3 DEF OInv, Following

LEMMA CreateOracleInv ==
    ASSUME OInv, NEW t \in Handlers, NEW code \in Good, CreateOracle(t, code)
    PROVE  OInv'
<1> DEFINE body == Oracle(code)
<1>1. /\ Ready(t) /\ Create(body) /\ cache' = cache /\ unflushed' = unflushed
      /\ body \in Bodies /\ body.data = code
  BY OracleType DEF CreateOracle
<1> HIDE DEF body
<1>2. IInv' /\ up /\ up' /\ nextID \in Ids
  BY <1>1, CreateInv, IdsFacts
     DEF OInv, IInv, TypeOK, Create, CreateStored, Refuse, Commit, FlushError
<1>3. CASE CreateStored(body)
  <2>1. index' = [index EXCEPT ![nextID] = body] /\ err' = "nil"
    BY <1>3 DEF CreateStored, Commit, Returns
  <2>2. Leaves(t, "add", nextID, code)
    BY <2>1 DEF CreateOracle
  <2>3. index'[nextID] = body /\ \A i \in Ids \ {nextID} : index'[i] = index[i]
    BY <1>2, <2>1 DEF OInv, IInv, TypeOK
  <2>4. code = IF index'[nextID] # NoRecord THEN index'[nextID].data ELSE NoCode
    BY <1>1, <2>3, OutsideAssumption
  <2>5. [op |-> "add", id |-> nextID, code |-> code] \in Todo \ {Nothing}
    BY <1>2, TodoType
  <2> QED
    BY <1>1, <1>2, <2>2, <2>3, <2>4, <2>5, LeavesInv
<1>4. CASE ~CreateStored(body)
  <2>1. index' = index /\ err' # "nil"
    BY <1>1, <1>4 DEF Create, Refuse, FlushError, Returns
  <2>2. caching' = caching /\ contended' = contended
    BY <2>1 DEF CreateOracle, Fails
  <2> QED
    BY <1>1, <1>2, <2>1, <2>2, FailsInv DEF OInv, OTypeOK
<1> QED
  BY <1>3, <1>4

LEMMA UpdateOracleInv ==
    ASSUME OInv, NEW t \in Handlers, NEW id \in Ids, NEW code \in Good,
           UpdateOracle(t, id, code)
    PROVE  OInv'
<1> DEFINE src == Oracle(code)
           body == Copy(index[id], src)
<1>1. /\ Ready(t) /\ Update(id, src) /\ cache' = cache
      /\ src \in Bodies /\ body.data = code
  BY OracleType, UpdatedCode DEF UpdateOracle
<1>2. IInv' /\ up /\ up'
  BY <1>1, UpdateInv DEF OInv, Update, Refuse, Commit, FlushError
<1>3. CASE Stored(id) /\ Commit(id, body)
  <2>1. body \in Bodies
    BY <1>1, <1>3, CopyType DEF OInv, IInv, TypeOK, Stored
  <2> HIDE DEF body
  <2>2. index' = [index EXCEPT ![id] = body] /\ err' = "nil"
    BY <1>3 DEF Commit, Returns
  <2>3. Leaves(t, "add", id, code) /\ unflushed' = unflushed
    BY <2>2 DEF UpdateOracle
  <2>4. index'[id] = body /\ \A i \in Ids \ {id} : index'[i] = index[i]
    BY <2>2 DEF OInv, IInv, TypeOK
  <2>5. code = IF index'[id] # NoRecord THEN index'[id].data ELSE NoCode
    BY <1>1, <2>1, <2>4, OutsideAssumption
  <2> QED
    BY <1>1, <1>2, <2>3, <2>4, <2>5, TodoType, LeavesInv
<1>4. CASE Refuse("ErrRecordNotFound")
  <2>1. /\ index' = index /\ caching' = caching /\ contended' = contended
        /\ unflushed' = unflushed
    BY <1>4 DEF UpdateOracle, Refuse, Returns, Fails
  <2> QED
    BY <1>1, <1>2, <2>1, FailsInv DEF OInv, OTypeOK
<1>5. CASE index' = [index EXCEPT ![id] = body] /\ FlushError(id, body)
  <2> HIDE DEF body
  <2>1. err' = "flush"
    BY <1>5 DEF FlushError, Returns
  <2>2. /\ caching' = caching /\ contended' = contended
        /\ unflushed' = unflushed \cup {id}
    BY <2>1 DEF UpdateOracle, Fails
  <2>3. \A i \in Ids \ {id} : index'[i] = index[i]
    BY <1>5 DEF OInv, IInv, TypeOK
  <2> QED
    BY <1>1, <1>2, <2>2, <2>3, FailsInv DEF OInv, OTypeOK
<1> QED
  BY <1>1, <1>3, <1>4, <1>5 DEF Update

LEMMA DeleteOracleInv ==
    ASSUME OInv, NEW t \in Handlers, NEW id \in Ids, DeleteOracle(t, id)
    PROVE  OInv'
<1>1. /\ Ready(t) /\ DeleteMany({id}) /\ cache' = cache /\ unflushed' = unflushed
      /\ up /\ up'
      /\ index' = [i \in Ids |-> IF i \in {j \in {id} : Stored(j)} THEN NoRecord ELSE index[i]]
  BY DEF DeleteOracle, Delete, DeleteMany
<1>2. IInv'
  BY <1>1, DeleteManyInv DEF OInv
<1>3. CASE Stored(id)
  <2>1. Leaves(t, "del", id, NoCode)
    BY <1>3 DEF DeleteOracle
  <2>2. index'[id] = NoRecord /\ \A i \in Ids \ {id} : index'[i] = index[i]
    BY <1>1, <1>3
  <2> QED
    BY <1>1, <1>2, <2>1, <2>2, TodoType, LeavesInv
<1>4. CASE ~Stored(id)
  <2>1. caching' = caching /\ contended' = contended
    BY <1>4 DEF DeleteOracle, Fails
  <2>2. \A i \in Ids : index'[i] = index[i]
    BY <1>1, <1>4
  <2> QED
    BY <1>1, <1>2, <2>1, <2>2, FailsInv DEF OInv, OTypeOK
<1> QED
  BY <1>3, <1>4

(* compiledCache.Add and Del: the handler was the only one on its oracle,  *)
(* or the oracle is contended.                                             *)
LEMMA CacheStepInv ==
    ASSUME OInv, NEW t \in Handlers, CacheStep(t)
    PROVE  OInv'
<1> DEFINE k == caching[t].id
<1>1. /\ up /\ ~Ready(t) /\ UNCHANGED vars
      /\ cache' = [cache EXCEPT ![k] = caching[t].code]
      /\ caching' = [caching EXCEPT ![t] = Nothing]
      /\ contended' = contended /\ unflushed' = unflushed
  BY DEF CacheStep
<1>2. k \in Ids /\ caching[t].code \in Good \cup {NoCode}
  BY <1>1, TodoType DEF OInv, OTypeOK, Ready
<1>3. IInv'
  BY <1>1, NextInv DEF OInv
<1>4. OTypeOK'
  BY <1>1, <1>2, <1>3, TodoType DEF OInv, OTypeOK, IInv
<1>5. up' /\ index' = index /\ DownIsIdle'
  BY <1>1 DEF vars, DownIsIdle
<1>6. caching'[t] = Nothing /\ \A u \in Handlers \ {t} : caching'[u] = caching[u]
  BY <1>1 DEF OInv, OTypeOK
<1>7. ASSUME NEW i \in Ids \ (contended' \cup unflushed')
      PROVE  Follows(i)'
  <2>1. Follows(i)
    BY <1>1, <1>7 DEF OInv, Following
  <2>2. ReadOracle(i)' = ReadOracle(i)
    BY <1>5 DEF ReadOracle, Stored
  <2>3. \A u \in Handlers : WorksOn(u, i)' <=> u # t /\ WorksOn(u, i)
    BY <1>6 DEF WorksOn, Ready
  <2>4. \A u \in Handlers : WorksOn(u, i)' => caching'[u] = caching[u]
    BY <1>6, <2>3
  <2>5. CASE i = k
    <3>1. WorksOn(t, i)
      BY <1>1, <2>5 DEF WorksOn
    <3>2. cache'[i] = ReadOracle(i)
      BY <1>1, <2>1, <2>5, <3>1 DEF Follows, OInv, OTypeOK
    <3> QED
      BY <2>1, <2>2, <2>3, <2>4, <3>2 DEF Follows
  <2>6. CASE i # k
    <3>1. ~WorksOn(t, i) /\ cache'[i] = cache[i]
      BY <1>1, <2>6 DEF WorksOn, OInv, OTypeOK
    <3> QED
      BY <2>1, <2>2, <2>3, <2>4, <3>1 DEF Follows
  <2> QED
    BY <2>5, <2>6
<1> QED
  BY <1>3, <1>4, <1>5, <1>7 DEF OInv, Following

LEMMA ExitInv ==
    ASSUME OInv, Exit
    PROVE  OInv'
<1>1. IInv'
  BY CrashInv, CrashInFlushInv, OracleType DEF Exit, OInv
<1>2. ~up'
  BY DEF Exit, Crash, CrashInFlush, LoseMemory
<1>3. OTypeOK'
  BY <1>1, TodoType DEF Exit, OTypeOK, IInv
<1>4. DownIsIdle'
  BY DEF Exit, DownIsIdle, Ready
<1> QED
  BY <1>1, <1>2, <1>3, <1>4 DEF OInv, Following

(* A process starts with the cache that its index asks for.                *)
LEMMA StartsInv ==
    ASSUME OInv, Starts
    PROVE  OInv'
<1>1. /\ Load /\ caching' = caching /\ contended' = contended /\ unflushed' = unflushed
      /\ cache' = [id \in Ids |-> IF index'[id] = NoRecord THEN NoCode ELSE index'[id].data]
      /\ \A id \in Ids : index'[id] # NoRecord => index'[id].data \in Good
  BY DEF Starts
<1>2. IInv'
  BY <1>1, LoadInv DEF OInv
<1>3. OTypeOK'
  BY <1>1, <1>2 DEF OInv, OTypeOK, IInv
<1>4. \A t \in Handlers : Ready(t)'
  BY <1>1 DEF Load, OInv, DownIsIdle, Ready
<1>5. \A id \in Ids : cache'[id] = ReadOracle(id)'
  BY <1>1 DEF ReadOracle, Stored
<1>6. \A id \in Ids : Follows(id)'
  BY <1>4, <1>5 DEF Follows, WorksOn
<1> QED
  BY <1>2, <1>3, <1>4, <1>6 DEF OInv, DownIsIdle, Following

-----------------------------------------------------------------------------
LEMMA ONextInv == OInv /\ [ONext]_ovars => OInv'
<1> SUFFICES ASSUME OInv, [ONext]_ovars PROVE OInv'
  OBVIOUS
<1>1. CASE UNCHANGED ovars
  <2>1. IInv'
    BY <1>1, NextInv DEF ovars, OInv
  <2> QED
    BY <1>1, <2>1 DEF ovars, vars, OInv, OTypeOK, IInv, DownIsIdle, Following, Follows,
                      WorksOn, Ready, ReadOracle, Stored
<1>2. ASSUME NEW t \in Handlers, CompileError(t) \/ StartFails
      PROVE  OInv'
  BY <1>1, <1>2 DEF CompileError, StartFails
<1>3. CASE StartFails
  BY <1>1, <1>3 DEF StartFails
<1>4. ASSUME NEW t \in Handlers, \E code \in Good : CreateOracle(t, code)
      PROVE  OInv'
  BY <1>4, CreateOracleInv
<1>5. ASSUME NEW t \in Handlers, \E id \in Ids, code \in Good : UpdateOracle(t, id, code)
      PROVE  OInv'
  BY <1>5, UpdateOracleInv
<1>6. ASSUME NEW t \in Handlers, \E id \in Ids : DeleteOracle(t, id)
      PROVE  OInv'
  BY <1>6, DeleteOracleInv
<1>7. ASSUME NEW t \in Handlers, CacheStep(t)
      PROVE  OInv'
  BY <1>7, CacheStepInv
<1>8. CASE Exit
  BY <1>8, ExitInv
<1>9. CASE Starts
  BY <1>9, StartsInv
<1> QED
  BY <1>1, <1>2, <1>3, <1>4, <1>5, <1>6, <1>7, <1>8, <1>9 DEF ONext

(* OInv is an invariant of every node.                                     *)
THEOREM OInvariance == OSpec => []OInv
<1>1. OInit => OInv
  BY OInitInv
<1>2. OInv /\ [ONext]_ovars => OInv'
  BY ONextInv
<1> QED
  BY <1>1, <1>2, PTL DEF OSpec

(* Run executes the code that ReadOracle shows and that compiled, for      *)
(* every oracle no two handlers worked on at once and no Update of which   *)
(* failed.                                                                 *)
THEOREM CompiledIsStored == OSpec => []CacheFollowsStore
<1>1. OInv => CacheFollowsStore
  BY DEF OInv, OTypeOK, CacheFollowsStore, Following, Follows, WorksOn, Busy, Agree, Run
<1> QED
  BY <1>1, OInvariance, PTL

(* The oracles of a node are as durable as its records: the handlers of    *)
(* oracles.go use the index as Index supposes.                             *)
THEOREM OraclesDurable == OSpec => []Durable
<1>1. OInv => Durable
  BY DEF OInv, IInv
<1> QED
  BY <1>1, OInvariance, PTL

(***************************************************************************)
(* The VM pool of a compiled oracle, for every pool size and any number of *)
(* calls.  Exclusive is not inductive: a VM could be free and in use, or   *)
(* be twice in the channel, or a goroutine could wait twice.  PoolInv      *)
(* rules these out.  No clone is lost either; that a Release never finds   *)
(* the channel full is then a matter of counting.                          *)
(***************************************************************************)

(* A goroutine has a VM exactly between Get and Release.                   *)
UsersHoldVMs == \A t \in Callers : vm[t] # None <=> pc[t] \in {"set", "eval", "release"}

(* The channel holds no index twice, and none that is in use.              *)
FreeOnce == \A m, n \in 1 .. Len(freeWay) : freeWay[m] = freeWay[n] => m = n

FreeUnused == \A n \in 1 .. Len(freeWay), t \in Callers : vm[t] # freeWay[n]

(* The goroutines in the channel's queue are in Get, each once.            *)
WaitersGet == \A n \in 1 .. Len(waiting) : pc[waiting[n]] = "get"

WaitOnce == \A m, n \in 1 .. Len(waiting) : waiting[m] = waiting[n] => m = n

PoolInv ==
    /\ PoolTypeOK /\ UsersHoldVMs
    /\ FreeOnce /\ FreeUnused
    /\ WaitersGet /\ WaitOnce
    /\ Exclusive /\ OwnGlobals

-----------------------------------------------------------------------------
(* Head and Tail of a non-empty sequence, element by element.              *)
LEMMA HeadTail ==
    ASSUME NEW S, NEW s \in Seq(S), s # <<>>
    PROVE  /\ Head(s) \in S /\ Head(s) = s[1] /\ 1 \in 1 .. Len(s)
           /\ Tail(s) \in Seq(S)
           /\ Len(Tail(s)) = Len(s) - 1
           /\ \A n \in 1 .. Len(Tail(s)) :
                 /\ n \in 1 .. Len(s) /\ n + 1 \in 1 .. Len(s)
                 /\ Tail(s)[n] = s[n + 1] /\ n + 1 # 1
OBVIOUS

(* Append, element by element.                                             *)
LEMMA AppendElements ==
    ASSUME NEW S, NEW s \in Seq(S), NEW e \in S
    PROVE  /\ Append(s, e) \in Seq(S)
           /\ Len(Append(s, e)) = Len(s) + 1
           /\ \A n \in 1 .. Len(Append(s, e)) :
                 \/ n \in 1 .. Len(s) /\ Append(s, e)[n] = s[n]
                 \/ n = Len(s) + 1 /\ Append(s, e)[n] = e
OBVIOUS

LEMMA PoolInitInv == PoolInit => PoolInv
<1> SUFFICES ASSUME PoolInit PROVE PoolInv
  OBVIOUS
<1> USE PoolAssumption DEF PoolInit
<1>1. PoolTypeOK
  <2>1. freeWay \in Seq(VMs)
    BY DEF VMs
  <2> QED
    BY <2>1 DEF PoolTypeOK, Places
<1>2. UsersHoldVMs
  BY DEF UsersHoldVMs
<1>3. Len(freeWay) = NumVMs
  BY DEF VMs
<1>4. FreeOnce /\ FreeUnused
  BY <1>3 DEF FreeOnce, FreeUnused, VMs
<1>5. WaitersGet /\ WaitOnce
  BY DEF WaitersGet, WaitOnce
<1>6. Exclusive /\ OwnGlobals
  BY DEF Exclusive, OwnGlobals
<1> QED
  BY <1>1, <1>2, <1>4, <1>5, <1>6 DEF PoolInv

LEMMA GetNowInv ==
    ASSUME PoolInv, NEW t \in Callers, pc[t] = "idle", GetNow(t)
    PROVE  PoolInv'
<1> DEFINE i == Head(freeWay)
<1>1. /\ i \in VMs /\ i = freeWay[1] /\ 1 \in 1 .. Len(freeWay)
      /\ freeWay' \in Seq(VMs)
      /\ \A n \in 1 .. Len(freeWay') :
            /\ n + 1 \in 1 .. Len(freeWay)
            /\ freeWay'[n] = freeWay[n + 1] /\ n + 1 # 1
  BY HeadTail DEF GetNow, PoolInv, PoolTypeOK
<1>2. /\ vm' = [vm EXCEPT ![t] = i]
      /\ pc' = [pc EXCEPT ![t] = "set"]
      /\ waiting' = waiting /\ globals' = globals
  BY DEF GetNow
<1> HIDE DEF i
<1>3. PoolTypeOK'
  BY <1>1, <1>2 DEF PoolInv, PoolTypeOK, Places
<1>4. UsersHoldVMs'
  BY <1>1, <1>2, PoolAssumption DEF PoolInv, PoolTypeOK, UsersHoldVMs, VMs
<1>5. FreeOnce' /\ FreeUnused'
  <2>1. FreeOnce'
    BY <1>1 DEF PoolInv, FreeOnce
  <2>2. ASSUME NEW n \in 1 .. Len(freeWay'), NEW u \in Callers
        PROVE  vm'[u] # freeWay'[n]
    <3>1. freeWay[n + 1] # i
      BY <1>1 DEF PoolInv, FreeOnce
    <3>2. vm[u] # freeWay[n + 1]
      BY <1>1 DEF PoolInv, FreeUnused
    <3> QED
      BY <1>1, <1>2, <3>1, <3>2 DEF PoolInv, PoolTypeOK
  <2> QED
    BY <2>1, <2>2 DEF FreeUnused
<1>6. WaitersGet' /\ WaitOnce'
  BY <1>2 DEF PoolInv, PoolTypeOK, WaitersGet, WaitOnce
<1>7. \A u \in Callers : vm[u] # i
  BY <1>1 DEF PoolInv, FreeUnused
<1>8. Exclusive'
  BY <1>2, <1>7 DEF PoolInv, PoolTypeOK, Exclusive
<1>9. OwnGlobals'
  BY <1>2 DEF PoolInv, PoolTypeOK, OwnGlobals
<1> QED
  BY <1>3, <1>4, <1>5, <1>6, <1>8, <1>9 DEF PoolInv

LEMMA GetLaterInv ==
    ASSUME PoolInv, NEW t \in Callers, pc[t] = "idle", GetLater(t)
    PROVE  PoolInv'
<1>1. /\ waiting' = Append(waiting, t)
      /\ pc' = [pc EXCEPT ![t] = "get"]
      /\ freeWay' = freeWay /\ globals' = globals /\ vm' = vm
  BY DEF GetLater
<1>2. /\ waiting' \in Seq(Callers)
      /\ \A n \in 1 .. Len(waiting') :
            \/ n \in 1 .. Len(waiting) /\ waiting'[n] = waiting[n]
            \/ n = Len(waiting) + 1 /\ waiting'[n] = t
  BY <1>1, AppendElements DEF PoolInv, PoolTypeOK
<1>3. \A n \in 1 .. Len(waiting) : waiting[n] # t
  BY DEF PoolInv, WaitersGet
<1>4. PoolTypeOK'
  BY <1>1, <1>2 DEF PoolInv, PoolTypeOK, Places
<1>5. UsersHoldVMs'
  BY <1>1 DEF PoolInv, PoolTypeOK, UsersHoldVMs
<1>6. FreeOnce' /\ FreeUnused'
  BY <1>1 DEF PoolInv, FreeOnce, FreeUnused
<1>7. WaitersGet'
  BY <1>1, <1>2 DEF PoolInv, PoolTypeOK, WaitersGet
<1>8. WaitOnce'
  BY <1>2, <1>3 DEF PoolInv, WaitOnce
<1>9. Exclusive' /\ OwnGlobals'
  BY <1>1 DEF PoolInv, PoolTypeOK, Exclusive, OwnGlobals
<1> QED
  BY <1>4, <1>5, <1>6, <1>7, <1>8, <1>9 DEF PoolInv

LEMMA SetInv ==
    ASSUME PoolInv, NEW t \in Callers, Set(t)
    PROVE  PoolInv'
<1>1. PICK next \in {"eval", "release"} : pc' = [pc EXCEPT ![t] = next]
  BY DEF Set
<1>2. /\ pc[t] = "set"
      /\ globals' = [globals EXCEPT ![vm[t]] = t]
      /\ freeWay' = freeWay /\ waiting' = waiting /\ vm' = vm
  BY DEF Set
<1>3. vm[t] \in VMs
  BY <1>2 DEF PoolInv, PoolTypeOK, UsersHoldVMs
<1>4. PoolTypeOK'
  BY <1>1, <1>2, <1>3 DEF PoolInv, PoolTypeOK, Places
<1>5. UsersHoldVMs' /\ FreeOnce' /\ FreeUnused'
  BY <1>1, <1>2 DEF PoolInv, PoolTypeOK, UsersHoldVMs, FreeOnce, FreeUnused
<1>6. WaitersGet' /\ WaitOnce'
  BY <1>1, <1>2 DEF PoolInv, PoolTypeOK, WaitersGet, WaitOnce
<1>7. Exclusive'
  BY <1>2 DEF PoolInv, Exclusive
<1>8. ASSUME NEW u \in Callers, pc'[u] = "eval"
      PROVE  globals'[vm'[u]] = u
  <2>1. CASE u = t
    BY <1>2, <1>3, <2>1 DEF PoolInv, PoolTypeOK
  <2>2. CASE u # t
    <3>1. pc[u] = "eval"
      BY <1>1, <1>8, <2>2 DEF PoolInv, PoolTypeOK
    <3>2. vm[u] # vm[t] /\ vm[u] \in VMs
      BY <1>3, <2>2, <3>1, PoolAssumption
         DEF PoolInv, PoolTypeOK, UsersHoldVMs, Exclusive, VMs
    <3>3. globals[vm[u]] = u
      BY <3>1 DEF PoolInv, OwnGlobals
    <3> QED
      BY <1>2, <3>2, <3>3 DEF PoolInv, PoolTypeOK
  <2> QED
    BY <2>1, <2>2
<1> QED
  BY <1>4, <1>5, <1>6, <1>7, <1>8 DEF PoolInv, OwnGlobals

LEMMA EvalInv ==
    ASSUME PoolInv, NEW t \in Callers, Eval(t)
    PROVE  PoolInv'
<1> USE DEF PoolInv, Eval
<1>1. PoolTypeOK' /\ UsersHoldVMs'
  BY DEF PoolTypeOK, Places, UsersHoldVMs
<1>2. FreeOnce' /\ FreeUnused' /\ WaitersGet' /\ WaitOnce'
  BY DEF PoolTypeOK, FreeOnce, FreeUnused, WaitersGet, WaitOnce
<1>3. Exclusive' /\ OwnGlobals'
  BY DEF PoolTypeOK, Exclusive, OwnGlobals
<1> QED
  BY <1>1, <1>2, <1>3

LEMMA HandOverInv ==
    ASSUME PoolInv, NEW t \in Callers, pc[t] = "release", HandOver(t)
    PROVE  PoolInv'
<1> DEFINE w == Head(waiting)
<1>1. /\ w \in Callers /\ w = waiting[1] /\ 1 \in 1 .. Len(waiting)
      /\ waiting' \in Seq(Callers)
      /\ \A n \in 1 .. Len(waiting') :
            /\ n + 1 \in 1 .. Len(waiting)
            /\ waiting'[n] = waiting[n + 1] /\ n + 1 # 1
  BY HeadTail DEF HandOver, PoolInv, PoolTypeOK
<1>2. /\ vm' = [vm EXCEPT ![t] = None, ![w] = vm[t]]
      /\ pc' = [pc EXCEPT ![t] = "idle", ![w] = "set"]
      /\ freeWay' = freeWay /\ globals' = globals
  BY DEF HandOver
<1> HIDE DEF w
<1>3. pc[w] = "get" /\ w # t
  BY <1>1 DEF PoolInv, WaitersGet
<1>4. vm[t] \in VMs /\ vm[w] = None /\ vm[t] # None
  BY <1>3, <1>1 DEF PoolInv, PoolTypeOK, UsersHoldVMs
<1>5. PoolTypeOK'
  BY <1>1, <1>2, <1>4 DEF PoolInv, PoolTypeOK, Places
<1>6. UsersHoldVMs'
  BY <1>1, <1>2, <1>3, <1>4 DEF PoolInv, PoolTypeOK, UsersHoldVMs
<1>7. FreeOnce'
  BY <1>2 DEF PoolInv, FreeOnce
<1>8. FreeUnused'
  <2>1. ASSUME NEW n \in 1 .. Len(freeWay'), NEW u \in Callers
        PROVE  vm'[u] # freeWay'[n]
    <3>1. vm[t] # freeWay[n] /\ vm[u] # freeWay[n] /\ freeWay[n] \in VMs
      BY <1>2, <2>1 DEF PoolInv, PoolTypeOK, FreeUnused
    <3>2. vm'[u] \in {vm[t], vm[u], None}
      BY <1>1, <1>2 DEF PoolInv, PoolTypeOK
    <3>3. freeWay[n] # None
      BY <3>1, PoolAssumption DEF VMs
    <3> QED
      BY <1>2, <3>1, <3>2, <3>3
  <2> QED
    BY <2>1 DEF FreeUnused
<1>9. WaitersGet' /\ WaitOnce'
  <2>1. WaitOnce'
    BY <1>1 DEF PoolInv, WaitOnce
  <2>2. ASSUME NEW n \in 1 .. Len(waiting')
        PROVE  pc'[waiting'[n]] = "get"
    <3>1. waiting[n + 1] # w
      BY <1>1 DEF PoolInv, WaitOnce
    <3>2. pc[waiting[n + 1]] = "get" /\ waiting[n + 1] \in Callers
      BY <1>1 DEF PoolInv, PoolTypeOK, WaitersGet
    <3>3. waiting[n + 1] # t
      BY <3>2
    <3> QED
      BY <1>1, <1>2, <3>1, <3>2, <3>3 DEF PoolInv, PoolTypeOK
  <2> QED
    BY <2>1, <2>2 DEF WaitersGet
<1>10. Exclusive'
  BY <1>1, <1>2, <1>3, <1>4 DEF PoolInv, PoolTypeOK, Exclusive
<1>11. OwnGlobals'
  BY <1>1, <1>2, <1>3 DEF PoolInv, PoolTypeOK, OwnGlobals
<1> QED
  BY <1>5, <1>6, <1>7, <1>8, <1>9, <1>10, <1>11 DEF PoolInv

LEMMA PutBackInv ==
    ASSUME PoolInv, NEW t \in Callers, pc[t] = "release", PutBack(t)
    PROVE  PoolInv'
<1>1. vm[t] \in VMs /\ vm[t] # None
  BY DEF PoolInv, PoolTypeOK, UsersHoldVMs
<1>2. /\ freeWay' = Append(freeWay, vm[t])
      /\ vm' = [vm EXCEPT ![t] = None]
      /\ pc' = [pc EXCEPT ![t] = "idle"]
      /\ waiting' = waiting /\ globals' = globals
  BY DEF PutBack
<1>3. /\ freeWay' \in Seq(VMs)
      /\ \A n \in 1 .. Len(freeWay') :
            \/ n \in 1 .. Len(freeWay) /\ freeWay'[n] = freeWay[n]
            \/ n = Len(freeWay) + 1 /\ freeWay'[n] = vm[t]
  BY <1>1, <1>2, AppendElements DEF PoolInv, PoolTypeOK
<1>4. PoolTypeOK'
  BY <1>2, <1>3 DEF PoolInv, PoolTypeOK, Places
<1>5. UsersHoldVMs'
  BY <1>2 DEF PoolInv, PoolTypeOK, UsersHoldVMs
<1>6. FreeOnce'
  BY <1>3 DEF PoolInv, FreeOnce, FreeUnused
<1>7. FreeUnused'
  <2>1. ASSUME NEW n \in 1 .. Len(freeWay'), NEW u \in Callers
        PROVE  vm'[u] # freeWay'[n]
    <3>1. freeWay'[n] # None
      BY <1>3, PoolAssumption DEF PoolInv, PoolTypeOK, VMs
    <3>2. CASE u = t
      BY <1>2, <3>1, <3>2 DEF PoolInv, PoolTypeOK
    <3>3. CASE u # t
      <4>1. vm'[u] = vm[u]
        BY <1>2, <3>3 DEF PoolInv, PoolTypeOK
      <4>2. vm[u] # vm[t]
        BY <1>1, <3>3 DEF PoolInv, Exclusive
      <4> QED
        BY <1>3, <4>1, <4>2 DEF PoolInv, FreeUnused
    <3> QED
      BY <3>2, <3>3
  <2> QED
    BY <2>1 DEF FreeUnused
<1>8. WaitersGet' /\ WaitOnce'
  BY <1>2 DEF PoolInv, PoolTypeOK, WaitersGet, WaitOnce
<1>9. Exclusive' /\ OwnGlobals'
  BY <1>2 DEF PoolInv, PoolTypeOK, Exclusive, OwnGlobals
<1> QED
  BY <1>4, <1>5, <1>6, <1>7, <1>8, <1>9 DEF PoolInv

-----------------------------------------------------------------------------
LEMMA PoolNextInv == PoolInv /\ [PoolNext]_poolVars => PoolInv'
<1> SUFFICES ASSUME PoolInv, [PoolNext]_poolVars PROVE PoolInv'
  OBVIOUS
<1>1. ASSUME NEW t \in Callers, Get(t)
      PROVE  PoolInv'
  BY <1>1, GetNowInv, GetLaterInv DEF Get
<1>2. ASSUME NEW t \in Callers, Set(t)
      PROVE  PoolInv'
  BY <1>2, SetInv
<1>3. ASSUME NEW t \in Callers, Eval(t)
      PROVE  PoolInv'
  BY <1>3, EvalInv
<1>4. ASSUME NEW t \in Callers, Release(t)
      PROVE  PoolInv'
  BY <1>4, HandOverInv, PutBackInv DEF Release
<1>5. CASE UNCHANGED poolVars
  BY <1>5 DEF poolVars, PoolInv, PoolTypeOK, UsersHoldVMs, FreeOnce, FreeUnused,
              WaitersGet, WaitOnce, Exclusive, OwnGlobals
<1> QED
  BY <1>1, <1>2, <1>3, <1>4, <1>5 DEF PoolNext

(* PoolInv is an invariant of every pool, whatever its size and its users.    *)
THEOREM PoolInvariance == PoolSpec => []PoolInv
<1>1. PoolInit => PoolInv
  BY PoolInitInv
<1>2. PoolInv /\ [PoolNext]_poolVars => PoolInv'
  BY PoolNextInv
<1> QED
  BY <1>1, <1>2, PTL DEF PoolSpec

(* ExecutionPool.Get never gives a clone to two calls at a time.           *)
THEOREM MutualExclusion == PoolSpec => []Exclusive
<1>1. PoolInv => Exclusive
  BY DEF PoolInv
<1> QED
  BY <1>1, PoolInvariance, PTL

(* compiled.Run evaluates an oracle with the context and the arguments it  *)
(* set itself.                                                             *)
THEOREM OwnArguments == PoolSpec => []OwnGlobals
<1>1. PoolInv => OwnGlobals
  BY DEF PoolInv
<1> QED
  BY <1>1, PoolInvariance, PTL

-----------------------------------------------------------------------------
(* Every clone is in the channel or with a call, and the channel is empty  *)
(* while a goroutine waits.                                                *)
Accounted ==
    \A i \in VMs : \/ \E n \in 1 .. Len(freeWay) : freeWay[n] = i
                   \/ \E t \in Callers : vm[t] = i

NobodyWaitsInVain == waiting # <<>> => freeWay = <<>>

(* A call that is about to release its clone leaves room in the channel:   *)
(* the channel holds no index twice and not this one.                      *)
LEMMA RoomForRelease ==
    ASSUME PoolInv, NEW t \in Callers, pc[t] = "release"
    PROVE  Len(freeWay) < NumVMs
<1> DEFINE len == Len(freeWay)
           others == VMs \ {vm[t]}
<1>1. len \in Nat /\ freeWay \in [1 .. len -> VMs]
  BY DEF PoolInv, PoolTypeOK
<1>2. vm[t] \in VMs
  BY DEF PoolInv, PoolTypeOK, UsersHoldVMs
<1>3. IsFiniteSet(VMs) /\ Cardinality(VMs) = NumVMs
  BY FS_Interval, PoolAssumption DEF VMs
<1>4. IsFiniteSet(others) /\ Cardinality(others) = NumVMs - 1
  BY <1>2, <1>3, FS_RemoveElement
<1>5. freeWay \in [1 .. len -> others]
  BY <1>1 DEF PoolInv, FreeUnused
<1>6. freeWay \in Injection(1 .. len, others)
  BY <1>5 DEF Injection, IsInjective, PoolInv, FreeOnce
<1>7. Cardinality(1 .. len) <= Cardinality(others)
  BY <1>4, <1>6, FS_Injection
<1>8. Cardinality(1 .. len) = len
  BY <1>1, FS_Interval
<1> QED
  BY <1>1, <1>4, <1>7, <1>8, PoolAssumption

LEMMA AccountedInit == PoolInit => Accounted /\ NobodyWaitsInVain
<1> SUFFICES ASSUME PoolInit PROVE Accounted /\ NobodyWaitsInVain
  OBVIOUS
<1>1. Len(freeWay) = NumVMs
  BY PoolAssumption DEF PoolInit, VMs
<1> QED
  BY <1>1 DEF PoolInit, Accounted, NobodyWaitsInVain, VMs

(* An index that leaves the channel goes to a call, and one that leaves a  *)
(* call goes to the channel or to the next call.                           *)
LEMMA AccountedStep ==
    ASSUME PoolInv, Accounted, NobodyWaitsInVain, [PoolNext]_poolVars
    PROVE  Accounted' /\ NobodyWaitsInVain'
<1>1. ASSUME NEW t \in Callers, pc[t] = "idle", GetNow(t)
      PROVE  Accounted' /\ NobodyWaitsInVain'
  <2>1. vm[t] = None
    BY <1>1 DEF PoolInv, PoolTypeOK, UsersHoldVMs
  <2>2. /\ freeWay' = Tail(freeWay) /\ waiting' = waiting /\ freeWay # <<>>
        /\ vm' = [vm EXCEPT ![t] = freeWay[1]]
    BY <1>1, HeadTail DEF GetNow, PoolInv, PoolTypeOK
  <2>3. ASSUME NEW i \in VMs
        PROVE  \/ \E n \in 1 .. Len(freeWay') : freeWay'[n] = i
               \/ \E u \in Callers : vm'[u] = i
    <3>1. CASE \E n \in 1 .. Len(freeWay) : freeWay[n] = i
      <4>1. PICK n \in 1 .. Len(freeWay) : freeWay[n] = i
        BY <3>1
      <4>2. CASE n = 1
        BY <2>2, <4>1, <4>2 DEF PoolInv, PoolTypeOK
      <4>3. CASE n # 1
        <5>1. n - 1 \in 1 .. Len(freeWay')
          BY <2>2, <4>3 DEF PoolInv, PoolTypeOK
        <5>2. freeWay'[n - 1] = i
          BY <2>2, <4>1, <4>3 DEF PoolInv, PoolTypeOK
        <5> QED
          BY <5>1, <5>2
      <4> QED
        BY <4>2, <4>3
    <3>2. CASE \E u \in Callers : vm[u] = i
      BY <2>1, <2>2, <3>2, PoolAssumption DEF PoolInv, PoolTypeOK, VMs
    <3> QED
      BY <3>1, <3>2 DEF Accounted
  <2> QED
    BY <2>2, <2>3 DEF Accounted, NobodyWaitsInVain
<1>2. ASSUME NEW t \in Callers, pc[t] = "idle", GetLater(t)
      PROVE  Accounted' /\ NobodyWaitsInVain'
  BY <1>2 DEF GetLater, Accounted, NobodyWaitsInVain
<1>3. ASSUME NEW t \in Callers, Set(t) \/ Eval(t)
      PROVE  Accounted' /\ NobodyWaitsInVain'
  BY <1>3 DEF Set, Eval, Accounted, NobodyWaitsInVain
<1>4. ASSUME NEW t \in Callers, pc[t] = "release", HandOver(t)
      PROVE  Accounted' /\ NobodyWaitsInVain'
  <2>1. Head(waiting) \in Callers /\ vm[Head(waiting)] = None /\ Head(waiting) # t
    BY <1>4, HeadTail DEF HandOver, PoolInv, PoolTypeOK, WaitersGet, UsersHoldVMs
  <2>2. freeWay' = freeWay /\ freeWay = <<>>
    BY <1>4 DEF HandOver, NobodyWaitsInVain
  <2>3. vm' = [vm EXCEPT ![t] = None, ![Head(waiting)] = vm[t]]
    BY <1>4 DEF HandOver
  <2>4. ASSUME NEW i \in VMs, NEW u \in Callers, vm[u] = i
        PROVE  \E w \in Callers : vm'[w] = i
    <3>1. u # Head(waiting)
      BY <2>1, <2>4, PoolAssumption DEF VMs
    <3>2. CASE u = t
      BY <2>1, <2>3, <2>4, <3>2 DEF PoolInv, PoolTypeOK
    <3>3. CASE u # t
      BY <2>3, <2>4, <3>1, <3>3 DEF PoolInv, PoolTypeOK
    <3> QED
      BY <3>2, <3>3
  <2> QED
    BY <2>2, <2>4 DEF Accounted, NobodyWaitsInVain
<1>5. ASSUME NEW t \in Callers, pc[t] = "release", PutBack(t)
      PROVE  Accounted' /\ NobodyWaitsInVain'
  <2>1. vm[t] \in VMs
    BY <1>5 DEF PoolInv, PoolTypeOK, UsersHoldVMs
  <2>2. /\ freeWay' = Append(freeWay, vm[t]) /\ waiting' = waiting /\ waiting = <<>>
        /\ vm' = [vm EXCEPT ![t] = None]
    BY <1>5 DEF PutBack
  <2>3. /\ Len(freeWay) + 1 \in 1 .. Len(freeWay') /\ freeWay'[Len(freeWay) + 1] = vm[t]
        /\ \A n \in 1 .. Len(freeWay) : n \in 1 .. Len(freeWay') /\ freeWay'[n] = freeWay[n]
    BY <2>1, <2>2 DEF PoolInv, PoolTypeOK
  <2>4. Accounted'
    BY <2>2, <2>3 DEF Accounted, PoolInv, PoolTypeOK
  <2> QED
    BY <2>2, <2>4 DEF NobodyWaitsInVain
<1>6. CASE UNCHANGED poolVars
  BY <1>6 DEF poolVars, Accounted, NobodyWaitsInVain
<1> QED
  BY <1>1, <1>2, <1>3, <1>4, <1>5, <1>6 DEF PoolNext, Get, Release

(* The deferred Release of compiled.Run gives every clone back, its send   *)
(* never blocks, and Get waits only while all clones are in use.           *)
THEOREM PoolIsComplete == PoolSpec => []NoVMLost
<1>1. PoolInit => PoolInv /\ Accounted /\ NobodyWaitsInVain
  BY PoolInitInv, AccountedInit
<1>2. PoolInv /\ Accounted /\ NobodyWaitsInVain /\ [PoolNext]_poolVars
        => (PoolInv /\ Accounted /\ NobodyWaitsInVain)'
  BY PoolNextInv, AccountedStep
<1>3. PoolInv /\ Accounted /\ NobodyWaitsInVain => NoVMLost
  <2> SUFFICES ASSUME PoolInv, Accounted, NobodyWaitsInVain PROVE NoVMLost
    OBVIOUS
  <2>1. DOMAIN freeWay = 1 .. Len(freeWay)
    BY DEF PoolInv, PoolTypeOK
  <2> QED
    BY <2>1, RoomForRelease DEF NoVMLost, Accounted, NobodyWaitsInVain, Holds
<1> QED
  BY <1>1, <1>2, <1>3, PTL DEF PoolSpec

=============================================================================
