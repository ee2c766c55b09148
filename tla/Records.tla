------------------------------ MODULE Records ------------------------------
(***************************************************************************)
(* node/storage/records.go: Records embeds an Index and adds metaBy, the   *)
(* identifiers of the records that carry a given meta key and value.  The  *)
(* handlers of node/service/records.go call it from one goroutine each.    *)
(*                                                                         *)
(* Every method runs the Index method in one critical section and brings   *)
(* metaBy up to date in the next one or two.  Between them the goroutines  *)
(* of other calls run: pending[t] is what the call of thread t has left to *)
(* do.  The order of a bucket is not modelled, only how often it holds an  *)
(* identifier.                                                             *)
(*                                                                         *)
(* An oracle that looks a record up gets a wrapper (node/wrapper), whose   *)
(* constructor reads the Data of the stored record and writes it back,     *)
(* without a lock; the oracle may call the same SetData with other Data.   *)
(***************************************************************************)
EXTENDS Index, Sequences

CONSTANTS
    Threads,    \* goroutines that serve calls
    MaxCount    \* bound: no new call adds to a bucket that holds an
                \* identifier that often

ASSUME MaxCountAssumption == MaxCount \in Nat

Tags == UNION Metas

VARIABLES
    metaBy,       \* Records.metaBy: occurrences of an identifier in a bucket
    pending,      \* the rest of each thread's call
    wrapping,     \* the wrapper that an oracle is given, or NoRecord
    halfUpdated,  \* history: identifiers an Update changed and then failed
    touched       \* history: identifiers that were updated, deleted or
                  \* overwritten since the start of the process

rvars == <<vars, metaBy, pending, wrapping, halfUpdated, touched>>

(***************************************************************************)
(* A record a pending call holds a pointer to.  While live, the pointer is *)
(* also the entry of the index, so an Update shows through it.             *)
(***************************************************************************)
Held == [id : Ids, meta : Metas, live : BOOLEAN]

Idle == [steps |-> <<>>, recs |-> {}]

Calls == [steps : {<<>>, <<"remove">>, <<"create">>, <<"remove", "create">>,
                   <<"update">>},
          recs : SUBSET Held]

(* A wrapper: the Data that WrapRecord has read, made once it has returned *)
(* the wrapper to the oracle, raced if an Update changed the record since. *)
Wraps == [by : Threads, id : Ids, data : Datas \cup {Nil},
          live : BOOLEAN, made : BOOLEAN, raced : BOOLEAN]

RTypeOK ==
    /\ TypeOK
    /\ metaBy \in [Tags -> [Ids -> Nat]]
    /\ pending \in [Threads -> Calls]
    /\ wrapping \in Wraps \cup {NoRecord}
    /\ halfUpdated \subseteq Ids
    /\ touched \subseteq Ids

(* Mutant: buckets by key, whatever the value.                             *)
MetaIndexCreateByKey(mb, recs) ==
    [tag \in Tags |-> [id \in Ids |->
        mb[tag][id] + Cardinality({r \in recs : r.id = id /\ r.meta # {}})]]

(* _metaIndexCreate: one more occurrence in the bucket of every tag; there *)
(* is no test whether the identifier is there already.                     *)
MetaIndexCreate(mb, recs) ==
    [tag \in Tags |-> [id \in Ids |->
        mb[tag][id] + Cardinality({r \in recs : r.id = id /\ tag \in r.meta})]]

(* _metaIndexRemove: looks for the bucket only when the key is NOT found   *)
(* in metaBy (records.go:70), where the bucket is that of a nil map, so    *)
(* there is never an occurrence to take out.                               *)
MetaIndexRemove(mb, recs) == mb

(* Mutant: the second half is missing.                                     *)
MetaIndexUpdateOnlyRemoves(mb, recs) == MetaIndexRemove(mb, recs)

(* _metaIndexUpdate: both, in one critical section.                        *)
MetaIndexUpdate(mb, recs) == MetaIndexCreate(MetaIndexRemove(mb, recs), recs)

(* FindBy, and FindRecords above it: the bucket, without the identifiers   *)
(* the index does not know.                                                *)
FindBy(tag) == [id \in {i \in Ids : Stored(i) /\ metaBy[tag][i] > 0} |->
                    metaBy[tag][id]]

RInit ==
    /\ Init
    /\ metaBy = [tag \in Tags |-> [id \in Ids |-> 0]]
    /\ pending = [t \in Threads |-> Idle]
    /\ wrapping = NoRecord
    /\ halfUpdated = {}
    /\ touched = {}

(***************************************************************************)
(* The second half of a call and its effect on the pointers others hold.   *)
(***************************************************************************)
Free(t) == pending[t] = Idle /\ (wrapping # NoRecord => wrapping.by # t)

Roomy == \A tag \in Tags, id \in Ids : metaBy[tag][id] < MaxCount

Call(steps, recs) == [steps |-> steps, recs |-> recs]

(* The objects of s left the index: pointers to them are no longer live.   *)
Detached(call, s) ==
    [call EXCEPT !.recs =
        {[r EXCEPT !.live = @ /\ r.id \notin s] : r \in call.recs}]

(* The object id changed in place.                                         *)
Followed(call, id) ==
    [call EXCEPT !.recs =
        {IF r.live /\ r.id = id THEN [r EXCEPT !.meta = index'[id].meta] ELSE r :
            r \in call.recs}]

WrapDetached(s) ==
    wrapping' = IF wrapping # NoRecord /\ wrapping.id \in s
                THEN [wrapping EXCEPT !.live = FALSE] ELSE wrapping

WrapRaced(id) ==
    wrapping' = IF wrapping # NoRecord /\ wrapping.id = id /\ wrapping.live
                THEN [wrapping EXCEPT !.raced = TRUE] ELSE wrapping

Pointers(ids) == {[id |-> i, meta |-> index'[i].meta, live |-> TRUE] : i \in ids}

Then(t, call) == pending' = [pending EXCEPT ![t] = call]

CreateRecord(t, body) ==
    /\ Free(t) /\ Roomy
    /\ Create(body)
    /\ IF err' = "nil" THEN Then(t, Call(<<"create">>, Pointers({nextID})))
       ELSE UNCHANGED pending
    /\ UNCHANGED <<metaBy, wrapping, halfUpdated, touched>>

CreateRecordWithId(t, id, body) ==
    /\ Free(t) /\ Roomy
    /\ CreateWithId(id, body)
    /\ IF err' = "nil" THEN Then(t, Call(<<"create">>, Pointers({id})))
       ELSE UNCHANGED pending
    /\ UNCHANGED <<metaBy, wrapping, halfUpdated, touched>>

CreateRecordsWithId(t, b) ==
    /\ Free(t) /\ Roomy
    /\ CreateManyWIthId(b)
    /\ LET others == [u \in Threads |-> Detached(pending[u], DOMAIN b)] IN
       pending' = IF err' = "nil"
                  THEN [others EXCEPT ![t] = Call(<<"update">>, Pointers(DOMAIN b))]
                  ELSE others
    /\ WrapDetached(DOMAIN b)
    /\ touched' = touched \cup {id \in DOMAIN b : Stored(id)}
    /\ UNCHANGED <<metaBy, halfUpdated>>

(* metaIndexUpdate gets the request, not the stored record: a request      *)
(* without Meta removes and adds nothing.                                  *)
UpdateRecord(t, id, src) ==
    /\ Free(t) /\ Roomy
    /\ Update(id, src)
    /\ LET others == [u \in Threads |-> Followed(pending[u], id)]
           request == [id |-> id, meta |-> src.meta, live |-> FALSE]
       IN  CASE err' = "nil" ->
                    pending' = [others EXCEPT ![t] =
                                   Call(<<"remove", "create">>, {request})]
             [] err' = "flush" -> pending' = others
             [] OTHER -> UNCHANGED pending
    /\ halfUpdated' = IF err' = "flush" THEN halfUpdated \cup {id} ELSE halfUpdated
    /\ touched' = IF Stored(id) THEN touched \cup {id} ELSE touched
    /\ IF Stored(id) THEN WrapRaced(id) ELSE UNCHANGED wrapping
    /\ UNCHANGED metaBy

DeleteRecords(t, ids) ==
    LET gone == {id \in ids : Stored(id)}
        recs == {[id |-> i, meta |-> index[i].meta, live |-> FALSE] : i \in gone}
        others == [u \in Threads |-> Detached(pending[u], gone)]
    IN  /\ Free(t)
        /\ DeleteMany(ids)
        /\ pending' = IF gone = {} THEN pending
                      ELSE [others EXCEPT ![t] = Call(<<"remove">>, recs)]
        /\ WrapDetached(gone)
        /\ touched' = touched \cup gone
        /\ UNCHANGED <<metaBy, halfUpdated>>

(* The next critical section of a call that has one left.                  *)
MetaStep(t) ==
    LET call == pending[t] IN
    /\ up /\ pending[t] # Idle
    /\ metaBy' = CASE Head(call.steps) = "remove" -> MetaIndexRemove(metaBy, call.recs)
                   [] Head(call.steps) = "create" -> MetaIndexCreate(metaBy, call.recs)
                   [] Head(call.steps) = "update" -> MetaIndexUpdate(metaBy, call.recs)
    /\ Then(t, IF Len(call.steps) = 1 THEN Idle
               ELSE [call EXCEPT !.steps = Tail(@)])
    /\ UNCHANGED <<vars, wrapping, halfUpdated, touched>>

(***************************************************************************)
(* WrapRecord: Find has given its lock back when the constructor reads the *)
(* Data (the record may be out of the index by then, which changes nothing *)
(* for it), and SetData writes it back.  All and AllBut do the same under  *)
(* the read lock, where no Update can run, and change nothing.             *)
(***************************************************************************)
WrapRecord(t, id) ==
    /\ up /\ wrapping = NoRecord
    /\ Free(t)
    /\ Stored(id)
    /\ wrapping' = [by |-> t, id |-> id, data |-> index[id].data,
                    live |-> TRUE, made |-> FALSE, raced |-> FALSE]
    /\ UNCHANGED <<vars, metaBy, pending, halfUpdated, touched>>

(* SetData: the Data of the wrapped record, in memory only; nothing goes   *)
(* back to the Index.  If an Update runs at the same time, the Data is in  *)
(* the file too when the write came before the flush.                      *)
SetData(w, data) ==
    \/ ~w.live /\ UNCHANGED <<index, disk, acked>>
    \/ /\ w.live
       /\ index' = [index EXCEPT ![w.id].data = data]
       /\ \/ UNCHANGED disk
          \/ w.raced /\ disk' = [disk EXCEPT ![w.id] = Encoded(w.id, index'[w.id])]
       /\ acked' = IF index' = index /\ disk' = disk THEN acked
                   ELSE [acked EXCEPT ![w.id] = Unknown]

(* The constructor writes what it has read.  If an Update came in between  *)
(* that is a data race on a slice: the old or the new Data, or a mix.      *)
Wrapped ==
    /\ up /\ wrapping # NoRecord /\ ~wrapping.made
    /\ \E data \in Datas \cup {Nil} :
          (wrapping.raced \/ data = wrapping.data) /\ SetData(wrapping, data)
    /\ wrapping' = [wrapping EXCEPT !.made = TRUE]
    /\ UNCHANGED <<up, nextID, err, faults, foreign, metaBy, pending, halfUpdated, touched>>

(* The oracle calls SetData, which is exported, on the wrapper it got.     *)
OracleSetsData ==
    /\ up /\ wrapping # NoRecord /\ wrapping.made
    /\ \E data \in Datas \cup {Nil} : SetData(wrapping, data)
    /\ UNCHANGED <<up, nextID, err, faults, foreign, metaBy, pending, wrapping,
                   halfUpdated, touched>>

(* The oracle returns and forgets its wrappers.                            *)
OracleReturns ==
    /\ up /\ wrapping # NoRecord /\ wrapping.made
    /\ wrapping' = NoRecord
    /\ UNCHANGED <<vars, metaBy, pending, halfUpdated, touched>>

(***************************************************************************)
(* The process dies with its calls; LoadRecords starts the next one.       *)
(***************************************************************************)
Die ==
    /\ Crash \/ \E id \in Ids, body \in Bodies : CrashInFlush(id, body)
    /\ metaBy' = [tag \in Tags |-> [id \in Ids |-> 0]]
    /\ pending' = [t \in Threads |-> Idle]
    /\ wrapping' = NoRecord
    /\ halfUpdated' = {}
    /\ touched' = {}

LoadedRecords ==
    {[id |-> i, meta |-> index'[i].meta, live |-> FALSE] :
        i \in {j \in Ids : index'[j] # NoRecord}}

LoadRecords ==
    /\ Load
    /\ metaBy' = MetaIndexCreate(metaBy, LoadedRecords)
    /\ UNCHANGED <<pending, wrapping, halfUpdated, touched>>

(* DeleteRecord and DeleteRecords of the service.                          *)
Deletion(t) == \E s \in Batches : DeleteRecords(t, s)

Handler(t) ==
    \/ \E body \in Bodies : CreateRecord(t, body)
    \/ \E id \in Ids, body \in Bodies : CreateRecordWithId(t, id, body)
    \/ \E s \in Batches : \E b \in [s -> Bodies] : CreateRecordsWithId(t, b)
    \/ \E id \in Ids, src \in Bodies : UpdateRecord(t, id, src)
    \/ Deletion(t)
    \/ \E id \in Ids : WrapRecord(t, id)
    \/ MetaStep(t)

RNext ==
    \/ \E t \in Threads : Handler(t)
    \/ Wrapped
    \/ OracleSetsData
    \/ OracleReturns
    \/ Die
    \/ LoadRecords

RSpec == RInit /\ [][RNext]_rvars

(***************************************************************************)
(* Properties.                                                             *)
(***************************************************************************)

(* A pending call will still add id to the bucket of tag.                  *)
WillAdd(t, tag, id) ==
    /\ \E s \in {"create", "update"} :
          \E n \in DOMAIN pending[t].steps : pending[t].steps[n] = s
    /\ \E r \in pending[t].recs : r.id = id /\ tag \in r.meta

(* FindBy (records.go:101-102, "returns the list of pb.Record objects      *)
(* indexed by a specific meta value") misses no record: whatever calls     *)
(* interleave between the critical sections of a method, a stored record   *)
(* is in the bucket of each of its tags or a call in progress will put it  *)
(* there.  The exception is a record whose Update failed after it changed  *)
(* the record in memory.                                                   *)
FindByIsComplete ==
    \A id \in Ids \ halfUpdated :
        Stored(id) => \A tag \in index[id].meta :
            \/ metaBy[tag][id] > 0
            \/ \E t \in Threads : WillAdd(t, tag, id)

(* A record that was created and loaded but never updated, deleted or      *)
(* overwritten is found exactly once under each of its tags and under no   *)
(* other tag, once the call that created it is done.                       *)
UntouchedFoundOnce ==
    \A id \in Ids \ touched : Stored(id) =>
        \A tag \in Tags :
            metaBy[tag][id] + Cardinality({t \in Threads : WillAdd(t, tag, id)})
                = IF tag \in index[id].meta THEN 1 ELSE 0

(* records.go:171, "update the meta index for this record", and 76,        *)
(* "remove it": when no call is in progress, what FindBy returns for a     *)
(* meta value are records that have this meta value.                       *)
FindByIsSound ==
    (\A t \in Threads : Free(t)) =>
        \A tag \in Tags : \A id \in DOMAIN FindBy(tag) : tag \in index[id].meta

=============================================================================
