------------------------------- MODULE Index -------------------------------
(***************************************************************************)
(* node/storage/index.go: one Index, the map of records a node keeps in    *)
(* memory, and the data folder that persists it, one file <id>.dat per     *)
(* record.                                                                 *)
(*                                                                         *)
(* Every method of Index holds the write lock from its first to its last   *)
(* line, so one method is one action.  What can still interrupt a method   *)
(* is the file system (an open, write or unlink that fails) and the death  *)
(* of the process, after which only the folder is left.                    *)
(*                                                                         *)
(* ioutil.WriteFile truncates the file and then writes it.  A failed write *)
(* and a crash inside it leave a prefix of the encoded message: nothing at *)
(* all, which decodes to the zero message; the message without its last    *)
(* fields, when the cut falls between two fields; or bytes that do not     *)
(* decode.                                                                 *)
(***************************************************************************)
EXTENDS Naturals, FiniteSets

CONSTANTS
    MaxId,      \* bound: the largest identifier (2^64 - 1 in the code)
    Metas,      \* the Meta maps of a record, each a set of key=value tags
    Datas,      \* the Data vectors (with their Shape)
    Nil,        \* a Data that is not set
    NoRecord,   \* no entry of the index
    NoFile,     \* no file of that name
    Corrupt,    \* a file that proto.Unmarshal refuses
    Unknown,    \* see acked
    MaxFaults,  \* bound: failures of the file system in a behaviour
    MaxBatch    \* bound: records of a CreateManyWIthId or DeleteMany call

ASSUME MaxIdAssumption == MaxId \in Nat \ {0}
ASSUME BoundAssumption == MaxFaults \in Nat /\ MaxBatch \in Nat

(* The absent Meta is the empty map, and dropping trailing entries of a    *)
(* map gives another one.                                                  *)
ASSUME MetasAssumption ==
    /\ {} \in Metas
    /\ \A m \in Metas : SUBSET m \subseteq Metas

ASSUME SentinelAssumption == Nil \notin Datas

Ids    == 0 .. MaxId
Bodies == [meta : Metas, data : Datas \cup {Nil}]
Zero   == [meta |-> {}, data |-> Nil]
Files  == [id : Ids, body : Bodies]

ASSUME OutsideAssumption ==
    /\ NoRecord \notin Bodies
    /\ Unknown \notin Bodies \cup {NoRecord}
    /\ NoFile \notin Files \cup {Corrupt}
    /\ Corrupt \notin Files

VARIABLES
    up,         \* the process is running and its index is loaded
    index,      \* Index.index
    nextID,     \* Index.nextID
    disk,       \* the data folder, by the identifier in the file name
    err,        \* what the last method returned
    faults,     \* failures of the file system so far
    acked,      \* history: what the calls so far promise of an identifier,
                \* Unknown once a fault hit its file
    foreign     \* history: identifiers stored in this run of the process
                \* under a number that the caller chose

vars == <<up, index, nextID, disk, err, faults, acked, foreign>>

(***************************************************************************)
(* Drivers, encoding, and the outcomes of WriteFile.                       *)
(***************************************************************************)

(* RecordDriver.Copy: only the fields that the source has.                 *)
Copy(dst, src) ==
    [meta |-> IF src.meta # {} THEN src.meta ELSE dst.meta,
     data |-> IF src.data # Nil THEN src.data ELSE dst.data]

(* The file that holds a message.                                          *)
Encoded(id, body) == [id |-> id, body |-> body]

(* What a cut write leaves: fields are written in the order id, data,      *)
(* shape, meta, and the entries of meta one by one.                        *)
Prefixes(id, body) ==
    {Corrupt, Encoded(0, Zero), Encoded(id, Zero)}
        \cup {Encoded(id, [body EXCEPT !.meta = m]) : m \in SUBSET body.meta}

(* The write fails: at open, and the file is as it was, or later.          *)
FailedWrite(id, body) == {disk[id]} \cup Prefixes(id, body)

Stored(id) == index[id] # NoRecord

TypeOK ==
    /\ up \in BOOLEAN
    /\ index \in [Ids -> Bodies \cup {NoRecord}]
    /\ nextID \in 1 .. MaxId + 1
    /\ disk \in [Ids -> Files \cup {NoFile, Corrupt}]
    /\ err \in {"nil", "ErrInvalidID", "ErrRecordNotFound", "flush", "load"}
    /\ faults \in 0 .. MaxFaults
    /\ acked \in [Ids -> Bodies \cup {NoRecord, Unknown}]
    /\ foreign \subseteq Ids

Init ==
    /\ up = TRUE
    /\ index = [id \in Ids |-> NoRecord]
    /\ nextID = 1
    /\ disk = [id \in Ids |-> NoFile]
    /\ err = "nil"
    /\ faults = 0
    /\ acked = [id \in Ids |-> NoRecord]
    /\ foreign = {}

Fault == faults < MaxFaults /\ faults' = faults + 1

Returns(e) == err' = e

(* A method that returns an error before it changes anything.              *)
Refuse(e) ==
    /\ Returns(e)
    /\ UNCHANGED <<up, index, nextID, disk, faults, acked, foreign>>

(* Mutant: memory changes, the file does not.                              *)
CommitUnflushed(id, body) ==
    /\ index' = [index EXCEPT ![id] = body]
    /\ acked' = [acked EXCEPT ![id] = body]
    /\ Returns("nil")
    /\ UNCHANGED <<up, disk, faults>>

(***************************************************************************)
(* Flush succeeds: memory and file get the body, and the caller is told.   *)
(***************************************************************************)
Commit(id, body) ==
    /\ index' = [index EXCEPT ![id] = body]
    /\ disk' = [disk EXCEPT ![id] = Encoded(id, body)]
    /\ acked' = [acked EXCEPT ![id] = body]
    /\ Returns("nil")
    /\ UNCHANGED <<up, faults>>

(* Flush fails: the caller sees the error, the file is what FailedWrite    *)
(* allows.  The promise for the identifier only stands if memory and file  *)
(* are as they were.                                                       *)
FlushError(id, body) ==
    /\ Fault
    /\ \E f \in FailedWrite(id, body) :
          /\ disk' = [disk EXCEPT ![id] = f]
          /\ acked' = [acked EXCEPT ![id] =
                IF f = disk[id] /\ index' = index THEN @ ELSE Unknown]
    /\ Returns("flush")
    /\ UNCHANGED <<up, nextID, foreign>>

(* Mutant: the message is flushed before SetID.                            *)
CreateStoredUnnumbered(body) ==
    /\ ~Stored(nextID)
    /\ index' = [index EXCEPT ![nextID] = body]
    /\ disk' = [disk EXCEPT ![nextID] = Encoded(0, body)]
    /\ acked' = [acked EXCEPT ![nextID] = body]
    /\ Returns("nil")
    /\ nextID' = nextID + 1
    /\ UNCHANGED <<up, faults, foreign>>

(* Mutant: nextID is advanced twice.                                       *)
CreateStoredTwice(body) ==
    /\ ~Stored(nextID)
    /\ Commit(nextID, body)
    /\ nextID' = nextID + 2
    /\ UNCHANGED foreign

(***************************************************************************)
(* The methods.                                                            *)
(***************************************************************************)
CreateStored(body) ==
    /\ ~Stored(nextID)
    /\ Commit(nextID, body)
    /\ nextID' = nextID + 1
    /\ UNCHANGED foreign

Create(body) ==
    /\ up
    /\ nextID <= MaxId
    /\ \/ Stored(nextID) /\ Refuse("ErrInvalidID")
       \/ CreateStored(body)
       \/ ~Stored(nextID) /\ UNCHANGED index /\ FlushError(nextID, body)

CreateWithId(id, body) ==
    /\ up
    /\ \/ Stored(id) /\ Refuse("ErrInvalidID")
       \/ /\ ~Stored(id)
          /\ Commit(id, body)
          /\ foreign' = foreign \cup {id}
          /\ UNCHANGED nextID
       \/ ~Stored(id) /\ UNCHANGED index /\ FlushError(id, body)

(* b maps the identifiers of the batch to their bodies.  There is no check *)
(* for identifiers that are stored already: they are overwritten.          *)
CreateManyStored(b) ==
    /\ index' = [id \in Ids |-> IF id \in DOMAIN b THEN b[id] ELSE index[id]]
    /\ disk' = [id \in Ids |->
                  IF id \in DOMAIN b THEN Encoded(id, b[id]) ELSE disk[id]]
    /\ acked' = [id \in Ids |-> IF id \in DOMAIN b THEN b[id] ELSE acked[id]]
    /\ foreign' = foreign \cup DOMAIN b
    /\ Returns("nil")
    /\ UNCHANGED <<up, nextID, faults>>

(* A flush of the batch fails: rollbackOnError deletes every identifier of *)
(* the batch from memory and unlinks its file, also the ones stored before *)
(* the call and the ones the loop did not reach.  The unlink may fail too  *)
(* (its error is ignored): what stays is a file this call did not reach,   *)
(* one that it wrote, or what the failed write left.                       *)
Leftovers(id, body) == FailedWrite(id, body) \cup {Encoded(id, body)}

CreateManyRollback(b) ==
    /\ Fault
    /\ index' = [id \in Ids |-> IF id \in DOMAIN b THEN NoRecord ELSE index[id]]
    /\ \/ /\ disk' = [id \in Ids |->
                        IF id \in DOMAIN b THEN NoFile ELSE disk[id]]
          /\ acked' = [id \in Ids |->
                         IF id \in DOMAIN b THEN NoRecord ELSE acked[id]]
       \/ \E kept \in DOMAIN b : \E f \in Leftovers(kept, b[kept]) :
             /\ disk' = [id \in Ids |-> IF id = kept THEN f
                           ELSE IF id \in DOMAIN b THEN NoFile ELSE disk[id]]
             /\ acked' = [id \in Ids |-> IF id = kept THEN Unknown
                            ELSE IF id \in DOMAIN b THEN NoRecord ELSE acked[id]]
    /\ Returns("flush")
    /\ UNCHANGED <<up, nextID, foreign>>

CreateManyWIthId(b) == up /\ (CreateManyStored(b) \/ CreateManyRollback(b))

(* The stored message is changed in place before it is flushed, so a flush *)
(* that fails leaves the new values in memory.                             *)
Update(id, src) ==
    /\ up
    /\ \/ ~Stored(id) /\ Refuse("ErrRecordNotFound")
       \/ /\ Stored(id)
          /\ Commit(id, Copy(index[id], src))
          /\ UNCHANGED <<nextID, foreign>>
       \/ /\ Stored(id)
          /\ index' = [index EXCEPT ![id] = Copy(index[id], src)]
          /\ FlushError(id, Copy(index[id], src))

(* Mutant: the files of deleted records stay.                              *)
DeleteManyKeepsFiles(ids) ==
    LET gone == {id \in ids : Stored(id)} IN
    /\ up
    /\ index' = [id \in Ids |-> IF id \in gone THEN NoRecord ELSE index[id]]
    /\ acked' = [id \in Ids |-> IF id \in gone THEN NoRecord ELSE acked[id]]
    /\ Returns("nil")
    /\ UNCHANGED <<up, nextID, disk, faults, foreign>>

(* Delete and DeleteMany: identifiers that are not stored are skipped; the *)
(* error of os.Remove is ignored, so the file of a deleted record may stay.*)
DeleteMany(ids) ==
    LET gone == {id \in ids : Stored(id)} IN
    /\ up
    /\ index' = [id \in Ids |-> IF id \in gone THEN NoRecord ELSE index[id]]
    /\ \/ /\ disk' = [id \in Ids |-> IF id \in gone THEN NoFile ELSE disk[id]]
          /\ acked' = [id \in Ids |-> IF id \in gone THEN NoRecord ELSE acked[id]]
          /\ UNCHANGED faults
       \/ \E kept \in gone :
             /\ Fault
             /\ disk' = [id \in Ids |->
                           IF id \in gone \ {kept} THEN NoFile ELSE disk[id]]
             /\ acked' = [id \in Ids |-> IF id = kept THEN Unknown
                            ELSE IF id \in gone THEN NoRecord ELSE acked[id]]
    /\ Returns("nil")
    /\ UNCHANGED <<up, nextID, foreign>>

Delete(id) == DeleteMany({id})

(***************************************************************************)
(* The process dies.  Between two methods memory is lost and nothing else. *)
(* Inside a method the folder is what the completed WriteFile and Remove   *)
(* calls made it, the same as after a shorter call followed by Crash, or   *)
(* the current WriteFile is cut: CrashInFlush.                             *)
(***************************************************************************)
LoseMemory ==
    /\ up /\ up' = FALSE
    /\ index' = [id \in Ids |-> NoRecord]
    /\ nextID' = 1
    /\ foreign' = {}
    /\ UNCHANGED err

Crash == LoseMemory /\ UNCHANGED <<disk, faults, acked>>

CrashInFlush(id, body) ==
    /\ LoseMemory
    /\ Fault
    /\ \E f \in Prefixes(id, body) : disk' = [disk EXCEPT ![id] = f]
    /\ acked' = [acked EXCEPT ![id] = Unknown]

(***************************************************************************)
(* Load: every file of the folder, filed under the identifier it holds.    *)
(* ListPath returns a Go map, so of two files with the same identifier any *)
(* may come last.  A file that does not decode ends the load and, in       *)
(* service.New, the start of the process.                                  *)
(***************************************************************************)
Holding(id) == {n \in Ids : disk[n] \notin {NoFile, Corrupt} /\ disk[n].id = id}

Loaded ==
    {f \in [Ids -> {disk[n].body : n \in UNION {Holding(i) : i \in Ids}}
                     \cup {NoRecord}] :
        \A id \in Ids : IF Holding(id) = {} THEN f[id] = NoRecord
                        ELSE \E n \in Holding(id) : f[id] = disk[n].body}

(* Mutant: nextID is the largest identifier.                               *)
IsLastAfterLoad(n) ==
    /\ n \in 1 .. MaxId + 1
    /\ \A id \in Ids : Holding(id) # {} => id <= n
    /\ n # 1 => Holding(n) # {}

(* nextID after the loop: 1, or one more than the largest identifier.      *)
IsNextAfterLoad(n) ==
    /\ n \in 1 .. MaxId + 1
    /\ \A id \in Ids : Holding(id) # {} => id < n
    /\ n # 1 => Holding(n - 1) # {}

LoadStarts ==
    /\ \A n \in Ids : disk[n] # Corrupt
    /\ up' = TRUE
    /\ index' \in Loaded
    /\ \E n \in 1 .. MaxId + 1 : IsNextAfterLoad(n) /\ nextID' = n
    /\ Returns("nil")

LoadFails ==
    /\ \E n \in Ids : disk[n] = Corrupt
    /\ Returns("load")
    /\ UNCHANGED <<up, index, nextID>>

Load ==
    /\ ~up
    /\ LoadStarts \/ LoadFails
    /\ UNCHANGED <<disk, faults, acked, foreign>>

(***************************************************************************)
Batches == {s \in SUBSET Ids : s # {} /\ Cardinality(s) <= MaxBatch}

Next ==
    \/ \E body \in Bodies : Create(body)
    \/ \E id \in Ids, body \in Bodies : CreateWithId(id, body)
    \/ \E s \in Batches : \E b \in [s -> Bodies] : CreateManyWIthId(b)
    \/ \E id \in Ids, src \in Bodies : Update(id, src)
    \/ \E s \in Batches : DeleteMany(s)
    \/ Crash
    \/ \E id \in Ids, body \in Bodies : CrashInFlush(id, body)
    \/ Load

Spec == Init /\ [][Next]_vars

(***************************************************************************)
(* Properties.                                                             *)
(***************************************************************************)

(* README.md, "the same data will be persisted on disk": what the calls    *)
(* promise of an identifier is in the folder, is what a running node       *)
(* serves, and so is what a restart brings back, whatever creates, batches,*)
(* rollbacks, updates and deletions came before, crashed or failed on other*)
(* identifiers.  Identifier 0 is left out: every truncated file decodes to *)
(* a record 0.                                                             *)
DurableAt(id) ==
    acked[id] # Unknown =>
        /\ disk[id] = IF acked[id] = NoRecord THEN NoFile
                      ELSE Encoded(id, acked[id])
        /\ up => index[id] = acked[id]

Durable == \A id \in Ids \ {0} : DurableAt(id)

(* Index.Create, "setting its identifier to a new, unique value": the next *)
(* identifier is above every stored one, but for those that a caller       *)
(* numbered itself since the start of the process (CreateWithId and        *)
(* CreateManyWIthId leave nextID alone).  Load restores this for all.      *)
NextIdIsFresh ==
    up => \A id \in Ids : Stored(id) => id < nextID \/ id \in foreign

(* No file holds the record of another identifier, except the zero message *)
(* a truncated file decodes to: Load cannot mix two records up.            *)
FilesHoldTheirId ==
    \A n \in Ids : disk[n] \notin {NoFile, Corrupt} =>
        disk[n].id = n \/ disk[n] = Encoded(0, Zero)

(***************************************************************************)
(* The index as a DurableMap: the map is what a running node serves and,   *)
(* while the process is down, what Load would read from the folder.        *)
(***************************************************************************)
Served ==
    [id \in Ids |->
        IF up THEN index[id]
        ELSE IF disk[id] \in {NoFile, Corrupt} THEN NoRecord ELSE disk[id].body]

Abstract == INSTANCE DurableMap WITH map <- Served, Merge <- Copy

(* As long as no file operation has failed the index implements the        *)
(* durable map: no call has another effect or another answer, and the      *)
(* death of the process and the load after it change nothing that is       *)
(* stored.                                                                 *)
ImplementsDurableMap ==
    Abstract!Init /\ [][faults' = 0 => [Abstract!Next]_(Abstract!vars)]_vars

=============================================================================
