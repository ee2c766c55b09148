--------------------------- MODULE OracleService ---------------------------
(***************************************************************************)
(* node/service/oracles.go, cache.go and the oracle part of service.go:    *)
(* the oracles of a node, stored in an Index, and the cache of compiled    *)
(* oracles that Run uses.                                                  *)
(*                                                                         *)
(* The code of an oracle is the data of its body; compile accepts the      *)
(* codes in Good.  A handler compiles, changes the index in one critical   *)
(* section and the cache in another: caching[t] is the cache operation     *)
(* that the handler of goroutine t still has to do.                        *)
(***************************************************************************)
EXTENDS Index

CONSTANTS
    Handlers,   \* goroutines that serve calls
    Good,       \* the codes that compile
    NoCode      \* no entry of the cache

ASSUME GoodAssumption == Good \subseteq Datas /\ NoCode \notin Datas

VARIABLES
    cache,      \* compiledCache.cache: the code that was compiled
    caching,    \* the cache operation each handler has left
    contended,  \* history: identifiers that two handlers worked on at once
    unflushed   \* history: identifiers whose Update failed in Flush

ovars == <<vars, cache, caching, contended, unflushed>>

Nothing == [op |-> "none", id |-> 0, code |-> NoCode]

Todo == {Nothing} \cup [op : {"add"}, id : Ids, code : Good]
                  \cup [op : {"del"}, id : Ids, code : {NoCode}]

OTypeOK ==
    /\ TypeOK
    /\ cache \in [Ids -> Good \cup {NoCode}]
    /\ caching \in [Handlers -> Todo]
    /\ contended \subseteq Ids
    /\ unflushed \subseteq Ids

OInit ==
    /\ Init
    /\ cache = [id \in Ids |-> NoCode]
    /\ caching = [t \in Handlers |-> Nothing]
    /\ contended = {}
    /\ unflushed = {}

Oracle(code) == [meta |-> {}, data |-> code]

Ready(t) == caching[t] = Nothing

Busy(id) == \E t \in Handlers : ~Ready(t) /\ caching[t].id = id

(* The handler of t worked on id and has op left to do.                    *)
Leaves(t, op, id, code) ==
    /\ caching' = [caching EXCEPT ![t] = [op |-> op, id |-> id, code |-> code]]
    /\ contended' = IF Busy(id) THEN contended \cup {id} ELSE contended

(* The handler returns what the index returned.                            *)
Fails == UNCHANGED <<caching, contended>>

(* compile refuses the code before anything is stored.                     *)
CompileError(t) == Ready(t) /\ up /\ UNCHANGED ovars

CreateOracle(t, code) ==
    /\ Ready(t)
    /\ Create(Oracle(code))
    /\ IF err' = "nil" THEN Leaves(t, "add", nextID, code) ELSE Fails
    /\ UNCHANGED <<cache, unflushed>>

UpdateOracle(t, id, code) ==
    /\ Ready(t)
    /\ Update(id, Oracle(code))
    /\ IF err' = "nil" THEN Leaves(t, "add", id, code) ELSE Fails
    /\ unflushed' = IF err' = "flush" THEN unflushed \cup {id} ELSE unflushed
    /\ UNCHANGED cache

(* Mutant: the cache keeps the oracle.                                     *)
DeleteOracleUncached(t, id) ==
    /\ Ready(t)
    /\ Delete(id)
    /\ Fails
    /\ UNCHANGED <<cache, unflushed>>

DeleteOracle(t, id) ==
    /\ Ready(t)
    /\ Delete(id)
    /\ IF Stored(id) THEN Leaves(t, "del", id, NoCode) ELSE Fails
    /\ UNCHANGED <<cache, unflushed>>

(* compiledCache.Add and compiledCache.Del.                                *)
CacheStep(t) ==
    /\ up /\ ~Ready(t)
    /\ cache' = [cache EXCEPT ![caching[t].id] = caching[t].code]
    /\ caching' = [caching EXCEPT ![t] = Nothing]
    /\ UNCHANGED <<vars, contended, unflushed>>

Exit ==
    /\ Crash \/ \E id \in Ids, code \in Good : CrashInFlush(id, Oracle(code))
    /\ cache' = [id \in Ids |-> NoCode]
    /\ caching' = [t \in Handlers |-> Nothing]
    /\ contended' = {}
    /\ unflushed' = {}

(* Mutant: the error of compile is dropped.                                *)
StartsUnchecked ==
    /\ Load
    /\ cache' = [id \in Ids |->
                   IF index'[id] = NoRecord THEN NoCode ELSE index'[id].data]
    /\ UNCHANGED <<caching, contended, unflushed>>

(* New: load the folder and compile every oracle in it.  One that does not *)
(* compile (the empty code of a truncated file) ends the start.            *)
Starts ==
    /\ Load
    /\ \A id \in Ids : index'[id] # NoRecord => index'[id].data \in Good
    /\ cache' = [id \in Ids |->
                   IF index'[id] = NoRecord THEN NoCode ELSE index'[id].data]
    /\ UNCHANGED <<caching, contended, unflushed>>

StartFails ==
    /\ ~up
    /\ \E n \in Ids : disk[n] \notin {NoFile, Corrupt} /\ disk[n].body.data \notin Good
    /\ UNCHANGED ovars

(* What clients see: Run takes the code from the cache, ReadOracle from    *)
(* the index; NoCode is "not found".                                       *)
Run(id) == cache[id]

ReadOracle(id) == IF Stored(id) THEN index[id].data ELSE NoCode

ONext ==
    \/ \E t \in Handlers :
          \/ CompileError(t)
          \/ \E code \in Good : CreateOracle(t, code)
          \/ \E id \in Ids, code \in Good : UpdateOracle(t, id, code)
          \/ \E id \in Ids : DeleteOracle(t, id)
          \/ CacheStep(t)
    \/ Exit
    \/ Starts
    \/ StartFails

OSpec == OInit /\ [][ONext]_ovars

(***************************************************************************)
(* Properties.                                                             *)
(***************************************************************************)

(* The code that Run executes for id is the one ReadOracle returns, and    *)
(* was compiled without an error.                                          *)
Agree(id) == Run(id) = ReadOracle(id) /\ Run(id) \in Good \cup {NoCode}

(* Run executes what is stored: for every oracle that no two handlers      *)
(* worked on at the same time, and whose updates did not fail on disk,     *)
(* cache and index agree between calls, also after crashes, restarts, and  *)
(* races and failures on other oracles.                                    *)
CacheFollowsStore ==
    \A id \in Ids \ (contended \cup unflushed) :
        up /\ ~Busy(id) => Agree(id)

=============================================================================
