------------------------------- MODULE MCNode -------------------------------
(***************************************************************************)
(* Small instance of the two uses of an Index that a node makes: on its    *)
(* own, with a tag and a Data or none (storage.Index), or below the oracle *)
(* handlers and their cache, with two codes and no tags (OracleService).   *)
(***************************************************************************)
EXTENDS OracleService, TLC

CONSTANT tag

VARIABLE service    \* "index" or "oracles"

MCMetas == SUBSET {tag}

MCSymmetry == Permutations(Handlers) \cup Permutations(Good)

(* Bound: the messages of an index have the same Data, if any.             *)
OneData ==
    \E d \in Datas :
        /\ \A id \in Ids : index[id] # NoRecord => index[id].data \in {d, Nil}
        /\ \A id \in Ids : disk[id] \notin {NoFile, Corrupt} => disk[id].body.data \in {d, Nil}

(* An index on its own has no cache: CacheFollowsStore leaves out the      *)
(* contended identifiers, which are then all.                              *)
MCInit ==
    \/ service = "oracles" /\ OInit
    \/ /\ service = "index" /\ Init
       /\ cache = [id \in Ids |-> NoCode] /\ caching = [t \in Handlers |-> Nothing]
       /\ contended = Ids /\ unflushed = {}

IndexNext == Next /\ OneData' /\ UNCHANGED <<cache, caching, contended, unflushed>>

MCNext ==
    /\ \/ service = "index" /\ IndexNext
       \/ service = "oracles" /\ ONext
    /\ UNCHANGED service

MCSpec == MCInit /\ [][MCNext]_<<service, ovars>>
=============================================================================
