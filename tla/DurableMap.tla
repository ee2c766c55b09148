----------------------------- MODULE DurableMap -----------------------------
(***************************************************************************)
(* What storage.Index promises its callers (index.go:28-30: "map any types *)
(* of protobuf encoded messages to unique integer identifiers and persist  *)
(* them on disk transparently"): a map from identifiers to messages, whose *)
(* methods are atomic, answer as they did, and work only while the process *)
(* is up, and which the end and the start of a process leave as it is.     *)
(***************************************************************************)
CONSTANTS Ids, Bodies, NoRecord, Merge(_, _)

VARIABLES
    map,    \* the messages
    up,     \* a process serves calls
    err     \* what the last call returned

vars == <<map, up, err>>

Present(id) == map[id] # NoRecord

Init ==
    /\ map = [id \in Ids |-> NoRecord]
    /\ up = TRUE
    /\ err = "nil"

Answers(e) == up /\ UNCHANGED up /\ err' = e

(* A new message under an identifier that is free, or the refusal of one   *)
(* that is not.                                                            *)
Insert(id, body) ==
    \/ ~Present(id) /\ Answers("nil") /\ map' = [map EXCEPT ![id] = body]
    \/ Present(id) /\ Answers("ErrInvalidID") /\ UNCHANGED map

(* Several messages at once, replacing those stored under the same names.  *)
Overwrite(b) ==
    /\ Answers("nil")
    /\ map' = [id \in Ids |-> IF id \in DOMAIN b THEN b[id] ELSE map[id]]

(* The fields that src sets replace those of the stored message.           *)
Change(id, src) ==
    \/ Present(id) /\ Answers("nil") /\ map' = [map EXCEPT ![id] = Merge(@, src)]
    \/ ~Present(id) /\ Answers("ErrRecordNotFound") /\ UNCHANGED map

Remove(s) ==
    /\ Answers("nil")
    /\ map' = [id \in Ids |-> IF id \in s THEN NoRecord ELSE map[id]]

(* The process ends, however abruptly; the next one serves the same map.   *)
Stop == up /\ up' = FALSE /\ UNCHANGED <<map, err>>

Start == ~up /\ up' = TRUE /\ err' = "nil" /\ UNCHANGED map

Next ==
    \/ \E id \in Ids, body \in Bodies : Insert(id, body) \/ Change(id, body)
    \/ \E s \in SUBSET Ids : Remove(s) \/ \E b \in [s -> Bodies] : Overwrite(b)
    \/ Stop
    \/ Start

Spec == Init /\ [][Next]_vars
=============================================================================
