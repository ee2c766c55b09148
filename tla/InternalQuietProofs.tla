------------------------- MODULE InternalQuietProofs -------------------------
(***************************************************************************)
(* The internal service of a master as long as no RPC fails, for every     *)
(* number of nodes, calls and records: a record is on one node, and        *)
(* DeleteRecords leaves none of its records and tells what it did.  The    *)
(* locks, and that nothing is lost, are those of InternalProofs.           *)
(***************************************************************************)
EXTENDS InternalProofs

(* As long as no RPC fails, a record is on one node, or on two between     *)
(* which a transfer moves it, and the identifiers in use are below nextId, *)
(* or a call is about to raise it above them.  A call that stores records has seen that they are nowhere; one *)
(* that deletes them leaves none behind.                                   *)

Carries(c, m, n, id) == Leaves(c, m, id) /\ Head(c.todo).m = n

Unique ==
    \A id \in Nat \ (raced \cup slipped) : \A m, n \in Nodes :
        m # n /\ id \in data[m] /\ id \in data[n] =>
            \E t \in Threads : Carries(call[t], m, n, id) \/ Carries(call[t], n, m, id)

(* A call that has stored records on node n, and has nextId to raise to x  *)
(* or above.                                                               *)
Answering(c) == c # None /\ Answered(Head(c.todo))
Lifts(c, n, x) == Answering(c) /\ n \in Held(c) /\ x <= Head(c.todo).k

Lower ==
    \A n \in Nodes :
        /\ next[n] <= nextId \/ \E t \in Threads : Lifts(call[t], n, next[n])
        /\ \A id \in data[n] :
              id < nextId \/ \E t \in Threads : Lifts(call[t], n, id + 1) /\ id \in call[t].ids

(* The nodes that are done with a job have none of the records: D is what  *)
(* the nodes have, R the identifiers that are raced.                       *)
Cleared(c, job, D, R) ==
    \A n \in Nodes : <<n, job>> \notin Head(c.todo).left => c.ids \cap D[n] \subseteq R

Nowhere(ids, D, R) == \A n \in Nodes : ids \cap D[n] \subseteq R

Asked(c, D, R) ==
    c.op = "CreateRecordWithId" /\ c.still =>
        /\ Head(c.todo).do = "exists" => Cleared(c, "ask", D, R)
        /\ Head(c.todo).do \in {"lock", "create"} /\ ~Answered(Head(c.todo)) =>
              Nowhere(c.ids, D, R)

Rest(c) == {x \in c.ids : Before(c.ids, x) >= c.start}

Batching(c, D, R) ==
    c.op = "CreateRecordsWithId" =>
        /\ ~Nested(c.todo) /\ ~FallingBack(Head(c.todo))
        /\ Early(Head(c.todo)) => c.start = c.end /\ Nowhere(Rest(c), D, R)

Erased(c, D, R) ==
    c.op = "DeleteRecords" /\ c.still =>
        /\ Head(c.todo).do = "work" => Cleared(c, "delete", D, R)
        /\ Head(c.todo).do \notin {"rlock", "total", "work"} => Nowhere(c.ids, D, R)

Fine(c, D, R) == c # None => Asked(c, D, R) /\ Batching(c, D, R) /\ Erased(c, D, R)

Quiet == Unique /\ Lower /\ \A t \in Threads : Fine(call[t], data, raced)

QInv == SInv /\ (faults = 0 => Quiet)

LEMMA AlikeCarries ==
    ASSUME NEW c, NEW d, Alike(c, d)
    PROVE  \A m, n, id : Carries(d, m, n, id) <=> Carries(c, m, n, id)
<1>1. \A n, id : Leaves(d, n, id) <=> Leaves(c, n, id)
  BY AlikeGot
<1>2. c # None => d.todo = c.todo
  BY DEF Alike
<1> QED
  BY <1>1, <1>2 DEF Carries, Leaves

LEMMA AlikeLifts ==
    ASSUME NEW c, NEW d, Alike(c, d)
    PROVE  /\ \A n, x : Lifts(d, n, x) <=> Lifts(c, n, x)
           /\ c # None => d.ids = c.ids
<1>1. Held(d) = Held(c)
  BY AlikeSame
<1>2. (c = None <=> d = None) /\ (c # None => d.todo = c.todo /\ d.ids = c.ids)
  BY DEF Alike
<1> QED
  BY <1>1, <1>2 DEF Lifts, Answering

(* nextId stays above the identifiers in use, or a call has to raise it.   *)
LEMMA LowerStays ==
    ASSUME LInv, Lower, NEW t \in Threads, ~Answering(call[t]),
           \A u \in Threads \ {t} : Alike(call[u], call'[u]),
           nextId' \in Nat, nextId <= nextId',
           \A n \in Nodes : \/ next'[n] = next[n] \/ next'[n] <= nextId'
                             \/ Lifts(call'[t], n, next'[n]),
           \A n \in Nodes : \A id \in data'[n] :
              \/ id \in data[n] \/ id < nextId'
              \/ Lifts(call'[t], n, id + 1) /\ id \in call'[t].ids
    PROVE  Lower'
<1>1. next \in [Nodes -> Nat] /\ data \in [Nodes -> SUBSET Nat] /\ nextId \in Nat
  BY DEF LInv, TypeOK
<1>2. ASSUME NEW u \in Threads, NEW n, NEW x, Lifts(call[u], n, x)
      PROVE  Lifts(call'[u], n, x) /\ call'[u].ids = call[u].ids
  <2>1. u # t /\ call[u] # None
    BY <1>2 DEF Lifts, Answering
  <2> QED
    BY <1>2, <2>1, AlikeLifts
<1>3. ASSUME NEW n \in Nodes
      PROVE  next'[n] <= nextId' \/ \E u \in Threads : Lifts(call'[u], n, next'[n])
  <2>1. CASE next'[n] = next[n]
    <3>1. next[n] <= nextId \/ \E u \in Threads : Lifts(call[u], n, next[n])
      BY DEF Lower
    <3>2. next[n] \in Nat
      BY <1>1
    <3>3. next[n] <= nextId => next'[n] <= nextId'
      BY <1>1, <2>1, <3>2
    <3> QED
      BY <1>2, <2>1, <3>1, <3>3
  <2> QED
    BY <2>1
<1>4. ASSUME NEW n \in Nodes, NEW id \in data'[n]
      PROVE  id < nextId' \/ \E u \in Threads : Lifts(call'[u], n, id + 1) /\ id \in call'[u].ids
  <2>1. CASE id \in data[n]
    <3>1. id < nextId \/ \E u \in Threads : Lifts(call[u], n, id + 1) /\ id \in call[u].ids
      BY <2>1 DEF Lower
    <3>2. id \in Nat
      BY <1>1, <2>1
    <3>3. id < nextId => id < nextId'
      BY <1>1, <3>2
    <3>4. ASSUME NEW u \in Threads, Lifts(call[u], n, id + 1), id \in call[u].ids
          PROVE  Lifts(call'[u], n, id + 1) /\ id \in call'[u].ids
      BY <1>2, <3>4
    <3> QED
      BY <3>1, <3>3, <3>4
  <2> QED
    BY <1>4, <2>1
<1> QED
  BY <1>3, <1>4 DEF Lower

(* Whoever holds the lock of a node finds it below nextId.                 *)
LEMMA LockedLower ==
    ASSUME LInv, Lower, NEW t \in Threads, ~Answering(call[t]),
           NEW n \in Nodes, n \in Held(call[t])
    PROVE  /\ next[n] \in Nat /\ next[n] <= nextId
           /\ \A id \in data[n] : id \in Nat /\ id < nextId
<1>1. next \in [Nodes -> Nat] /\ data \in [Nodes -> SUBSET Nat]
  BY DEF LInv, TypeOK
<1>2. \A u \in Threads : nodeLock[n] = u <=> n \in Held(call[u])
  BY DEF LInv, Locked
<1>3. \A u \in Threads : \A x : ~Lifts(call[u], n, x)
  BY <1>2 DEF Lifts
<1> QED
  BY <1>1, <1>3 DEF Lower

(* A step that stores records on one node only, and such that nobody had.  *)
LEMMA UniqueStays ==
    ASSUME Unique, raced \subseteq raced', slipped \subseteq slipped', NEW t \in Threads,
           \A u \in Threads \ {t} : Alike(call[u], call'[u]),
           \A m, k, id : ~Carries(call[t], m, k, id), NEW n \in Nodes,
           \A id \in Nat \ (raced' \cup slipped') : \A m \in Nodes :
              id \in data'[m] => id \in data[m] \/ (m = n /\ \A k \in Nodes : id \notin data[k])
    PROVE  Unique'
<1> SUFFICES ASSUME NEW id \in Nat \ (raced' \cup slipped'), NEW m \in Nodes, NEW k \in Nodes,
                    m # k, id \in data'[m], id \in data'[k]
             PROVE  \E u \in Threads : Carries(call'[u], m, k, id) \/ Carries(call'[u], k, m, id)
  BY DEF Unique
<1>1. id \in data[m] /\ id \in data[k] /\ id \in Nat \ (raced \cup slipped)
  OBVIOUS
<1>2. PICK u \in Threads : Carries(call[u], m, k, id) \/ Carries(call[u], k, m, id)
  BY <1>1 DEF Unique
<1>3. u # t
  BY <1>2
<1> QED
  BY <1>2, <1>3, AlikeCarries

(* What another goroutine knows of its records stays true, unless they are *)
(* stored; a transfer takes note that it disturbs.                         *)
LEMMA OtherFine ==
    ASSUME NEW c, NEW d, Alike(c, d), NEW D, NEW R, Fine(c, D, R), NEW E, NEW S, R \subseteq S,
           c # None /\ d.still => c.still,
           c # None => \A id \in c.ids : id \notin S => \A n \in Nodes :
              id \in E[n] => id \in D[n] \/ ((\E m \in Nodes : id \in D[m]) /\ ~d.still)
    PROVE  Fine(d, E, S)
<1>1. CASE c = None
  BY <1>1 DEF Alike, Fine
<1>2. CASE c # None
  <2>1. /\ d # None /\ d.op = c.op /\ d.ids = c.ids /\ d.todo = c.todo /\ d.start = c.start
        /\ d.end = c.end
    BY <1>2 DEF Alike
  <2>2. Asked(c, D, R) /\ Batching(c, D, R) /\ Erased(c, D, R)
    BY <1>2 DEF Fine
  <2>3. ASSUME NEW job, d.still, Cleared(c, job, D, R) PROVE Cleared(d, job, E, S)
    <3> SUFFICES ASSUME NEW n \in Nodes, <<n, job>> \notin Head(d.todo).left,
                        NEW id \in d.ids \cap E[n], id \notin S
                 PROVE  FALSE
      BY DEF Cleared
    <3>1. id \in D[n]
      BY <1>2, <2>1, <2>3
    <3> QED
      BY <2>1, <2>3, <3>1 DEF Cleared
  <2>4. ASSUME d.still, Nowhere(c.ids, D, R) PROVE Nowhere(d.ids, E, S)
    <3> SUFFICES ASSUME NEW n \in Nodes, NEW id \in d.ids \cap E[n], id \notin S
                 PROVE  FALSE
      BY DEF Nowhere
    <3>1. id \in D[n]
      BY <1>2, <2>1, <2>4
    <3> QED
      BY <2>1, <2>4, <3>1 DEF Nowhere
  <2>5. Rest(d) = Rest(c)
    BY <2>1 DEF Rest
  <2>6. ASSUME Nowhere(Rest(c), D, R) PROVE Nowhere(Rest(d), E, S)
    <3> SUFFICES ASSUME NEW n \in Nodes, NEW id \in Rest(c) \cap E[n], id \notin S
                 PROVE  FALSE
      BY <2>5 DEF Nowhere
    <3>1. id \in c.ids
      BY DEF Rest
    <3>2. \E m \in Nodes : id \in D[m]
      BY <1>2, <3>1
    <3> QED
      BY <2>6, <3>2 DEF Nowhere
  <2>7. Asked(d, E, S)
    BY <1>2, <2>1, <2>2, <2>3, <2>4 DEF Asked
  <2>8. Batching(d, E, S)
    BY <2>1, <2>2, <2>6 DEF Batching
  <2>9. Erased(d, E, S)
    BY <1>2, <2>1, <2>2, <2>3, <2>4 DEF Erased
  <2> QED
    BY <2>7, <2>8, <2>9 DEF Fine
<1> QED
  BY <1>1, <1>2

(* A step of goroutine t that is no transfer.                              *)
LEMMA StepQuiet ==
    ASSUME Quiet, raced \subseteq raced', slipped \subseteq slipped', NEW t \in Threads,
           call[t] # None => Head(call[t].todo).do # "remove",
           \A u \in Threads \ {t} : Alike(call[u], call'[u]),
           \A u \in Threads \ {t} : call[u] # None /\ call'[u].still => call[u].still,
           NEW n \in Nodes,
           \A id \in Nat \ (raced' \cup slipped') : \A m \in Nodes :
              id \in data'[m] => id \in data[m] \/ (m = n /\ \A k \in Nodes : id \notin data[k]),
           \A u \in Threads \ {t} : call[u] # None => \A id \in call[u].ids :
              id \notin raced' => \A m \in Nodes : id \in data'[m] => id \in data[m],
           Lower', Fine(call'[t], data', raced')
    PROVE  Quiet'
<1>1. \A m, k, id : ~Carries(call[t], m, k, id)
  BY DEF Carries, Leaves
<1>2. Unique'
  BY <1>1, UniqueStays DEF Quiet
<1>3. ASSUME NEW u \in Threads PROVE Fine(call'[u], data', raced')
  <2>1. CASE u = t
    BY <2>1
  <2>2. CASE u # t
    <3> DEFINE c == call[u]
               d == call'[u]
    <3>1. /\ Alike(c, d) /\ Fine(c, data, raced) /\ (c # None /\ d.still => c.still)
          /\ c # None => \A id \in c.ids : id \notin raced' => \A m \in Nodes :
                            id \in data'[m] => id \in data[m]
      BY <2>2 DEF Quiet
    <3> HIDE DEF c, d
    <3>2. Fine(d, data', raced')
      BY <3>1, OtherFine
    <3> QED
      BY <3>2 DEF d
  <2> QED
    BY <2>1, <2>2
<1> QED
  BY <1>2, <1>3 DEF Quiet

(* One that stores nothing.                                                *)
LEMMA LocalQuiet ==
    ASSUME LInv, Quiet, raced' = raced, slipped' = slipped, data' = data, next' = next,
           nextId' = nextId, NEW t \in Threads, call[t] # None,
           Head(call[t].todo).do \notin {"remove", "create", "store", "fallback"},
           \A u \in Threads \ {t} : call'[u] = call[u], Fine(call'[t], data, raced)
    PROVE  Quiet'
<1>1. PICK n \in Nodes : TRUE
  BY InternalAssumption DEF Nodes
<1>2. \A u \in Threads \ {t} : Alike(call[u], call'[u])
  BY DEF Alike
<1>3. Lower'
  <2>1. nextId \in Nat /\ nextId <= nextId /\ ~Answering(call[t])
    BY DEF LInv, TypeOK, Answering, Answered
  <2> QED
    BY <1>2, <2>1, LowerStays DEF Quiet
<1> QED
  BY <1>1, <1>2, <1>3, StepQuiet

(* Only a batch locks the nodes one by one from the start.                 *)
LEMMA BatchLocks ==
    ASSUME NEW op, NEW todo, WellFormed(op, todo), Storing(Head(todo)),
           op \in {"CreateRecord", "CreateRecordWithId", "CreateRecordsWithId",
                   "DeleteRecords", "ListRecords"}
    PROVE  op = "CreateRecordsWithId"
<1> DEFINE h == Head(todo)
           r == Head(Tail(todo))
<1>1. h.do \in Kinds(op)
  BY HeadWell
<1>2. CASE h.do = "store"
  BY <1>1, <1>2 DEF Kinds
<1>3. CASE h.do # "store"
  <2>1. h.do = "lock" /\ h.m = 0 /\ h.n # 0
    BY <1>3 DEF Storing
  <2>2. WellFormed(op, Tail(todo)) /\ Follows(h, r)
    BY <2>1, NextWell
  <2>3. r.do \in Kinds(op)
    BY <2>2, HeadWell
  <2> HIDE DEF h, r
  <2>4. r.do = "store"
    BY <2>1, <2>2, StepDoes DEF Follows
  <2> QED
    BY <2>3, <2>4 DEF Kinds
<1> QED
  BY <1>2, <1>3

LEMMA AtIs ==
    /\ \A n : At("lock", n).do = "lock" /\ At("lock", n).n = n /\ At("lock", n).m = 0
    /\ \A n : At("store", n).do = "store" /\ At("store", n).n = n
    /\ OnAll("exists", "ask").do = "exists" /\ OnAll("exists", "ask").left = Nodes \X {"ask"}
    /\ OnAll("work", "delete").do = "work" /\ OnAll("work", "delete").left = Nodes \X {"delete"}
BY DEF At, OnAll, Act

(* The loop of a batch and its fallback are entered from the start only.   *)
LEMMA EarlyBefore ==
    ASSUME NEW h \in Steps, NEW r, Follows(h, r), h.do \notin {"choose", "exists"}
    PROVE  /\ FallingBack(r) => FallingBack(h) \/ (h.do = "store" /\ h.n + 1 = 0)
           /\ Early(r) => Early(h)
<1>1. h.do \in StepNames
  BY DEF Steps
<1> USE AtIs
<1>2. CASE h.do = "lock"
  BY <1>2 DEF Follows, Early, Storing, FallingBack, Answered
<1>3. CASE h.do = "rlock"
  BY <1>3 DEF Follows, Early, Storing, FallingBack, Answered
<1>4. CASE h.do = "store"
  BY <1>4 DEF Follows, Early, Storing, FallingBack, Answered
<1>5. CASE h.do \in {"lock second", "copy", "lock id", "assign", "pick", "create", "total", "list",
                     "query"}
  BY <1>5 DEF Follows, Early, Storing, FallingBack, Answered
<1>6. CASE h.do \in {"settle", "fallback", "work", "balance", "remove", "compare", "runlock"}
  BY <1>6 DEF Follows, Early, Storing, FallingBack, Answered
<1> QED
  BY <1>1, <1>2, <1>3, <1>4, <1>5, <1>6 DEF StepNames

LEMMA FineNext ==
    ASSUME NEW c \in Calls, NEW d \in Calls, NEW D, NEW R, Fine(c, D, R),
           WellFormed(c.op, c.todo), WellFormed(d.op, d.todo),
           d.op = c.op, d.ids = c.ids, d.start = c.start, d.end = c.end, d.still = c.still,
           Follows(Head(c.todo), Head(d.todo)), Nested(d.todo) <=> Nested(c.todo),
           Head(c.todo).do \notin {"exists", "work"}
    PROVE  Fine(d, D, R)
<1> DEFINE h == Head(c.todo)
           r == Head(d.todo)
<1>1. c # None /\ d # None
  BY CallTypes
<1>2. Asked(c, D, R) /\ Batching(c, D, R) /\ Erased(c, D, R)
  BY <1>1 DEF Fine
<1>3. c.op \in {"CreateRecord", "CreateRecordWithId", "CreateRecordsWithId",
                "DeleteRecords", "ListRecords"}
  BY DEF Calls
<1>4. h \in Steps /\ h.do \in Kinds(c.op) /\ r.do \in Kinds(c.op) /\ Proper(h)
  BY HeadWell
<1>5. c.op # "CreateRecordsWithId" => ~Storing(r)
  BY <1>3, BatchLocks
<1>6. Follows(h, r) /\ h.do \notin {"exists", "work"}
  OBVIOUS
<1>7. h.do = "store" => h.n \in Nat
  BY <1>4, InternalAssumption DEF Proper, Nodes
<1> HIDE DEF h, r
<1>8. Asked(d, D, R)
  <2> SUFFICES ASSUME c.op = "CreateRecordWithId", c.still
               PROVE  /\ r.do = "exists" => Cleared(d, "ask", D, R)
                      /\ r.do \in {"lock", "create"} /\ ~Answered(r) => Nowhere(c.ids, D, R)
    BY DEF Asked, r
  <2>1. h.do \in {"rlock", "pick", "lock", "create", "runlock"}
    BY <1>4, <1>6 DEF Kinds
  <2>2. ASSUME r.do = "exists" PROVE Cleared(d, "ask", D, R)
    <3>1. h.do = "pick"
      <4>1. h.do = "rlock" => r.do \in {"pick", "total", "list", "lock"}
        BY <1>6, StepDoes DEF Follows
      <4>2. h.do = "lock" => r.do \in {"lock second", "store", "lock id", "create", "fallback"}
        <5>1. r = At("store", h.n) => r.do = "store"
          BY StepDoes
        <5> QED
          BY <1>6, <5>1 DEF Follows
      <4>3. h.do \in {"create", "runlock"} => r.do = "runlock"
        BY <1>6 DEF Follows
      <4> QED
        BY <2>1, <2>2, <4>1, <4>2, <4>3
    <3>2. r = OnAll("exists", "ask")
      BY <1>6, <3>1 DEF Follows
    <3>3. r.left = Nodes \X {"ask"}
      BY <3>2, AtIs
    <3> QED
      BY <3>3 DEF Cleared, r
  <2>3. ASSUME r.do \in {"lock", "create"} PROVE h.do = "lock"
    <3>1. h.do = "rlock" => r.do \in {"pick", "total", "list"}
      <4>1. r = At("lock", 1) => Storing(r)
        BY AtIs DEF Storing
      <4> QED
        BY <1>5, <1>6, <4>1 DEF Follows
    <3>2. h.do = "pick" => r.do = "exists"
      BY <1>6, StepDoes DEF Follows
    <3>3. h.do \in {"create", "runlock"} => r.do = "runlock"
      BY <1>6 DEF Follows
    <3> QED
      BY <2>1, <2>3, <3>1, <3>2, <3>3
  <2> QED
    BY <1>2, <2>2, <2>3 DEF Asked, Answered, h
<1>9. Batching(d, D, R)
  <2> SUFFICES ASSUME c.op = "CreateRecordsWithId"
               PROVE  /\ ~Nested(d.todo) /\ ~FallingBack(r)
                      /\ Early(r) => d.start = d.end /\ Nowhere(Rest(d), D, R)
    BY DEF Batching, r
  <2>1. /\ ~Nested(c.todo) /\ ~FallingBack(h)
        /\ Early(h) => c.start = c.end /\ Nowhere(Rest(c), D, R)
    BY <1>2 DEF Batching, h
  <2>2. h.do # "choose"
    BY <1>4 DEF Kinds
  <2>3. ~FallingBack(r)
    BY <1>4, <1>6, <1>7, <2>1, <2>2, EarlyBefore
  <2>4. Early(r) => Early(h)
    BY <1>4, <1>6, <2>2, EarlyBefore
  <2>5. Rest(d) = Rest(c)
    BY DEF Rest
  <2> QED
    BY <2>1, <2>3, <2>4, <2>5
<1>10. Erased(d, D, R)
  <2> SUFFICES ASSUME c.op = "DeleteRecords", c.still
               PROVE  /\ r.do = "work" => Cleared(d, "delete", D, R)
                      /\ r.do \notin {"rlock", "total", "work"} => Nowhere(c.ids, D, R)
    BY DEF Erased, r
  <2>1. CASE h.do = "rlock"
    <3>1. r.do = "total"
      <4>1. r = At("lock", 1) => Storing(r)
        BY AtIs DEF Storing
      <4>2. r.do \in {"pick", "total", "list"}
        BY <1>5, <1>6, <2>1, <4>1 DEF Follows
      <4> QED
        BY <1>4, <4>2 DEF Kinds
    <3> QED
      BY <3>1
  <2>2. CASE h.do = "total"
    <3>1. r.do = "work" /\ r.left = Nodes \X {"delete"}
      BY <1>6, <2>2, AtIs DEF Follows
    <3> QED
      BY <3>1 DEF Cleared, r
  <2>3. CASE h.do \notin {"rlock", "total"}
    <3>1. Nowhere(c.ids, D, R)
      BY <1>2, <1>6, <2>3 DEF Erased, h
    <3> QED
      BY <3>1 DEF Cleared, Nowhere
  <2> QED
    BY <2>1, <2>2, <2>3
<1> QED
  BY <1>8, <1>9, <1>10 DEF Fine

(* Steps that only look, or take locks.                                    *)
LEMMA ThenStill ==
    ASSUME LInv, NEW t \in Threads, NEW x \in Calls, Then(t, x)
    PROVE  call'[t].still = x.still
<1> DEFINE e == [x EXCEPT !.todo = Tail(@)]
<1>1. call \in [Threads -> Calls \cup {None}]
  BY DEF LInv, TypeOK
<1>2. e.still = x.still
  BY DEF Calls
<1>3. call' = [call EXCEPT ![t] = e]
  BY DEF Then
<1> HIDE DEF e
<1> QED
  BY <1>1, <1>2, <1>3

LEMMA ThenQuiet ==
    ASSUME LInv, Quiet, NEW t \in Threads, NEW what, Doing(t, what),
           what \notin {"assign", "runlock", "exists", "work", "remove", "create", "store",
                        "fallback"},
           NEW x \in Calls, x.todo = call[t].todo, x.op = call[t].op, x.ids = call[t].ids,
           x.start = call[t].start, x.end = call[t].end, x.still = call[t].still, Then(t, x),
           data' = data, raced' = raced, slipped' = slipped, next' = next, nextId' = nextId
    PROVE  Quiet'
<1> DEFINE c == call[t]
           d == call'[t]
<1>1. what \notin {"assign", "runlock"}
  OBVIOUS
<1>2. c \in Calls /\ c # None /\ WellFormed(c.op, c.todo) /\ Now(t) = Head(c.todo) /\ Now(t).do = what
  BY Turn
<1>3. /\ d \in Calls /\ \A u \in Threads \ {t} : call'[u] = call[u]
      /\ d.op = c.op /\ d.ids = c.ids /\ d.start = c.start /\ d.end = c.end
      /\ WellFormed(d.op, d.todo) /\ Follows(Head(c.todo), Head(d.todo))
      /\ Nested(d.todo) <=> Nested(c.todo)
  BY <1>1, <1>2, ThenPut
<1>4. d.still = c.still
  BY ThenStill
<1>5. Fine(c, data, raced)
  BY DEF Quiet
<1>6. Head(c.todo).do \notin {"exists", "work", "remove", "create", "store", "fallback"}
  BY <1>2
<1> HIDE DEF c, d
<1>7. Fine(d, data, raced)
  BY <1>2, <1>3, <1>4, <1>5, <1>6, FineNext
<1> QED
  BY <1>2, <1>3, <1>6, <1>7, LocalQuiet DEF c, d

LEMMA LocksQuiet ==
    ASSUME LInv, Quiet, NEW t \in Threads, RLock(t) \/ LockNode(t) \/ LockSecond(t) \/ LockId(t)
    PROVE  Quiet'
<1>1. PICK what \in {"rlock", "lock", "lock second", "lock id"} : Doing(t, what)
  BY DEF RLock, LockNode, LockSecond, LockId
<1>2. /\ Then(t, call[t]) /\ data' = data /\ raced' = raced /\ slipped' = slipped
      /\ next' = next /\ nextId' = nextId
  BY DEF RLock, LockNode, LockSecond, LockId, history, counters
<1>3. call[t] \in Calls
  BY <1>1, Turn
<1>4. what \notin {"assign", "runlock", "exists", "work", "remove", "create", "store", "fallback"}
  BY <1>1
<1> QED
  BY <1>1, <1>2, <1>3, <1>4, ThenQuiet

LEMMA ReadsQuiet ==
    ASSUME LInv, Quiet, NEW t \in Threads, Choose(t) \/ Pick(t) \/ CountBefore(t) \/ Compare(t)
    PROVE  Quiet'
<1> DEFINE c == call[t]
           ok == c.ok /\ Unsigned(c.old - Totals) = Cardinality(c.ids)
           x == [c EXCEPT !.good = Less(t)]
           y == [c EXCEPT !.old = Totals]
           z == [c EXCEPT !.ok = ok]
<1>1. PICK what \in {"choose", "pick", "total", "compare"} : Doing(t, what)
  BY DEF Choose, Pick, CountBefore, Compare
<1>2. data' = data /\ raced' = raced /\ slipped' = slipped /\ next' = next /\ nextId' = nextId
  BY DEF Choose, Pick, CountBefore, Compare, history, counters
<1>3. c \in Calls
  BY <1>1, Turn
<1>4. Then(t, x) \/ Then(t, y) \/ Then(t, z)
  BY DEF Choose, Pick, CountBefore, Compare
<1>5. ok \in BOOLEAN /\ Less(t) \in 0 .. N /\ Totals \in Nat
  BY <1>3, LessType, TotalsType
<1> HIDE DEF ok
<1>6. x \in Calls /\ y \in Calls /\ z \in Calls
  BY <1>3, <1>5, CallTypes
<1> HIDE DEF c
<1>7. /\ x.todo = c.todo /\ x.op = c.op /\ x.ids = c.ids /\ x.start = c.start /\ x.end = c.end
      /\ x.still = c.still
  BY <1>3 DEF Calls
<1>8. /\ y.todo = c.todo /\ y.op = c.op /\ y.ids = c.ids /\ y.start = c.start /\ y.end = c.end
      /\ y.still = c.still
  BY <1>3 DEF Calls
<1>9. /\ z.todo = c.todo /\ z.op = c.op /\ z.ids = c.ids /\ z.start = c.start /\ z.end = c.end
      /\ z.still = c.still
  BY <1>3 DEF Calls
<1> HIDE DEF x, y, z
<1>10. PICK w \in {x, y, z} : Then(t, w)
  BY <1>4
<1>11. /\ w \in Calls /\ w.todo = c.todo /\ w.op = c.op /\ w.ids = c.ids /\ w.start = c.start
       /\ w.end = c.end /\ w.still = c.still
  BY <1>6, <1>7, <1>8, <1>9, <1>10
<1>12. what \notin {"assign", "runlock", "exists", "work", "remove", "create", "store", "fallback"}
  BY <1>1
<1> QED
  BY <1>1, <1>2, <1>10, <1>11, <1>12, ThenQuiet DEF c

(* A call that is about to return knows nothing that could get wrong, but  *)
(* that it has deleted its records.                                        *)
LEMMA FineLast ==
    ASSUME NEW c \in Calls, NEW d \in Calls, NEW D, NEW R, Fine(c, D, R),
           d.op = c.op, d.ids = c.ids, d.still = c.still,
           Head(c.todo).do \notin {"rlock", "total", "work"},
           Head(d.todo).do \notin {"exists", "lock", "create", "rlock", "settle", "store",
                                   "fallback", "work"},
           Nested(d.todo) => Nested(c.todo)
    PROVE  Fine(d, D, R)
<1>1. c # None
  BY CallTypes
<1>2. Asked(d, D, R)
  BY DEF Asked
<1>3. Batching(d, D, R)
  BY <1>1 DEF Fine, Batching, Early, Storing, FallingBack, Answered
<1>4. Erased(d, D, R)
  BY <1>1 DEF Fine, Erased
<1> QED
  BY <1>2, <1>3, <1>4 DEF Fine

LEMMA QuitQuiet ==
    ASSUME LInv, Quiet, NEW t \in Threads, NEW what, what \in {"exists", "settle"},
           Doing(t, what), Quit(t),
           data' = data, raced' = raced, slipped' = slipped, next' = next, nextId' = nextId
    PROVE  Quiet'
<1> DEFINE c == call[t]
           d == call'[t]
           q == LastStep(t)
           e == [c EXCEPT !.todo = q, !.ok = FALSE]
<1>1. /\ c \in Calls /\ c # None /\ WellFormed(c.op, c.todo) /\ Head(c.todo).do = what
      /\ what \in Kinds(c.op)
  BY Turn
<1>2. c.todo \in Seq(Steps) /\ Len(c.todo) > 0
  BY <1>1, HeadWell
<1>3. q = <<c.todo[Len(c.todo)]>> /\ Len(c.todo) \in 1 .. Len(c.todo)
  BY <1>2 DEF LastStep
<1>4. c.todo[Len(c.todo)] \in Steps /\ c.todo[Len(c.todo)].do = Final(c.op)
  BY <1>1, <1>2, <1>3 DEF WellFormed
<1>5. q \in Seq(Steps) /\ Len(q) = 1 /\ Head(q).do = Final(c.op)
  BY <1>3, <1>4
<1>6. call' = [call EXCEPT ![t] = e]
  BY DEF Quit
<1> HIDE DEF q
<1>7. e \in Calls
  BY <1>1, <1>5, CallTypes
<1>8. Fine(c, data, raced)
  BY DEF Quiet
<1>9. e.todo = q /\ e.op = c.op /\ e.ids = c.ids /\ e.still = c.still
  <2> HIDE DEF c
  <2> QED
    BY <1>1 DEF Calls
<1> HIDE DEF e
<1>10. d = e /\ \A u \in Threads \ {t} : call'[u] = call[u]
  BY <1>6, <1>7, Put
<1>11. Final(c.op) \in {"assign", "runlock"} /\ ~Nested(q)
  BY <1>5 DEF Final, Nested
<1> HIDE DEF c, d
<1>12. Fine(d, data, raced)
  <2>1. Head(d.todo).do \in {"assign", "runlock"}
    BY <1>5, <1>9, <1>10, <1>11
  <2> QED
    BY <1>1, <1>7, <1>8, <1>9, <1>10, <1>11, <2>1, FineLast
<1>13. Head(c.todo).do \notin {"remove", "create", "store", "fallback"}
  BY <1>1
<1> QED
  BY <1>1, <1>10, <1>12, <1>13, LocalQuiet DEF c, d

LEMMA SettleQuiet ==
    ASSUME LInv, Quiet, NEW t \in Threads, Settle(t)
    PROVE  Quiet'
<1> DEFINE c == call[t]
           what == "settle"
<1>1. /\ Doing(t, what) /\ what = "settle" /\ data' = data /\ raced' = raced /\ slipped' = slipped
      /\ next' = next /\ nextId' = nextId
  BY DEF Settle, history, counters
<1>2. Quit(t) \/ Then(t, c) \/ c.start # c.end
  BY DEF Settle
<1> HIDE DEF what
<1>3. /\ c \in Calls /\ c # None /\ Head(c.todo).do = "settle" /\ "settle" \in Kinds(c.op)
  BY <1>1, Turn
<1>4. Fine(c, data, raced)
  BY DEF Quiet
<1>5. c.start = c.end
  <2> HIDE DEF c
  <2>1. c.op \in {"CreateRecord", "CreateRecordWithId", "CreateRecordsWithId", "DeleteRecords",
                 "ListRecords"}
    BY <1>3 DEF Calls
  <2>2. c.op = "CreateRecordsWithId"
    BY <1>3, <2>1 DEF Kinds
  <2> QED
    BY <1>3, <1>4, <2>2 DEF Fine, Batching, Early
<1>6. CASE Quit(t)
  BY <1>1, <1>6, QuitQuiet
<1>7. CASE Then(t, c)
  <2>1. what \notin {"assign", "runlock", "exists", "work", "remove", "create", "store", "fallback"}
    BY <1>1
  <2> QED
    BY <1>1, <1>3, <1>7, <2>1, ThenQuiet
<1> QED
  BY <1>2, <1>5, <1>6, <1>7

LEMMA LeftTurn ==
    ASSUME LInv, NEW t \in Threads, NEW what, what \in {"exists", "work"}, Doing(t, what),
           NEW S \in SUBSET (Nodes \X {"ask", "delete", "refresh"}),
           call' = [call EXCEPT ![t].todo[1].left = S]
    PROVE  LET c == call[t]
               d == call'[t] IN
           /\ c \in Calls /\ d \in Calls /\ \A u \in Threads \ {t} : call'[u] = call[u]
           /\ d.op = c.op /\ d.ids = c.ids /\ d.still = c.still
           /\ Head(c.todo).do = what /\ Head(d.todo).do = what /\ Head(d.todo).left = S
           /\ Nested(d.todo) <=> Nested(c.todo)
<1> DEFINE c == call[t]
           d == call'[t]
           h == Head(c.todo)
           q == [c.todo EXCEPT ![1].left = S]
           e == [c EXCEPT !.todo = q]
<1>1. c \in Calls /\ c # None /\ WellFormed(c.op, c.todo) /\ h.do = what /\ h \in Steps
  BY Turn
<1>2. /\ WellFormed(c.op, q) /\ Head(q) = [h EXCEPT !.left = S]
      /\ Nested(q) <=> Nested(c.todo)
  <2> DEFINE todo == c.todo
             op == c.op
  <2>1. WellFormed(op, todo) /\ Head(todo).do \in {"exists", "work"}
    BY <1>1
  <2> HIDE DEF todo, op
  <2>2. LET new == [todo EXCEPT ![1].left = S] IN
        /\ WellFormed(op, new) /\ Head(new) = [Head(todo) EXCEPT !.left = S]
        /\ Nested(new) <=> Nested(todo)
    BY <2>1, LeftWell
  <2> QED
    BY <2>2 DEF todo, op
<1>3. Head(q).do = what /\ Head(q).left = S
  BY <1>1, <1>2 DEF Steps
<1>4. call' = [call EXCEPT ![t] = e]
  OBVIOUS
<1> HIDE DEF q
<1>5. e \in Calls
  BY <1>1, <1>2, CallTypes DEF WellFormed
<1>6. e.todo = q /\ e.op = c.op /\ e.ids = c.ids /\ e.still = c.still
  <2> HIDE DEF c
  <2> QED
    BY <1>1 DEF Calls
<1> HIDE DEF e
<1>7. d = e /\ \A u \in Threads \ {t} : call'[u] = call[u]
  BY <1>4, <1>5, Put
<1> QED
  BY <1>1, <1>2, <1>3, <1>5, <1>6, <1>7

LEMMA FineLeft ==
    ASSUME NEW c \in Calls, NEW d \in Calls, NEW D, NEW R, Fine(c, D, R), NEW E,
           d.op = c.op, Nested(d.todo) <=> Nested(c.todo),
           Head(d.todo).do \in {"exists", "work"},
           d.still /\ d.op = "CreateRecordWithId" /\ Head(d.todo).do = "exists" =>
              Cleared(d, "ask", E, R),
           d.still /\ d.op = "DeleteRecords" => Head(d.todo).do = "work" /\ Cleared(d, "delete", E, R)
    PROVE  Fine(d, E, R)
<1>1. c # None
  BY CallTypes
<1>2. Asked(d, E, R)
  BY DEF Asked
<1>3. Batching(d, E, R)
  BY <1>1 DEF Fine, Batching, Early, Storing, FallingBack, Answered
<1>4. Erased(d, E, R)
  BY DEF Erased
<1> QED
  BY <1>2, <1>3, <1>4 DEF Fine

LEMMA ExistsQuiet ==
    ASSUME LInv, Quiet, NEW t \in Threads, Exists(t), faults' = 0
    PROVE  Quiet'
<1> DEFINE what == "exists"
           c == call[t]
           d == call'[t]
           left == Now(t).left
<1>1. /\ Doing(t, what) /\ what = "exists" /\ data' = data /\ raced' = raced
      /\ slipped' = slipped /\ next' = next /\ nextId' = nextId
  BY DEF Exists, history, counters
<1>2. PICK w \in left, rpc \in Outcomes :
        /\ IF rpc[2] /\ c.ids \subseteq data[w[1]] THEN Quit(t)
           ELSE IF Cardinality(left) = 1 THEN Then(t, c)
           ELSE call' = [call EXCEPT ![t].todo[1].left = @ \ {w}]
        /\ Count(rpc[2])
  BY DEF Exists
<1>3. rpc[2]
  BY <1>2, Rpc
<1> HIDE DEF what
<1>4. /\ c \in Calls /\ c # None /\ Head(c.todo).do = "exists" /\ Now(t) \in Steps /\ Fitting(c)
      /\ Now(t) = Head(c.todo) /\ WellFormed(c.op, c.todo) /\ "exists" \in Kinds(c.op)
  BY <1>1, Turn
<1>5. left \in SUBSET (Nodes \X {"ask", "delete", "refresh"})
  BY <1>4 DEF Steps
<1>6. Fine(c, data, raced)
  BY DEF Quiet
<1>7. c.op = "CreateRecordWithId" /\ \E id : c.ids = {id}
  <2>1. IsFiniteSet(c.ids)
    BY <1>4, CallIds, IdsFinite
  <2> HIDE DEF c
  <2>2. c.op \in {"CreateRecord", "CreateRecordWithId", "CreateRecordsWithId",
                  "DeleteRecords", "ListRecords"}
    BY <1>4 DEF Calls
  <2>3. c.op = "CreateRecordWithId"
    BY <1>4, <2>2 DEF Kinds
  <2>4. Cardinality(c.ids) = 1
    BY <1>4, <2>3 DEF Fitting
  <2> DEFINE S == c.ids
  <2>5. IsFiniteSet(S) /\ Cardinality(S) = 1
    BY <2>1, <2>4
  <2> HIDE DEF S
  <2>6. \E a : S = {a}
    BY <2>5, FS_Singleton
  <2> QED
    BY <2>3, <2>6 DEF S
<1>8. CASE Quit(t)
  BY <1>1, <1>8, QuitQuiet
<1>9. ASSUME ~Quit(t), NEW n \in Nodes, c.still, <<n, "ask">> \notin left \ {w}
      PROVE  c.ids \cap data[n] \subseteq raced
  <2>1. CASE <<n, "ask">> \notin left
    <3>1. Cleared(c, "ask", data, raced)
      <4> HIDE DEF c
      <4> QED
        BY <1>4, <1>6, <1>7, <1>9 DEF Fine, Asked
    <3> QED
      BY <1>4, <2>1, <3>1 DEF Cleared
  <2>2. CASE <<n, "ask">> \in left
    <3>1. w[1] = n
      BY <1>9, <2>2
    <3> QED
      BY <1>2, <1>3, <1>7, <1>9, <3>1
  <2> QED
    BY <2>1, <2>2
<1>10. CASE ~Quit(t) /\ Cardinality(left) = 1
  <2>1. Then(t, c)
    BY <1>2, <1>10
  <2>2. what \notin {"assign", "runlock"}
    BY <1>1
  <2>3. /\ d \in Calls /\ d # None /\ \A u \in Threads \ {t} : call'[u] = call[u]
        /\ d.op = c.op /\ d.ids = c.ids /\ Follows(Head(c.todo), Head(d.todo))
    BY <1>1, <1>4, <2>1, <2>2, ThenPut
  <2>4. d.still = c.still
    BY <1>4, <2>1, ThenStill
  <2>5. left \ {w} = {}
    <3>1. IsFiniteSet(left)
      <4>1. IsFiniteSet(Nodes) /\ IsFiniteSet({"ask", "delete", "refresh"})
        <5>1. IsFiniteSet({"ask"}) /\ IsFiniteSet({"delete"}) /\ IsFiniteSet({"refresh"})
          BY FS_Singleton
        <5>2. IsFiniteSet({"ask"} \cup {"delete"})
          BY <5>1, FS_Union
        <5>3. IsFiniteSet(({"ask"} \cup {"delete"}) \cup {"refresh"})
          BY <5>1, <5>2, FS_Union
        <5>4. ({"ask"} \cup {"delete"}) \cup {"refresh"} = {"ask", "delete", "refresh"}
          OBVIOUS
        <5>5. IsFiniteSet(Nodes)
          BY InternalAssumption, FS_Interval DEF Nodes
        <5> QED
          BY <5>3, <5>4, <5>5
      <4>2. IsFiniteSet(Nodes \X {"ask", "delete", "refresh"})
        BY <4>1, FS_Product
      <4> QED
        BY <1>5, <4>2, FS_Subset
    <3> HIDE DEF left
    <3>2. \E a : left = {a}
      BY <1>10, <3>1, FS_Singleton
    <3> QED
      BY <3>2
  <2>6. c.still => Nowhere(c.ids, data, raced)
    BY <1>9, <1>10, <2>5 DEF Nowhere
  <2> HIDE DEF c, d
  <2>7. Head(d.todo) = At("lock", 0)
    BY <1>4, <2>3 DEF Follows
  <2>8. Fine(d, data, raced)
    <3>1. Asked(d, data, raced)
      BY <2>3, <2>4, <2>6, <2>7, AtIs DEF Asked
    <3>2. Batching(d, data, raced) /\ Erased(d, data, raced)
      BY <1>7, <2>3 DEF Batching, Erased
    <3> QED
      BY <3>1, <3>2 DEF Fine
  <2>9. Head(c.todo).do \notin {"remove", "create", "store", "fallback"}
    BY <1>4
  <2> QED
    BY <1>1, <1>4, <2>3, <2>8, <2>9, LocalQuiet DEF c, d
<1>11. CASE ~Quit(t) /\ Cardinality(left) # 1
  <2> DEFINE S == left \ {w}
  <2>1. Now(t) = call[t].todo[1]
    BY <1>4, HeadWell
  <2>2. S \in SUBSET (Nodes \X {"ask", "delete", "refresh"})
    BY <1>5
  <2>3. call' = [call EXCEPT ![t].todo[1].left = S]
    BY <1>2, <1>11, <2>1
  <2>4. c.still => \A n \in Nodes : <<n, "ask">> \notin S => c.ids \cap data[n] \subseteq raced
    BY <1>9, <1>11
  <2> HIDE DEF S
  <2>5. what \in {"exists", "work"}
    BY <1>1
  <2>6. /\ d \in Calls /\ \A u \in Threads \ {t} : call'[u] = call[u]
        /\ d.op = c.op /\ d.ids = c.ids /\ d.still = c.still
        /\ Head(d.todo).do = what /\ Head(d.todo).left = S /\ (Nested(d.todo) <=> Nested(c.todo))
    BY <1>1, <2>2, <2>3, <2>5, LeftTurn
  <2> HIDE DEF c, d
  <2>7. d.still => Cleared(d, "ask", data, raced)
    BY <2>4, <2>6 DEF Cleared
  <2>8. Fine(d, data, raced)
    BY <1>1, <1>4, <1>6, <1>7, <2>6, <2>7, FineLeft
  <2>9. Head(c.todo).do \notin {"remove", "create", "store", "fallback"}
    BY <1>4
  <2> QED
    BY <1>1, <1>4, <2>6, <2>8, <2>9, LocalQuiet DEF c, d
<1> QED
  BY <1>8, <1>10, <1>11

(* A worker deletes its records on one node; what it has not done yet is   *)
(* in left.                                                                *)
LEMMA WorkerDeleteQuiet ==
    ASSUME LInv, Quiet, NEW t \in Threads, WorkerDelete(t), faults' = 0
    PROVE  Quiet'
<1> DEFINE what == "work"
           c == call[t]
           d == call'[t]
           left == Now(t).left
<1>1. /\ Doing(t, what) /\ what = "work" /\ raced' = raced /\ slipped' = slipped
      /\ next' = next /\ nextId' = nextId
  BY DEF WorkerDelete, history, counters
<1>2. PICK n \in Nodes, rpc \in Outcomes :
        /\ data' = IF rpc[1] THEN [data EXCEPT ![n] = @ \ c.ids] ELSE data
        /\ WorkLeft(t, (left \ {<<n, "delete">>}) \cup {<<n, "refresh">>})
        /\ Count(rpc[2])
  BY DEF WorkerDelete
<1>3. rpc[1]
  BY <1>2, Rpc
<1> HIDE DEF what
<1>4. /\ c \in Calls /\ c # None /\ Head(c.todo).do = "work" /\ Now(t) \in Steps
      /\ Now(t) = Head(c.todo)
  BY <1>1, Turn
<1> DEFINE S == (left \ {<<n, "delete">>}) \cup {<<n, "refresh">>}
<1>5. S \in SUBSET (Nodes \X {"ask", "delete", "refresh"})
  BY <1>4 DEF Steps
<1>6. call' = [call EXCEPT ![t].todo[1].left = S]
  BY <1>2 DEF WorkLeft
<1>7. \A m \in Nodes : <<m, "delete">> \notin S => m = n \/ <<m, "delete">> \notin left
  OBVIOUS
<1> HIDE DEF S
<1>8. what \in {"exists", "work"}
  BY <1>1
<1>9. /\ d \in Calls /\ \A u \in Threads \ {t} : call'[u] = call[u]
      /\ d.op = c.op /\ d.ids = c.ids /\ d.still = c.still
      /\ Head(d.todo).do = what /\ Head(d.todo).left = S /\ (Nested(d.todo) <=> Nested(c.todo))
  BY <1>1, <1>5, <1>6, <1>8, LeftTurn
<1>10. Fine(c, data, raced)
  BY DEF Quiet
<1>11. data \in [Nodes -> SUBSET Nat]
  BY DEF LInv, TypeOK
<1>12. data'[n] = data[n] \ c.ids /\ \A m \in Nodes \ {n} : data'[m] = data[m]
  BY <1>2, <1>3, <1>11
<1>13. \A m \in Nodes : data'[m] \subseteq data[m]
  BY <1>12
<1> HIDE DEF c, d
<1>14. d.still /\ d.op = "DeleteRecords" => Cleared(d, "delete", data', raced)
  <2> SUFFICES ASSUME d.still, d.op = "DeleteRecords", NEW m \in Nodes, <<m, "delete">> \notin S
               PROVE  c.ids \cap data'[m] \subseteq raced
    BY <1>9 DEF Cleared
  <2>1. Cleared(c, "delete", data, raced)
    BY <1>4, <1>9, <1>10 DEF Fine, Erased
  <2>2. CASE m = n
    BY <1>12, <2>2
  <2>3. CASE m # n
    BY <1>4, <1>7, <1>12, <2>1, <2>3 DEF Cleared
  <2> QED
    BY <2>2, <2>3
<1>15. Fine(d, data', raced')
  BY <1>1, <1>4, <1>9, <1>10, <1>14, FineLeft
<1>16. /\ call[t] # None => Head(call[t].todo).do # "remove"
       /\ \A u \in Threads \ {t} : Alike(call[u], call'[u])
  BY <1>4, <1>9 DEF c, Alike
<1>17. Lower'
  <2>1. nextId \in Nat /\ nextId <= nextId /\ ~Answering(call[t])
    BY <1>4 DEF LInv, TypeOK, Answering, Answered, c
  <2> QED
    BY <1>1, <1>13, <1>16, <2>1, LowerStays DEF Quiet
<1> QED
  BY <1>1, <1>9, <1>13, <1>15, <1>16, <1>17, StepQuiet DEF d

LEMMA WorkerRefreshQuiet ==
    ASSUME LInv, Quiet, NEW t \in Threads, WorkerRefresh(t), faults' = 0
    PROVE  Quiet'
<1> DEFINE what == "work"
           c == call[t]
           d == call'[t]
           left == Now(t).left
<1>1. /\ Doing(t, what) /\ what = "work" /\ raced' = raced /\ slipped' = slipped /\ data' = data
  BY DEF WorkerRefresh, history
<1>2. PICK n \in Nodes, rpc \in Outcomes :
        /\ next' = IF rpc[2] THEN [next EXCEPT ![n] = own[n]] ELSE next
        /\ nextId' = Raised(next'[n])
        /\ WorkLeft(t, left \ {<<n, "refresh">>})
  BY DEF WorkerRefresh
<1> HIDE DEF what
<1>3. /\ c \in Calls /\ c # None /\ Head(c.todo).do = "work" /\ Now(t) \in Steps
      /\ Now(t) = Head(c.todo) /\ WellFormed(c.op, c.todo)
  BY <1>1, Turn
<1> DEFINE S == left \ {<<n, "refresh">>}
<1>4. S \in SUBSET (Nodes \X {"ask", "delete", "refresh"}) /\ WorkLeft(t, S)
  BY <1>2, <1>3 DEF Steps
<1>5. \A m \in Nodes : <<m, "delete">> \notin S => <<m, "delete">> \notin left
  OBVIOUS
<1> HIDE DEF S
<1>6. Fine(c, data, raced)
  BY DEF Quiet
<1>7. /\ \A u \in Threads \ {t} : call'[u] = call[u]
      /\ Fine(d, data, raced)
  <2>1. CASE S = {}
    <3>1. Then(t, c)
      BY <1>4, <2>1 DEF WorkLeft
    <3>2. what \notin {"assign", "runlock"}
      BY <1>1
    <3>3. /\ d \in Calls /\ d # None /\ \A u \in Threads \ {t} : call'[u] = call[u]
          /\ d.op = c.op /\ d.ids = c.ids /\ Follows(Head(c.todo), Head(d.todo))
          /\ Nested(d.todo) <=> Nested(c.todo)
      BY <1>1, <1>3, <3>1, <3>2, ThenPut
    <3>4. d.still = c.still
      BY <1>3, <3>1, ThenStill
    <3> HIDE DEF c, d
    <3>5. Head(d.todo).do = "balance"
      BY <1>3, <3>3 DEF Follows
    <3>6. Asked(d, data, raced)
      BY <3>5 DEF Asked
    <3>7. Batching(d, data, raced)
      BY <1>3, <1>6, <3>3, <3>5 DEF Fine, Batching, Early, Storing, FallingBack, Answered
    <3>8. Erased(d, data, raced)
      <4> SUFFICES ASSUME c.op = "DeleteRecords", c.still PROVE Nowhere(c.ids, data, raced)
        BY <3>3, <3>4, <3>5 DEF Erased
      <4>1. Cleared(c, "delete", data, raced)
        BY <1>3, <1>6 DEF Fine, Erased
      <4> QED
        BY <1>3, <1>5, <2>1, <4>1 DEF Cleared, Nowhere
    <3> QED
      BY <3>3, <3>6, <3>7, <3>8 DEF Fine
  <2>2. CASE S # {}
    <3>1. call' = [call EXCEPT ![t].todo[1].left = S]
      BY <1>4, <2>2 DEF WorkLeft
    <3>2. what \in {"exists", "work"}
      BY <1>1
    <3>3. /\ d \in Calls /\ \A u \in Threads \ {t} : call'[u] = call[u]
          /\ d.op = c.op /\ d.ids = c.ids /\ d.still = c.still
          /\ Head(d.todo).do = what /\ Head(d.todo).left = S /\ (Nested(d.todo) <=> Nested(c.todo))
      BY <1>1, <1>4, <3>1, <3>2, LeftTurn
    <3> HIDE DEF c, d
    <3>4. d.still /\ d.op = "DeleteRecords" => Cleared(d, "delete", data, raced)
      BY <1>3, <1>5, <1>6, <3>3 DEF Fine, Erased, Cleared
    <3>5. Fine(d, data, raced)
      BY <1>1, <1>3, <1>6, <3>3, <3>4, FineLeft
    <3> QED
      BY <3>3, <3>5
  <2> QED
    BY <2>1, <2>2
<1>8. /\ call[t] # None => Head(call[t].todo).do # "remove"
      /\ \A u \in Threads \ {t} : Alike(call[u], call'[u])
  BY <1>3, <1>7 DEF Alike
<1>9. Lower'
  <2>1. next \in [Nodes -> Nat] /\ own \in [Nodes -> Nat] /\ nextId \in Nat
    BY DEF LInv, TypeOK
  <2>2. next' \in [Nodes -> Nat] /\ \A m \in Nodes \ {n} : next'[m] = next[m]
    BY <1>2, <2>1
  <2>3. nextId' \in Nat /\ nextId <= nextId' /\ next'[n] <= nextId'
    BY <1>2, <2>1, <2>2 DEF Raised
  <2>4. ~Answering(call[t])
    BY <1>3 DEF Answering, Answered
  <2>5. \A m \in Nodes : next'[m] = next[m] \/ next'[m] <= nextId'
    BY <2>2, <2>3
  <2> QED
    BY <1>1, <1>8, <2>3, <2>4, <2>5, LowerStays DEF Quiet
<1> HIDE DEF c
<1> QED
  BY <1>1, <1>7, <1>8, <1>9, StepQuiet

(* A balance or a transfer starts nothing that depends on where its own    *)
(* records are.                                                            *)
LEMMA FineOnward ==
    ASSUME NEW c \in Calls, NEW d \in Calls, NEW D, NEW R, Fine(c, D, R), NEW E,
           d.op = c.op, d.ids = c.ids, d.still = c.still, c.op # "CreateRecordWithId",
           Head(c.todo).do \notin {"rlock", "total", "work"},
           \/ Head(d.todo).do \in {"compare", "runlock", "remove"}
           \/ Head(d.todo).do = "lock" /\ Head(d.todo).m # 0,
           Nested(d.todo) <=> Nested(c.todo),
           \A n \in Nodes : \A id \in E[n] : \E m \in Nodes : id \in D[m]
    PROVE  Fine(d, E, R)
<1>1. c # None
  BY CallTypes
<1>2. Asked(d, E, R)
  BY DEF Asked
<1>3. Batching(d, E, R)
  BY <1>1 DEF Fine, Batching, Early, Storing, FallingBack, Answered
<1>4. Nowhere(c.ids, D, R) => Nowhere(c.ids, E, R)
  BY DEF Nowhere
<1>5. Erased(d, E, R)
  BY <1>1, <1>4 DEF Fine, Erased
<1> QED
  BY <1>2, <1>3, <1>5 DEF Fine

LEMMA BalanceQuiet ==
    ASSUME LInv, Quiet, NEW t \in Threads, Balance(t)
    PROVE  Quiet'
<1> DEFINE c == call[t]
           d == call'[t]
           counts == [i \in 1 .. N |-> status[i]]
           q == PlanSteps(BalancePlan(counts)) \o Tail(c.todo)
           e == [c EXCEPT !.todo = q]
<1>1. /\ Doing(t, "balance") /\ data' = data /\ raced' = raced /\ slipped' = slipped
      /\ next' = next /\ nextId' = nextId /\ call' = [call EXCEPT ![t] = e]
  BY DEF Balance, history, counters
<1>2. counts \in Seq(Int) /\ Len(counts) = N
  BY CountsSeq
<1> HIDE DEF counts
<1>3. /\ c \in Calls /\ c # None /\ WellFormed(c.op, c.todo) /\ Head(c.todo).do = "balance"
      /\ "balance" \in Kinds(c.op)
  BY <1>1, Turn
<1>4. /\ WellFormed(c.op, q) /\ (Nested(q) <=> Nested(c.todo))
      /\ Head(q).do \in {"compare", "runlock"} \/ (Head(q).do = "lock" /\ Head(q).m # 0)
  <2> DEFINE todo == c.todo
             op == c.op
  <2>1. WellFormed(op, todo) /\ Head(todo).do = "balance"
    BY <1>3
  <2> HIDE DEF todo, op
  <2>2. LET new == PlanSteps(BalancePlan(counts)) \o Tail(todo) IN
        /\ WellFormed(op, new) /\ (Nested(new) <=> Nested(todo))
        /\ Head(new).do \in {"compare", "runlock"} \/ (Head(new).do = "lock" /\ Head(new).m # 0)
    BY <1>2, <2>1, BalanceWell
  <2> QED
    BY <2>2 DEF todo, op
<1> HIDE DEF q
<1>5. e \in Calls
  <2>1. q \in Seq(Steps)
    BY <1>4 DEF WellFormed
  <2> QED
    BY <1>3, <2>1, CallTypes
<1>6. e.todo = q /\ e.op = c.op /\ e.ids = c.ids /\ e.still = c.still
  <2> HIDE DEF c
  <2> QED
    BY <1>3 DEF Calls
<1> HIDE DEF e
<1>7. d = e /\ \A u \in Threads \ {t} : call'[u] = call[u]
  BY <1>1, <1>5, Put
<1>8. Fine(c, data, raced)
  BY DEF Quiet
<1> HIDE DEF c, d
<1>9. c.op # "CreateRecordWithId"
  BY <1>3 DEF Kinds
<1>10. Fine(d, data, raced)
  BY <1>3, <1>4, <1>5, <1>6, <1>7, <1>8, <1>9, FineOnward
<1>11. Head(c.todo).do \notin {"remove", "create", "store", "fallback"}
  BY <1>3
<1> QED
  BY <1>1, <1>3, <1>7, <1>10, <1>11, LocalQuiet DEF c, d

LEMMA RUnlockQuiet ==
    ASSUME LInv, Quiet, NEW t \in Threads, RUnlock(t)
    PROVE  Quiet'
<1> DEFINE c == call[t]
           d == call'[t]
           e == [c EXCEPT !.todo = Tail(@)]
<1>1. /\ c \in Calls /\ c # None /\ WellFormed(c.op, c.todo) /\ Head(c.todo).do = "runlock"
  BY Turn DEF RUnlock
<1>2. data' = data /\ raced' = raced /\ slipped' = slipped /\ next' = next /\ nextId' = nextId
  BY DEF RUnlock, counters
<1>3. Head(call[t].todo).do \notin {"remove", "create", "store", "fallback"}
  BY <1>1
<1>4. CASE Len(c.todo) = 1
  <2>1. call' = [call EXCEPT ![t] = None]
    BY <1>4 DEF RUnlock, Answer
  <2>2. call'[t] = None /\ \A u \in Threads \ {t} : call'[u] = call[u]
    BY <2>1, Put
  <2>3. Fine(call'[t], data, raced)
    BY <2>2 DEF Fine
  <2> QED
    BY <1>1, <1>2, <1>3, <2>2, <2>3, LocalQuiet
<1>5. CASE Len(c.todo) # 1
  <2>1. call' = [call EXCEPT ![t] = e]
    BY <1>5 DEF RUnlock, Then
  <2>2. Len(c.todo) > 1
    <3>1. c.todo \in Seq(Steps) /\ Len(c.todo) > 0 /\ Len(c.todo) \in Nat
      BY <1>1, HeadWell
    <3> DEFINE l == Len(c.todo)
    <3>2. l # 1 /\ l > 0 /\ l \in Nat
      BY <1>5, <3>1
    <3> HIDE DEF l
    <3>3. l > 1
      BY <3>2
    <3> QED
      BY <3>3 DEF l
  <2>3. /\ WellFormed(c.op, Tail(c.todo)) /\ Follows(Head(c.todo), Head(Tail(c.todo)))
    BY <1>1, <2>2, TailWell
  <2>4. ~Nested(Tail(c.todo))
    <3> DEFINE s == c.todo
    <3>1. /\ s \in Seq(Steps) /\ s # <<>> /\ Len(s) \in Nat /\ Len(s) > 1 /\ s[1].do = "runlock"
          /\ \A i \in 1 .. Len(s) - 2 : s[i].do # "runlock"
      BY <1>1, <2>2, HeadWell DEF WellFormed
    <3> HIDE DEF s
    <3>2. Len(s) <= 2
      BY <3>1
    <3> DEFINE l == Len(s)
    <3>3. l \in Nat /\ l > 1 /\ l <= 2
      BY <3>1, <3>2
    <3> HIDE DEF l
    <3>4. l = 2
      BY <3>3
    <3> DEFINE r == Tail(s)
    <3>5. Len(r) = Len(s) - 1
      BY <3>1
    <3> HIDE DEF r
    <3>6. ~(Len(r) > 1)
      BY <3>4, <3>5 DEF l
    <3>7. ~Nested(r)
      BY <3>6 DEF Nested
    <3> QED
      BY <3>7 DEF r, s
  <2>5. e \in Calls
    <3>1. Tail(c.todo) \in Seq(Steps)
      BY <2>3 DEF WellFormed
    <3> QED
      BY <1>1, <3>1, CallTypes
  <2>6. e.todo = Tail(c.todo) /\ e.op = c.op /\ e.ids = c.ids /\ e.still = c.still
    <3> HIDE DEF c
    <3> QED
      BY <1>1 DEF Calls
  <2> HIDE DEF e
  <2>7. d = e /\ \A u \in Threads \ {t} : call'[u] = call[u]
    BY <2>1, <2>5, Put
  <2>8. Fine(c, data, raced)
    BY DEF Quiet
  <2> HIDE DEF c, d
  <2>9. Head(d.todo).do = "runlock" /\ ~Nested(d.todo)
    BY <1>1, <2>3, <2>4, <2>6, <2>7 DEF Follows
  <2>10. Fine(d, data, raced)
    BY <1>1, <2>5, <2>6, <2>7, <2>8, <2>9, FineLast
  <2> QED
    BY <1>1, <1>2, <1>3, <2>7, <2>10, LocalQuiet DEF c, d
<1> QED
  BY <1>4, <1>5

LEMMA WriterQuiet ==
    ASSUME Quiet, WLock \/ WUnlock \/ UNCHANGED vars
    PROVE  Quiet'
<1>1. UNCHANGED <<data, next, nextId, call, raced, slipped>>
  BY DEF WLock, WUnlock, vars, counters, history
<1> QED
  BY <1>1 DEF Quiet, Unique, Lower

(* CreateRecord stores under an identifier that nobody has.                *)
LEMMA AssignQuiet ==
    ASSUME LInv, Quiet, NEW t \in Threads, Assign(t), faults' = 0
    PROVE  Quiet'
<1> DEFINE c == call[t]
           n == c.good
<1>1. Doing(t, "assign") /\ call' = [call EXCEPT ![t] = None] /\ slipped' = slipped
  BY DEF Assign
<1>2. /\ c \in Calls /\ c # None /\ Fitting(c) /\ Head(c.todo).do = "assign"
  BY <1>1, Turn
<1>3. PICK rpc \in Outcomes :
        /\ raced' = raced \cup ({nextId} \cap InProgress(t))
        /\ data' = IF rpc[1] THEN [data EXCEPT ![n] = @ \cup {nextId}] ELSE data
        /\ rpc[2] /\ nextId \notin data[n] =>
              nextId' = nextId + 1 /\ next' = [next EXCEPT ![n] = nextId + 1]
        /\ Count(rpc[2])
  BY DEF Assign
<1>4. rpc[2] /\ rpc[1]
  BY <1>3, Rpc
<1>5. /\ call'[t] = None /\ \A u \in Threads \ {t} : call'[u] = call[u]
      /\ \A u \in Threads \ {t} : Alike(call[u], call'[u])
  BY <1>1, Put
<1>6. n \in Nodes
  <2> HIDE DEF c
  <2> QED
    BY <1>2 DEF Fitting
<1>7. data \in [Nodes -> SUBSET Nat] /\ next \in [Nodes -> Nat] /\ nextId \in Nat
  BY DEF LInv, TypeOK
<1>8. ~Answering(call[t]) /\ n \in Held(call[t])
  BY <1>2 DEF Answering, Answered, Held
<1>9. nextId \notin data[n]
  <2>1. \A id \in data[n] : id \in Nat /\ id < nextId
    BY <1>6, <1>8, LockedLower DEF Quiet
  <2> QED
    BY <1>7, <2>1
<1>10. nextId \notin raced' => \A m \in Nodes : nextId \notin data[m]
  <2> SUFFICES ASSUME NEW m \in Nodes, nextId \in data[m] PROVE nextId \in InProgress(t)
    BY <1>3
  <2>1. PICK u \in Threads : Lifts(call[u], m, nextId + 1) /\ nextId \in call[u].ids
    BY <1>7 DEF Quiet, Lower
  <2>2. u # t /\ call[u] # None
    BY <1>8, <2>1 DEF Lifts, Answering
  <2> QED
    BY <2>1, <2>2 DEF InProgress, Others, Busy
<1> HIDE DEF n
<1>11. /\ data'[n] = data[n] \cup {nextId} /\ \A m \in Nodes \ {n} : data'[m] = data[m]
       /\ nextId' = nextId + 1 /\ next'[n] = nextId + 1 /\ \A m \in Nodes \ {n} : next'[m] = next[m]
  BY <1>3, <1>4, <1>6, <1>7, <1>9
<1>12. Lower'
  <2>1. nextId' \in Nat /\ nextId <= nextId' /\ nextId < nextId'
    BY <1>7, <1>11
  <2>2. \A m \in Nodes : next'[m] = next[m] \/ next'[m] <= nextId'
    BY <1>11, <2>1
  <2>3. \A m \in Nodes : \A id \in data'[m] : id \in data[m] \/ id < nextId'
    BY <1>11, <2>1
  <2> QED
    BY <1>5, <1>8, <2>1, <2>2, <2>3, LowerStays DEF Quiet
<1>13. \A m \in Nodes : \A id : id \in data'[m] => id \in data[m] \/ (m = n /\ id = nextId)
  BY <1>11
<1>14. ASSUME NEW u \in Threads \ {t}, call[u] # None, NEW id \in call[u].ids, id \notin raced',
              NEW m \in Nodes, id \in data'[m]
       PROVE  id \in data[m]
  <2>1. id \in InProgress(t)
    BY <1>14 DEF InProgress, Others, Busy
  <2> QED
    BY <1>3, <1>13, <1>14, <2>1
<1>15. Fine(call'[t], data', raced') /\ raced \subseteq raced'
  BY <1>3, <1>5 DEF Fine
<1>16. call[t] # None => Head(call[t].todo).do # "remove"
  BY <1>2
<1>17. \A id \in Nat \ (raced' \cup slipped') : \A m \in Nodes :
          id \in data'[m] => id \in data[m] \/ (m = n /\ \A k \in Nodes : id \notin data[k])
  BY <1>10, <1>13
<1> QED
  BY <1>1, <1>5, <1>6, <1>12, <1>14, <1>15, <1>16, <1>17, StepQuiet

(* CreateRecordWithId: nobody has the record, unless a transfer took it    *)
(* past the questions.                                                     *)
LEMMA CreateQuiet ==
    ASSUME SInv, Quiet, NEW t \in Threads, Create(t), faults' = 0
    PROVE  Quiet'
<1> DEFINE c == call[t]
           d == call'[t]
           n == c.good
<1>1. LInv
  BY DEF SInv
<1>2. PICK rpc \in Outcomes, id \in c.ids, k \in Nat : Created(t, rpc, id, k)
  BY <1>1, CreateDoes
<1>3. /\ data' = (IF rpc[1] THEN [data EXCEPT ![n] = @ \cup {id}] ELSE data)
      /\ Count(rpc[2]) /\ nextId' = nextId /\ raced' = raced
      /\ slipped' = (IF c.still THEN slipped ELSE slipped \cup c.ids)
      /\ n \in Nodes /\ id \in Nat /\ c.ids = {id} /\ c.op = "CreateRecordWithId" /\ c # None
      /\ Head(c.todo).do = "create" /\ Head(c.todo).k = 0 /\ d # None
      /\ \A u \in Threads \ {t} : Alike(call[u], call'[u])
      /\ \A u \in Threads \ {t} : call'[u] = call[u]
      /\ d.op = c.op /\ d.ids = c.ids /\ d.good = n
  BY <1>2 DEF Created
<1>4. rpc[2] /\ rpc[1]
  BY <1>1, <1>3, Rpc
<1>5. IF id \notin data[n]
      THEN /\ k = (IF next[n] <= id THEN id + 1 ELSE next[n]) /\ k # 0
           /\ next' = [next EXCEPT ![n] = k]
      ELSE k = 0 /\ next' = next
  BY <1>2, <1>4 DEF Created
<1>6. IF k = 0 THEN Head(d.todo).do = "runlock" ELSE Head(d.todo).do = "create" /\ Head(d.todo).k = k
  BY <1>2 DEF Created
<1>7. data \in [Nodes -> SUBSET Nat] /\ next \in [Nodes -> Nat] /\ nextId \in Nat
  BY <1>1 DEF LInv, TypeOK
<1>8. ~Answering(call[t]) /\ n \in Held(call[t])
  BY <1>3 DEF Answering, Answered, Held
<1>9. id \notin raced' \cup slipped' => \A m \in Nodes : id \notin data[m]
  <2>1. Fine(c, data, raced)
    BY DEF Quiet
  <2> HIDE DEF c
  <2>2. c.still => Nowhere(c.ids, data, raced)
    BY <1>3, <2>1 DEF Fine, Asked, Answered
  <2> QED
    BY <1>2, <1>3, <2>2 DEF Nowhere
<1>10. Fine(d, data', raced')
  <2> HIDE DEF c, d
  <2>1. Head(d.todo).do \in {"runlock", "create"} /\ (Head(d.todo).do = "create" => Answered(Head(d.todo)))
    BY <1>6 DEF Answered
  <2> QED
    BY <1>3, <2>1 DEF Fine, Asked, Batching, Erased
<1>11. ASSUME NEW u \in Threads \ {t}, call[u] # None PROVE id \in call[u].ids => id \in raced'
  <2>1. call[u].ids \cap c.ids \subseteq raced
    BY <1>3, <1>11 DEF SInv, Apart
  <2> QED
    BY <1>2, <1>3, <2>1
<1>12. data'[n] = data[n] \cup {id} /\ \A m \in Nodes \ {n} : data'[m] = data[m]
  BY <1>3, <1>4, <1>7
<1>13. k # 0 => n \in Held(d) /\ Answering(d) /\ Head(d.todo).k = k
  <2> HIDE DEF c, d
  <2> QED
    BY <1>3, <1>6 DEF Held, Answering, Answered
<1> HIDE DEF c, d, n
<1>14. Lower'
  <2>1. CASE id \in data[n]
    <3>1. next' = next /\ \A m \in Nodes : data'[m] = data[m]
      BY <1>5, <1>12, <2>1
    <3> QED
      BY <1>1, <1>3, <1>7, <1>8, <3>1, LowerStays DEF Quiet
  <2>2. CASE id \notin data[n]
    <3>1. k # 0 /\ next'[n] = k /\ id + 1 <= k /\ \A m \in Nodes \ {n} : next'[m] = next[m]
      BY <1>3, <1>5, <1>7, <2>2
    <3>2. Lifts(d, n, next'[n]) /\ Lifts(d, n, id + 1) /\ id \in d.ids
      BY <1>3, <1>13, <3>1 DEF Lifts
    <3>3. /\ \A m \in Nodes : next'[m] = next[m] \/ Lifts(call'[t], m, next'[m])
          /\ \A m \in Nodes : \A i \in data'[m] :
                i \in data[m] \/ (Lifts(call'[t], m, i + 1) /\ i \in call'[t].ids)
      BY <1>12, <3>1, <3>2 DEF d
    <3> QED
      BY <1>1, <1>3, <1>7, <1>8, <3>3, LowerStays DEF Quiet
  <2> QED
    BY <2>1, <2>2
<1>15. \A m \in Nodes : \A i : i \in data'[m] => i \in data[m] \/ (m = n /\ i = id)
  BY <1>12
<1>16. raced \subseteq raced' /\ slipped \subseteq slipped'
  BY <1>3
<1>17. call[t] # None => Head(call[t].todo).do # "remove"
  BY <1>3 DEF c
<1>18. \A i \in Nat \ (raced' \cup slipped') : \A m \in Nodes :
          i \in data'[m] => i \in data[m] \/ (m = n /\ \A j \in Nodes : i \notin data[j])
  BY <1>9, <1>15
<1>19. \A u \in Threads \ {t} : call[u] # None => \A i \in call[u].ids :
          i \notin raced' => \A m \in Nodes : i \in data'[m] => i \in data[m]
  BY <1>11, <1>15
<1>20. /\ \A u \in Threads \ {t} : Alike(call[u], call'[u])
       /\ \A u \in Threads \ {t} : call[u] # None /\ call'[u].still => call[u].still
       /\ n \in Nodes
  BY <1>3
<1>21. Fine(call'[t], data', raced')
  BY <1>10 DEF d
<1> QED
  BY <1>14, <1>16, <1>17, <1>18, <1>19, <1>20, <1>21, StepQuiet

(* What a creator call stores is below nextId, or will be.                 *)
LEMMA BatchLower ==
    ASSUME LInv, Lower, NEW t \in Threads, ~Answering(call[t]), NEW n \in Nodes,
           n \in Held(call[t]), NEW part, part \subseteq Ids, part \subseteq call'[t].ids,
           NEW rpc \in Outcomes, rpc[2], rpc[1], NEW k \in Nat, Batched(n, part, rpc, k),
           \A u \in Threads \ {t} : Alike(call[u], call'[u]),
           k # 0 => Answering(call'[t]) /\ n \in Held(call'[t]) /\ Head(call'[t].todo).k = k
    PROVE  /\ Lower' /\ data'[n] = data[n] \cup part
           /\ \A m \in Nodes \ {n} : data'[m] = data[m]
<1> DEFINE top == Max(part \cup {0})
           S == part \cup {0}
<1>1. data \in [Nodes -> SUBSET Nat] /\ next \in [Nodes -> Nat] /\ nextId \in Nat
  BY DEF LInv, TypeOK
<1>2. /\ data' \in BatchData(n, part, rpc[1], rpc[2]) /\ nextId' = nextId
      /\ k = (IF next[n] <= top THEN top + 2 ELSE 0)
      /\ next' = [next EXCEPT ![n] = IF @ <= top THEN top + 1 ELSE @]
  BY DEF Batched
<1>3. data' = [data EXCEPT ![n] = @ \cup part]
  BY <1>2 DEF BatchData
<1>4. data'[n] = data[n] \cup part /\ \A m \in Nodes \ {n} : data'[m] = data[m]
  BY <1>1, <1>3
<1>5. part \subseteq Nat /\ MaxId \in Nat /\ \A y \in part : y <= MaxId
  BY InternalAssumption DEF Ids
<1>6. S \subseteq Int /\ S # {} /\ \A y \in S : -1 <= y /\ y <= MaxId
  BY <1>5
<1>7. top \in Nat /\ \A y \in part : y <= top
  <2>1. top = Max(S) /\ S = part \cup {0}
    OBVIOUS
  <2> HIDE DEF S, top
  <2>2. Max(S) \in S /\ \A y \in S : y <= Max(S)
    BY <1>5, <1>6, MaxTop
  <2>3. top \in part \cup {0} /\ \A y \in part \cup {0} : y <= top
    BY <2>1, <2>2
  <2>4. \A y \in part : y \in Nat
    BY <1>5
  <2> QED
    BY <2>3, <2>4
<1> HIDE DEF top, S
<1>8. next[n] \in Nat /\ next[n] <= nextId
  BY LockedLower
<1>9. CASE next[n] <= top
  <2>1. k = top + 2 /\ next'[n] = top + 1 /\ \A m \in Nodes \ {n} : next'[m] = next[m]
    BY <1>1, <1>2, <1>9
  <2>2. k # 0 /\ next'[n] <= k /\ \A y \in part : y + 1 <= k
    BY <1>5, <1>7, <2>1
  <2>3. Lifts(call'[t], n, next'[n]) /\ \A y \in part : Lifts(call'[t], n, y + 1)
    BY <2>2 DEF Lifts
  <2>4. /\ \A m \in Nodes : next'[m] = next[m] \/ Lifts(call'[t], m, next'[m])
        /\ \A m \in Nodes : \A i \in data'[m] :
              i \in data[m] \/ (Lifts(call'[t], m, i + 1) /\ i \in call'[t].ids)
    BY <1>4, <2>1, <2>3
  <2>5. Lower'
    BY <1>1, <1>2, <2>4, LowerStays
  <2> QED
    BY <1>4, <2>5
<1>10. CASE ~(next[n] <= top)
  <2>1. \A m \in Nodes : next'[m] = next[m]
    BY <1>1, <1>2, <1>10
  <2>2. \A y \in part : y < nextId'
    BY <1>1, <1>2, <1>5, <1>7, <1>8, <1>10
  <2>3. \A m \in Nodes : \A i \in data'[m] : i \in data[m] \/ i < nextId'
    BY <1>4, <2>2
  <2>4. Lower'
    BY <1>1, <1>2, <2>1, <2>3, LowerStays
  <2> QED
    BY <1>4, <2>4
<1> QED
  BY <1>9, <1>10

(* The loop of CreateRecordsWithId: the records that are left are nowhere. *)
LEMMA StoreQuiet ==
    ASSUME SInv, Quiet, NEW t \in Threads, Store(t), faults' = 0
    PROVE  Quiet'
<1> DEFINE c == call[t]
           d == call'[t]
           h == Head(c.todo)
           r == Head(d.todo)
           n == h.n
           end == c.end + Share(Cardinality(c.ids), N, n)
           part == Slice(t, c.start, end)
<1>1. LInv
  BY DEF SInv
<1>2. PICK rpc \in Outcomes, k \in Nat : Slicing(t, rpc, k)
  BY <1>1, StoreDoes
<1>3. /\ Batched(n, part, rpc, k)
      /\ c \in Calls /\ c # None /\ c.op = "CreateRecordsWithId" /\ ~Nested(c.todo)
      /\ h.do = "store" /\ h.k = 0 /\ n \in Nodes
      /\ c.start \in Nat /\ c.end \in Nat /\ end \in Nat /\ c.end <= end /\ part \subseteq Ids
      /\ d \in Calls /\ d # None /\ \A u \in Threads \ {t} : Alike(call[u], call'[u])
      /\ \A u \in Threads \ {t} : call'[u] = call[u]
      /\ d.op = c.op /\ d.ids = c.ids /\ d.end = end /\ d.start = (IF rpc[2] THEN end ELSE c.start)
      /\ ~Nested(d.todo) /\ IF k = 0 THEN Follows(h, r) ELSE r.do = "store" /\ r.n = n /\ r.k = k
  BY <1>2 DEF Slicing
<1>4. Count(rpc[2]) /\ raced' = raced /\ slipped' = slipped
  BY <1>3 DEF Batched, history
<1>5. rpc[2] /\ rpc[1]
  BY <1>1, <1>4, Rpc
<1>6. d.start = end /\ d.end = end
  BY <1>3, <1>5
<1>7. c.ids \subseteq Nat /\ IsFiniteSet(c.ids)
  BY <1>3, CallIds, IdsFinite
<1>8. part = {z \in c.ids : Before(c.ids, z) \in c.start .. end - 1}
  BY DEF Slice
<1> HIDE DEF end, part
<1>9. ~Answering(call[t]) /\ n \in Held(call[t])
  BY <1>3 DEF Answering, Answered, Held
<1>10. k # 0 => Answering(call'[t]) /\ n \in Held(call'[t]) /\ Head(call'[t].todo).k = k
  BY <1>3 DEF Answering, Answered, Held
<1>11. Fine(c, data, raced) /\ Lower
  BY DEF Quiet
<1>12. part \subseteq call'[t].ids
  BY <1>3, <1>8
<1>13. h \in Steps
  BY <1>1, <1>3, Turn DEF Store
<1>14. /\ Lower' /\ data'[n] = data[n] \cup part /\ \A m \in Nodes \ {n} : data'[m] = data[m]
  <2> HIDE DEF n
  <2> QED
    BY <1>1, <1>3, <1>5, <1>9, <1>10, <1>11, <1>12, BatchLower
<1> HIDE DEF c, d
<1>15. /\ ~FallingBack(h) /\ c.start = c.end /\ Nowhere(Rest(c), data, raced)
  BY <1>3, <1>11 DEF Fine, Batching, Early, Storing
<1>16. \A z \in c.ids : Before(c.ids, z) \in Nat
  BY <1>7, BeforeBelow
<1>17. part \subseteq Rest(c) /\ Rest(d) \subseteq Rest(c) /\ Rest(d) \cap part = {}
  <2>1. part \subseteq Rest(c)
    BY <1>3, <1>8, <1>16 DEF Rest
  <2>2. Rest(d) = {z \in c.ids : Before(c.ids, z) >= end}
    BY <1>3, <1>6 DEF Rest
  <2>3. Rest(d) \subseteq Rest(c)
    BY <1>3, <1>15, <1>16, <2>2 DEF Rest
  <2>4. Rest(d) \cap part = {}
    BY <1>3, <1>8, <1>16, <2>2
  <2> QED
    BY <2>1, <2>3, <2>4
<1>18. \A m \in Nodes : \A i : i \in data'[m] => i \in data[m] \/ (m = n /\ i \in part)
  BY <1>14
<1>19. Nowhere(Rest(d), data', raced')
  BY <1>4, <1>15, <1>17, <1>18 DEF Nowhere
<1>20. Fine(d, data', raced')
  <2>1. ~FallingBack(r)
    <3>1. h.n + 1 # 0
      BY <1>3 DEF Nodes
    <3> HIDE DEF h, r
    <3>2. CASE k = 0
      BY <1>3, <1>13, <1>15, <3>1, <3>2, EarlyBefore
    <3>3. CASE k # 0
      BY <1>3, <3>3 DEF FallingBack
    <3> QED
      BY <3>2, <3>3
  <2>2. Batching(d, data', raced')
    BY <1>3, <1>6, <1>19, <2>1 DEF Batching
  <2> QED
    BY <1>3, <2>2 DEF Fine, Asked, Erased
<1>21. ASSUME NEW u \in Threads \ {t}, call[u] # None, NEW i \in call[u].ids, i \notin raced',
              NEW m \in Nodes, i \in data'[m]
       PROVE  i \in data[m]
  <2>1. call[u].ids \cap c.ids \subseteq raced
    BY <1>3, <1>21 DEF SInv, Apart, c
  <2> QED
    BY <1>4, <1>8, <1>18, <1>21, <2>1
<1>22. \A i \in Nat \ (raced' \cup slipped') : \A m \in Nodes :
          i \in data'[m] => i \in data[m] \/ (m = n /\ \A j \in Nodes : i \notin data[j])
  BY <1>4, <1>15, <1>17, <1>18 DEF Nowhere
<1>23. call[t] # None => Head(call[t].todo).do # "remove"
  BY <1>3 DEF c
<1> QED
  BY <1>3, <1>4, <1>14, <1>20, <1>21, <1>22, <1>23, StepQuiet DEF d

(* Without failures the loop leaves nothing for the fallback.              *)
LEMMA FallbackQuiet ==
    ASSUME LInv, Quiet, NEW t \in Threads, Doing(t, "fallback")
    PROVE  FALSE
<1> DEFINE c == call[t]
<1>1. c \in Calls /\ c # None /\ Head(c.todo).do = "fallback" /\ "fallback" \in Kinds(c.op)
  BY Turn
<1>2. Fine(c, data, raced)
  BY DEF Quiet
<1> HIDE DEF c
<1>3. c.op \in {"CreateRecord", "CreateRecordWithId", "CreateRecordsWithId",
                "DeleteRecords", "ListRecords"}
  BY <1>1 DEF Calls
<1>4. c.op = "CreateRecordsWithId"
  BY <1>1, <1>3 DEF Kinds
<1> QED
  BY <1>1, <1>2, <1>4 DEF Fine, Batching, FallingBack

(* nextId reaches what the call has stored.                                *)
LEMMA RaiseQuiet ==
    ASSUME LInv, Quiet, NEW t \in Threads, Raise(t)
    PROVE  Quiet'
<1> DEFINE c == call[t]
           d == call'[t]
           h == Head(c.todo)
           n == Place(t)
<1>1. RaisedBy(t, n) /\ Then(t, call[t])
  BY RaiseDoes DEF Raise
<1>2. /\ c \in Calls /\ c # None /\ WellFormed(c.op, c.todo) /\ Answered(h) /\ h.k \in Nat
      /\ n \in Nodes /\ Held(c) = {n}
      /\ nextId <= nextId' /\ h.k <= nextId' /\ nextId' \in Nat
      /\ UNCHANGED <<data, next, raced, slipped>>
      /\ d \in Calls /\ d # None /\ \A u \in Threads \ {t} : Alike(call[u], call'[u])
      /\ \A u \in Threads \ {t} : call'[u] = call[u]
      /\ d.op = c.op /\ d.ids = c.ids /\ d.start = c.start /\ d.end = c.end
      /\ WellFormed(d.op, d.todo) /\ Follows(h, Head(d.todo)) /\ ~Nested(d.todo) /\ ~Nested(c.todo)
  BY <1>1 DEF RaisedBy, Steps, history
<1>3. d.still = c.still
  BY <1>1, <1>2, ThenStill
<1>4. Fine(c, data, raced) /\ Lower
  BY DEF Quiet
<1>5. next \in [Nodes -> Nat] /\ data \in [Nodes -> SUBSET Nat] /\ nextId \in Nat
  BY DEF LInv, TypeOK
<1>6. ASSUME NEW u \in Threads, NEW m, NEW x \in Nat, Lifts(call[u], m, x)
      PROVE  x <= nextId' \/ (Lifts(call'[u], m, x) /\ call'[u].ids = call[u].ids)
  <2>1. CASE u = t
    <3>1. x <= h.k
      BY <1>6, <2>1 DEF Lifts
    <3> QED
      BY <1>2, <1>6, <3>1
  <2>2. CASE u # t
    BY <1>2, <1>6, <2>2
  <2> QED
    BY <2>1, <2>2
<1> HIDE DEF h
<1>7. Lower'
  <2>1. ASSUME NEW m \in Nodes
        PROVE  next'[m] <= nextId' \/ \E u \in Threads : Lifts(call'[u], m, next'[m])
    <3>1. next'[m] = next[m] /\ next[m] \in Nat
      BY <1>2, <1>5
    <3>2. next[m] <= nextId \/ \E u \in Threads : Lifts(call[u], m, next[m])
      BY <1>4 DEF Lower
    <3>3. next[m] <= nextId => next[m] <= nextId'
      BY <1>2, <1>5, <3>1
    <3> QED
      BY <1>6, <3>1, <3>2, <3>3
  <2>2. ASSUME NEW m \in Nodes, NEW id \in data'[m]
        PROVE  id < nextId' \/ \E u \in Threads : Lifts(call'[u], m, id + 1) /\ id \in call'[u].ids
    <3>1. id \in data[m] /\ id \in Nat /\ id + 1 \in Nat
      BY <1>2, <1>5, <2>2
    <3>2. id < nextId \/ \E u \in Threads : Lifts(call[u], m, id + 1) /\ id \in call[u].ids
      BY <1>4, <3>1 DEF Lower
    <3>3. (id < nextId => id < nextId') /\ (id + 1 <= nextId' => id < nextId')
      BY <1>2, <1>5, <3>1
    <3> QED
      BY <1>6, <3>1, <3>2, <3>3
  <2> QED
    BY <2>1, <2>2 DEF Lower
<1>8. h.do \in {"create", "store", "fallback"}
  BY <1>2 DEF Answered
<1>9. Fine(d, data', raced')
  <2> HIDE DEF c, d
  <2>1. Head(c.todo).do \notin {"exists", "work"}
    BY <1>8 DEF h
  <2>2. Fine(d, data, raced)
    BY <1>2, <1>3, <1>4, <2>1, FineNext DEF h
  <2> QED
    BY <1>2, <2>2
<1>10. call[t] # None => Head(call[t].todo).do # "remove"
  BY <1>8 DEF h
<1> HIDE DEF c, d, n
<1> QED
  BY <1>2, <1>7, <1>9, <1>10, StepQuiet DEF d

LEMMA ListQuiet ==
    ASSUME LInv, Quiet, NEW t \in Threads, List(t) \/ Query(t)
    PROVE  Quiet'
<1>1. Listing(t)
  BY ListDoes
<1>2. /\ data' = data /\ raced' = raced /\ slipped' = slipped /\ next' = next /\ nextId' = nextId
      /\ call[t] # None /\ call'[t] # None /\ call'[t].op = "ListRecords"
      /\ \A u \in Threads \ {t} : call'[u] = call[u]
      /\ Head(call[t].todo).do \notin {"remove", "create", "store", "fallback"}
  BY <1>1, NoneAssumption DEF Listing, counters, history
<1>3. Fine(call'[t], data, raced)
  BY <1>2 DEF Fine, Asked, Batching, Erased
<1> QED
  BY <1>2, <1>3, LocalQuiet

(* The locks of a transfer keep the others from moving what is on its      *)
(* nodes.                                                                  *)
LEMMA NoOtherCarries ==
    ASSUME LInv, NEW t \in Threads, NEW n \in Nodes, n \in Held(call[t]), NEW u \in Threads, u # t
    PROVE  \A k, id : ~Carries(call[u], n, k, id) /\ ~Carries(call[u], k, n, id)
<1>1. n \notin Held(call[u])
  BY DEF LInv, Locked
<1> QED
  BY <1>1 DEF Carries, Leaves, Held

(* After a step of a transfer of goroutine t.                              *)
LEMMA TransferQuiet ==
    ASSUME Quiet, Unique', Lower', raced' = raced, NEW t \in Threads,
           \A u \in Threads \ {t} : Alike(call[u], call'[u]),
           \A u \in Threads \ {t} : call[u] # None => call'[u].still = FALSE,
           \A n \in Nodes : \A id \in data'[n] : \E m \in Nodes : id \in data[m],
           Fine(call'[t], data', raced')
    PROVE  Quiet'
<1>1. ASSUME NEW u \in Threads \ {t} PROVE Fine(call'[u], data', raced')
  <2> DEFINE c == call[u]
             d == call'[u]
  <2>1. /\ Alike(c, d) /\ Fine(c, data, raced) /\ (c # None => d.still = FALSE)
    BY <1>1 DEF Quiet
  <2> HIDE DEF c, d
  <2>2. Fine(d, data', raced')
    BY <2>1, OtherFine
  <2> QED
    BY <2>2 DEF d
<1> QED
  BY <1>1 DEF Quiet

LEMMA CopyQuiet ==
    ASSUME LInv, Quiet, NEW t \in Threads, Copy(t), faults' = 0
    PROVE  Quiet'
<1> DEFINE c == call[t]
           d == call'[t]
           s == Now(t)
           list == FirstOf(data[s.n], s.k)
           moving == Disturb(call, t, Unmoved)
           q == Tail(c.todo)
           e == [c EXCEPT !.list = list, !.todo = q]
           S == list \cup {next[s.m] - 1}
           what == "copy"
<1>1. /\ Doing(t, what) /\ what = "copy" /\ raced' = raced /\ slipped' = slipped
      /\ nextId' = nextId
  BY DEF Copy, history
<1> HIDE DEF what
<1>2. /\ c \in Calls /\ c # None /\ WellFormed(c.op, c.todo) /\ s = Head(c.todo)
      /\ s.do = "copy" /\ s.n \in Nodes /\ s.m \in Nodes /\ s.n # s.m
      /\ Held(c) = {s.n, s.m} /\ WellFormed(c.op, q) /\ Follows(s, Head(q))
      /\ Nested(q) <=> Nested(c.todo)
  BY <1>1, InTransfer
<1>3. PICK rpc \in Outcomes :
        /\ data' \in BatchData(s.m, list, rpc[1], rpc[2])
        /\ rpc[2] => /\ call' = [moving EXCEPT ![t].list = list, ![t].todo = Tail(@)]
                     /\ next' = [next EXCEPT ![s.m] = Max(list \cup {@ - 1}) + 1]
        /\ Count(rpc[2])
  BY DEF Copy
<1>4. rpc[2] /\ rpc[1]
  BY <1>3, Rpc
<1>5. list \subseteq data[s.n] /\ list \subseteq Nat
  BY <1>2, ListTypes
<1>6. /\ call \in [Threads -> Calls \cup {None}] /\ data \in [Nodes -> SUBSET Nat]
      /\ next \in [Nodes -> Nat] /\ nextId \in Nat
  BY DEF LInv, TypeOK
<1>7. moving[t] = c /\ t \in DOMAIN moving
  BY <1>6 DEF Disturb
<1>8. /\ q \in Seq(Steps) /\ Head(q).do = "remove" /\ Head(q).n = s.n /\ Head(q).m = s.m
  <2>1. q \in Seq(Steps)
    BY <1>2 DEF WellFormed
  <2> HIDE DEF c, s
  <2> QED
    BY <1>2, <2>1 DEF Follows
<1> HIDE DEF list
<1>9. call' = [moving EXCEPT ![t] = e]
  <2> HIDE DEF moving
  <2> QED
    BY <1>3, <1>4, <1>7
<1> HIDE DEF q
<1>10. e \in Calls
  BY <1>2, <1>5, <1>8, CallTypes
<1>11. e.todo = q /\ e.op = c.op /\ e.ids = c.ids /\ e.list = list /\ e.still = c.still
  <2> HIDE DEF c
  <2> QED
    BY <1>2 DEF Calls
<1> HIDE DEF e
<1>12. /\ d = e /\ \A u \in Threads \ {t} : Alike(call[u], call'[u])
       /\ \A u \in Threads \ {t} : call[u] # None => call'[u].still = FALSE
  BY <1>9, <1>10, Moved
<1>13. d # None
  BY <1>10, <1>12, CallTypes
<1>14. data' = [data EXCEPT ![s.m] = @ \cup list]
  BY <1>3, <1>4 DEF BatchData
<1>15. data'[s.m] = data[s.m] \cup list /\ \A m \in Nodes \ {s.m} : data'[m] = data[m]
  BY <1>2, <1>6, <1>14
<1>16. \A m \in Nodes : \A id \in data'[m] : id \in data[m] \/ (m = s.m /\ id \in list)
  BY <1>15
<1>17. Lower'
  <2>1. ~Answering(call[t]) /\ s.n \in Held(call[t]) /\ s.m \in Held(call[t])
    BY <1>2 DEF Answering, Answered
  <2>2. next[s.m] \in Nat /\ next[s.m] <= nextId /\ \A id \in list : id < nextId /\ id \in Nat
    <3>1. next[s.m] \in Nat /\ next[s.m] <= nextId
      BY <1>2, <2>1, LockedLower DEF Quiet
    <3>2. \A id \in data[s.n] : id < nextId /\ id \in Nat
      BY <1>2, <2>1, LockedLower DEF Quiet
    <3> QED
      BY <1>5, <3>1, <3>2
  <2>3. S \subseteq Int /\ S # {} /\ \A y \in S : -1 <= y /\ y <= nextId /\ y + 1 <= nextId
    BY <1>6, <2>2
  <2>4. next' = [next EXCEPT ![s.m] = Max(S) + 1]
    BY <1>3, <1>4
  <2> HIDE DEF S, s
  <2>5. Max(S) \in S
    BY <1>6, <2>3, MaxTop
  <2>6. next'[s.m] <= nextId /\ \A m \in Nodes \ {s.m} : next'[m] = next[m]
    BY <1>2, <1>6, <2>3, <2>4, <2>5
  <2>7. \A m \in Nodes : next'[m] = next[m] \/ next'[m] <= nextId'
    BY <1>1, <2>6
  <2>8. \A m \in Nodes : \A id \in data'[m] : id \in data[m] \/ id < nextId'
    BY <1>1, <1>16, <2>2
  <2> QED
    BY <1>1, <1>6, <1>12, <2>1, <2>7, <2>8, LowerStays DEF Quiet
<1>18. Unique'
  <2> SUFFICES ASSUME NEW id \in Nat \ (raced' \cup slipped'), NEW a \in Nodes, NEW b \in Nodes,
                      a # b, id \in data'[a], id \in data'[b]
               PROVE  \E u \in Threads : Carries(call'[u], a, b, id) \/ Carries(call'[u], b, a, id)
    BY DEF Unique
  <2>1. id \in Nat \ (raced \cup slipped)
    BY <1>1
  <2>2. \A m, k, i : ~Carries(c, m, k, i)
    BY <1>2 DEF Carries, Leaves
  <2>3. CASE id \in list /\ ((a = s.n /\ b = s.m) \/ (a = s.m /\ b = s.n))
    <3>1. Carries(d, s.n, s.m, id)
      BY <1>8, <1>11, <1>12, <1>13, <2>3 DEF Carries, Leaves
    <3> QED
      BY <2>3, <3>1
  <2>4. CASE id \in data[a] /\ id \in data[b]
    <3>1. PICK u \in Threads : Carries(call[u], a, b, id) \/ Carries(call[u], b, a, id)
      BY <2>1, <2>4 DEF Quiet, Unique
    <3>2. u # t
      BY <2>2, <3>1
    <3> QED
      BY <1>12, <3>1, <3>2, AlikeCarries
  <2>5. ASSUME NEW k \in Nodes, k # s.m, k # s.n, id \in data[k], id \in list PROVE FALSE
    <3>1. id \in data[s.n]
      BY <1>5, <2>5
    <3>2. PICK u \in Threads : Carries(call[u], s.n, k, id) \/ Carries(call[u], k, s.n, id)
      BY <1>2, <2>1, <2>5, <3>1 DEF Quiet, Unique
    <3>3. u # t
      BY <2>2, <3>2
    <3>4. s.n \in Held(call[t])
      BY <1>2
    <3> QED
      BY <1>2, <3>2, <3>3, <3>4, NoOtherCarries
  <2> QED
    BY <1>16, <2>3, <2>4, <2>5
<1>19. Fine(d, data', raced')
  <2>1. \A m \in Nodes : \A id \in data'[m] : \E k \in Nodes : id \in data[k]
    BY <1>2, <1>5, <1>16
  <2>2. Fine(c, data, raced)
    BY DEF Quiet
  <2>3. c.op # "CreateRecordWithId"
    <3>1. "copy" \in Kinds(c.op)
      BY <1>2, HeadWell
    <3> QED
      BY <3>1 DEF Kinds
  <2> HIDE DEF c, d, s
  <2>4. Head(c.todo).do = "copy"
    BY <1>2
  <2> QED
    BY <1>1, <1>2, <1>8, <1>10, <1>11, <1>12, <2>1, <2>2, <2>3, <2>4, FineOnward
<1>20. \A m \in Nodes : \A id \in data'[m] : \E k \in Nodes : id \in data[k]
  BY <1>2, <1>5, <1>16
<1> QED
  BY <1>1, <1>12, <1>17, <1>18, <1>19, <1>20, TransferQuiet

LEMMA DeleteMovedQuiet ==
    ASSUME LInv, Quiet, NEW t \in Threads, DeleteMoved(t), faults' = 0
    PROVE  Quiet'
<1> DEFINE c == call[t]
           d == call'[t]
           s == Now(t)
           moving == Disturb(call, t, Unmoved)
           q == Tail(c.todo)
           none == {}
           e == [c EXCEPT !.list = none, !.todo = q]
           what == "remove"
<1>1. /\ Doing(t, what) /\ what = "remove" /\ raced' = raced /\ slipped' = slipped
      /\ next' = next /\ nextId' = nextId
      /\ call' = [moving EXCEPT ![t].list = none, ![t].todo = Tail(@)]
  BY DEF DeleteMoved, history
<1> HIDE DEF what
<1>2. /\ c \in Calls /\ c # None /\ s = Head(c.todo) /\ s.do = "remove" /\ s.n \in Nodes
      /\ WellFormed(c.op, q) /\ Follows(s, Head(q)) /\ (Nested(q) <=> Nested(c.todo))
      /\ WellFormed(c.op, c.todo)
  BY <1>1, InTransfer
<1>3. PICK rpc \in Outcomes :
        /\ data' = IF rpc[1] THEN [data EXCEPT ![s.n] = @ \ c.list] ELSE data
        /\ Count(rpc[2])
  BY DEF DeleteMoved
<1>4. rpc[1]
  BY <1>3, Rpc
<1>5. call \in [Threads -> Calls \cup {None}] /\ data \in [Nodes -> SUBSET Nat]
  BY DEF LInv, TypeOK
<1>6. moving[t] = c /\ t \in DOMAIN moving
  BY <1>5 DEF Disturb
<1>7. call' = [moving EXCEPT ![t] = e]
  <2> HIDE DEF moving, none
  <2> QED
    BY <1>1, <1>6
<1>8. q \in Seq(Steps) /\ none \in SUBSET Nat
  BY <1>2 DEF WellFormed
<1> HIDE DEF q, none
<1>9. e \in Calls
  BY <1>2, <1>8, CallTypes
<1>10. e.todo = q /\ e.op = c.op /\ e.ids = c.ids /\ e.still = c.still
  <2> HIDE DEF c
  <2> QED
    BY <1>2 DEF Calls
<1> HIDE DEF e
<1>11. /\ d = e /\ \A u \in Threads \ {t} : Alike(call[u], call'[u])
       /\ \A u \in Threads \ {t} : call[u] # None => call'[u].still = FALSE
  BY <1>7, <1>9, Moved
<1>12. data'[s.n] = data[s.n] \ c.list /\ \A m \in Nodes \ {s.n} : data'[m] = data[m]
  BY <1>2, <1>3, <1>4, <1>5
<1>13. \A m \in Nodes : data'[m] \subseteq data[m]
  BY <1>12
<1>14. Lower'
  <2>1. nextId \in Nat /\ nextId <= nextId /\ ~Answering(call[t])
    BY <1>2 DEF LInv, TypeOK, Answering, Answered
  <2> QED
    BY <1>1, <1>11, <1>13, <2>1, LowerStays DEF Quiet
<1>15. Unique'
  <2> SUFFICES ASSUME NEW id \in Nat \ (raced' \cup slipped'), NEW a \in Nodes, NEW b \in Nodes,
                      a # b, id \in data'[a], id \in data'[b]
               PROVE  \E u \in Threads : Carries(call'[u], a, b, id) \/ Carries(call'[u], b, a, id)
    BY DEF Unique
  <2>1. PICK u \in Threads : Carries(call[u], a, b, id) \/ Carries(call[u], b, a, id)
    BY <1>1, <1>13 DEF Quiet, Unique
  <2>2. u # t
    <3>1. ~Carries(c, a, b, id) /\ ~Carries(c, b, a, id)
      BY <1>2, <1>12 DEF Carries, Leaves
    <3> QED
      BY <2>1, <3>1
  <2> QED
    BY <1>11, <2>1, <2>2, AlikeCarries
<1>16. Fine(d, data', raced')
  <2>1. Fine(c, data, raced)
    BY DEF Quiet
  <2>2. c.op # "CreateRecordWithId"
    <3>1. "remove" \in Kinds(c.op)
      BY <1>2, HeadWell
    <3> QED
      BY <3>1 DEF Kinds
  <2> HIDE DEF c, d, s
  <2>3. Head(c.todo).do = "remove"
    BY <1>2
  <2>4. Head(q).do \in {"compare", "runlock"} \/ (Head(q).do = "lock" /\ Head(q).m # 0)
    BY <1>2 DEF Follows
  <2> QED
    BY <1>1, <1>2, <1>9, <1>10, <1>11, <1>13, <2>1, <2>2, <2>3, <2>4, FineOnward
<1>17. \A m \in Nodes : \A id \in data'[m] : \E k \in Nodes : id \in data[k]
  BY <1>13
<1> QED
  BY <1>1, <1>11, <1>14, <1>15, <1>16, <1>17, TransferQuiet

LEMMA BeginStill ==
    ASSUME LInv, NEW t \in Threads, NEW op, NEW ids, NEW todo, Begin(t, op, ids, todo)
    PROVE  \A u \in Threads \ {t} : call[u] # None => call'[u].still = call[u].still
<1> DEFINE Aside(c) == [c EXCEPT !.alone = FALSE]
           others == Disturb(call, t, Aside)
<1>1. PICK e : call' = [others EXCEPT ![t] = e]
  BY DEF Begin
<1>2. call \in [Threads -> Calls \cup {None}]
  BY DEF LInv, TypeOK
<1>3. /\ DOMAIN others = Threads
      /\ \A u \in Threads \ {t} : call[u] # None => others[u] = [call[u] EXCEPT !.alone = FALSE]
  BY <1>2 DEF Disturb
<1> HIDE DEF others
<1> SUFFICES ASSUME NEW u \in Threads \ {t}, call[u] # None
             PROVE  call'[u].still = call[u].still
  OBVIOUS
<1> DEFINE c == call[u]
           x == [c EXCEPT !.alone = FALSE]
<1>4. call'[u] = x /\ c \in Calls
  BY <1>1, <1>2, <1>3
<1>5. x.still = c.still
  <2> HIDE DEF c
  <2> QED
    BY <1>4 DEF Calls
<1> QED
  BY <1>4, <1>5

(* A batch that begins has the stored ones of its records in raced.        *)
LEMMA BeginQuiet ==
    ASSUME LInv, Quiet, NEW t \in Threads, NEW op, NEW ids, NEW todo, Begin(t, op, ids, todo),
           op \in {"CreateRecord", "CreateRecordWithId", "CreateRecordsWithId",
                   "DeleteRecords", "ListRecords"},
           ids \subseteq Ids, WellFormed(op, todo), ~Nested(todo),
           op \in {"CreateRecord", "ListRecords"} \/ Head(todo).do = "rlock"
    PROVE  Quiet'
<1> DEFINE d == call'[t]
<1>1. /\ call[t] = None /\ \A u \in Threads \ {t} : Alike(call[u], call'[u])
      /\ d \in Calls /\ d.op = op /\ d.ids = ids /\ d.todo = todo /\ d.start = 0 /\ d.end = 0
  BY BeginPut, ZenonT(60)
<1>2. \A u \in Threads \ {t} : call[u] # None /\ call'[u].still => call[u].still
  BY BeginStill
<1>3. /\ data' = data /\ next' = next /\ nextId' = nextId /\ slipped' = slipped
      /\ raced' = raced \cup (ids \cap InProgress(t))
                        \cup (IF op = "CreateRecordsWithId" THEN ids \cap Stored ELSE {})
  BY DEF Begin, counters
<1>4. raced \subseteq raced' /\ (op = "CreateRecordsWithId" => ids \cap Stored \subseteq raced')
  BY <1>3
<1> HIDE DEF d
<1>5. Fine(d, data', raced')
  <2>1. Asked(d, data', raced') /\ Erased(d, data', raced')
    BY <1>1 DEF Asked, Erased
  <2>2. Batching(d, data', raced')
    <3> SUFFICES ASSUME op = "CreateRecordsWithId"
                 PROVE  /\ ~Nested(todo) /\ ~FallingBack(Head(todo)) /\ d.start = d.end
                        /\ Nowhere(Rest(d), data', raced')
      BY <1>1 DEF Batching
    <3>1. Rest(d) \subseteq ids
      BY <1>1 DEF Rest
    <3>2. Nowhere(Rest(d), data', raced')
      BY <1>3, <1>4, <3>1 DEF Nowhere, Stored
    <3> QED
      BY <1>1, <3>2 DEF FallingBack
  <2> QED
    BY <2>1, <2>2 DEF Fine
<1>6. PICK n \in Nodes : TRUE
  BY InternalAssumption DEF Nodes
<1>7. Lower'
  <2>1. nextId \in Nat /\ nextId <= nextId /\ ~Answering(call[t])
    BY <1>1 DEF LInv, TypeOK, Answering
  <2> QED
    BY <1>1, <1>3, <2>1, LowerStays DEF Quiet
<1> QED
  BY <1>1, <1>2, <1>3, <1>4, <1>5, <1>6, <1>7, StepQuiet DEF d

LEMMA CallsQuiet ==
    ASSUME LInv, Quiet, NEW t \in Threads,
           \/ CreateRecord(t) \/ ListRecords(t)
           \/ \E id \in Ids : CreateRecordWithId(t, id)
           \/ \E ids \in SUBSET Ids : CreateRecordsWithId(t, ids) \/ DeleteRecords(t, ids)
    PROVE  Quiet'
<1>1. Step("rlock").do = "rlock"
  BY DEF Step, Act
<1>2. CASE CreateRecord(t)
  <2> DEFINE op == "CreateRecord"
             todo == CreateRecordSteps
             ids == {}
  <2>1. /\ Begin(t, op, ids, todo) /\ WellFormed(op, todo) /\ ~Nested(todo)
        /\ op = "CreateRecord" /\ ids \subseteq Ids
    BY <1>2, CreateRecordWell DEF CreateRecord
  <2> HIDE DEF op, todo, ids
  <2> QED
    BY <2>1, BeginQuiet
<1>3. CASE ListRecords(t)
  <2> DEFINE op == "ListRecords"
             todo == ListSteps
             ids == {}
  <2>1. /\ Begin(t, op, ids, todo) /\ WellFormed(op, todo) /\ ~Nested(todo)
        /\ op = "ListRecords" /\ ids \subseteq Ids
    BY <1>3, ListStepsWell DEF ListRecords
  <2> HIDE DEF op, todo, ids
  <2> QED
    BY <2>1, BeginQuiet
<1>4. ASSUME NEW id \in Ids, CreateRecordWithId(t, id) PROVE Quiet'
  <2> DEFINE op == "CreateRecordWithId"
             todo == CreateWithIdSteps
             ids == {id}
  <2>1. Head(todo).do = "rlock" /\ WellFormed(op, todo) /\ ~Nested(todo)
    <3>1. Head(CreateWithIdSteps) = Step("rlock")
      BY CreateWithIdWell
    <3> QED
      BY <1>1, <3>1, CreateWithIdWell, Zenon
  <2>2. Begin(t, op, ids, todo) /\ op = "CreateRecordWithId" /\ ids \subseteq Ids
    BY <1>4 DEF CreateRecordWithId
  <2> HIDE DEF op, todo, ids
  <2> QED
    BY <2>1, <2>2, BeginQuiet
<1>5. ASSUME NEW ids \in SUBSET Ids, CreateRecordsWithId(t, ids) PROVE Quiet'
  <2> DEFINE op == "CreateRecordsWithId"
             todo == CreateManySteps
  <2>1. /\ Begin(t, op, ids, todo) /\ WellFormed(op, todo) /\ Head(todo).do = "rlock"
        /\ op = "CreateRecordsWithId" /\ ~Nested(todo)
    BY <1>1, <1>5, CreateManyWell DEF CreateRecordsWithId
  <2> HIDE DEF op, todo
  <2> QED
    BY <2>1, BeginQuiet
<1>6. ASSUME NEW ids \in SUBSET Ids, DeleteRecords(t, ids) PROVE Quiet'
  <2> DEFINE op == "DeleteRecords"
             todo == DeleteManySteps
  <2>1. /\ Begin(t, op, ids, todo) /\ WellFormed(op, todo) /\ Head(todo).do = "rlock"
        /\ op = "DeleteRecords" /\ ~Nested(todo)
    BY <1>1, <1>6, DeleteManyWell DEF DeleteRecords
  <2> HIDE DEF op, todo
  <2> QED
    BY <2>1, BeginQuiet
<1> QED
  BY <1>2, <1>3, <1>4, <1>5, <1>6

LEMMA InitQuiet ==
    ASSUME Init
    PROVE  Quiet
<1>1. N \in Nat \ {0} /\ MaxId \in Nat \ {0} /\ Nodes # {}
  BY InternalAssumption DEF Nodes
<1>2. /\ data \in [Nodes -> SUBSET Ids]
      /\ \A m, n \in Nodes : m # n => data[m] \cap data[n] = {}
  BY InternalAssumption DEF Init, Nodes, Ids
<1>3. /\ next = [n \in Nodes |-> IF data[n] = {} THEN 1 ELSE Max(data[n]) + 1]
      /\ nextId = Max({next[n] : n \in Nodes})
  BY DEF Init
<1>4. ASSUME NEW n \in Nodes
      PROVE  /\ next[n] \in Nat /\ next[n] <= MaxId + 1
             /\ \A id \in data[n] : id \in Nat /\ id < next[n]
  <2>1. CASE data[n] = {}
    BY <1>1, <1>3, <2>1
  <2>2. CASE data[n] # {}
    <3> DEFINE S == data[n]
    <3>1. /\ S \subseteq Int /\ S # {} /\ MaxId \in Nat /\ \A y \in S : -1 <= y /\ y <= MaxId
          /\ S \subseteq Nat /\ next[n] = Max(S) + 1
      BY <1>1, <1>2, <1>3, <2>2 DEF Ids
    <3> HIDE DEF S
    <3>2. Max(S) \in S /\ \A y \in S : y <= Max(S)
      BY <3>1, MaxTop
    <3> DEFINE top == Max(S)
    <3>3. top \in Nat /\ top <= MaxId /\ next[n] = top + 1 /\ \A id \in S : id \in Nat /\ id <= top
      BY <3>1, <3>2
    <3> HIDE DEF top
    <3>4. next[n] \in Nat /\ next[n] <= MaxId + 1 /\ \A id \in S : id \in Nat /\ id < next[n]
      BY <1>1, <3>3
    <3> QED
      BY <3>4 DEF S
  <2> QED
    BY <2>1, <2>2
<1>5. nextId \in Nat /\ \A n \in Nodes : next[n] <= nextId
  <2> DEFINE S == {next[n] : n \in Nodes}
  <2>1. /\ S \subseteq Int /\ S \subseteq Nat /\ S # {} /\ MaxId + 1 \in Nat
        /\ \A y \in S : -1 <= y /\ y <= MaxId + 1
    BY <1>1, <1>4
  <2>2. nextId = Max(S) /\ \A n \in Nodes : next[n] \in S
    BY <1>3
  <2> HIDE DEF S
  <2>3. Max(S) \in S /\ \A y \in S : y <= Max(S)
    BY <2>1, MaxTop
  <2> QED
    BY <2>1, <2>2, <2>3
<1>6. Lower
  BY <1>4, <1>5 DEF Lower
<1>7. Unique
  BY <1>2 DEF Unique
<1>8. \A t \in Threads : Fine(call[t], data, raced)
  BY DEF Init, Fine
<1> QED
  BY <1>6, <1>7, <1>8 DEF Quiet

(* Without failures so far there were none before.                         *)
LEMMA NoFaults ==
    ASSUME LInv, [Next]_vars, faults' = 0
    PROVE  faults = 0
<1>1. faults \in Nat
  BY InternalAssumption DEF LInv, TypeOK
<1> DEFINE OneMore == faults' = faults \/ faults' = faults + 1
<1>2. \A told : Count(told) => OneMore
  BY DEF Count
<1>3. CASE UNCHANGED vars \/ WLock \/ WUnlock
  BY <1>1, <1>3 DEF vars, WLock, WUnlock
<1>4. ASSUME NEW t \in Threads,
             \/ CreateRecord(t) \/ ListRecords(t)
             \/ \E id \in Ids : CreateRecordWithId(t, id)
             \/ \E ids \in SUBSET Ids : CreateRecordsWithId(t, ids) \/ DeleteRecords(t, ids)
      PROVE  faults' = faults
  BY <1>4 DEF CreateRecord, CreateRecordWithId, CreateRecordsWithId, DeleteRecords, ListRecords, Begin
<1>5. ASSUME NEW t \in Threads, Proceed(t) PROVE OneMore
  <2>1. CASE RLock(t) \/ RUnlock(t) \/ LockNode(t) \/ LockSecond(t) \/ LockId(t)
    BY <2>1 DEF RLock, RUnlock, LockNode, LockSecond, LockId
  <2>2. CASE \/ Choose(t) \/ Pick(t) \/ CountBefore(t) \/ Compare(t) \/ Settle(t) \/ Balance(t)
             \/ Raise(t) \/ List(t) \/ Query(t)
    BY <2>2 DEF Choose, Pick, CountBefore, Compare, Settle, Balance, Raise, List, Query
  <2>3. CASE Assign(t) \/ Exists(t) \/ Create(t) \/ WorkerDelete(t) \/ WorkerRefresh(t)
    <3>1. \E told : Count(told)
      BY <2>3 DEF Assign, Exists, Create, WorkerDelete, WorkerRefresh
    <3> QED
      BY <1>2, <3>1
  <2>4. CASE Store(t) \/ Fallback(t) \/ Copy(t) \/ DeleteMoved(t)
    <3>1. \E told : Count(told)
      BY <2>4 DEF Store, Fallback, Copy, DeleteMoved, Creator
    <3> QED
      BY <1>2, <3>1
  <2> QED
    BY <1>5, <2>1, <2>2, <2>3, <2>4 DEF Proceed
<1>6. OneMore
  BY <1>3, <1>4, <1>5 DEF Next
<1> QED
  BY <1>1, <1>6

LEMMA NextQuiet ==
    ASSUME QInv, [Next]_vars
    PROVE  QInv'
<1>1. SInv' /\ SInv /\ LInv
  BY NextKept DEF QInv, SInv
<1> SUFFICES ASSUME faults' = 0 PROVE Quiet'
  BY <1>1 DEF QInv
<1>2. Quiet
  BY <1>1, NoFaults DEF QInv
<1>3. CASE UNCHANGED vars
  BY <1>2, <1>3, WriterQuiet
<1>4. ASSUME NEW t \in Threads, Proceed(t) PROVE Quiet'
  <2>1. CASE RLock(t) \/ LockNode(t) \/ LockSecond(t) \/ LockId(t)
    BY <1>1, <1>2, <2>1, LocksQuiet
  <2>2. CASE Choose(t) \/ Pick(t) \/ CountBefore(t) \/ Compare(t)
    BY <1>1, <1>2, <2>2, ReadsQuiet
  <2>3. ~Fallback(t)
    BY <1>1, <1>2, FallbackQuiet DEF Fallback
  <2> QED
    BY <1>1, <1>2, <1>4, <2>1, <2>2, <2>3, RUnlockQuiet, AssignQuiet, ExistsQuiet, CreateQuiet,
       RaiseQuiet, ListQuiet, StoreQuiet, SettleQuiet, WorkerDeleteQuiet, WorkerRefreshQuiet,
       BalanceQuiet, CopyQuiet, DeleteMovedQuiet DEF Proceed
<1>5. ASSUME NEW t \in Threads,
             \/ CreateRecord(t) \/ ListRecords(t)
             \/ \E id \in Ids : CreateRecordWithId(t, id)
             \/ \E ids \in SUBSET Ids : CreateRecordsWithId(t, ids) \/ DeleteRecords(t, ids)
      PROVE  Quiet'
  BY <1>1, <1>2, <1>5, CallsQuiet
<1> QED
  BY <1>2, <1>3, <1>4, <1>5, WriterQuiet DEF Next

(* The inductive invariant of HeldOnce and DeletedIsGone holds always.     *)
LEMMA QuietAlways == Spec => []QInv
<1>1. Init => QInv
  BY InitKept, InitQuiet DEF QInv
<1>2. QInv /\ [Next]_vars => QInv'
  BY NextQuiet
<1> QED
  BY <1>1, <1>2, PTL DEF Spec

(* As long as no RPC fails a record is on one node, except between the two *)
(* halves of a transfer, and the identifier CreateRecord assigns next is   *)
(* that of a stored record only while the call that stored it has not yet  *)
(* raised nextId (mux_records.go, balancer.go), however many calls and     *)
(* transfers of their balances run at once.  Excepted are identifiers that *)
(* two calls at once are about, stored ones that a batch names again, and  *)
(* those that CreateRecordWithId asked for while a transfer moved records. *)
THEOREM HeldOnce == Spec => []OneHolder
<1>1. QInv => OneHolder
  <2> SUFFICES ASSUME QInv, faults = 0
               PROVE  /\ \A id \in Ids \ (raced \cup slipped \cup InTransit) :
                            Cardinality(Holders(id)) <= 1
                      /\ nextId \in Stored => \E t \in Raising : nextId \in call[t].ids
    BY DEF OneHolder
  <2>1. Unique /\ Lower /\ LInv
    BY DEF QInv, Quiet, SInv
  <2>2. ASSUME nextId \in Stored PROVE \E t \in Raising : nextId \in call[t].ids
    <3>1. nextId \in Nat
      BY <2>1 DEF LInv, TypeOK
    <3>2. PICK n \in Nodes : nextId \in data[n]
      BY <2>2 DEF Stored
    <3>3. PICK t \in Threads : Lifts(call[t], n, nextId + 1) /\ nextId \in call[t].ids
      BY <2>1, <3>1, <3>2 DEF Lower
    <3>4. call[t] # None /\ Answered(Head(call[t].todo))
      BY <3>3 DEF Lifts, Answering
    <3>5. call[t].todo # <<>>
      BY <2>1, <3>4 DEF LInv, Formed, Sane, WellFormed
    <3> QED
      BY <3>3, <3>4, <3>5 DEF Raising, Busy, Creating, Doing, Now, Answered
  <2>3. ASSUME NEW id \in Ids \ (raced \cup slipped \cup InTransit)
        PROVE  Cardinality(Holders(id)) <= 1
    <3>1. id \in Nat \ (raced \cup slipped)
      BY <2>3, InternalAssumption DEF Ids
    <3>2. ASSUME NEW m \in Holders(id), NEW n \in Holders(id) PROVE m = n
      <4>1. m \in Nodes /\ n \in Nodes /\ id \in data[m] /\ id \in data[n]
        BY <3>2 DEF Holders
      <4> SUFFICES ASSUME m # n PROVE FALSE
        OBVIOUS
      <4>2. PICK t \in Threads : Carries(call[t], m, n, id) \/ Carries(call[t], n, m, id)
        BY <2>1, <3>1, <4>1 DEF Unique
      <4>3. call[t] # None /\ id \in call[t].list
        BY <4>2 DEF Carries, Leaves
      <4> QED
        BY <2>3, <4>3 DEF InTransit, Busy
    <3> DEFINE H == Holders(id)
    <3>3. \A m, n \in H : m = n
      BY <3>2
    <3> HIDE DEF H
    <3>4. H = {} \/ \E m : H = {m}
      <4> SUFFICES ASSUME NEW m \in H PROVE H = {m}
        OBVIOUS
      <4> QED
        BY <3>3
    <3>5. Cardinality(H) = 0 \/ Cardinality(H) = 1
      BY <3>4, FS_EmptySet, FS_Singleton
    <3> QED
      BY <3>5 DEF H
  <2> QED
    BY <2>2, <2>3
<1> QED
  BY <1>1, QuietAlways, PTL

(* DeleteRecords, about to answer: its records are gone.                   *)
Deleted ==
    \A t \in Busy :
        call[t].op = "DeleteRecords" /\ call[t].todo = <<Step("runlock")>> /\ faults = 0
        /\ call[t].still => call[t].ids \cap Stored \subseteq raced

(* The first half of DeleteIsComplete: when DeleteRecords answers, and no  *)
(* RPC failed, none of its records is on any node, unless a transfer of    *)
(* another call moved records since it began (mux_records.go:462).         *)
THEOREM DeletedIsGone == Spec => []Deleted
<1>1. QInv => Deleted
  <2> SUFFICES ASSUME QInv, NEW t \in Busy, call[t].op = "DeleteRecords",
                      call[t].todo = <<Step("runlock")>>, faults = 0, call[t].still
               PROVE  call[t].ids \cap Stored \subseteq raced
    BY DEF Deleted
  <2>1. t \in Threads /\ call[t] # None
    BY DEF Busy
  <2>2. Fine(call[t], data, raced)
    BY <2>1 DEF QInv, Quiet
  <2>3. Head(call[t].todo).do = "runlock"
    BY DEF Step, Act
  <2>4. Nowhere(call[t].ids, data, raced)
    BY <2>1, <2>2, <2>3 DEF Fine, Erased
  <2> QED
    BY <2>4 DEF Nowhere, Stored
<1> QED
  BY <1>1, QuietAlways, PTL

-----------------------------------------------------------------------------
(* What DeleteRecords reports.  It compares the totals of the counts       *)
(* before and after, which is right because, for a call that is alone, the *)
(* difference is, modulo Modulus, the number of the records it has found:  *)
(* deleting leaves the records with those found as they are, refreshing    *)
(* makes the counts right, and each transfer of its own balance adds to    *)
(* the total what it takes away again.                                     *)

AllOf(D) == Joined(D, N)
Added(S) == Total([i \in 1 .. N |-> S[i]])
Right(D, S, n) == S[n] = Cardinality(D[n])

(* The call has not yet compared the totals.                               *)
Promised(todo) == \E i \in 1 .. Len(todo) : todo[i].do = "compare"

(* D is what the nodes have, S are their counts.                           *)
Found(c, D, S) ==
    Head(c.todo).do \in {"rlock", "total"} =>
        c.ids \cap AllOf(D) = c.had /\ \A n \in Nodes : Right(D, S, n)

Working(c, D, S) ==
    Head(c.todo).do = "work" =>
        /\ c.ids \cap AllOf(D) \subseteq c.had
        /\ c.old = Unsigned(Cardinality(AllOf(D) \cup c.had))
        /\ \A n \in Nodes : <<n, "refresh">> \notin Head(c.todo).left => Right(D, S, n)

(* Between the halves of a transfer its records are counted twice.         *)
Twice(s) == IF s.do = "remove" THEN s.k ELSE 0

Differing(c, S) ==
    Head(c.todo).do \notin {"rlock", "total", "work", "runlock"} =>
        Unsigned((c.old + Twice(Head(c.todo))) - Added(S)) = Cardinality(c.had)

Reporting(c) ==
    IF Head(c.todo).do = "runlock" THEN c.ok <=> c.ids = c.had ELSE c.ok /\ Promised(c.todo)

Counted(c, D, S) ==
    /\ c.had \subseteq c.ids /\ c.still
    /\ Found(c, D, S) /\ Working(c, D, S) /\ Differing(c, S) /\ Reporting(c)

Lonely(c) == c # None /\ c.op = "DeleteRecords" /\ c.alone

Lone == \A t, u \in Threads : Lonely(call[t]) /\ u # t => call[u] = None

TInv ==
    Lone /\ (faults = 0 /\ raced \cup slipped = {} =>
                \A t \in Threads : Lonely(call[t]) => Counted(call[t], data, status))

(* A call whose list of steps still has the comparison does not return.    *)
LEMMA PromisedMeans ==
    ASSUME NEW op, NEW todo, WellFormed(op, todo), Promised(todo)
    PROVE  Head(todo).do # "runlock"
<1> SUFFICES ASSUME Head(todo).do = "runlock" PROVE FALSE
  OBVIOUS
<1>1. /\ todo \in Seq(Steps) /\ todo # <<>> /\ Len(todo) \in Nat /\ Len(todo) > 0
  BY HeadWell
<1>2. /\ todo[1].do = "runlock" /\ todo[Len(todo)].do \in {"runlock", "assign"}
      /\ \A i \in 1 .. Len(todo) - 2 : todo[i].do # "runlock"
  BY <1>1 DEF WellFormed, Final
<1>3. PICK i \in 1 .. Len(todo) : todo[i].do = "compare"
  BY DEF Promised
<1> DEFINE l == Len(todo)
<1>4. l \in Nat /\ l > 0 /\ ~(1 \in 1 .. l - 2) /\ i \in 1 .. l /\ i # 1 /\ i # l
  BY <1>1, <1>2, <1>3
<1> HIDE DEF l
<1> QED
  BY <1>4

LEMMA PromisedTail ==
    ASSUME NEW op, NEW todo, WellFormed(op, todo), Promised(todo),
           Head(todo).do \notin {"compare", "assign"}
    PROVE  /\ WellFormed(op, Tail(todo)) /\ Promised(Tail(todo))
           /\ Follows(Head(todo), Head(Tail(todo))) /\ Head(Tail(todo)).do # "runlock"
           /\ Head(Tail(todo)) \in Steps /\ Head(Tail(todo)).do \in Kinds(op)
<1>1. Head(todo).do # "runlock"
  BY PromisedMeans
<1>2. WellFormed(op, Tail(todo)) /\ Follows(Head(todo), Head(Tail(todo)))
  BY <1>1, NextWell
<1>3. todo \in Seq(Steps) /\ todo # <<>> /\ Len(todo) \in Nat /\ Head(todo) = todo[1]
  BY HeadWell
<1>4. PICK i \in 1 .. Len(todo) : todo[i].do = "compare"
  BY DEF Promised
<1> DEFINE r == Tail(todo)
<1>5. Len(r) = Len(todo) - 1 /\ \A j \in 1 .. Len(r) : r[j] = todo[j + 1]
  BY <1>3
<1>6. i # 1
  BY <1>3, <1>4
<1> HIDE DEF r
<1>7. i - 1 \in 1 .. Len(r) /\ (i - 1) + 1 = i
  BY <1>3, <1>5, <1>6
<1>8. r[i - 1].do = "compare"
  BY <1>4, <1>5, <1>7
<1>9. Promised(r)
  BY <1>7, <1>8 DEF Promised
<1>10. WellFormed(op, r)
  BY <1>2 DEF r
<1> QED
  BY <1>2, <1>9, <1>10, PromisedMeans, HeadWell DEF r

(* DeleteRecords takes locks of nodes only for transfers.                  *)
LEMMA DeleteLocks ==
    ASSUME NEW todo, WellFormed("DeleteRecords", todo), Head(todo).do = "lock"
    PROVE  Head(todo).m # 0
<1> DEFINE op == "DeleteRecords"
<1>1. WellFormed(op, todo) /\ op = "DeleteRecords"
  OBVIOUS
<1> HIDE DEF op
<1>2. WellFormed(op, Tail(todo)) /\ Follows(Head(todo), Head(Tail(todo)))
  BY <1>1, NextWell
<1>3. Head(Tail(todo)).do \in Kinds(op)
  BY <1>2, HeadWell
<1>4. Head(Tail(todo)).do \notin {"lock id", "create", "fallback", "store"}
  BY <1>1, <1>3 DEF Kinds
<1>5. \A n : At("store", n).do = "store"
  BY DEF At, Act
<1> QED
  BY <1>2, <1>4, <1>5 DEF Follows

(* The steps that balance inserts come before the comparison.              *)
LEMMA PromisedJoined ==
    ASSUME NEW p \in Seq(Steps), NEW todo \in Seq(Steps), Promised(todo)
    PROVE  Promised(p \o todo)
<1>1. PICK i \in 1 .. Len(todo) : todo[i].do = "compare"
  BY DEF Promised
<1> DEFINE r == p \o todo
<1>2. /\ Len(p) \in Nat /\ Len(todo) \in Nat /\ Len(r) = Len(p) + Len(todo)
      /\ r[Len(p) + i] = todo[i]
  BY <1>1
<1> DEFINE a == Len(p)
           b == Len(todo)
           j == a + i
<1>3. a \in Nat /\ b \in Nat /\ i \in 1 .. b
  BY <1>1, <1>2
<1>4. Len(r) = a + b /\ r[j] = todo[i]
  BY <1>2
<1> HIDE DEF a, b, r
<1>5. j \in 1 .. Len(r)
  BY <1>3, <1>4
<1> HIDE DEF j
<1>6. Promised(r)
  BY <1>1, <1>4, <1>5 DEF Promised
<1> QED
  BY <1>6 DEF r

LEMMA PromisedLeft ==
    ASSUME NEW todo \in Seq(Steps), todo # <<>>, NEW S, Promised(todo)
    PROVE  Promised([todo EXCEPT ![1].left = S])
<1>1. PICK i \in 1 .. Len(todo) : todo[i].do = "compare"
  BY DEF Promised
<1> DEFINE h == [todo[1] EXCEPT !.left = S]
           r == [todo EXCEPT ![1] = h]
<1>2. Len(todo) \in Nat /\ 1 \in 1 .. Len(todo) /\ todo[1] \in Steps
  BY <1>1
<1>3. h.do = todo[1].do
  BY <1>2 DEF Steps
<1> HIDE DEF h
<1>4. Len(r) = Len(todo) /\ \A j \in 1 .. Len(todo) : r[j] = IF j = 1 THEN h ELSE todo[j]
  BY <1>2
<1> HIDE DEF r
<1>5. i \in 1 .. Len(r) /\ r[i].do = "compare"
  BY <1>1, <1>3, <1>4
<1>6. Promised(r)
  BY <1>5 DEF Promised
<1> QED
  BY <1>6 DEF r, h

(* The call of t goes on as d, with the records and results that it had.   *)
Same(c, d) ==
    /\ d.op = c.op /\ d.ids = c.ids /\ d.had = c.had /\ d.alone = c.alone /\ d.still = c.still
Results(c, d) == Same(c, d) /\ d.old = c.old /\ d.ok = c.ok

LEMMA SameCalls ==
    ASSUME NEW c \in Calls
    PROVE  /\ \A q : Results(c, [c EXCEPT !.todo = q]) /\ [c EXCEPT !.todo = q].todo = q
           /\ \A g : Results(c, [c EXCEPT !.good = g])
           /\ \A e : Results(c, [c EXCEPT !.end = e])
           /\ \A e, g : Results(c, [c EXCEPT !.end = e, !.start = e, !.good = g])
           /\ \A q, b : Same(c, [c EXCEPT !.todo = q, !.ok = b])
           /\ \A p, q, b : Same(c, [[c EXCEPT !.todo = p, !.ok = b] EXCEPT !.todo = q])
BY DEF Calls, Same, Results

LEMMA OkPut ==
    ASSUME NEW c \in Calls, NEW b, NEW d, d = [c EXCEPT !.ok = b]
    PROVE  Same(c, d) /\ d.ok = b /\ d.old = c.old /\ d.todo = c.todo
BY DEF Calls, Same

LEMMA OldPut ==
    ASSUME NEW c \in Calls, NEW x, NEW d, d = [c EXCEPT !.old = x]
    PROVE  Same(c, d) /\ d.ok = c.ok /\ d.old = x /\ d.todo = c.todo
BY DEF Calls, Same

LEMMA ListPut ==
    ASSUME NEW c \in Calls, NEW S, NEW q, NEW d, d = [c EXCEPT !.list = S, !.todo = q]
    PROVE  Results(c, d) /\ d.todo = q
BY DEF Calls, Same, Results

LEMMA ListsPut ==
    ASSUME NEW c \in Calls
    PROVE  \A S, q : LET d == [c EXCEPT !.list = S, !.todo = q] IN Results(c, d) /\ d.todo = q
BY DEF Calls, Same, Results

LEMMA SameThen ==
    ASSUME NEW c, NEW x \in Calls, NEW q
    PROVE  LET d == [x EXCEPT !.todo = q] IN
           (Same(c, x) => Same(c, d)) /\ d.todo = q /\ d.ok = x.ok /\ d.old = x.old
BY DEF Calls, Same

(* Calls that a step of t replaces, and calls of others.                   *)
LEMMA Replaced ==
    ASSUME LInv, NEW t \in Threads, NEW d, call' = [call EXCEPT ![t] = d]
    PROVE  call'[t] = d /\ \A u \in Threads \ {t} : call'[u] = call[u]
BY DEF LInv, TypeOK

(* Which calls there are, and what they are.                               *)
Going(t) ==
    /\ call[t] # None
    /\ call'[t] # None => call'[t].op = call[t].op /\ call'[t].alone = call[t].alone
    /\ \A u \in Threads \ {t} : call'[u] # None =>
          call[u] # None /\ call'[u].op = call[u].op /\ call'[u].alone = call[u].alone

LEMMA GoingIf ==
    ASSUME LInv, NEW t \in Threads, call[t] # None, NEW d, d = None \/ Same(call[t], d),
           call' = [call EXCEPT ![t] = d]
    PROVE  Going(t)
BY Replaced DEF Going, Same

LEMMA ThenGoing ==
    ASSUME LInv, NEW t \in Threads, NEW what, Doing(t, what), NEW x \in Calls, Same(call[t], x),
           Then(t, x)
    PROVE  Going(t)
<1> DEFINE d == [x EXCEPT !.todo = Tail(@)]
<1>1. call[t] # None
  BY DEF Doing
<1>2. Same(call[t], d)
  BY SameThen
<1>3. call' = [call EXCEPT ![t] = d]
  BY DEF Then
<1> HIDE DEF d
<1> QED
  BY <1>1, <1>2, <1>3, GoingIf

LEMMA DisturbGoing ==
    ASSUME LInv, NEW t \in Threads, call[t] # None, NEW d \in Calls, Same(call[t], d),
           call' = [Disturb(call, t, Unmoved) EXCEPT ![t] = d]
    PROVE  Going(t) /\ call'[t] = d
<1>1. call \in [Threads -> Calls \cup {None}]
  BY DEF LInv, TypeOK
<1> DEFINE moving == Disturb(call, t, Unmoved)
<1>2. moving = [u \in Threads |-> IF u # t /\ call[u] # None THEN Unmoved(call[u]) ELSE call[u]]
  BY DEF Disturb
<1> HIDE DEF moving
<1>3. call' = [moving EXCEPT ![t] = d]
  BY DEF moving
<1>4. call'[t] = d /\ \A u \in Threads \ {t} : call'[u] = moving[u]
  BY <1>2, <1>3
<1>5. ASSUME NEW u \in Threads \ {t}, call'[u] # None
      PROVE  call[u] # None /\ call'[u].op = call[u].op /\ call'[u].alone = call[u].alone
  <2>1. call[u] # None /\ call[u] \in Calls /\ call'[u] = Unmoved(call[u])
    BY <1>1, <1>2, <1>4, <1>5
  <2> DEFINE c == call[u]
  <2> HIDE DEF c
  <2>2. c \in Calls => Unmoved(c).op = c.op /\ Unmoved(c).alone = c.alone
    BY DEF Unmoved, Calls
  <2> QED
    BY <2>1, <2>2 DEF c
<1> QED
  BY <1>4, <1>5 DEF Going, Same

LEMMA ProceedGoing ==
    ASSUME LInv, NEW t \in Threads, Proceed(t)
    PROVE  Going(t)
<1> DEFINE c == call[t]
<1>1. PICK what : Doing(t, what)
  BY DEF Proceed, RLock, RUnlock, LockNode, LockSecond, LockId, Choose, Assign, Pick, Exists,
         Create, Creating, Raise, Store, Settle, Fallback, CountBefore, WorkerDelete,
         WorkerRefresh, Compare, Balance, Copy, DeleteMoved, List, Query
<1>2. c \in Calls /\ c # None
  BY <1>1, Turn
<1>3. Same(c, c)
  BY DEF Same
<1>4. ASSUME NEW x \in Calls, Same(c, x), Then(t, x) PROVE Going(t)
  BY <1>1, <1>4, ThenGoing
<1>5. ASSUME NEW d, d = None \/ Same(c, d), call' = [call EXCEPT ![t] = d] PROVE Going(t)
  BY <1>2, <1>5, GoingIf
<1>6. ASSUME NEW q, call' = [call EXCEPT ![t].todo = q] PROVE Going(t)
  <2> DEFINE d == [c EXCEPT !.todo = q]
  <2>1. Same(c, d)
    BY <1>2, SameCalls DEF Results
  <2>2. call' = [call EXCEPT ![t] = d]
    BY <1>6
  <2> HIDE DEF d
  <2> QED
    BY <1>5, <2>1, <2>2
<1>7. ASSUME NEW q, call' = [call EXCEPT ![t].todo = q, ![t].ok = FALSE] PROVE Going(t)
  <2> DEFINE d == [c EXCEPT !.todo = q, !.ok = FALSE]
  <2>1. Same(c, d)
    BY <1>2, SameCalls
  <2>2. call' = [call EXCEPT ![t] = d]
    <3>1. call \in [Threads -> Calls \cup {None}]
      BY DEF LInv, TypeOK
    <3> QED
      BY <1>7, <3>1
  <2> HIDE DEF d
  <2> QED
    BY <1>5, <2>1, <2>2
<1>8. ASSUME NEW S, call' = [call EXCEPT ![t].todo[1].left = S] PROVE Going(t)
  <2> DEFINE q == [c.todo EXCEPT ![1].left = S]
  <2>1. call' = [call EXCEPT ![t].todo = q]
    BY <1>8
  <2> HIDE DEF q
  <2> QED
    BY <1>6, <2>1
<1>9. ASSUME NEW d \in Calls, Same(c, d), call' = [Disturb(call, t, Unmoved) EXCEPT ![t] = d]
      PROVE  Going(t)
  BY <1>2, <1>9, DisturbGoing
<1>10. CASE RLock(t) \/ LockNode(t) \/ LockSecond(t) \/ LockId(t) \/ Raise(t) \/ Query(t)
  BY <1>2, <1>3, <1>4, <1>10 DEF RLock, LockNode, LockSecond, LockId, Raise, Query
<1>11. CASE RUnlock(t)
  <2>1. call' = [call EXCEPT ![t] = None] \/ Then(t, c)
    BY <1>11 DEF RUnlock, Answer
  <2> QED
    BY <1>2, <1>3, <1>4, <1>5, <2>1
<1>12. CASE Choose(t) \/ Pick(t) \/ CountBefore(t) \/ Compare(t)
  <2> DEFINE ok == c.ok /\ Unsigned(c.old - Totals) = Cardinality(c.ids)
             x == [c EXCEPT !.good = Less(t)]
             y == [c EXCEPT !.old = Totals]
             z == [c EXCEPT !.ok = ok]
  <2>1. Then(t, x) \/ Then(t, y) \/ Then(t, z)
    BY <1>12 DEF Choose, Pick, CountBefore, Compare
  <2>2. ok \in BOOLEAN /\ Less(t) \in 0 .. N /\ Totals \in Nat
    BY <1>2, LessType, TotalsType
  <2> HIDE DEF ok
  <2>3. x \in Calls /\ y \in Calls /\ z \in Calls
    BY <1>2, <2>2, CallTypes
  <2>4. Same(c, x) /\ Same(c, y) /\ Same(c, z)
    BY <1>2, SameCalls, OkPut, OldPut DEF Results
  <2> HIDE DEF c, x, y, z
  <2> QED
    BY <1>4, <2>1, <2>3, <2>4
<1>13. CASE Assign(t)
  BY <1>5, <1>13 DEF Assign
<1>14. CASE Exists(t) \/ Settle(t)
  <2>1. \/ Quit(t) \/ Then(t, c)
        \/ \E S : call' = [call EXCEPT ![t].todo[1].left = S]
        \/ \E q : call' = [call EXCEPT ![t].todo = q]
    <3>1. CASE Exists(t)
      <4>1. PICK w \in Now(t).left :
              \/ Quit(t) \/ Then(t, c) \/ call' = [call EXCEPT ![t].todo[1].left = @ \ {w}]
        BY <3>1 DEF Exists
      <4> QED
        BY <4>1
    <3>2. CASE Settle(t)
      BY <3>2 DEF Settle
    <3> QED
      BY <1>14, <3>1, <3>2
  <2>2. CASE Quit(t)
    BY <1>7, <2>2 DEF Quit
  <2> QED
    BY <1>2, <1>3, <1>4, <1>6, <1>8, <2>1, <2>2
<1>15. ASSUME NEW x \in Calls, Same(c, x), NEW k, GoOn(t, x, k) PROVE Going(t)
  <2> DEFINE p == Tail(x.todo)
             q == [x.todo EXCEPT ![1].k = k]
             y == [x EXCEPT !.todo = p]
             z == [x EXCEPT !.todo = q]
  <2>1. Same(c, y) /\ Same(c, z)
    BY <1>15, SameThen
  <2>2. call' = [call EXCEPT ![t] = y] \/ call' = [call EXCEPT ![t] = z]
    BY <1>15 DEF GoOn
  <2> HIDE DEF y, z
  <2> QED
    BY <1>5, <2>1, <2>2
<1>16. CASE Create(t) \/ Store(t)
  <2>1. \E x \in Calls : Same(c, x) /\ \E k : GoOn(t, x, k)
    <3>1. CASE Create(t)
      <4>1. PICK rpc \in Outcomes, id \in c.ids :
              \E k : GoOn(t, [c EXCEPT !.ok = rpc[2] /\ id \notin data[c.good]], k)
        BY <3>1 DEF Create
      <4> DEFINE b == rpc[2] /\ id \notin data[c.good]
                 x == [c EXCEPT !.ok = b]
      <4>2. b \in BOOLEAN /\ \E k : GoOn(t, x, k)
        BY <4>1
      <4> HIDE DEF b
      <4>3. x \in Calls /\ Same(c, x)
        BY <1>2, <4>2, OkPut, CallTypes
      <4> HIDE DEF x
      <4> QED
        BY <4>2, <4>3
    <3>2. CASE Store(t)
      <4> DEFINE end == c.end + Share(Cardinality(c.ids), N, Now(t).n)
                 x == [c EXCEPT !.end = end, !.start = end, !.good = Now(t).n]
                 y == [c EXCEPT !.end = end]
      <4>1. \E k : GoOn(t, x, k) \/ GoOn(t, y, k)
        BY <3>2 DEF Store, Creator
      <4>2. Same(c, x) /\ Same(c, y)
        BY <1>2, SameCalls DEF Results
      <4>3. end \in Nat /\ Now(t).n \in 0 .. N
        <5>1. Now(t) \in Steps /\ c.end \in Nat /\ c.ids \in SUBSET Ids
          BY <1>1, <1>2, Turn, CallTypes
        <5>2. Cardinality(c.ids) \in Nat /\ N \in Nat \ {0}
          BY <5>1, IdsFinite, InternalAssumption
        <5>3. \A a \in Nat : a \div N \in Nat
          BY <5>2
        <5>4. Cardinality(c.ids) \div N \in Nat
          BY <5>2, <5>3
        <5>5. Share(Cardinality(c.ids), N, Now(t).n) \in Nat
          BY <5>4 DEF Share
        <5> QED
          BY <5>1, <5>5 DEF Steps
      <4> HIDE DEF end
      <4>4. x \in Calls /\ y \in Calls
        BY <1>2, <4>3, CallTypes
      <4> HIDE DEF x, y
      <4> QED
        BY <4>1, <4>2, <4>4
    <3> QED
      BY <1>16, <3>1, <3>2
  <2> QED
    BY <1>15, <2>1
<1>17. CASE Fallback(t)
  <2> DEFINE p == (<<Now(t)>> \o DeleteManySteps) \o LastStep(t)
             y == [c EXCEPT !.todo = p, !.ok = FALSE]
             q == Tail(y.todo)
             z == [y EXCEPT !.todo = q]
  <2>1. PICK rpc \in Outcomes :
          \E k : (k = 0 \/ rpc[2]) /\ GoOn(t, IF rpc[2] THEN c ELSE y, k)
    BY <1>17 DEF Fallback, Creator
  <2>2. CASE rpc[2]
    BY <1>2, <1>3, <1>15, <2>1, <2>2
  <2>3. CASE ~rpc[2]
    <3>1. GoOn(t, y, 0)
      BY <2>1, <2>3
    <3>2. call' = [call EXCEPT ![t] = z]
      BY <3>1 DEF GoOn
    <3> HIDE DEF p, q
    <3>3. Same(c, z)
      BY <1>2, SameCalls
    <3> HIDE DEF z
    <3> QED
      BY <1>5, <3>2, <3>3
  <2> QED
    BY <2>2, <2>3
<1>18. CASE List(t)
  <2> DEFINE q == [c.todo EXCEPT ![1].n = @ + 1]
  <2>1. Then(t, c) \/ call' = [call EXCEPT ![t].todo = q]
    BY <1>18 DEF List
  <2> HIDE DEF q
  <2> QED
    BY <1>2, <1>3, <1>4, <1>6, <2>1
<1>19. CASE WorkerDelete(t) \/ WorkerRefresh(t)
  <2>1. \E S : WorkLeft(t, S)
    BY <1>19 DEF WorkerDelete, WorkerRefresh
  <2>2. Then(t, c) \/ \E S : call' = [call EXCEPT ![t].todo[1].left = S]
    BY <2>1 DEF WorkLeft
  <2> QED
    BY <1>2, <1>3, <1>4, <1>8, <2>2
<1>20. CASE Balance(t)
  <2>1. \E q : call' = [call EXCEPT ![t].todo = q]
    BY <1>20 DEF Balance
  <2> QED
    BY <1>6, <2>1
<1>21. CASE Copy(t) \/ DeleteMoved(t)
  <2>1. \E d \in Calls : Same(c, d) /\ call' = [Disturb(call, t, Unmoved) EXCEPT ![t] = d]
    <3> DEFINE moving == Disturb(call, t, Unmoved)
               list == FirstOf(data[Now(t).n], Now(t).k)
    <3>1. call \in [Threads -> Calls \cup {None}]
      BY DEF LInv, TypeOK
    <3>2. moving[t] = c /\ t \in DOMAIN moving
      BY <3>1 DEF Disturb
    <3> HIDE DEF moving
    <3>3. \/ call' = [moving EXCEPT ![t].list = list, ![t].todo = Tail(@)]
          \/ call' = [moving EXCEPT ![t].todo = Tail(Tail(@))]
          \/ call' = [moving EXCEPT ![t].list = {}, ![t].todo = Tail(@)]
      BY <1>21 DEF Copy, DeleteMoved, moving
    <3>4. /\ Tail(c.todo) \in Seq(Steps) /\ Tail(Tail(c.todo)) \in Seq(Steps) /\ list \subseteq Nat
      <4>1. PICK how \in {"copy", "remove"} : Doing(t, how)
        BY <1>21 DEF Copy, DeleteMoved
      <4>2. Now(t).n \in Nodes /\ WellFormed(c.op, Tail(c.todo))
        BY <4>1, InTransfer
      <4>3. Tail(c.todo) \in Seq(Steps) /\ Tail(c.todo) # <<>>
        BY <4>2 DEF WellFormed
      <4> DEFINE r == Tail(c.todo)
      <4>4. r \in Seq(Steps) /\ r # <<>>
        BY <4>3
      <4> HIDE DEF r
      <4>5. Tail(r) \in Seq(Steps)
        BY <4>4
      <4> QED
        BY <4>2, <4>3, <4>5, ListTypes DEF r
    <3> HIDE DEF list
    <3> DEFINE x == [c EXCEPT !.list = list, !.todo = Tail(c.todo)]
               y == [c EXCEPT !.todo = Tail(Tail(c.todo))]
               z == [c EXCEPT !.list = {}, !.todo = Tail(c.todo)]
    <3>5. x \in Calls /\ y \in Calls /\ z \in Calls
      BY <1>2, <3>4, CallTypes
    <3>6. Same(c, x) /\ Same(c, y) /\ Same(c, z)
      BY <1>2, SameCalls, ListPut DEF Results
    <3>7. \/ call' = [moving EXCEPT ![t] = x] \/ call' = [moving EXCEPT ![t] = y]
          \/ call' = [moving EXCEPT ![t] = z]
      BY <3>2, <3>3
    <3> HIDE DEF x, y, z
    <3> QED
      BY <3>5, <3>6, <3>7 DEF moving
  <2> QED
    BY <1>9, <2>1
<1> QED
  BY <1>10, <1>11, <1>12, <1>13, <1>14, <1>16, <1>17, <1>18, <1>19, <1>20, <1>21 DEF Proceed

(* Steps that change neither records nor counts.                           *)
LEMMA NextCounted ==
    ASSUME NEW c, NEW d, Results(c, d), c.op = "DeleteRecords", WellFormed(c.op, c.todo),
           d.todo = Tail(c.todo), Head(c.todo).do \in {"rlock", "lock", "lock second"},
           NEW D, NEW S, Counted(c, D, S)
    PROVE  Counted(d, D, S)
<1> DEFINE s == Head(c.todo)
           r == Head(d.todo)
           op == c.op
           todo == c.todo
<1>1. Reporting(c) /\ Promised(todo) /\ c.ok
  BY DEF Counted, Reporting
<1>2. WellFormed(op, todo) /\ Head(todo).do \notin {"compare", "assign"}
  OBVIOUS
<1> HIDE DEF op, todo
<1>3. /\ WellFormed(op, Tail(todo)) /\ Promised(Tail(todo))
      /\ Follows(Head(todo), Head(Tail(todo))) /\ Head(Tail(todo)).do # "runlock"
      /\ Head(Tail(todo)).do \in Kinds(op)
  BY <1>1, <1>2, PromisedTail
<1> DEFINE q == Tail(todo)
<1>4. /\ WellFormed("DeleteRecords", q) /\ Promised(d.todo) /\ Follows(s, r) /\ r.do # "runlock"
      /\ r.do \in Kinds("DeleteRecords") /\ r = Head(q)
  BY <1>3 DEF op, todo
<1> HIDE DEF q
<1>5. r.do = "lock" => r.m # 0
  BY <1>4, DeleteLocks
<1>6. At("lock", 1).do = "lock" /\ At("lock", 1).m = 0
  BY DEF At, Act
<1>7. r.do \notin {"pick", "list"}
  BY <1>4 DEF Kinds
<1>8. s.do = "lock" => s.m # 0
  <2>1. WellFormed("DeleteRecords", todo)
    BY <1>2 DEF op
  <2> QED
    BY <2>1, DeleteLocks DEF todo
<1>9. s.do \in {"rlock", "lock", "lock second"}
  OBVIOUS
<1> HIDE DEF s, r
<1>10. \/ s.do = "rlock" /\ r.do = "total"
       \/ s.do = "lock" /\ r.do = "lock second"
       \/ s.do = "lock second" /\ r.do = "copy"
  BY <1>4, <1>5, <1>6, <1>7, <1>8, <1>9 DEF Follows
<1>11. Reporting(d)
  BY <1>1, <1>4, <1>10 DEF Reporting, Results, r
<1>12. Differing(d, S)
  BY <1>10 DEF Counted, Differing, Twice, Results, Same, r, s
<1>13. Found(d, D, S) /\ Working(d, D, S)
  BY <1>10 DEF Counted, Found, Working, Results, Same, r, s
<1> QED
  BY <1>11, <1>12, <1>13 DEF Counted, Results, Same

LEMMA ThenIs ==
    ASSUME LInv, NEW t \in Threads, NEW x \in Calls, x.todo = call[t].todo, Then(t, x)
    PROVE  LET d == call'[t] IN
           /\ Same(call[t], x) => Same(call[t], d)
           /\ d.todo = Tail(call[t].todo) /\ d.ok = x.ok /\ d.old = x.old
<1> DEFINE q == Tail(call[t].todo)
           e == [x EXCEPT !.todo = q]
<1>1. call' = [call EXCEPT ![t] = e]
  BY DEF Then
<1>2. (Same(call[t], x) => Same(call[t], e)) /\ e.todo = q /\ e.ok = x.ok /\ e.old = x.old
  BY SameThen
<1> HIDE DEF e, q
<1>3. call'[t] = e
  BY <1>1, Replaced
<1> QED
  BY <1>2, <1>3 DEF q

LEMMA LocksCounted ==
    ASSUME LInv, NEW t \in Threads, Lonely(call[t]), Counted(call[t], data, status),
           RLock(t) \/ LockNode(t) \/ LockSecond(t)
    PROVE  Counted(call'[t], data', status')
<1> DEFINE c == call[t]
           d == call'[t]
<1>1. /\ Then(t, c) /\ data' = data /\ status' = status
  BY DEF RLock, LockNode, LockSecond, counters
<1>2. PICK what \in {"rlock", "lock", "lock second"} : Doing(t, what)
  BY DEF RLock, LockNode, LockSecond
<1>3. c \in Calls /\ WellFormed(c.op, c.todo) /\ Head(c.todo).do = what
  BY <1>2, Turn
<1>4. Same(c, c) /\ c.op = "DeleteRecords"
  BY DEF Same, Lonely
<1>5. Results(c, d) /\ d.todo = Tail(c.todo)
  BY <1>1, <1>3, <1>4, ThenIs DEF Results
<1> HIDE DEF c, d
<1>6. Counted(c, data, status)
  BY DEF c
<1>7. Counted(d, data, status)
  BY <1>2, <1>3, <1>4, <1>5, <1>6, NextCounted
<1> QED
  BY <1>1, <1>7 DEF d

LEMMA RUnlockCounted ==
    ASSUME LInv, NEW t \in Threads, Counted(call[t], data, status), RUnlock(t), call'[t] # None
    PROVE  Counted(call'[t], data', status')
<1> DEFINE c == call[t]
           d == call'[t]
<1>1. data' = data /\ status' = status
  BY DEF RUnlock, counters
<1>2. c \in Calls /\ WellFormed(c.op, c.todo) /\ Head(c.todo).do = "runlock"
  BY Turn DEF RUnlock
<1>3. Len(c.todo) # 1 /\ Then(t, c)
  <2>1. ASSUME Len(c.todo) = 1 PROVE FALSE
    BY <2>1, Replaced DEF RUnlock, Answer
  <2> QED
    BY <2>1 DEF RUnlock
<1>4. Same(c, c)
  BY DEF Same
<1>5. Results(c, d) /\ d.todo = Tail(c.todo)
  BY <1>2, <1>3, <1>4, ThenIs DEF Results
<1>6. Head(d.todo).do = "runlock"
  <2> DEFINE op == c.op
             todo == c.todo
             l == Len(todo)
  <2>1. WellFormed(op, todo) /\ l \in Nat /\ l > 0 /\ l # 1
    BY <1>2, <1>3, HeadWell
  <2>2. l > 1
    <3> HIDE DEF l
    <3> QED
      BY <2>1
  <2> HIDE DEF op, todo
  <2>3. Follows(Head(todo), Head(Tail(todo)))
    BY <2>1, <2>2, TailWell
  <2> QED
    BY <1>2, <1>5, <2>3 DEF Follows, todo
<1>7. Counted(c, data, status)
  OBVIOUS
<1> HIDE DEF c, d
<1>8. Counted(d, data, status)
  BY <1>2, <1>5, <1>6, <1>7
     DEF Counted, Found, Working, Differing, Reporting, Results, Same
<1> QED
  BY <1>1, <1>8 DEF d

(* The difference of the totals tells whether all records were there.      *)
LEMMA CompareCounted ==
    ASSUME LInv, NEW t \in Threads, Lonely(call[t]), Counted(call[t], data, status), Compare(t)
    PROVE  Counted(call'[t], data', status')
<1> DEFINE c == call[t]
           d == call'[t]
           ok == c.ok /\ Unsigned(c.old - Totals) = Cardinality(c.ids)
           x == [c EXCEPT !.ok = ok]
<1>1. data' = data /\ status' = status /\ Then(t, x)
  BY DEF Compare, counters
<1>2. /\ c \in Calls /\ WellFormed(c.op, c.todo) /\ Head(c.todo).do = "compare"
  BY Turn DEF Compare
<1>3. ok \in BOOLEAN
  BY <1>2, CallTypes
<1>4. c.ok /\ c.had \subseteq c.ids /\ c.still
  BY <1>2 DEF Counted, Reporting
<1>5. Unsigned(c.old - Totals) = Cardinality(c.had)
  <2>1. Unsigned((c.old + Twice(Head(c.todo))) - Added(status)) = Cardinality(c.had)
    BY <1>2 DEF Counted, Differing
  <2>2. Twice(Head(c.todo)) = 0
    BY <1>2 DEF Twice
  <2>3. c.old \in Nat
    BY <1>2 DEF Calls
  <2>4. c.old + 0 = c.old
    BY <2>3
  <2>5. Added(status) = Totals
    BY DEF Added, Totals
  <2> QED
    BY <2>1, <2>2, <2>4, <2>5
<1>6. ok <=> c.ids = c.had
  <2>1. ok <=> Cardinality(c.had) = Cardinality(c.ids)
    BY <1>4, <1>5
  <2>2. IsFiniteSet(c.ids)
    BY <1>2, CallTypes, IdsFinite
  <2>3. Cardinality(c.had) = Cardinality(c.ids) => c.had = c.ids
    BY <1>4, <2>2, FS_Subset
  <2> QED
    BY <2>1, <2>3
<1> HIDE DEF ok
<1>7. x \in Calls /\ Same(c, x) /\ x.ok = ok /\ x.todo = c.todo
  <2> HIDE DEF c
  <2>1. x \in Calls
    BY <1>2, <1>3, CallTypes
  <2>2. x = [c EXCEPT !.ok = ok]
    OBVIOUS
  <2> HIDE DEF x
  <2>3. Same(c, x) /\ x.ok = ok /\ x.todo = c.todo
    BY <1>2, <2>2, OkPut, Zenon
  <2> QED
    BY <2>1, <2>3
<1> HIDE DEF x
<1>8. Same(c, d) /\ d.todo = Tail(c.todo) /\ d.ok = ok
  BY <1>1, <1>7, ThenIs
<1>9. Head(d.todo).do = "runlock"
  <2> DEFINE op == c.op
             todo == c.todo
  <2>1. WellFormed(op, todo) /\ Head(todo).do = "compare"
    BY <1>2
  <2> HIDE DEF op, todo
  <2>2. Follows(Head(todo), Head(Tail(todo)))
    BY <2>1, NextWell
  <2> QED
    BY <2>1, <1>8, <2>2 DEF Follows, todo
<1> HIDE DEF c, d
<1>10. Counted(d, data, status)
  BY <1>4, <1>6, <1>8, <1>9 DEF Counted, Found, Working, Differing, Reporting, Same
<1> QED
  BY <1>1, <1>10 DEF d

(* A lonely call between two steps of which none is half of a transfer:    *)
(* the nodes share no record, and if the counts are right, so is the sum.  *)
LEMMA SumIsRight ==
    ASSUME LInv, Quiet, Lone, raced \cup slipped = {}, NEW t \in Threads, Lonely(call[t]),
           Head(call[t].todo).do # "remove", NEW S, \A n \in Nodes : Right(data, S, n)
    PROVE  IsFiniteSet(AllOf(data)) /\ Added(S) = Unsigned(Cardinality(AllOf(data)))
<1>1. /\ data \in [Nodes -> SUBSET Nat] /\ \A n \in Nodes : IsFiniteSet(data[n])
  BY DEF LInv, TypeOK, Finite
<1>2. ASSUME NEW m \in Nodes, NEW n \in Nodes, m # n PROVE data[m] \cap data[n] = {}
  <2> SUFFICES ASSUME NEW id \in data[m], id \in data[n] PROVE FALSE
    OBVIOUS
  <2>1. id \in Nat \ (raced \cup slipped)
    BY <1>1
  <2>2. PICK u \in Threads : Carries(call[u], m, n, id) \/ Carries(call[u], n, m, id)
    BY <1>2, <2>1 DEF Quiet, Unique
  <2>3. call[u] # None /\ Head(call[u].todo).do = "remove"
    BY <2>2 DEF Carries, Leaves
  <2>4. u = t
    BY <2>3 DEF Lone
  <2> QED
    BY <2>3, <2>4
<1> DEFINE c == [i \in 1 .. N |-> S[i]]
<1>3. N \in Nat /\ DOMAIN c = 1 .. N /\ Nodes = 1 .. N
  BY InternalAssumption DEF Nodes
<1>4. \A i \in 1 .. N : IsFiniteSet(data[i]) /\ c[i] = Cardinality(data[i])
  BY <1>1, <1>3 DEF Right
<1>5. \A i, j \in 1 .. N : i # j => data[i] \cap data[j] = {}
  BY <1>2, <1>3
<1> HIDE DEF c
<1>6. IsFiniteSet(Joined(data, N)) /\ Total(c) = Unsigned(Cardinality(Joined(data, N)))
  BY <1>3, <1>4, <1>5, TotalOfSets
<1> QED
  BY <1>6 DEF c, Added, AllOf

LEMMA CountBeforeCounted ==
    ASSUME LInv, Quiet, Lone, raced \cup slipped = {}, NEW t \in Threads, Lonely(call[t]),
           Counted(call[t], data, status), CountBefore(t)
    PROVE  Counted(call'[t], data', status')
<1> DEFINE c == call[t]
           d == call'[t]
           x == [c EXCEPT !.old = Totals]
<1>1. data' = data /\ status' = status /\ Then(t, x)
  BY DEF CountBefore, counters
<1>2. /\ c \in Calls /\ WellFormed(c.op, c.todo) /\ Head(c.todo).do = "total"
  BY Turn DEF CountBefore
<1>3. /\ c.ok /\ Promised(c.todo) /\ c.had \subseteq c.ids /\ c.still
      /\ c.ids \cap AllOf(data) = c.had /\ \A n \in Nodes : Right(data, status, n)
  BY <1>2 DEF Counted, Reporting, Found
<1>4. Totals = Unsigned(Cardinality(AllOf(data)))
  <2>1. Added(status) = Totals
    BY DEF Added, Totals
  <2> QED
    BY <1>2, <1>3, <2>1, SumIsRight
<1>5. x \in Calls /\ Same(c, x) /\ x.ok = c.ok /\ x.old = Totals /\ x.todo = c.todo
  <2>1. Totals \in Nat
    BY TotalsType
  <2> HIDE DEF c
  <2>2. x \in Calls
    BY <1>2, <2>1, CallTypes
  <2>3. x = [c EXCEPT !.old = Totals]
    OBVIOUS
  <2> HIDE DEF x
  <2> QED
    BY <1>2, <2>2, <2>3, OldPut
<1> HIDE DEF x
<1>6. Same(c, d) /\ d.todo = Tail(c.todo) /\ d.ok /\ d.old = Totals
  BY <1>1, <1>3, <1>5, ThenIs
<1>7. Promised(d.todo) /\ Head(d.todo) = OnAll("work", "delete")
  <2> DEFINE op == c.op
             todo == c.todo
  <2>1. WellFormed(op, todo) /\ Head(todo).do = "total" /\ Promised(todo)
    BY <1>2, <1>3
  <2> HIDE DEF op, todo
  <2>2. Follows(Head(todo), Head(Tail(todo))) /\ Promised(Tail(todo))
    BY <2>1, PromisedTail
  <2> QED
    BY <2>1, <1>6, <2>2 DEF Follows, todo
<1>8. Head(d.todo).do = "work" /\ Head(d.todo).left = Nodes \X {"delete"}
  BY <1>7 DEF OnAll, Act
<1>9. c.had \subseteq AllOf(data) /\ c.ids \cap AllOf(data) \subseteq c.had
  BY <1>3
<1> HIDE DEF c, d
<1>10. AllOf(data) \cup c.had = AllOf(data)
  BY <1>9
<1>11. Working(d, data, status)
  BY <1>3, <1>4, <1>6, <1>9, <1>10 DEF Working, Same
<1>12. Counted(d, data, status)
  BY <1>3, <1>6, <1>7, <1>8, <1>11 DEF Counted, Found, Differing, Reporting, Same
<1> QED
  BY <1>1, <1>12 DEF d

(* A worker step, when workers are left.                                   *)
LEMMA WorkIs ==
    ASSUME LInv, NEW t \in Threads, Doing(t, "work"), NEW S,
           S \in SUBSET (Nodes \X {"ask", "delete", "refresh"}),
           call' = [call EXCEPT ![t].todo[1].left = S], Promised(call[t].todo)
    PROVE  LET d == call'[t] IN
           Results(call[t], d) /\ Promised(d.todo) /\ Head(d.todo).do = "work" /\ Head(d.todo).left = S
<1> DEFINE c == call[t]
           d == call'[t]
           q == [c.todo EXCEPT ![1].left = S]
           e == [c EXCEPT !.todo = q]
           what == "work"
<1>1. c \in Calls /\ WellFormed(c.op, c.todo)
  BY Turn
<1>2. c.todo \in Seq(Steps) /\ c.todo # <<>>
  BY <1>1, HeadWell
<1>3. Promised(q)
  <2> DEFINE todo == c.todo
  <2>1. todo \in Seq(Steps) /\ todo # <<>> /\ Promised(todo)
    BY <1>2
  <2> HIDE DEF todo
  <2>2. Promised([todo EXCEPT ![1].left = S])
    BY <2>1, PromisedLeft
  <2> QED
    BY <2>2 DEF todo
<1>4. call' = [call EXCEPT ![t] = e]
  OBVIOUS
<1> HIDE DEF q
<1>5. Results(c, e) /\ e.todo = q
  BY <1>1, SameCalls
<1> HIDE DEF e
<1>6. d = e
  BY <1>4, Replaced
<1>7. what \in {"exists", "work"} /\ Doing(t, what) /\ what = "work"
  OBVIOUS
<1> HIDE DEF what
<1>8. Head(d.todo).do = what /\ Head(d.todo).left = S
  BY <1>7, LeftTurn
<1> QED
  BY <1>3, <1>5, <1>6, <1>7, <1>8

LEMMA WorkerDeleteCounted ==
    ASSUME LInv, NEW t \in Threads, Lonely(call[t]), Counted(call[t], data, status),
           WorkerDelete(t), faults' = 0
    PROVE  Counted(call'[t], data', status')
<1> DEFINE c == call[t]
           d == call'[t]
           left == Now(t).left
<1>1. Doing(t, "work") /\ status' = status
  BY DEF WorkerDelete, counters
<1>2. PICK n \in Nodes, rpc \in Outcomes :
        /\ data' = IF rpc[1] THEN [data EXCEPT ![n] = @ \ c.ids] ELSE data
        /\ WorkLeft(t, (left \ {<<n, "delete">>}) \cup {<<n, "refresh">>})
        /\ Count(rpc[2])
  BY DEF WorkerDelete
<1>3. rpc[1]
  BY <1>2, Rpc
<1>4. /\ c \in Calls /\ Head(c.todo).do = "work" /\ Now(t) \in Steps /\ Now(t) = Head(c.todo)
  BY <1>1, Turn
<1>5. data \in [Nodes -> SUBSET Nat]
  BY DEF LInv, TypeOK
<1>6. data'[n] = data[n] \ c.ids /\ \A m \in Nodes \ {n} : data'[m] = data[m]
  BY <1>2, <1>3, <1>5
<1>7. /\ c.ok /\ Promised(c.todo) /\ c.had \subseteq c.ids /\ c.still
      /\ c.ids \cap AllOf(data) \subseteq c.had
      /\ c.old = Unsigned(Cardinality(AllOf(data) \cup c.had))
      /\ \A m \in Nodes : <<m, "refresh">> \notin left => Right(data, status, m)
  BY <1>4 DEF Counted, Reporting, Working
<1> DEFINE S == (left \ {<<n, "delete">>}) \cup {<<n, "refresh">>}
<1>8. S \in SUBSET (Nodes \X {"ask", "delete", "refresh"})
  BY <1>4 DEF Steps
<1>9. call' = [call EXCEPT ![t].todo[1].left = S]
  BY <1>2 DEF WorkLeft
<1>10. \A m \in Nodes : <<m, "refresh">> \notin S => m # n /\ <<m, "refresh">> \notin left
  OBVIOUS
<1> HIDE DEF S
<1>11. Results(c, d) /\ Promised(d.todo) /\ Head(d.todo).do = "work" /\ Head(d.todo).left = S
  BY <1>1, <1>7, <1>8, <1>9, WorkIs
<1> HIDE DEF c, d, left
<1>12. AllOf(data') \subseteq AllOf(data)
  <2> SUFFICES ASSUME NEW m \in Nodes PROVE data'[m] \subseteq AllOf(data)
    BY DEF AllOf, Joined, Nodes
  <2> QED
    BY <1>6 DEF AllOf, Joined, Nodes
<1>13. AllOf(data') \cup c.had = AllOf(data) \cup c.had
  <2> SUFFICES ASSUME NEW x \in AllOf(data), x \notin c.had PROVE x \in AllOf(data')
    BY <1>12
  <2>1. PICK m \in Nodes : x \in data[m]
    BY DEF AllOf, Joined, Nodes
  <2>2. x \notin c.ids
    BY <1>7
  <2>3. x \in data'[m]
    BY <1>6, <2>1, <2>2
  <2> QED
    BY <2>3 DEF AllOf, Joined, Nodes
<1>14. \A m \in Nodes : <<m, "refresh">> \notin S => Right(data', status', m)
  BY <1>1, <1>6, <1>7, <1>10 DEF Right
<1>15. Working(d, data', status')
  BY <1>7, <1>11, <1>12, <1>13, <1>14 DEF Working, Results, Same
<1>16. Counted(d, data', status')
  BY <1>7, <1>11, <1>15 DEF Counted, Found, Differing, Reporting, Results, Same
<1> QED
  BY <1>16 DEF d

LEMMA WorkerRefreshCounted ==
    ASSUME MaxId < Modulus, LInv, Quiet, Quiet', Lone, raced \cup slipped = {},
           NEW t \in Threads, Lonely(call[t]), Counted(call[t], data, status),
           WorkerRefresh(t), faults' = 0
    PROVE  Counted(call'[t], data', status')
<1> DEFINE c == call[t]
           d == call'[t]
           left == Now(t).left
<1>1. Doing(t, "work") /\ data' = data /\ raced' = raced
  BY DEF WorkerRefresh, history
<1>2. PICK n \in Nodes, rpc \in Outcomes :
        /\ rpc[2] => status' = [status EXCEPT ![n] = Cardinality(data[n])]
        /\ WorkLeft(t, left \ {<<n, "refresh">>})
        /\ Count(rpc[2])
  BY DEF WorkerRefresh
<1>3. rpc[2]
  BY <1>2, Rpc
<1>4. /\ c \in Calls /\ Head(c.todo).do = "work" /\ Now(t) \in Steps /\ Now(t) = Head(c.todo)
      /\ WellFormed(c.op, c.todo)
  BY <1>1, Turn
<1>5. status \in [Nodes -> Nat]
  BY DEF LInv, TypeOK
<1>6. status'[n] = Cardinality(data[n]) /\ \A m \in Nodes \ {n} : status'[m] = status[m]
  BY <1>2, <1>3, <1>5
<1>7. /\ c.ok /\ Promised(c.todo) /\ c.had \subseteq c.ids /\ c.still
      /\ c.ids \cap AllOf(data) \subseteq c.had
      /\ c.old = Unsigned(Cardinality(AllOf(data) \cup c.had))
      /\ \A m \in Nodes : <<m, "refresh">> \notin left => Right(data, status, m)
  BY <1>4 DEF Counted, Reporting, Working
<1> DEFINE S == left \ {<<n, "refresh">>}
<1>8. S \in SUBSET (Nodes \X {"ask", "delete", "refresh"}) /\ WorkLeft(t, S)
  BY <1>2, <1>4 DEF Steps
<1>9. \A m \in Nodes : <<m, "refresh">> \notin S => m = n \/ <<m, "refresh">> \notin left
  OBVIOUS
<1> HIDE DEF S
<1>10. \A m \in Nodes : <<m, "refresh">> \notin S => Right(data, status', m)
  BY <1>6, <1>7, <1>9 DEF Right
<1>11. CASE S # {}
  <2>1. call' = [call EXCEPT ![t].todo[1].left = S]
    BY <1>8, <1>11 DEF WorkLeft
  <2>2. Results(c, d) /\ Promised(d.todo) /\ Head(d.todo).do = "work" /\ Head(d.todo).left = S
    BY <1>1, <1>7, <1>8, <2>1, WorkIs
  <2> HIDE DEF c, d, left
  <2>3. Working(d, data, status')
    BY <1>7, <1>10, <2>2 DEF Working, Results, Same
  <2>4. Counted(d, data', status')
    BY <1>1, <1>7, <2>2, <2>3 DEF Counted, Found, Differing, Reporting, Results, Same
  <2> QED
    BY <2>4 DEF d
<1>12. CASE S = {}
  <2>1. Then(t, c)
    BY <1>8, <1>12 DEF WorkLeft
  <2>2. Same(c, c)
    BY DEF Same
  <2>3. Results(c, d) /\ d.todo = Tail(c.todo)
    BY <1>4, <2>1, <2>2, ThenIs DEF Results
  <2>4. Promised(d.todo) /\ Head(d.todo).do = "balance"
    <3> DEFINE op == c.op
               todo == c.todo
    <3>1. WellFormed(op, todo) /\ Head(todo).do = "work" /\ Promised(todo)
      BY <1>4, <1>7
    <3> HIDE DEF op, todo
    <3>2. Follows(Head(todo), Head(Tail(todo))) /\ Promised(Tail(todo))
      BY <3>1, PromisedTail
    <3> QED
      BY <2>3, <3>1, <3>2 DEF Follows, todo
  <2>5. c.ids \cap AllOf(data) = {}
    <3>1. d # None /\ d.op = "DeleteRecords" /\ d.still /\ d.ids = c.ids
      <4>1. c.op = "DeleteRecords"
        BY DEF Lonely
      <4>2. d # None
        <5>1. call' \in [Threads -> Calls \cup {None}] /\ d # None
          <6> DEFINE what == "work"
          <6>1. Doing(t, what) /\ what \notin {"assign", "runlock"}
            BY <1>1
          <6> HIDE DEF what
          <6> QED
            BY <2>1, <6>1, ThenTurn
        <5> QED
          BY <5>1
      <4> QED
        BY <1>7, <2>3, <4>1, <4>2 DEF Results, Same
    <3>2. Fine(d, data', raced')
      BY DEF Quiet
    <3> HIDE DEF c, d
    <3>3. Nowhere(c.ids, data, raced)
      BY <1>1, <2>4, <3>1, <3>2 DEF Fine, Erased
    <3>4. raced = {}
      OBVIOUS
    <3> QED
      BY <3>3, <3>4 DEF Nowhere, AllOf, Joined, Nodes
  <2>6. IsFiniteSet(AllOf(data)) /\ Added(status') = Unsigned(Cardinality(AllOf(data)))
    <3> DEFINE Q == status'
    <3>1. \A m \in Nodes : Right(data, Q, m)
      BY <1>10, <1>12
    <3>2. Head(call[t].todo).do # "remove"
      BY <1>4
    <3> HIDE DEF Q
    <3>3. IsFiniteSet(AllOf(data)) /\ Added(Q) = Unsigned(Cardinality(AllOf(data)))
      BY <3>1, <3>2, SumIsRight
    <3> QED
      BY <3>3 DEF Q
  <2>7. /\ IsFiniteSet(AllOf(data)) /\ IsFiniteSet(c.had) /\ Cardinality(c.had) \in 0 .. Modulus - 1
    <3>1. c.had \in SUBSET Ids
      BY <1>4, <1>7, CallTypes
    <3>2. IsFiniteSet(c.had) /\ Cardinality(c.had) \in Nat
      BY <3>1, IdsFinite
    <3>3. Cardinality(c.had) <= MaxId
      <4>1. 1 \in Int /\ MaxId \in Int /\ 1 <= MaxId
        BY InternalAssumption
      <4>2. IsFiniteSet(Ids) /\ Cardinality(Ids) = MaxId - 1 + 1
        BY <4>1, FS_Interval DEF Ids
      <4>3. Cardinality(c.had) <= Cardinality(Ids)
        BY <3>1, <4>2, FS_Subset
      <4> QED
        BY <4>1, <4>2, <4>3, <3>2
    <3> QED
      BY <2>6, <3>2, <3>3, InternalAssumption, ModulusAssumption
  <2>8. Unsigned(c.old - Added(status')) = Cardinality(c.had)
    <3> DEFINE A == AllOf(data)
               H == c.had
               a == Cardinality(A)
               h == Cardinality(H)
    <3>1. A \cap H = {} /\ IsFiniteSet(A) /\ IsFiniteSet(H)
      BY <1>7, <2>5, <2>7
    <3>2. c.old = Unsigned(Cardinality(A \cup H)) /\ Added(status') = Unsigned(a)
      BY <1>7, <2>6
    <3>3. h \in 0 .. Modulus - 1
      BY <2>7
    <3> HIDE DEF A, H
    <3>4. Cardinality(A \cup H) = Cardinality(A) + Cardinality(H) - Cardinality(A \cap H)
      BY <3>1, FS_Union
    <3>5. Cardinality(A \cap H) = 0 /\ a \in Nat
      BY <3>1, FS_EmptySet, FS_CardinalityType
    <3>6. h \in Int /\ Modulus \in Int
      BY <3>3, ModulusAssumption
    <3>7. Cardinality(A \cup H) = a + h
      BY <3>4, <3>5, <3>6
    <3> HIDE DEF a, h
    <3>8. a + h \in Int /\ a \in Int /\ Unsigned(a + h) \in Int /\ Unsigned(a) \in Int
      <4>1. a + h \in Int /\ a \in Int
        BY <3>5, <3>6
      <4> QED
        BY <4>1, UnsignedRest
    <3>9. Unsigned(Unsigned(a + h) - Unsigned(a)) = Unsigned(Unsigned(a + h) - a)
      BY <3>8, UnsignedAdd
    <3>10. Unsigned(Unsigned(a + h) + (-a)) = Unsigned((a + h) + (-a))
      BY <3>8, UnsignedAdd
    <3> DEFINE v == Unsigned(a + h)
    <3>11. v \in Int
      BY <3>8
    <3> HIDE DEF v
    <3>12. v - a = v + (-a) /\ (a + h) + (-a) = h
      BY <3>6, <3>8, <3>11
    <3>13. Unsigned(h) = h
      BY <3>3, UnsignedIs
    <3>14. Unsigned(v - Unsigned(a)) = h
      BY <3>9, <3>10, <3>12, <3>13 DEF v
    <3>15. c.old = v
      BY <3>2, <3>7 DEF v
    <3>16. Unsigned(c.old - Added(status')) = h
      BY <3>2, <3>14, <3>15
    <3> QED
      BY <3>16 DEF h, H
  <2>9. c.old \in Nat
    BY <1>4 DEF Calls
  <2> HIDE DEF c, d
  <2>10. Differing(d, status')
    <3>1. Twice(Head(d.todo)) = 0 /\ d.old = c.old /\ d.had = c.had
      BY <2>3, <2>4 DEF Twice, Results, Same
    <3>2. c.old + 0 = c.old
      BY <2>9
    <3> QED
      BY <2>8, <3>1, <3>2 DEF Differing
  <2>11. Counted(d, data', status')
    BY <1>7, <2>3, <2>4, <2>10 DEF Counted, Found, Working, Reporting, Results, Same
  <2> QED
    BY <2>11 DEF d
<1> QED
  BY <1>11, <1>12

LEMMA BalanceCounted ==
    ASSUME LInv, NEW t \in Threads, Lonely(call[t]), Counted(call[t], data, status), Balance(t)
    PROVE  Counted(call'[t], data', status')
<1> DEFINE c == call[t]
           d == call'[t]
           counts == [i \in 1 .. N |-> status[i]]
           p == PlanSteps(BalancePlan(counts))
           q == p \o Tail(c.todo)
           e == [c EXCEPT !.todo = q]
<1>1. Doing(t, "balance") /\ data' = data /\ status' = status /\ call' = [call EXCEPT ![t] = e]
  BY DEF Balance, counters
<1>2. c \in Calls /\ WellFormed(c.op, c.todo) /\ Head(c.todo).do = "balance"
  BY <1>1, Turn
<1>3. c.ok /\ Promised(c.todo) /\ c.had \subseteq c.ids /\ c.still
  BY <1>2 DEF Counted, Reporting
<1>4. Unsigned((c.old + 0) - Added(status)) = Cardinality(c.had)
  <2>1. Twice(Head(c.todo)) = 0
    BY <1>2 DEF Twice
  <2> QED
    BY <1>2, <2>1 DEF Counted, Differing
<1>5. WellFormed(c.op, q) /\ Promised(q)
      /\ (Head(q).do \in {"compare", "runlock"} \/ Head(q).do = "lock")
  <2>1. counts \in Seq(Int) /\ Len(counts) = N
    BY CountsSeq
  <2> DEFINE todo == c.todo
             op == c.op
  <2>2. WellFormed(op, todo) /\ Head(todo).do = "balance" /\ Promised(todo)
    BY <1>2, <1>3
  <2>3. p \in Seq(Steps)
    <3> HIDE DEF counts
    <3> DEFINE plan == BalancePlan(counts)
    <3>1. plan \in Seq(Moves(N)) /\ \A k \in 1 .. Len(plan) : plan[k].from # plan[k].to
      BY <2>1, PlanIsSound
    <3> HIDE DEF plan
    <3>2. PlanSteps(plan) \in Seq(Steps)
      BY <3>1, PlanStepsAre
    <3> QED
      BY <3>2 DEF plan
  <2> HIDE DEF todo, op, counts
  <2>4. LET new == PlanSteps(BalancePlan(counts)) \o Tail(todo) IN
        /\ WellFormed(op, new)
        /\ Head(new).do \in {"compare", "runlock"} \/ (Head(new).do = "lock" /\ Head(new).m # 0)
    BY <2>1, <2>2, BalanceWell
  <2>5. Promised(Tail(todo)) /\ WellFormed(op, Tail(todo))
    BY <2>2, PromisedTail
  <2>6. Tail(todo) \in Seq(Steps)
    BY <2>5 DEF WellFormed
  <2> DEFINE r == Tail(todo)
  <2> HIDE DEF r, p
  <2>7. Promised(p \o r)
    BY <2>3, <2>5, <2>6, PromisedJoined DEF r
  <2> QED
    BY <2>4, <2>7 DEF todo, op, r, p
<1> HIDE DEF q
<1>6. Head(q).do \in {"compare", "lock"}
  <2> DEFINE op == c.op
  <2>1. WellFormed(op, q)
    BY <1>5
  <2> HIDE DEF op
  <2> QED
    BY <1>5, <2>1, PromisedMeans
<1>7. Results(c, e) /\ e.todo = q
  BY <1>2, SameCalls
<1> HIDE DEF e
<1>8. d = e
  BY <1>1, Replaced
<1> HIDE DEF c, d
<1>9. Differing(d, status)
  <2>1. Twice(Head(d.todo)) = 0
    BY <1>6, <1>7, <1>8 DEF Twice
  <2> QED
    BY <1>4, <1>7, <1>8, <2>1 DEF Differing, Results, Same
<1>10. Counted(d, data', status')
  BY <1>1, <1>3, <1>5, <1>6, <1>7, <1>8, <1>9
     DEF Counted, Found, Working, Reporting, Results, Same
<1> QED
  BY <1>10 DEF d

(* A count changes by x, and the sum with it.                              *)
LEMMA AddedChanges ==
    ASSUME NEW S \in [Nodes -> Nat], NEW T, NEW n \in Nodes, NEW x \in Int,
           T[n] = Unsigned(S[n] + x), \A j \in Nodes : j # n => T[j] = S[j]
    PROVE  Added(T) = Unsigned(Added(S) + x) /\ Added(S) \in Int
<1> DEFINE a == [i \in 1 .. N |-> S[i]]
           b == [i \in 1 .. N |-> T[i]]
<1>1. N \in Nat /\ Nodes = 1 .. N /\ n \in 1 .. N
  BY InternalAssumption DEF Nodes
<1>2. a \in [1 .. N -> Int] /\ a[n] \in Int
  BY <1>1
<1>3. a[n] + x \in Int
  BY <1>2
<1>4. Unsigned(a[n] + x) \in Int
  <2> HIDE DEF a
  <2> QED
    BY <1>3, UnsignedRest
<1>5. b \in [1 .. N -> Int] /\ b[n] = Unsigned(a[n] + x) /\ \A j \in 1 .. N : j # n => b[j] = a[j]
  BY <1>1, <1>2, <1>4
<1>6. a \in Seq(Int)
  BY <1>1, <1>2
<1> HIDE DEF a, b
<1>7. Total(b) = Unsigned(Total(a) + x)
  BY <1>1, <1>2, <1>5, TotalChanges
<1>8. Total(a) \in Int
  BY <1>6, TotalType
<1> QED
  BY <1>7, <1>8 DEF Added, a, b

LEMMA CopyCounted ==
    ASSUME LInv, NEW t \in Threads, Lonely(call[t]), Counted(call[t], data, status), Copy(t),
           faults' = 0
    PROVE  Counted(call'[t], data', status')
<1> DEFINE c == call[t]
           d == call'[t]
           s == Now(t)
           list == FirstOf(data[s.n], s.k)
           moving == Disturb(call, t, Unmoved)
           q == Tail(c.todo)
           e == [c EXCEPT !.list = list, !.todo = q]
           what == "copy"
<1>1. Doing(t, what) /\ what = "copy"
  BY DEF Copy
<1> HIDE DEF what
<1>2. /\ c \in Calls /\ c # None /\ WellFormed(c.op, c.todo) /\ s = Head(c.todo)
      /\ s.do = "copy" /\ s.n \in Nodes /\ s.m \in Nodes /\ s.k \in Nat
      /\ WellFormed(c.op, q) /\ Follows(s, Head(q))
  BY <1>1, InTransfer
<1>3. PICK rpc \in Outcomes :
        /\ rpc[2] => /\ call' = [moving EXCEPT ![t].list = list, ![t].todo = Tail(@)]
                     /\ status' = [status EXCEPT ![s.m] = Unsigned(@ + s.k)]
        /\ Count(rpc[2])
  BY DEF Copy
<1>4. rpc[2]
  BY <1>3, Rpc
<1>5. call \in [Threads -> Calls \cup {None}] /\ status \in [Nodes -> Nat]
  BY DEF LInv, TypeOK
<1>6. moving[t] = c /\ t \in DOMAIN moving
  BY <1>5 DEF Disturb
<1>7. list \subseteq Nat
  BY <1>2, ListTypes
<1>8. q \in Seq(Steps)
  BY <1>2 DEF WellFormed
<1> HIDE DEF list
<1>9. call' = [moving EXCEPT ![t] = e]
  <2> HIDE DEF moving
  <2> QED
    BY <1>3, <1>4, <1>6
<1> HIDE DEF q
<1>10. e \in Calls /\ Results(c, e) /\ e.todo = q
  <2>1. e \in Calls
    BY <1>2, <1>7, <1>8, CallTypes
  <2>2. c \in Calls
    BY <1>2
  <2> HIDE DEF c
  <2>3. Results(c, e) /\ e.todo = q
    BY <2>2, ListsPut
  <2> QED
    BY <2>1, <2>3
<1> HIDE DEF e
<1>11. d = e
  BY <1>2, <1>9, <1>10, DisturbGoing DEF Results
<1>12. c.ok /\ Promised(c.todo) /\ c.had \subseteq c.ids /\ c.still
  BY <1>2 DEF Counted, Reporting
<1>13. Unsigned((c.old + 0) - Added(status)) = Cardinality(c.had)
  <2>1. Twice(Head(c.todo)) = 0
    BY <1>2 DEF Twice
  <2> QED
    BY <1>2, <2>1 DEF Counted, Differing
<1>14. Promised(q)
  <2> DEFINE todo == c.todo
             op == c.op
  <2>1. WellFormed(op, todo) /\ Head(todo).do \notin {"compare", "assign"} /\ Promised(todo)
    BY <1>2, <1>12
  <2> HIDE DEF todo, op
  <2>2. Promised(Tail(todo))
    BY <2>1, PromisedTail
  <2> QED
    BY <2>2 DEF todo, q
<1>15. c.old \in Nat
  BY <1>2 DEF Calls
<1> HIDE DEF c, d, s
<1>16. Head(q).do = "remove" /\ Head(q).k = s.k
  BY <1>2 DEF Follows
<1>17. Added(status') = Unsigned(Added(status) + s.k) /\ Added(status) \in Int
  <2> DEFINE T == status'
             k == s.k
             n == s.m
  <2>1. /\ T[n] = Unsigned(status[n] + k) /\ k \in Int /\ n \in Nodes
        /\ \A j \in Nodes : j # n => T[j] = status[j]
    BY <1>2, <1>3, <1>4, <1>5
  <2> HIDE DEF T, k, n
  <2>2. Added(T) = Unsigned(Added(status) + k) /\ Added(status) \in Int
    BY <1>5, <2>1, AddedChanges
  <2> QED
    BY <2>2 DEF T, k
<1>18. Unsigned((c.old + s.k) - Added(status')) = Cardinality(c.had)
  <2> DEFINE o == c.old
             k == s.k
             z == Added(status)
  <2>1. o \in Int /\ k \in Int /\ z \in Int
    BY <1>2, <1>15, <1>17
  <2> HIDE DEF o, k, z
  <2>2. o + k \in Int /\ z + k \in Int
    BY <2>1
  <2>3. Unsigned((o + k) - Unsigned(z + k)) = Unsigned((o + k) - (z + k))
    BY <2>2, UnsignedAdd
  <2>4. (o + k) - (z + k) = (o + 0) - z
    BY <2>1
  <2> QED
    BY <1>13, <1>17, <2>3, <2>4 DEF o, k, z
<1>19. Differing(d, status')
  <2>1. Twice(Head(d.todo)) = s.k
    BY <1>10, <1>11, <1>16 DEF Twice
  <2> QED
    BY <1>10, <1>11, <1>18, <2>1 DEF Differing, Results, Same
<1>20. Counted(d, data', status')
  BY <1>10, <1>11, <1>12, <1>14, <1>16, <1>19
     DEF Counted, Found, Working, Reporting, Results, Same
<1> QED
  BY <1>20 DEF d

LEMMA DeleteMovedCounted ==
    ASSUME LInv, NEW t \in Threads, Lonely(call[t]), Counted(call[t], data, status), DeleteMoved(t)
    PROVE  Counted(call'[t], data', status')
<1> DEFINE c == call[t]
           d == call'[t]
           s == Now(t)
           moving == Disturb(call, t, Unmoved)
           q == Tail(c.todo)
           e == [c EXCEPT !.list = {}, !.todo = q]
           what == "remove"
<1>1. /\ Doing(t, what) /\ what = "remove"
      /\ status' = [status EXCEPT ![s.n] = Unsigned(@ - s.k)]
      /\ call' = [moving EXCEPT ![t].list = {}, ![t].todo = Tail(@)]
  BY DEF DeleteMoved
<1> HIDE DEF what
<1>2. /\ c \in Calls /\ c # None /\ WellFormed(c.op, c.todo) /\ s = Head(c.todo)
      /\ s.do = "remove" /\ s.n \in Nodes /\ s.m \in Nodes /\ s.k \in Nat
      /\ WellFormed(c.op, q) /\ Follows(s, Head(q))
  BY <1>1, InTransfer
<1>3. call \in [Threads -> Calls \cup {None}] /\ status \in [Nodes -> Nat]
  BY DEF LInv, TypeOK
<1>4. moving[t] = c /\ t \in DOMAIN moving
  BY <1>3 DEF Disturb
<1>5. q \in Seq(Steps)
  BY <1>2 DEF WellFormed
<1>6. call' = [moving EXCEPT ![t] = e]
  <2> HIDE DEF moving
  <2> QED
    BY <1>1, <1>4
<1> HIDE DEF q
<1>7. e \in Calls /\ Results(c, e) /\ e.todo = q
  <2>1. e \in Calls
    BY <1>2, <1>5, CallTypes
  <2>2. c \in Calls
    BY <1>2
  <2> HIDE DEF c
  <2>3. Results(c, e) /\ e.todo = q
    BY <2>2, ListsPut
  <2> QED
    BY <2>1, <2>3
<1> HIDE DEF e
<1>8. d = e
  BY <1>2, <1>6, <1>7, DisturbGoing DEF Results
<1>9. c.ok /\ Promised(c.todo) /\ c.had \subseteq c.ids /\ c.still
  BY <1>2 DEF Counted, Reporting
<1>10. Unsigned((c.old + s.k) - Added(status)) = Cardinality(c.had)
  <2>1. Twice(Head(c.todo)) = s.k
    BY <1>2 DEF Twice
  <2> QED
    BY <1>2, <2>1 DEF Counted, Differing
<1>11. Promised(q) /\ Head(q).do # "runlock"
  <2> DEFINE todo == c.todo
             op == c.op
  <2>1. WellFormed(op, todo) /\ Head(todo).do \notin {"compare", "assign"} /\ Promised(todo)
    BY <1>2, <1>9
  <2> HIDE DEF todo, op
  <2>2. Promised(Tail(todo)) /\ Head(Tail(todo)).do # "runlock"
    BY <2>1, PromisedTail
  <2> QED
    BY <2>2 DEF todo, q
<1>12. c.old \in Nat
  BY <1>2 DEF Calls
<1> HIDE DEF c, d, s
<1>13. Head(q).do \in {"compare", "lock"}
  BY <1>2, <1>11 DEF Follows
<1>14. Added(status') = Unsigned(Added(status) + (-s.k)) /\ Added(status) \in Int
  <2> DEFINE T == status'
             k == s.k
             n == s.n
             v == status[n]
  <2>1. /\ T[n] = Unsigned(v - k) /\ k \in Int /\ v \in Int /\ n \in Nodes
        /\ \A j \in Nodes : j # n => T[j] = status[j]
    BY <1>1, <1>2, <1>3
  <2> HIDE DEF k, v, T, n
  <2>2. v - k = v + (-k) /\ -k \in Int
    BY <2>1
  <2>3. T[n] = Unsigned(status[n] + (-k))
    BY <2>1, <2>2 DEF v
  <2>4. Added(T) = Unsigned(Added(status) + (-k)) /\ Added(status) \in Int
    BY <1>3, <2>1, <2>2, <2>3, AddedChanges
  <2> QED
    BY <2>4 DEF T, k
<1>15. Unsigned((c.old + 0) - Added(status')) = Cardinality(c.had)
  <2> DEFINE o == c.old
             k == s.k
             z == Added(status)
  <2>1. o \in Int /\ k \in Int /\ z \in Int
    BY <1>2, <1>12, <1>14
  <2> HIDE DEF o, k, z
  <2>2. o + 0 \in Int /\ z + (-k) \in Int
    BY <2>1
  <2>3. Unsigned((o + 0) - Unsigned(z + (-k))) = Unsigned((o + 0) - (z + (-k)))
    BY <2>2, UnsignedAdd
  <2>4. (o + 0) - (z + (-k)) = (o + k) - z
    BY <2>1
  <2> QED
    BY <1>10, <1>14, <2>3, <2>4 DEF o, k, z
<1>16. Differing(d, status')
  <2>1. Twice(Head(d.todo)) = 0
    BY <1>7, <1>8, <1>13 DEF Twice
  <2> QED
    BY <1>7, <1>8, <1>15, <2>1 DEF Differing, Results, Same
<1>17. Counted(d, data', status')
  BY <1>7, <1>8, <1>9, <1>11, <1>13, <1>16
     DEF Counted, Found, Working, Reporting, Results, Same
<1> QED
  BY <1>17 DEF d

(* A step of a call that goes on makes no call lonely.                     *)
LEMMA ProceedLone ==
    ASSUME LInv, Lone, NEW t \in Threads, Proceed(t)
    PROVE  /\ Lone'
           /\ \A x \in Threads : Lonely(call'[x]) => x = t /\ Lonely(call[t])
<1>1. Going(t)
  BY ProceedGoing
<1>2. \A x \in Threads : call'[x] # None =>
        call[x] # None /\ call'[x].op = call[x].op /\ call'[x].alone = call[x].alone
  BY <1>1 DEF Going
<1>3. \A x \in Threads : Lonely(call'[x]) => Lonely(call[x])
  BY <1>2 DEF Lonely
<1>4. Lone'
  BY <1>2, <1>3 DEF Lone
<1>5. call[t] # None
  BY <1>1 DEF Going
<1> QED
  BY <1>3, <1>4, <1>5 DEF Lone

(* The steps of DeleteRecords.                                             *)
LEMMA DeleteActions ==
    ASSUME LInv, NEW t \in Threads, call[t].op = "DeleteRecords", Proceed(t)
    PROVE  /\ raced' = raced /\ slipped' = slipped
           /\ \/ RLock(t) \/ LockNode(t) \/ LockSecond(t)
              \/ RUnlock(t) \/ CountBefore(t) \/ WorkerDelete(t) \/ WorkerRefresh(t)
              \/ Compare(t) \/ Balance(t) \/ Copy(t) \/ DeleteMoved(t)
<1>1. ASSUME NEW what, Doing(t, what)
      PROVE  what \notin {"lock id", "choose", "assign", "pick", "exists", "create", "store",
                          "settle", "fallback", "list", "query"}
  <2>1. what \in Kinds(call[t].op)
    BY <1>1, Turn
  <2> QED
    BY <2>1 DEF Kinds
<1>2. ~(\/ LockId(t) \/ Choose(t) \/ Assign(t) \/ Pick(t) \/ Exists(t) \/ Create(t)
        \/ Raise(t) \/ Store(t) \/ Settle(t) \/ Fallback(t) \/ List(t) \/ Query(t))
  BY <1>1 DEF LockId, Choose, Assign, Pick, Exists, Create, Raise, Creating, Store, Settle, Fallback,
              List, Query
<1>3. \/ RLock(t) \/ LockNode(t) \/ LockSecond(t)
      \/ RUnlock(t) \/ CountBefore(t) \/ WorkerDelete(t) \/ WorkerRefresh(t)
      \/ Compare(t) \/ Balance(t) \/ Copy(t) \/ DeleteMoved(t)
  BY <1>2 DEF Proceed
<1>4. raced' = raced /\ slipped' = slipped
  BY <1>3 DEF RLock, LockNode, LockSecond, RUnlock, CountBefore, WorkerDelete, WorkerRefresh,
              Compare, Balance, Copy, DeleteMoved, history
<1> QED
  BY <1>3, <1>4

LEMMA ProceedTally ==
    ASSUME MaxId < Modulus, QInv, QInv', TInv, NEW t \in Threads, Proceed(t)
    PROVE  TInv'
<1>1. LInv /\ Lone /\ [Next]_vars
  BY DEF QInv, SInv, TInv, Next
<1>2. Lone' /\ \A x \in Threads : Lonely(call'[x]) => x = t /\ Lonely(call[t])
  BY <1>1, ProceedLone
<1> SUFFICES ASSUME faults' = 0, raced' \cup slipped' = {}, NEW x \in Threads, Lonely(call'[x])
             PROVE  Counted(call'[x], data', status')
  BY <1>2 DEF TInv
<1>3. x = t /\ Lonely(call[t]) /\ call'[t] # None
  BY <1>2 DEF Lonely
<1>4. faults = 0
  BY <1>1, NoFaults
<1>5. Quiet /\ Quiet'
  BY <1>4 DEF QInv
<1>6. call[t].op = "DeleteRecords"
  BY <1>3 DEF Lonely
<1>7. /\ raced \cup slipped = {}
      /\ \/ RLock(t) \/ LockNode(t) \/ LockSecond(t)
         \/ RUnlock(t) \/ CountBefore(t) \/ WorkerDelete(t) \/ WorkerRefresh(t)
         \/ Compare(t) \/ Balance(t) \/ Copy(t) \/ DeleteMoved(t)
  BY <1>1, <1>6, DeleteActions
<1>8. Counted(call[t], data, status)
  BY <1>3, <1>4, <1>7 DEF TInv
<1>9. CASE RLock(t) \/ LockNode(t) \/ LockSecond(t)
  BY <1>1, <1>3, <1>8, <1>9, LocksCounted
<1>10. CASE RUnlock(t)
  BY <1>1, <1>3, <1>8, <1>10, RUnlockCounted
<1>11. CASE CountBefore(t)
  BY <1>1, <1>3, <1>5, <1>7, <1>8, <1>11, CountBeforeCounted
<1>12. CASE WorkerDelete(t)
  BY <1>1, <1>3, <1>8, <1>12, WorkerDeleteCounted
<1>13. CASE WorkerRefresh(t)
  BY <1>1, <1>3, <1>5, <1>7, <1>8, <1>13, WorkerRefreshCounted
<1>14. CASE Compare(t)
  BY <1>1, <1>3, <1>8, <1>14, CompareCounted
<1>15. CASE Balance(t)
  BY <1>1, <1>3, <1>8, <1>15, BalanceCounted
<1>16. CASE Copy(t)
  BY <1>1, <1>3, <1>8, <1>16, CopyCounted
<1>17. CASE DeleteMoved(t)
  BY <1>1, <1>3, <1>8, <1>17, DeleteMovedCounted
<1> QED
  BY <1>7, <1>9, <1>10, <1>11, <1>12, <1>13, <1>14, <1>15, <1>16, <1>17

(* When a call begins, only it can be lonely.                              *)
LEMMA BeginLone ==
    ASSUME LInv, NEW t \in Threads, NEW op, NEW ids, NEW todo, Begin(t, op, ids, todo)
    PROVE  LET d == call'[t] IN
           /\ \A u \in Threads \ {t} : ~Lonely(call'[u]) /\ (call[u] = None => call'[u] = None)
           /\ d.op = op /\ d.ids = ids /\ d.todo = todo /\ d.ok = TRUE /\ d.still = TRUE
           /\ d.had = ids \cap Stored
           /\ d.alone => CountsAreRight /\ \A u \in Threads \ {t} : call[u] = None
<1> DEFINE Aside(c) == [c EXCEPT !.alone = FALSE]
           others == Disturb(call, t, Aside)
           e == [op |-> op, ids |-> ids, todo |-> todo, start |-> 0, end |-> 0,
                 good |-> 0, old |-> 0, list |-> {}, ok |-> TRUE,
                 had |-> ids \cap Stored, alone |-> Others(t) = {} /\ CountsAreRight,
                 still |-> TRUE]
<1>1. call' = [others EXCEPT ![t] = e]
  BY DEF Begin
<1>2. call \in [Threads -> Calls \cup {None}]
  BY DEF LInv, TypeOK
<1>3. /\ DOMAIN others = Threads
      /\ \A u \in Threads \ {t} :
            others[u] = IF call[u] # None THEN [call[u] EXCEPT !.alone = FALSE] ELSE call[u]
  BY <1>2 DEF Disturb
<1>4. /\ e.op = op /\ e.ids = ids /\ e.todo = todo /\ e.ok = TRUE /\ e.still = TRUE
      /\ e.had = ids \cap Stored
  OBVIOUS
<1>5. e.alone => Others(t) = {} /\ CountsAreRight
  BY Zenon
<1> HIDE DEF others, e
<1>6. call'[t] = e
  BY <1>1, <1>3
<1>7. ASSUME NEW u \in Threads \ {t}
      PROVE  ~Lonely(call'[u]) /\ (call[u] = None => call'[u] = None)
  <2> DEFINE c == call[u]
             x == [c EXCEPT !.alone = FALSE]
  <2>1. call'[u] = IF c # None THEN x ELSE c
    BY <1>1, <1>3
  <2>2. c # None => c \in Calls
    BY <1>2
  <2> HIDE DEF c
  <2>3. c \in Calls => ~x.alone
    BY DEF Calls
  <2> HIDE DEF x
  <2> QED
    BY <2>1, <2>2, <2>3 DEF Lonely, c
<1>8. Others(t) = {} => \A u \in Threads \ {t} : call[u] = None
  BY DEF Others, Busy
<1> QED
  BY <1>4, <1>5, <1>6, <1>7, <1>8

LEMMA BeginTally ==
    ASSUME LInv, Lone, NEW t \in Threads, NEW op, NEW ids, NEW todo, Begin(t, op, ids, todo),
           op = "DeleteRecords" => Head(todo).do = "rlock" /\ Promised(todo)
    PROVE  TInv'
<1> DEFINE d == call'[t]
<1>1. data' = data /\ status' = status
  BY DEF Begin, counters
<1>2. \A u \in Threads \ {t} : ~Lonely(call'[u]) /\ (call[u] = None => call'[u] = None)
  BY BeginLone
<1>3. /\ d.op = op /\ d.ids = ids /\ d.todo = todo /\ d.ok = TRUE /\ d.still = TRUE
      /\ d.had = ids \cap Stored
      /\ d.alone => CountsAreRight /\ \A u \in Threads \ {t} : call[u] = None
  BY BeginLone
<1>4. AllOf(data) = Stored
  BY DEF AllOf, Joined, Stored, Nodes
<1> HIDE DEF d
<1>5. Lonely(d) => Counted(d, data, status)
  <2> SUFFICES ASSUME Lonely(d) PROVE Counted(d, data, status)
    OBVIOUS
  <2>1. Head(d.todo).do = "rlock" /\ Promised(d.todo) /\ CountsAreRight
    BY <1>3 DEF Lonely
  <2>2. Found(d, data, status)
    BY <1>3, <1>4, <2>1 DEF Found, CountsAreRight, Right
  <2>3. Working(d, data, status) /\ Differing(d, status) /\ Reporting(d)
    BY <1>3, <2>1 DEF Working, Differing, Reporting
  <2> QED
    BY <1>3, <2>2, <2>3 DEF Counted
<1>6. \A x \in Threads : Lonely(call'[x]) => x = t /\ Lonely(d)
  BY <1>2 DEF d
<1>7. Lone'
  BY <1>2, <1>3, <1>6 DEF Lone, Lonely
<1>8. \A x \in Threads : Lonely(call'[x]) => Counted(call'[x], data', status')
  BY <1>1, <1>5, <1>6 DEF d
<1> QED
  BY <1>7, <1>8 DEF TInv

LEMMA CallsTally ==
    ASSUME LInv, Lone, NEW t \in Threads,
           \/ CreateRecord(t) \/ ListRecords(t)
           \/ \E id \in Ids : CreateRecordWithId(t, id)
           \/ \E ids \in SUBSET Ids : CreateRecordsWithId(t, ids) \/ DeleteRecords(t, ids)
    PROVE  TInv'
<1>1. Head(DeleteManySteps).do = "rlock" /\ Promised(DeleteManySteps)
  <2> DEFINE a == Step("rlock")
             b == Step("total")
             c == OnAll("work", "delete")
             d == Step("balance")
             e == Step("compare")
             f == Step("runlock")
             todo == <<a, b, c, d, e, f>>
  <2>1. DeleteManySteps = todo
    BY DEF DeleteManySteps
  <2>2. a.do = "rlock" /\ e.do = "compare"
    BY DEF Step, Act
  <2> HIDE DEF a, b, c, d, e, f
  <2>3. Head(todo) = a /\ 5 \in 1 .. Len(todo) /\ todo[5] = e
    OBVIOUS
  <2> HIDE DEF todo
  <2> QED
    BY <2>1, <2>2, <2>3 DEF Promised
<1>2. ASSUME NEW op, NEW ids, NEW todo, Begin(t, op, ids, todo),
             op # "DeleteRecords" \/ todo = DeleteManySteps
      PROVE  TInv'
  BY <1>1, <1>2, BeginTally
<1>3. CASE CreateRecord(t) \/ ListRecords(t)
  BY <1>2, <1>3 DEF CreateRecord, ListRecords
<1>4. ASSUME NEW id \in Ids, CreateRecordWithId(t, id) PROVE TInv'
  BY <1>2, <1>4 DEF CreateRecordWithId
<1>5. ASSUME NEW ids \in SUBSET Ids, CreateRecordsWithId(t, ids) PROVE TInv'
  BY <1>2, <1>5 DEF CreateRecordsWithId
<1>6. ASSUME NEW ids \in SUBSET Ids, DeleteRecords(t, ids) PROVE TInv'
  BY <1>2, <1>6 DEF DeleteRecords
<1> QED
  BY <1>3, <1>4, <1>5, <1>6

LEMMA NextTally ==
    ASSUME MaxId < Modulus, QInv, QInv', TInv, [Next]_vars
    PROVE  TInv'
<1>1. LInv /\ Lone
  BY DEF QInv, SInv, TInv
<1>2. CASE UNCHANGED vars \/ WLock \/ WUnlock
  <2>1. UNCHANGED <<data, status, call, faults, raced, slipped>>
    BY <1>2 DEF WLock, WUnlock, vars, counters, history
  <2> QED
    BY <2>1 DEF TInv, Lone
<1>3. ASSUME NEW t \in Threads, Proceed(t) PROVE TInv'
  BY <1>3, ProceedTally
<1>4. ASSUME NEW t \in Threads,
             \/ CreateRecord(t) \/ ListRecords(t)
             \/ \E id \in Ids : CreateRecordWithId(t, id)
             \/ \E ids \in SUBSET Ids : CreateRecordsWithId(t, ids) \/ DeleteRecords(t, ids)
      PROVE  TInv'
  BY <1>1, <1>4, CallsTally
<1> QED
  BY <1>2, <1>3, <1>4 DEF Next

(* DeleteRecords tells the truth (mux_records.go:453): if no RPC failed,   *)
(* its records are gone when it answers, unless a transfer of another call *)
(* moved records since it began; and if no other call ran meanwhile and    *)
(* the counts were right at first, the difference of the totals, which it  *)
(* compares with the number of records it was asked to delete, makes it    *)
(* report success exactly if all of them were stored.  That there are      *)
(* fewer identifiers than numbers of a uint64 is needed: the difference    *)
(* wraps.                                                                  *)
THEOREM DeleteTellsTrue ==
    ASSUME MaxId < Modulus
    PROVE  Spec => []DeleteIsComplete
<1>1. Init => TInv
  BY DEF Init, TInv, Lone, Lonely
<1>2. QInv /\ QInv' /\ TInv /\ [Next]_vars => TInv'
  BY NextTally
<1>3. QInv /\ TInv /\ Deleted => DeleteIsComplete
  <2> SUFFICES ASSUME QInv, TInv, Deleted, NEW t \in Busy, call[t].op = "DeleteRecords",
                      call[t].todo = <<Step("runlock")>>, faults = 0
               PROVE  /\ call[t].still => call[t].ids \cap Stored \subseteq raced
                      /\ call[t].alone /\ raced \cup slipped = {} =>
                            (call[t].ok <=> call[t].ids = call[t].had)
    BY DEF DeleteIsComplete
  <2>1. call[t].still => call[t].ids \cap Stored \subseteq raced
    BY DEF Deleted
  <2>2. ASSUME call[t].alone, raced \cup slipped = {}
        PROVE  call[t].ok <=> call[t].ids = call[t].had
    <3>1. t \in Threads /\ Lonely(call[t])
      BY <2>2 DEF Busy, Lonely
    <3>2. Reporting(call[t])
      BY <2>2, <3>1 DEF TInv, Counted
    <3>3. Head(call[t].todo).do = "runlock"
      BY DEF Step, Act
    <3> QED
      BY <3>2, <3>3 DEF Reporting
  <2> QED
    BY <2>1, <2>2
<1> QED
  BY <1>1, <1>2, <1>3, QuietAlways, DeletedIsGone, PTL DEF Spec

=============================================================================
