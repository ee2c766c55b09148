--------------------------- MODULE InternalProofs ---------------------------
(***************************************************************************)
(* The internal service of a master, for every number of nodes, calls,     *)
(* records and failing RPCs.                                               *)
(*                                                                         *)
(* A call is the list of the steps that it has left, so which locks it     *)
(* holds is not written in the state: Held and Depth read it off the next  *)
(* step.  That this is right (LInv) needs the order of the steps, Follows, *)
(* of every list that the calls begin with, balances extend and the        *)
(* rollback of a batch replaces.  All else rests on it.                    *)
(***************************************************************************)
EXTENDS Internal, BalancerProofs, FiniteSetTheorems, SequenceTheorems

(* The steps each kind of call may have left.                              *)
Kinds(op) ==
    CASE op = "CreateRecord" -> {"choose", "lock", "lock id", "assign"}
      [] op = "CreateRecordWithId" -> {"rlock", "pick", "exists", "lock", "create", "runlock"}
      [] op = "CreateRecordsWithId" ->
            {"rlock", "lock", "store", "settle", "fallback", "balance", "lock second",
             "copy", "remove", "total", "work", "compare", "runlock"}
      [] op = "ListRecords" -> {"rlock", "list", "query", "runlock"}
      [] OTHER -> {"rlock", "total", "work", "balance", "lock", "lock second", "copy",
                   "remove", "compare", "runlock"}

Moving(s) == s.do \in {"lock second", "copy", "remove"} \/ (s.do = "lock" /\ s.m # 0)

Proper(s) ==
    /\ Moving(s) => s.n \in Nodes /\ s.m \in Nodes /\ s.n # s.m
    /\ s.do \in {"store", "list"} => s.n \in Nodes
    /\ s.do \in {"create", "fallback"} => s.n = 0

(* Step r may come after step s.                                           *)
Follows(s, r) ==
    /\ s.do = "choose" => r = At("lock", 0)
    /\ s.do = "lock" /\ s.m # 0 => r.do = "lock second" /\ r.n = s.n /\ r.m = s.m
    /\ s.do = "lock" /\ s.m = 0 /\ s.n # 0 => r = At("store", s.n)
    /\ s.do = "lock" /\ s.m = 0 /\ s.n = 0 => r.do \in {"lock id", "create", "fallback"} /\ r.k = 0
    /\ s.do = "lock second" => r.do = "copy" /\ r.n = s.n /\ r.m = s.m
    /\ s.do = "copy" => r.do = "remove" /\ r.n = s.n /\ r.m = s.m /\ r.k = s.k
    /\ s.do = "lock id" => r.do = "assign"
    /\ s.do = "assign" => FALSE
    /\ s.do = "rlock" => r.do \in {"pick", "total", "list"} \/ r = At("lock", 1)
    /\ s.do = "list" => r.do = "query"
    /\ s.do = "query" => r.do = "runlock"
    /\ s.do = "pick" => r = OnAll("exists", "ask")
    /\ s.do = "exists" => r = At("lock", 0)
    /\ s.do = "create" => r.do = "runlock"
    /\ s.do = "store" => IF s.n = N THEN r.do = "settle" ELSE r = At("lock", s.n + 1)
    /\ s.do \in {"settle", "fallback", "work"} => r.do = "balance"
    /\ s.do = "total" => r = OnAll("work", "delete")
    /\ s.do \in {"balance", "remove"} =>
          r.do \in {"compare", "runlock"} \/ (r.do = "lock" /\ r.m # 0)
    /\ s.do \in {"compare", "runlock"} => r.do = "runlock"

Final(op) == IF op = "CreateRecord" THEN "assign" ELSE "runlock"

(* The rollback of a batch runs DeleteRecords inside the call.             *)
Nested(todo) == Len(todo) > 1 /\ todo[Len(todo) - 1].do = "runlock"

WellFormed(op, todo) ==
    /\ todo \in Seq(Steps) /\ todo # <<>>
    /\ \A i \in 1 .. Len(todo) : todo[i].do \in Kinds(op) /\ Proper(todo[i])
    /\ \A i \in 1 .. Len(todo) - 1 : Follows(todo[i], todo[i + 1])
    /\ todo[Len(todo)].do = Final(op)
    /\ \A i \in 1 .. Len(todo) - 2 : todo[i].do # "runlock"
    /\ Nested(todo) => \A i \in 1 .. Len(todo) : todo[i].do \in Kinds("DeleteRecords")

(* The records of the nodes that the loop of a batch has passed.           *)
Passed(ids, i) == (Cardinality(ids) \div N) * i +
                  (IF i <= Cardinality(ids) % N THEN i ELSE Cardinality(ids) % N)

Storing(s) == s.do = "store" \/ (s.do = "lock" /\ s.m = 0 /\ s.n # 0)
FallingBack(s) == s.do = "fallback" \/ (s.do = "lock" /\ s.m = 0 /\ s.n = 0)

(* The RPC that stores records was answered, and nextId has to be raised.  *)
Answered(s) == s.do \in {"create", "store", "fallback"} /\ s.k # 0

(* The local variables fit what the call does next.                        *)
Fitting(c) ==
    LET s == Head(c.todo) IN
    /\ s.do \in {"exists", "lock id", "assign", "create", "fallback"}
          \/ FallingBack(s) => c.good \in Nodes
    /\ c.op \in {"CreateRecord", "ListRecords"} => c.ids = {}
    /\ c.op = "CreateRecordWithId" => Cardinality(c.ids) = 1
    /\ Nested(c.todo) => ~c.ok
    /\ s.do = "work" => s.left # {}
    /\ c.op = "CreateRecordsWithId" =>
          /\ c.start <= c.end
          /\ s.do = "rlock" /\ ~Nested(c.todo) => c.ok /\ c.end = 0
          /\ Storing(s) => c.ok /\ c.end = Passed(c.ids, IF Answered(s) THEN s.n ELSE s.n - 1)
          /\ s.do = "settle" => c.ok
          /\ s.do = "settle" \/ FallingBack(s) => c.end = Cardinality(c.ids)

Sane(c) == c = None \/ (WellFormed(c.op, c.todo) /\ Fitting(c))

(* The nodes whose locks a call holds, and how often it holds nodesLock.   *)
Held(c) ==
    LET s == Head(c.todo) IN
    IF c = None THEN {}
    ELSE IF s.do \in {"lock id", "assign", "create", "fallback"} THEN {c.good}
    ELSE IF s.do \in {"store", "lock second"} THEN {s.n}
    ELSE IF s.do \in {"copy", "remove"} THEN {s.n, s.m} ELSE {}

Depth(c) ==
    IF c = None \/ c.op = "CreateRecord" THEN 0
    ELSE (IF Nested(c.todo) THEN 2 ELSE 1) - (IF Head(c.todo).do = "rlock" THEN 1 ELSE 0)

Assigning(c) == c # None /\ Head(c.todo).do = "assign"

Formed == \A t \in Threads : Sane(call[t])

Locked ==
    /\ \A n \in Nodes, t \in Threads : nodeLock[n] = t <=> n \in Held(call[t])
    /\ \A t \in Threads : idLock = t <=> Assigning(call[t])
    /\ \A t \in Threads : reads[t] = Depth(call[t])

Finite == \A n \in Nodes : IsFiniteSet(data[n])

LInv == TypeOK /\ Finite /\ Formed /\ Locked

-----------------------------------------------------------------------------
(* Sequences of steps.                                                     *)

LEMMA LenPos ==
    ASSUME NEW S, NEW s \in Seq(S)
    PROVE  s # <<>> <=> Len(s) > 0
<1>1. ASSUME s # <<>> PROVE Len(s) > 0
  <2> DEFINE l == Len(s)
  <2>1. l \in Nat \ {0}
    BY <1>1, EmptySeq
  <2> HIDE DEF l
  <2>2. l > 0
    BY <2>1
  <2> QED
    BY <2>2 DEF l
<1>2. ASSUME s = <<>> PROVE ~(Len(s) > 0)
  BY <1>2, EmptySeq
<1> QED
  BY <1>1, <1>2

LEMMA ActTypes ==
    ASSUME NEW what \in StepNames, NEW n \in 0 .. N, NEW m \in 0 .. N, NEW k \in Nat,
           NEW left \in SUBSET (Nodes \X {"ask", "delete", "refresh"})
    PROVE  LET s == Act(what, n, m, k, left) IN
           s \in Steps /\ s.do = what /\ s.n = n /\ s.m = m /\ s.k = k /\ s.left = left
<1> DEFINE jobs == Nodes \X {"ask", "delete", "refresh"}
<1>1. Steps = [do : StepNames, n : 0 .. N, m : 0 .. N, k : Nat, left : SUBSET jobs]
  BY DEF Steps
<1> HIDE DEF jobs
<1>2. left \in SUBSET jobs
  BY DEF jobs
<1> QED
  BY <1>1, <1>2 DEF Act

LEMMA StepTypes ==
    ASSUME NEW what \in StepNames
    PROVE  /\ Step(what) \in Steps /\ Step(what).do = what /\ Step(what).n = 0 /\ Step(what).m = 0
           /\ \A n \in 0 .. N : /\ At(what, n) \in Steps /\ At(what, n).do = what
                                 /\ At(what, n).n = n /\ At(what, n).m = 0
           /\ \A job \in {"ask", "delete"} :
                 /\ OnAll(what, job) \in Steps /\ OnAll(what, job).do = what
                 /\ OnAll(what, job).left = Nodes \X {job}
<1> DEFINE jobs == Nodes \X {"ask", "delete", "refresh"}
<1>1. 0 \in 0 .. N /\ 0 \in Nat
  BY InternalAssumption
<1>2. {} \in SUBSET jobs /\ \A job \in {"ask", "delete"} : Nodes \X {job} \in SUBSET jobs
  OBVIOUS
<1>3. \A n \in 0 .. N, left \in SUBSET jobs : LET s == Act(what, n, 0, 0, left) IN
        s \in Steps /\ s.do = what /\ s.n = n /\ s.m = 0 /\ s.left = left
  BY <1>1, ActTypes
<1> HIDE DEF jobs
<1> QED
  BY <1>1, <1>2, <1>3 DEF Step, At, OnAll

LEMMA TailWell ==
    ASSUME NEW op, NEW todo, WellFormed(op, todo), Len(todo) > 1
    PROVE  /\ WellFormed(op, Tail(todo))
           /\ Follows(Head(todo), Head(Tail(todo)))
           /\ Head(todo).do # "runlock" => (Nested(Tail(todo)) <=> Nested(todo))
<1> DEFINE T == Tail(todo)
<1>1. todo \in Seq(Steps) /\ todo # <<>> /\ Len(todo) \in Nat /\ Len(todo) > 1
  <2>1. todo \in Seq(Steps) /\ todo # <<>>
    BY DEF WellFormed
  <2>2. Len(todo) \in Nat \ {0}
    BY <2>1, EmptySeq
  <2> QED
    BY <2>1, <2>2
<1>2. T \in Seq(Steps) /\ Len(T) = Len(todo) - 1 /\ T # <<>>
  <2>1. T \in Seq(Steps) /\ Len(T) = Len(todo) - 1
    BY <1>1, HeadTailProperties
  <2>2. Len(T) > 0
    BY <1>1, <2>1
  <2> HIDE DEF T
  <2> QED
    BY <2>1, <2>2, EmptySeq
<1>3. \A i \in 1 .. Len(T) : T[i] = todo[i + 1]
  BY <1>1, HeadTailProperties
<1>4. Head(todo) = todo[1] /\ Head(T) = todo[2]
  BY <1>1, <1>2, <1>3
<1> HIDE DEF T
<1>5. Head(todo).do # "runlock" => (Nested(T) <=> Nested(todo))
  BY <1>1, <1>2, <1>3, <1>4 DEF Nested
<1>6. Nested(T) => Nested(todo)
  BY <1>1, <1>2, <1>3 DEF Nested
<1>7. \A i \in 1 .. Len(T) : i + 1 \in 1 .. Len(todo)
  BY <1>1, <1>2
<1>8. \A i \in 1 .. Len(T) : T[i].do \in Kinds(op) /\ Proper(T[i])
  BY <1>3, <1>7 DEF WellFormed
<1>9. \A i \in 1 .. Len(T) - 1 : Follows(T[i], T[i + 1])
  <2> SUFFICES ASSUME NEW i \in 1 .. Len(T) - 1 PROVE Follows(T[i], T[i + 1])
    OBVIOUS
  <2>1. i + 1 \in 1 .. Len(todo) - 1 /\ T[i] = todo[i + 1] /\ T[i + 1] = todo[(i + 1) + 1]
    BY <1>1, <1>2, <1>3
  <2> QED
    BY <2>1 DEF WellFormed
<1>10. T[Len(T)].do = Final(op)
  BY <1>1, <1>2, <1>3 DEF WellFormed
<1>11. \A i \in 1 .. Len(T) - 2 : T[i].do # "runlock"
  <2> SUFFICES ASSUME NEW i \in 1 .. Len(T) - 2 PROVE T[i].do # "runlock"
    OBVIOUS
  <2>1. i + 1 \in 1 .. Len(todo) - 2 /\ T[i] = todo[i + 1]
    BY <1>1, <1>2, <1>3
  <2> QED
    BY <2>1 DEF WellFormed
<1>12. Nested(T) => \A i \in 1 .. Len(T) : T[i].do \in Kinds("DeleteRecords")
  BY <1>3, <1>6, <1>7 DEF WellFormed
<1>13. WellFormed(op, T)
  BY <1>2, <1>8, <1>9, <1>10, <1>11, <1>12 DEF WellFormed
<1>14. Follows(Head(todo), Head(T))
  BY <1>1, <1>4 DEF WellFormed
<1> QED
  BY <1>5, <1>13, <1>14 DEF T

LEMMA LastWell ==
    ASSUME NEW op, op # "CreateRecord", NEW todo, WellFormed(op, todo)
    PROVE  LET last == <<todo[Len(todo)]>> IN
           WellFormed(op, last) /\ ~Nested(last) /\ Head(last).do = "runlock"
<1> DEFINE x == todo[Len(todo)]
<1>1. Len(todo) \in 1 .. Len(todo) /\ x \in Steps
  BY DEF WellFormed
<1>2. x.do = "runlock" /\ x.do \in Kinds(op) /\ Proper(x)
  BY <1>1 DEF WellFormed, Final
<1> HIDE DEF x
<1>3. /\ <<x>> \in Seq(Steps) /\ Len(<<x>>) = 1 /\ <<x>>[1] = x /\ Head(<<x>>) = x
      /\ <<x>> # <<>>
  BY <1>1
<1>4. ~Nested(<<x>>)
  BY <1>3 DEF Nested
<1>5. WellFormed(op, <<x>>)
  BY <1>2, <1>3, <1>4 DEF WellFormed, Final
<1> QED
  BY <1>2, <1>3, <1>4, <1>5 DEF x

(* The first step of a call may change as long as the next one fits.       *)
LEMMA FirstWell ==
    ASSUME NEW op, NEW todo, WellFormed(op, todo), NEW h \in Steps,
           h.do = todo[1].do, Proper(h), Follows(todo[1], todo[2]) => Follows(h, todo[2])
    PROVE  LET new == [todo EXCEPT ![1] = h] IN
           /\ WellFormed(op, new) /\ Head(new) = h /\ Tail(new) = Tail(todo)
           /\ Nested(new) <=> Nested(todo)
<1> DEFINE new == [todo EXCEPT ![1] = h]
<1>1. /\ todo \in Seq(Steps) /\ Len(todo) \in Nat /\ Len(todo) >= 1 /\ Head(todo) = todo[1]
      /\ todo[1] \in Steps
  BY DEF WellFormed
<1>3. /\ new \in Seq(Steps) /\ Len(new) = Len(todo) /\ new[1] = h /\ Head(new) = h
      /\ \A i \in 2 .. Len(todo) : new[i] = todo[i]
      /\ new # <<>>
  BY <1>1
<1>9. Tail(new) = Tail(todo)
  BY <1>1, <1>3
<1> HIDE DEF new
<1>4. \A i \in 1 .. Len(todo) : new[i].do = todo[i].do /\ (Proper(todo[i]) => Proper(new[i]))
  <2> SUFFICES ASSUME NEW i \in 1 .. Len(todo)
               PROVE  new[i].do = todo[i].do /\ (Proper(todo[i]) => Proper(new[i]))
    OBVIOUS
  <2>1. CASE i = 1
    BY <1>3, <2>1
  <2>2. CASE i # 1
    <3>1. new[i] = todo[i]
      BY <1>1, <1>3, <2>2
    <3> QED
      BY <3>1
  <2> QED
    BY <2>1, <2>2
<1>5. \A i \in 1 .. Len(todo) - 1 : Follows(new[i], new[i + 1])
  <2> SUFFICES ASSUME NEW i \in 1 .. Len(todo) - 1 PROVE Follows(new[i], new[i + 1])
    OBVIOUS
  <2>1. Follows(todo[i], todo[i + 1]) /\ new[i + 1] = todo[i + 1]
    BY <1>1, <1>3 DEF WellFormed
  <2>2. CASE i = 1
    <3>1. todo[i + 1] = todo[2] /\ todo[i] = todo[1]
      BY <2>2
    <3> QED
      BY <1>3, <2>1, <2>2, <3>1
  <2>3. CASE i # 1
    BY <1>1, <1>3, <2>1, <2>3
  <2> QED
    BY <2>2, <2>3
<1>6. Nested(new) <=> Nested(todo)
  BY <1>1, <1>3, <1>4 DEF Nested
<1>7. WellFormed(op, new)
  <2>1. new[Len(new)].do = Final(op)
    BY <1>1, <1>3, <1>4 DEF WellFormed
  <2>2. \A i \in 1 .. Len(new) : new[i].do \in Kinds(op) /\ Proper(new[i])
    BY <1>3, <1>4 DEF WellFormed
  <2>3. \A i \in 1 .. Len(new) - 2 : new[i].do # "runlock"
    BY <1>1, <1>3, <1>4 DEF WellFormed
  <2>4. Nested(new) => \A i \in 1 .. Len(new) : new[i].do \in Kinds("DeleteRecords")
    BY <1>3, <1>4, <1>6 DEF WellFormed
  <2> QED
    BY <1>3, <1>5, <2>1, <2>2, <2>3, <2>4 DEF WellFormed
<1> QED
  BY <1>3, <1>6, <1>7, <1>9 DEF new

LEMMA LeftWell ==
    ASSUME NEW op, NEW todo, WellFormed(op, todo), Head(todo).do \in {"exists", "work"},
           NEW S \in SUBSET (Nodes \X {"ask", "delete", "refresh"})
    PROVE  LET new == [todo EXCEPT ![1].left = S] IN
           /\ WellFormed(op, new)
           /\ Head(new) = [Head(todo) EXCEPT !.left = S]
           /\ Nested(new) <=> Nested(todo)
<1> DEFINE h == [todo[1] EXCEPT !.left = S]
<1>1. Head(todo) = todo[1] /\ todo[1] \in Steps /\ 1 \in 1 .. Len(todo)
  BY DEF WellFormed
<1>2. h \in Steps /\ h.do = todo[1].do /\ h.n = todo[1].n /\ h.m = todo[1].m
  BY <1>1 DEF Steps
<1>3. [todo EXCEPT ![1].left = S] = [todo EXCEPT ![1] = h]
  OBVIOUS
<1> HIDE DEF h
<1>4. Proper(h) /\ (Follows(todo[1], todo[2]) => Follows(h, todo[2]))
  <2>1. Proper(todo[1])
    BY <1>1 DEF WellFormed
  <2>2. Proper(h)
    BY <1>1, <1>2, <2>1 DEF Proper, Moving
  <2> DEFINE g == todo[1]
             r == todo[2]
  <2>3. h.do = g.do /\ h.n = g.n /\ h.m = g.m /\ g.do # "copy"
    BY <1>1, <1>2
  <2> HIDE DEF g, r
  <2>4. Follows(g, r) => Follows(h, r)
    BY <2>3 DEF Follows
  <2> QED
    BY <2>2, <2>4 DEF g, r
<1>5. LET new == [todo EXCEPT ![1] = h] IN
        WellFormed(op, new) /\ Head(new) = h /\ (Nested(new) <=> Nested(todo))
  BY <1>2, <1>4, FirstWell
<1> QED
  BY <1>1, <1>3, <1>5 DEF h

(* The answer of an RPC that stores records.                               *)
LEMMA StampWell ==
    ASSUME NEW op, NEW todo, WellFormed(op, todo), NEW k \in Nat,
           Head(todo).do \in {"create", "store", "fallback"}
    PROVE  LET new == [todo EXCEPT ![1].k = k]
               h == Head(new) IN
           /\ WellFormed(op, new) /\ Tail(new) = Tail(todo)
           /\ h.do = Head(todo).do /\ h.n = Head(todo).n /\ h.m = Head(todo).m /\ h.k = k
           /\ Nested(new) <=> Nested(todo)
<1> DEFINE h == [todo[1] EXCEPT !.k = k]
<1>1. Head(todo) = todo[1] /\ todo[1] \in Steps /\ 1 \in 1 .. Len(todo)
  BY DEF WellFormed
<1>2. h \in Steps /\ h.do = todo[1].do /\ h.n = todo[1].n /\ h.m = todo[1].m /\ h.k = k
  BY <1>1 DEF Steps
<1>3. [todo EXCEPT ![1].k = k] = [todo EXCEPT ![1] = h]
  OBVIOUS
<1> HIDE DEF h
<1>4. Proper(h) /\ (Follows(todo[1], todo[2]) => Follows(h, todo[2]))
  <2>1. Proper(todo[1])
    BY <1>1 DEF WellFormed
  <2>2. Proper(h)
    BY <1>1, <1>2, <2>1 DEF Proper, Moving
  <2> DEFINE g == todo[1]
             r == todo[2]
  <2>3. h.do = g.do /\ h.n = g.n /\ h.m = g.m /\ g.do # "copy"
    BY <1>1, <1>2
  <2> HIDE DEF g, r
  <2>4. Follows(g, r) => Follows(h, r)
    BY <2>3 DEF Follows
  <2> QED
    BY <2>2, <2>4 DEF g, r
<1>5. LET new == [todo EXCEPT ![1] = h] IN
        /\ WellFormed(op, new) /\ Head(new) = h /\ Tail(new) = Tail(todo)
        /\ Nested(new) <=> Nested(todo)
  BY <1>2, <1>4, FirstWell
<1> QED
  BY <1>1, <1>2, <1>3, <1>5

(* ListRecords goes on to the next node.                                   *)
LEMMA ListWell ==
    ASSUME NEW op, NEW todo, WellFormed(op, todo), Head(todo).do = "list", NEW n \in Nodes
    PROVE  LET new == [todo EXCEPT ![1].n = n] IN
           /\ WellFormed(op, new) /\ Head(new).do = "list" /\ Head(new).n = n
           /\ Nested(new) <=> Nested(todo)
<1> DEFINE h == [todo[1] EXCEPT !.n = n]
<1>1. Head(todo) = todo[1] /\ todo[1] \in Steps /\ 1 \in 1 .. Len(todo)
  BY DEF WellFormed
<1>2. h \in Steps /\ h.do = todo[1].do /\ h.n = n /\ h.m = todo[1].m
  BY <1>1 DEF Steps, Nodes
<1>3. [todo EXCEPT ![1].n = n] = [todo EXCEPT ![1] = h]
  OBVIOUS
<1> HIDE DEF h
<1>4. Proper(h) /\ (Follows(todo[1], todo[2]) => Follows(h, todo[2]))
  <2>1. Proper(h)
    BY <1>1, <1>2 DEF Proper, Moving
  <2> DEFINE r == todo[2]
             g == todo[1]
  <2>2. g.do = "list" /\ h.do = "list"
    BY <1>1, <1>2
  <2> HIDE DEF r, g
  <2>3. Follows(g, r) => Follows(h, r)
    BY <2>2 DEF Follows
  <2> QED
    BY <2>1, <2>3 DEF r, g
<1>5. LET new == [todo EXCEPT ![1] = h] IN
        WellFormed(op, new) /\ Head(new) = h /\ (Nested(new) <=> Nested(todo))
  BY <1>2, <1>4, FirstWell
<1> QED
  BY <1>1, <1>2, <1>3, <1>5

(* Steps before the steps of a call.                                       *)
Allowed(op, a, b) ==
    \A i \in 1 .. Len(a) : /\ a[i].do \in Kinds(op) /\ Proper(a[i]) /\ a[i].do # "runlock"
                           /\ Nested(b) => a[i].do \in Kinds("DeleteRecords")
Chained(a) == \A i \in 1 .. Len(a) - 1 : Follows(a[i], a[i + 1])
Prefix(op, a, b) ==
    /\ a \in Seq(Steps) /\ Len(a) > 0 /\ Allowed(op, a, b) /\ Chained(a)
    /\ Follows(a[Len(a)], Head(b))

LEMMA PrefixWell ==
    ASSUME NEW op, NEW a, NEW b, WellFormed(op, b), Prefix(op, a, b)
    PROVE  /\ WellFormed(op, a \o b)
           /\ Nested(a \o b) <=> Nested(b)
           /\ Head(a \o b) = Head(a)
<1> DEFINE c == a \o b
           la == Len(a)
           lb == Len(b)
<1>0. a \in Seq(Steps) /\ a # <<>> /\ Follows(a[Len(a)], Head(b))
  <2>1. a \in Seq(Steps) /\ Len(a) > 0 /\ Follows(a[Len(a)], Head(b))
    BY DEF Prefix
  <2> QED
    BY <2>1, LenPos
<1>a. \A i \in 1 .. Len(a) : /\ a[i].do \in Kinds(op) /\ Proper(a[i]) /\ a[i].do # "runlock"
                             /\ Nested(b) => a[i].do \in Kinds("DeleteRecords")
  <2>1. Allowed(op, a, b)
    BY DEF Prefix
  <2> QED
    BY <2>1 DEF Allowed
<1>f. \A i \in 1 .. Len(a) - 1 : Follows(a[i], a[i + 1])
  BY DEF Prefix, Chained
<1>1. b \in Seq(Steps) /\ b # <<>>
  BY DEF WellFormed
<1>2. la \in Nat /\ la > 0 /\ lb \in Nat /\ lb > 0
  <2>1. la \in Nat \ {0} /\ lb \in Nat \ {0}
    BY <1>0, <1>a, <1>f, <1>1, EmptySeq
  <2> QED
    BY <2>1
<1>3. /\ c \in Seq(Steps) /\ Len(c) = la + lb
      /\ \A i \in 1 .. la + lb : c[i] = IF i <= la THEN a[i] ELSE b[i - la]
  BY <1>0, <1>a, <1>f, <1>1, <1>2, ConcatProperties
<1> HIDE DEF c
<1>4. c # <<>>
  <2>1. Len(c) > 0
    BY <1>2, <1>3
  <2> QED
    BY <1>3, <2>1, EmptySeq
<1>5. Head(c) = Head(a) /\ Head(a) = a[1] /\ Head(b) = b[1]
  <2>1. Head(c) = c[1] /\ c[1] = a[1]
    BY <1>2, <1>3
  <2> QED
    BY <1>0, <1>a, <1>f, <1>1, <1>2, <2>1
<1> HIDE DEF la, lb
<1>6. \A i \in 1 .. la : c[i] = a[i]
  BY <1>2, <1>3
<1>7. \A i \in 1 .. lb : c[la + i] = b[i]
  <2> SUFFICES ASSUME NEW i \in 1 .. lb PROVE c[la + i] = b[i]
    OBVIOUS
  <2>1. la + i \in 1 .. la + lb /\ ~(la + i <= la) /\ (la + i) - la = i
    BY <1>2
  <2> QED
    BY <1>3, <2>1
<1>8. \A j \in la + 1 .. la + lb : j - la \in 1 .. lb /\ c[j] = b[j - la]
  BY <1>2, <1>3
<1>9. Nested(c) <=> Nested(b)
  <2>1. CASE lb = 1
    <3>1. Len(c) - 1 = la /\ la \in 1 .. la
      BY <1>2, <1>3, <2>1
    <3>2. c[la].do # "runlock"
      BY <1>0, <1>a, <1>f, <1>6, <3>1 DEF la
    <3> QED
      BY <1>2, <1>3, <2>1, <3>1, <3>2 DEF Nested, lb
  <2>2. CASE lb > 1
    <3>1. Len(c) - 1 \in la + 1 .. la + lb /\ (Len(c) - 1) - la = lb - 1 /\ Len(c) > 1
      BY <1>2, <1>3, <2>2
    <3>2. c[Len(c) - 1] = b[lb - 1]
      BY <1>8, <3>1
    <3> QED
      BY <2>2, <3>1, <3>2 DEF Nested, lb
  <2> QED
    BY <1>2, <2>1, <2>2
<1>10. ASSUME NEW i \in 1 .. Len(c)
       PROVE  /\ c[i].do \in Kinds(op) /\ Proper(c[i])
              /\ i <= Len(c) - 2 => c[i].do # "runlock"
              /\ Nested(c) => c[i].do \in Kinds("DeleteRecords")
              /\ i <= Len(c) - 1 => Follows(c[i], c[i + 1])
  <2>1. CASE i <= la
    <3>1. i \in 1 .. la /\ c[i] = a[i]
      BY <1>2, <1>3, <1>6, <2>1
    <3>2. ASSUME i < la PROVE Follows(c[i], c[i + 1])
      <4>1. i \in 1 .. la - 1 /\ i + 1 \in 1 .. la
        BY <1>2, <3>1, <3>2
      <4> QED
        BY <1>0, <1>a, <1>f, <1>6, <3>1, <4>1 DEF la
    <3>3. ASSUME i = la PROVE Follows(c[i], c[i + 1])
      <4>1. 1 \in 1 .. lb
        BY <1>2
      <4>2. c[i + 1] = b[1]
        BY <1>7, <3>3, <4>1
      <4> QED
        BY <1>0, <1>a, <1>f, <1>5, <3>1, <3>3, <4>2 DEF la
    <3>4. i < la \/ i = la
      BY <1>2, <3>1
    <3> QED
      BY <1>0, <1>a, <1>f, <1>9, <3>1, <3>2, <3>3, <3>4 DEF la
  <2>2. CASE i > la
    <3> DEFINE j == i - la
    <3>1. j \in 1 .. lb /\ c[i] = b[j]
      BY <1>2, <1>3, <1>8, <2>2
    <3>2. b[j].do \in Kinds(op) /\ Proper(b[j])
      BY <3>1 DEF WellFormed, lb
    <3>3. ASSUME i <= Len(c) - 2 PROVE b[j].do # "runlock"
      <4>1. j \in 1 .. lb - 2
        BY <1>2, <1>3, <3>1, <3>3
      <4> QED
        BY <4>1 DEF WellFormed, lb
    <3>4. ASSUME i <= Len(c) - 1 PROVE Follows(c[i], c[i + 1])
      <4>1. j \in 1 .. lb - 1 /\ j + 1 \in 1 .. lb /\ i + 1 = la + (j + 1)
        BY <1>2, <1>3, <3>1, <3>4
      <4>2. c[i + 1] = b[j + 1]
        BY <1>7, <4>1
      <4> QED
        BY <3>1, <4>1, <4>2 DEF WellFormed, lb
    <3>5. Nested(c) => b[j].do \in Kinds("DeleteRecords")
      BY <1>9, <3>1 DEF WellFormed, lb
    <3> QED
      BY <3>1, <3>2, <3>3, <3>4, <3>5
  <2>3. i \in Int /\ la \in Int
    BY <1>2, <1>3
  <2> QED
    BY <2>1, <2>2, <2>3
<1>11. c[Len(c)].do = Final(op)
  <2>1. Len(c) \in la + 1 .. la + lb /\ Len(c) - la = lb
    BY <1>2, <1>3
  <2>2. c[Len(c)] = b[lb]
    BY <1>8, <2>1
  <2> QED
    BY <2>2 DEF WellFormed, lb
<1>12. WellFormed(op, c)
  <2>1. \A i \in 1 .. Len(c) - 1 : i \in 1 .. Len(c) /\ i <= Len(c) - 1
    BY <1>2, <1>3
  <2>2. \A i \in 1 .. Len(c) - 2 : i \in 1 .. Len(c) /\ i <= Len(c) - 2
    BY <1>2, <1>3
  <2> QED
    BY <1>3, <1>4, <1>10, <1>11, <2>1, <2>2 DEF WellFormed
<1> QED
  BY <1>5, <1>9, <1>12 DEF c

(* The steps of the transfers of a plan.                                   *)
Number(i) == (i + 3) \div 4
Part(i) == ((i - 1) % 4) + 1

LEMMA FourSteps ==
    ASSUME NEW S, NEW a \in S, NEW b \in S, NEW c \in S, NEW d \in S
    PROVE  LET q == <<a, b, c, d>> IN
           q \in Seq(S) /\ Len(q) = 4 /\ q[1] = a /\ q[2] = b /\ q[3] = c /\ q[4] = d
OBVIOUS

LEMMA TransferSteps ==
    ASSUME NEW p \in Moves(N), p.from # p.to
    PROVE  /\ Transfer(p) \in Seq(Steps) /\ Len(Transfer(p)) = 4
           /\ \A j \in 1 .. 4 : /\ Moving(Transfer(p)[j]) /\ Proper(Transfer(p)[j])
                                /\ Transfer(p)[j].do \in {"lock", "lock second", "copy", "remove"}
           /\ \A j \in 1 .. 3 : Follows(Transfer(p)[j], Transfer(p)[j + 1])
           /\ Transfer(p)[1].do = "lock" /\ Transfer(p)[4].do = "remove"
<1>1. p.from \in Nodes /\ p.to \in Nodes /\ p.n \in Nat /\ N \in Nat
  BY InternalAssumption DEF Moves, Nodes
<1>2. p.to # 0 /\ p.from # 0 /\ p.from \in 0 .. N /\ p.to \in 0 .. N
  BY <1>1 DEF Nodes
<1> DEFINE a == Act("lock", p.from, p.to, p.n, {})
           b == Act("lock second", p.from, p.to, p.n, {})
           c == Act("copy", p.from, p.to, p.n, {})
           d == Act("remove", p.from, p.to, p.n, {})
<1>3. \A x \in {a, b, c, d} : x \in Steps /\ x.n = p.from /\ x.m = p.to /\ x.k = p.n
  <2>1. {"lock", "lock second", "copy", "remove"} \subseteq StepNames
    BY DEF StepNames
  <2>2. ASSUME NEW what \in StepNames
        PROVE  LET x == Act(what, p.from, p.to, p.n, {})
               IN  x \in Steps /\ x.n = p.from /\ x.m = p.to /\ x.k = p.n
    <3>1. {} \in SUBSET (Nodes \X {"ask", "delete", "refresh"})
      OBVIOUS
    <3> QED
      BY <1>1, <1>2, <3>1, ActTypes
  <2>3. /\ "lock" \in StepNames /\ "lock second" \in StepNames
        /\ "copy" \in StepNames /\ "remove" \in StepNames
    BY <2>1
  <2>4. a \in Steps /\ a.n = p.from /\ a.m = p.to /\ a.k = p.n
    BY <2>2, <2>3, Zenon
  <2>5. b \in Steps /\ b.n = p.from /\ b.m = p.to /\ b.k = p.n
    BY <2>2, <2>3, Zenon
  <2>6. c \in Steps /\ c.n = p.from /\ c.m = p.to /\ c.k = p.n
    BY <2>2, <2>3, Zenon
  <2>7. d \in Steps /\ d.n = p.from /\ d.m = p.to /\ d.k = p.n
    BY <2>2, <2>3, Zenon
  <2> HIDE DEF a, b, c, d
  <2> QED
    BY <2>4, <2>5, <2>6, <2>7
<1>4. a.do = "lock" /\ b.do = "lock second" /\ c.do = "copy" /\ d.do = "remove"
  BY DEF Act
<1>5. Transfer(p) = <<a, b, c, d>>
  BY DEF Transfer
<1> HIDE DEF a, b, c, d
<1>6. /\ Transfer(p) \in Seq(Steps) /\ Len(Transfer(p)) = 4
      /\ Transfer(p)[1] = a /\ Transfer(p)[2] = b /\ Transfer(p)[3] = c /\ Transfer(p)[4] = d
  BY <1>3, <1>5, FourSteps
<1>7. \A x \in {a, b, c, d} : /\ Moving(x) /\ Proper(x)
                              /\ x.do \in {"lock", "lock second", "copy", "remove"}
  BY <1>1, <1>2, <1>3, <1>4 DEF Moving, Proper
<1>8. Follows(a, b) /\ Follows(b, c) /\ Follows(c, d)
  BY <1>2, <1>3, <1>4 DEF Follows
<1>9. \A j \in 1 .. 4 : Transfer(p)[j] \in {a, b, c, d}
  BY <1>6
<1>10. ASSUME NEW j \in 1 .. 3 PROVE Follows(Transfer(p)[j], Transfer(p)[j + 1])
  <2>1. CASE j = 1
    BY <1>6, <1>8, <2>1
  <2>2. CASE j = 2
    BY <1>6, <1>8, <2>2
  <2>3. CASE j = 3
    BY <1>6, <1>8, <2>3
  <2> QED
    BY <2>1, <2>2, <2>3
<1> QED
  BY <1>4, <1>6, <1>7, <1>9, <1>10

LEMMA PlanStepsAre ==
    ASSUME NEW plan \in Seq(Moves(N)),
           \A k \in 1 .. Len(plan) : plan[k].from # plan[k].to
    PROVE  LET a == PlanSteps(plan) IN
           /\ a \in Seq(Steps) /\ Len(a) = 4 * Len(plan)
           /\ \A i \in 1 .. Len(a) : /\ Moving(a[i]) /\ Proper(a[i])
                                     /\ a[i].do \in {"lock", "lock second", "copy", "remove"}
           /\ \A i \in 1 .. Len(a) - 1 : Follows(a[i], a[i + 1])
           /\ a # <<>> => a[1].do = "lock" /\ a[Len(a)].do = "remove"
<1> DEFINE L == Len(plan)
           a == PlanSteps(plan)
<1>1. L \in Nat /\ 4 * L \in Nat
  OBVIOUS
<1>2. \A i \in 1 .. 4 * L : Number(i) \in 1 .. L /\ Part(i) \in 1 .. 4 /\ i = 4 * Number(i) + Part(i) - 4
  <2> SUFFICES ASSUME NEW i \in 1 .. 4 * L
               PROVE  Number(i) \in 1 .. L /\ Part(i) \in 1 .. 4 /\ i = 4 * Number(i) + Part(i) - 4
    OBVIOUS
  <2>1. L \in Int /\ i \in Int /\ i >= 1 /\ i <= 4 * L
    BY <1>1
  <2> QED
    BY <2>1 DEF Number, Part
<1>3. \A i \in 1 .. 4 * L : a[i] = Transfer(plan[Number(i)])[Part(i)]
  BY DEF PlanSteps, Number, Part
<1> DEFINE Legal(k) == plan[k] \in Moves(N) /\ plan[k].from # plan[k].to
<1>9. \A k \in 1 .. L : Legal(k)
  OBVIOUS
<1> HIDE DEF L
<1>4. a \in [1 .. 4 * L -> Steps] /\ Len(a) = 4 * L /\ a \in Seq(Steps)
  <2>1. ASSUME NEW i \in 1 .. 4 * L PROVE Transfer(plan[Number(i)])[Part(i)] \in Steps
    <3>1. plan[Number(i)] \in Moves(N) /\ plan[Number(i)].from # plan[Number(i)].to
      BY <1>2, <1>9
    <3>2. Transfer(plan[Number(i)]) \in Seq(Steps) /\ Len(Transfer(plan[Number(i)])) = 4
      BY <3>1, TransferSteps
    <3> QED
      BY <1>2, <3>2
  <2>2. a = [i \in 1 .. 4 * L |-> Transfer(plan[Number(i)])[Part(i)]]
    BY DEF PlanSteps, Number, Part, L
  <2> HIDE DEF a
  <2> QED
    BY <1>1, <2>1, <2>2
<1> HIDE DEF a
<1>5. ASSUME NEW i \in 1 .. Len(a)
      PROVE  /\ Moving(a[i]) /\ Proper(a[i])
             /\ a[i].do \in {"lock", "lock second", "copy", "remove"}
  <2>1. plan[Number(i)] \in Moves(N) /\ plan[Number(i)].from # plan[Number(i)].to
    BY <1>2, <1>4, <1>9
  <2> DEFINE T == Transfer(plan[Number(i)])
  <2>2. \A j \in 1 .. 4 : /\ Moving(T[j]) /\ Proper(T[j])
                           /\ T[j].do \in {"lock", "lock second", "copy", "remove"}
    BY <2>1, TransferSteps
  <2>3. a[i] = T[Part(i)] /\ Part(i) \in 1 .. 4
    BY <1>2, <1>3, <1>4
  <2> HIDE DEF T
  <2> QED
    BY <2>2, <2>3
<1>6. ASSUME NEW i \in 1 .. Len(a) - 1 PROVE Follows(a[i], a[i + 1])
  <2>1. i \in 1 .. 4 * L /\ i + 1 \in 1 .. 4 * L /\ i \in Int
    BY <1>1, <1>4
  <2>2. plan[Number(i)] \in Moves(N) /\ plan[Number(i)].from # plan[Number(i)].to
    BY <1>2, <1>9, <2>1
  <2>9. /\ Number(i) \in Int /\ Part(i) \in 1 .. 4 /\ i = 4 * Number(i) + Part(i) - 4
        /\ Number(i + 1) \in Int /\ Part(i + 1) \in 1 .. 4
        /\ i + 1 = 4 * Number(i + 1) + Part(i + 1) - 4
    BY <1>2, <2>1
  <2>3. CASE Part(i) \in 1 .. 3
    <3>1. Number(i + 1) = Number(i) /\ Part(i + 1) = Part(i) + 1
      <4> DEFINE x == Number(i)
                 y == Number(i + 1)
                 u == Part(i)
                 v == Part(i + 1)
      <4>1. x \in Int /\ y \in Int /\ u \in 1 .. 3 /\ v \in 1 .. 4 /\ i \in Int
        BY <2>1, <2>3, <2>9
      <4>2. i = 4 * x + u - 4 /\ i + 1 = 4 * y + v - 4
        BY <2>9
      <4> HIDE DEF x, y, u, v
      <4>3. x = y /\ v = u + 1
        BY <4>1, <4>2
      <4> QED
        BY <4>3 DEF x, y, u, v
    <3> DEFINE T == Transfer(plan[Number(i)])
    <3>2. \A j \in 1 .. 3 : Follows(T[j], T[j + 1])
      BY <2>2, TransferSteps
    <3>3. a[i] = T[Part(i)] /\ a[i + 1] = T[Part(i) + 1]
      BY <1>3, <2>1, <3>1
    <3> HIDE DEF T
    <3> QED
      BY <2>3, <3>2, <3>3
  <2>4. CASE Part(i) = 4
    <3>1. Part(i + 1) = 1
      <4> DEFINE x == Number(i)
                 y == Number(i + 1)
                 v == Part(i + 1)
      <4>1. x \in Int /\ y \in Int /\ v \in 1 .. 4 /\ i \in Int
        BY <2>1, <2>9
      <4>2. i = 4 * x /\ i + 1 = 4 * y + v - 4
        BY <2>4, <2>9
      <4> HIDE DEF x, y, v
      <4>3. v = 1
        BY <4>1, <4>2
      <4> QED
        BY <4>3 DEF v
    <3>2. plan[Number(i + 1)] \in Moves(N) /\ plan[Number(i + 1)].from # plan[Number(i + 1)].to
      BY <1>2, <1>9, <2>1
    <3>3. a[i].do = "remove" /\ a[i + 1].do = "lock" /\ Moving(a[i + 1])
      <4>1. a[i] = Transfer(plan[Number(i)])[4] /\ a[i + 1] = Transfer(plan[Number(i + 1)])[1]
        BY <1>3, <2>1, <2>4, <3>1
      <4> QED
        <5>1. Transfer(plan[Number(i)])[4].do = "remove"
          BY <2>2, TransferSteps
        <5>2. Transfer(plan[Number(i + 1)])[1].do = "lock"
          BY <3>2, TransferSteps
        <5>3. 1 \in 1 .. 4
          OBVIOUS
        <5>4. Moving(Transfer(plan[Number(i + 1)])[1])
          BY <3>2, <5>3, TransferSteps
        <5> QED
          BY <4>1, <5>1, <5>2, <5>4
    <3> QED
      BY <3>3 DEF Follows, Moving
  <2>5. Part(i) \in 1 .. 3 \/ Part(i) = 4
    BY <2>9
  <2> QED
    BY <2>3, <2>4, <2>5
<1>7. ASSUME a # <<>> PROVE a[1].do = "lock" /\ a[Len(a)].do = "remove"
  <2>1. Len(a) \in Nat \ {0}
    BY <1>4, <1>7, EmptySeq
  <2>2. 1 \in 1 .. 4 * L /\ 4 * L \in 1 .. 4 * L
    BY <1>1, <1>4, <2>1
  <2>3. Part(1) = 1 /\ Part(4 * L) = 4
    BY <1>1, <1>2, <2>2 DEF Part
  <2>4. /\ plan[Number(1)] \in Moves(N) /\ plan[Number(1)].from # plan[Number(1)].to
        /\ plan[Number(4 * L)] \in Moves(N) /\ plan[Number(4 * L)].from # plan[Number(4 * L)].to
    BY <1>2, <1>9, <2>2
  <2>5. a[1] = Transfer(plan[Number(1)])[1] /\ a[Len(a)] = Transfer(plan[Number(4 * L)])[4]
    BY <1>3, <1>4, <2>2, <2>3
  <2> QED
    BY <2>4, <2>5, TransferSteps
<1> QED
  BY <1>4, <1>5, <1>6, <1>7 DEF a, L

(* The steps a call begins with.                                           *)
LEMMA SixWell ==
    ASSUME NEW op, NEW a \in Steps, NEW b \in Steps, NEW c \in Steps,
           NEW d \in Steps, NEW e \in Steps, NEW f \in Steps,
           \A x \in {a, b, c, d, e, f} : x.do \in Kinds(op) /\ Proper(x),
           \A x \in {a, b, c, d, e} : x.do # "runlock",
           Follows(a, b), Follows(b, c), Follows(c, d), Follows(d, e), Follows(e, f),
           f.do = Final(op)
    PROVE  LET q == <<a, b, c, d, e, f>> IN WellFormed(op, q) /\ ~Nested(q) /\ Head(q) = a
<1> DEFINE q == <<a, b, c, d, e, f>>
<1>1. /\ q \in Seq(Steps) /\ Len(q) = 6 /\ q # <<>> /\ Head(q) = a
      /\ q[1] = a /\ q[2] = b /\ q[3] = c /\ q[4] = d /\ q[5] = e /\ q[6] = f
  OBVIOUS
<1> HIDE DEF q
<1>2. \A i \in 1 .. 6 : q[i] \in {a, b, c, d, e, f}
  BY <1>1
<1>3. \A i \in 1 .. 5 : q[i] \in {a, b, c, d, e}
  BY <1>1
<1>4. ASSUME NEW i \in 1 .. 5 PROVE Follows(q[i], q[i + 1])
  <2>1. CASE i = 1
    BY <1>1, <2>1
  <2>2. CASE i = 2
    BY <1>1, <2>2
  <2>3. CASE i = 3
    BY <1>1, <2>3
  <2>4. CASE i = 4
    BY <1>1, <2>4
  <2>5. CASE i = 5
    BY <1>1, <2>5
  <2> QED
    BY <2>1, <2>2, <2>3, <2>4, <2>5
<1>5. ~Nested(q)
  <2>1. 5 \in 1 .. 5 /\ Len(q) - 1 = 5
    BY <1>1
  <2> QED
    BY <1>3, <2>1 DEF Nested
<1>6. WellFormed(op, q)
  <2>1. \A i \in 1 .. Len(q) : q[i].do \in Kinds(op) /\ Proper(q[i])
    BY <1>1, <1>2
  <2>2. \A i \in 1 .. Len(q) - 2 : q[i].do # "runlock"
    BY <1>1, <1>3
  <2>3. \A i \in 1 .. Len(q) - 1 : Follows(q[i], q[i + 1])
    BY <1>1, <1>4
  <2> QED
    BY <1>1, <1>5, <2>1, <2>2, <2>3 DEF WellFormed
<1> QED
  BY <1>1, <1>5, <1>6 DEF q

LEMMA NamesKnown ==
    /\ "rlock" \in StepNames /\ "runlock" \in StepNames /\ "lock" \in StepNames
    /\ "lock id" \in StepNames /\ "choose" \in StepNames /\ "assign" \in StepNames
    /\ "pick" \in StepNames /\ "exists" \in StepNames /\ "create" \in StepNames
    /\ "store" \in StepNames /\ "settle" \in StepNames /\ "fallback" \in StepNames
    /\ "total" \in StepNames /\ "work" \in StepNames /\ "compare" \in StepNames
    /\ "balance" \in StepNames /\ "list" \in StepNames /\ "query" \in StepNames
BY DEF StepNames

LEMMA StepsKnown ==
    /\ Step("rlock") \in Steps /\ Step("runlock") \in Steps /\ At("lock", 0) \in Steps
    /\ Step("lock id") \in Steps /\ Step("choose") \in Steps /\ Step("assign") \in Steps
    /\ Step("pick") \in Steps /\ OnAll("exists", "ask") \in Steps /\ Step("create") \in Steps
    /\ Step("settle") \in Steps /\ Step("fallback") \in Steps
    /\ Step("total") \in Steps /\ OnAll("work", "delete") \in Steps
    /\ Step("compare") \in Steps /\ Step("balance") \in Steps
    /\ Step("query") \in Steps /\ At("list", 1) \in Steps
    /\ \A n \in Nodes : At("lock", n) \in Steps /\ At("store", n) \in Steps
<1>1. 0 \in 0 .. N /\ Nodes \subseteq 0 .. N /\ 1 \in 0 .. N
  BY InternalAssumption DEF Nodes
<1>2. /\ \A what \in StepNames : Step(what) \in Steps
      /\ \A what \in StepNames : \A n \in 0 .. N : At(what, n) \in Steps
      /\ \A what \in StepNames : OnAll(what, "ask") \in Steps
      /\ \A what \in StepNames : OnAll(what, "delete") \in Steps
  BY StepTypes
<1>3. \A n \in Nodes : At("lock", n) \in Steps /\ At("store", n) \in Steps
  BY <1>1, <1>2, NamesKnown, Zenon
<1> QED
  BY <1>1, <1>2, <1>3, NamesKnown, Zenon

LEMMA CreateWithIdWell ==
    /\ WellFormed("CreateRecordWithId", CreateWithIdSteps)
    /\ ~Nested(CreateWithIdSteps) /\ Head(CreateWithIdSteps) = Step("rlock")
<1> DEFINE a == Step("rlock")
           b == Step("pick")
           c == OnAll("exists", "ask")
           d == At("lock", 0)
           e == Step("create")
           f == Step("runlock")
           op == "CreateRecordWithId"
<1>1. a \in Steps /\ b \in Steps /\ c \in Steps /\ d \in Steps /\ e \in Steps /\ f \in Steps
  BY StepsKnown
<1>2. /\ a.do = "rlock" /\ b.do = "pick" /\ c.do = "exists" /\ d.do = "lock" /\ d.m = 0
      /\ d.n = 0 /\ e.do = "create" /\ e.k = 0 /\ e.n = 0 /\ f.do = "runlock"
  BY DEF Step, At, OnAll, Act
<1>3. Follows(a, b) /\ Follows(e, f)
  <2> HIDE DEF a, b, c, d, e, f
  <2> QED
    BY <1>2 DEF Follows
<1>4. Follows(b, c) /\ Follows(c, d) /\ Follows(d, e)
  <2>1. c = OnAll("exists", "ask") /\ d = At("lock", 0)
    OBVIOUS
  <2> HIDE DEF a, b, c, d, e, f
  <2> QED
    BY <1>2, <2>1 DEF Follows
<1> HIDE DEF a, b, c, d, e, f
<1>5. \A x \in {a, b, c, d, e, f} : x.do \in Kinds(op) /\ Proper(x)
  BY <1>2 DEF Kinds, Proper, Moving
<1>6. (\A x \in {a, b, c, d, e} : x.do # "runlock") /\ f.do = Final(op)
  BY <1>2 DEF Final
<1>7. WellFormed(op, <<a, b, c, d, e, f>>) /\ ~Nested(<<a, b, c, d, e, f>>)
      /\ Head(<<a, b, c, d, e, f>>) = a
  <2> HIDE DEF op
  <2> QED
    BY <1>1, <1>3, <1>4, <1>5, <1>6, SixWell
<1> QED
  BY <1>7 DEF CreateWithIdSteps, a, b, c, d, e, f

LEMMA DeleteManyWell ==
    /\ WellFormed("DeleteRecords", DeleteManySteps)
    /\ ~Nested(DeleteManySteps) /\ Head(DeleteManySteps) = Step("rlock")
<1> DEFINE a == Step("rlock")
           b == Step("total")
           c == OnAll("work", "delete")
           d == Step("balance")
           e == Step("compare")
           f == Step("runlock")
           op == "DeleteRecords"
<1>1. a \in Steps /\ b \in Steps /\ c \in Steps /\ d \in Steps /\ e \in Steps /\ f \in Steps
  BY StepsKnown
<1>2. /\ a.do = "rlock" /\ b.do = "total" /\ c.do = "work" /\ d.do = "balance"
      /\ e.do = "compare" /\ f.do = "runlock"
  BY DEF Step, OnAll, Act
<1>3. Follows(a, b) /\ Follows(c, d) /\ Follows(d, e) /\ Follows(e, f)
  <2> HIDE DEF a, b, c, d, e, f
  <2> QED
    BY <1>2 DEF Follows
<1>4. Follows(b, c)
  <2>1. c = OnAll("work", "delete")
    OBVIOUS
  <2> HIDE DEF a, b, c, d, e, f
  <2> QED
    BY <1>2, <2>1 DEF Follows
<1> HIDE DEF a, b, c, d, e, f
<1>5. \A x \in {a, b, c, d, e, f} : x.do \in Kinds(op) /\ Proper(x)
  BY <1>2 DEF Kinds, Proper, Moving
<1>6. (\A x \in {a, b, c, d, e} : x.do # "runlock") /\ f.do = Final(op)
  BY <1>2 DEF Final
<1>7. WellFormed(op, <<a, b, c, d, e, f>>) /\ ~Nested(<<a, b, c, d, e, f>>)
      /\ Head(<<a, b, c, d, e, f>>) = a
  <2> HIDE DEF op
  <2> QED
    BY <1>1, <1>3, <1>4, <1>5, <1>6, SixWell
<1> QED
  BY <1>7 DEF DeleteManySteps, a, b, c, d, e, f

LEMMA FourWell ==
    ASSUME NEW op, NEW a \in Steps, NEW b \in Steps, NEW c \in Steps, NEW d \in Steps,
           \A x \in {a, b, c, d} : x.do \in Kinds(op) /\ Proper(x),
           \A x \in {a, b, c} : x.do # "runlock",
           Follows(a, b), Follows(b, c), Follows(c, d), d.do = Final(op)
    PROVE  LET q == <<a, b, c, d>> IN WellFormed(op, q) /\ ~Nested(q) /\ Head(q) = a
<1> DEFINE q == <<a, b, c, d>>
<1>1. q \in Seq(Steps) /\ Len(q) = 4 /\ q[1] = a /\ q[2] = b /\ q[3] = c /\ q[4] = d
  BY FourSteps
<1>2. q # <<>> /\ Head(q) = a
  OBVIOUS
<1> HIDE DEF q
<1>3. \A i \in 1 .. 4 : q[i] \in {a, b, c, d} /\ (i <= 3 => q[i] \in {a, b, c})
  BY <1>1
<1>4. ASSUME NEW i \in 1 .. 3 PROVE Follows(q[i], q[i + 1])
  <2>1. CASE i = 1
    BY <1>1, <2>1
  <2>2. CASE i = 2
    BY <1>1, <2>2
  <2>3. CASE i = 3
    BY <1>1, <2>3
  <2> QED
    BY <2>1, <2>2, <2>3
<1>5. ~Nested(q)
  BY <1>1 DEF Nested
<1>6. \A i \in 1 .. Len(q) : q[i].do \in Kinds(op) /\ Proper(q[i])
  BY <1>1, <1>3
<1>7. \A i \in 1 .. Len(q) - 2 : q[i].do # "runlock"
  BY <1>1, <1>3
<1>8. \A i \in 1 .. Len(q) - 1 : Follows(q[i], q[i + 1])
  BY <1>1, <1>4
<1>9. WellFormed(op, q)
  BY <1>1, <1>2, <1>5, <1>6, <1>7, <1>8 DEF WellFormed
<1> QED
  BY <1>2, <1>5, <1>9 DEF q

LEMMA CreateRecordWell ==
    /\ WellFormed("CreateRecord", CreateRecordSteps)
    /\ ~Nested(CreateRecordSteps) /\ Head(CreateRecordSteps) = Step("choose")
<1> DEFINE a == Step("choose")
           b == At("lock", 0)
           c == Step("lock id")
           d == Step("assign")
           op == "CreateRecord"
<1>1. a \in Steps /\ b \in Steps /\ c \in Steps /\ d \in Steps
  BY StepsKnown
<1>2. /\ a.do = "choose" /\ b.do = "lock" /\ b.m = 0 /\ b.n = 0 /\ c.do = "lock id"
      /\ c.k = 0 /\ d.do = "assign" /\ b = At("lock", 0)
  BY DEF Step, At, Act
<1> HIDE DEF a, b, c, d
<1>3. Follows(a, b) /\ Follows(b, c) /\ Follows(c, d)
  BY <1>2 DEF Follows
<1>4. \A x \in {a, b, c, d} : x.do \in Kinds(op) /\ Proper(x) /\ x.do # "runlock"
  BY <1>2 DEF Kinds, Proper, Moving
<1>5. d.do = Final(op)
  BY <1>2 DEF Final
<1> HIDE DEF op
<1>6. LET q == <<a, b, c, d>> IN WellFormed(op, q) /\ ~Nested(q) /\ Head(q) = a
  BY <1>1, <1>3, <1>4, <1>5, FourWell
<1> QED
  BY <1>6 DEF op, a, b, c, d, CreateRecordSteps

LEMMA ListStepsWell ==
    /\ WellFormed("ListRecords", ListSteps)
    /\ ~Nested(ListSteps) /\ Head(ListSteps) = Step("rlock")
<1> DEFINE a == Step("rlock")
           b == At("list", 1)
           c == Step("query")
           d == Step("runlock")
           op == "ListRecords"
<1>1. a \in Steps /\ b \in Steps /\ c \in Steps /\ d \in Steps
  BY StepsKnown
<1>2. /\ a.do = "rlock" /\ b.do = "list" /\ b.n = 1 /\ c.do = "query" /\ d.do = "runlock"
      /\ 1 \in Nodes
  BY InternalAssumption DEF Step, At, Act, Nodes
<1> HIDE DEF a, b, c, d
<1>3. Follows(a, b) /\ Follows(b, c) /\ Follows(c, d)
  BY <1>2 DEF Follows
<1>4. /\ \A x \in {a, b, c, d} : x.do \in Kinds(op) /\ Proper(x)
      /\ \A x \in {a, b, c} : x.do # "runlock"
  BY <1>2 DEF Kinds, Proper, Moving
<1>5. d.do = Final(op)
  BY <1>2 DEF Final
<1> HIDE DEF op
<1>6. LET q == <<a, b, c, d>> IN WellFormed(op, q) /\ ~Nested(q) /\ Head(q) = a
  BY <1>1, <1>3, <1>4, <1>5, FourWell
<1> QED
  BY <1>6 DEF op, a, b, c, d, ListSteps

(* A call that is not at its end goes on.                                  *)
LEMMA NextWell ==
    ASSUME NEW op, NEW todo, WellFormed(op, todo), Head(todo).do \notin {"assign", "runlock"}
    PROVE  /\ Len(todo) > 1 /\ WellFormed(op, Tail(todo))
           /\ Follows(Head(todo), Head(Tail(todo)))
           /\ Nested(Tail(todo)) <=> Nested(todo)
<1>1. todo \in Seq(Steps) /\ todo # <<>> /\ Len(todo) \in Nat \ {0}
  BY EmptySeq DEF WellFormed
<1>2. Head(todo) = todo[1]
  BY <1>1
<1>3. ASSUME Len(todo) = 1 PROVE FALSE
  <2>1. todo[Len(todo)].do = Final(op)
    BY DEF WellFormed
  <2> QED
    BY <1>2, <1>3, <2>1 DEF Final
<1>4. Len(todo) > 1
  <2> DEFINE l == Len(todo)
  <2>1. l \in Nat \ {0} /\ l # 1
    BY <1>1, <1>3
  <2> HIDE DEF l
  <2>2. l > 1
    BY <2>1
  <2> QED
    BY <2>2 DEF l
<1> QED
  BY <1>4, TailWell

LEMMA SettleWell ==
    ASSUME NEW todo, WellFormed("CreateRecordsWithId", todo), Head(todo).do = "settle"
    PROVE  LET new == <<At("lock", 0), Step("fallback")>> \o Tail(todo) IN
           /\ WellFormed("CreateRecordsWithId", new) /\ ~Nested(new) /\ ~Nested(todo)
           /\ Head(new) = At("lock", 0)
<1> DEFINE a == At("lock", 0)
           b == Step("fallback")
           p == <<a, b>>
           op == "CreateRecordsWithId"
           rest == Tail(todo)
<1>1. a \in Steps /\ b \in Steps
  BY StepsKnown
<1>2. a.do = "lock" /\ a.m = 0 /\ a.n = 0 /\ b.do = "fallback" /\ b.k = 0 /\ b.n = 0
  BY DEF Step, At, Act
<1>3. p \in Seq(Steps) /\ Len(p) = 2 /\ p[1] = a /\ p[2] = b /\ p # <<>> /\ Head(p) = a
  <2> HIDE DEF a, b
  <2> QED
    BY <1>1
<1>4. WellFormed(op, rest) /\ (Nested(rest) <=> Nested(todo)) /\ Follows(Head(todo), Head(rest))
  <2> HIDE DEF op
  <2>1. WellFormed(op, todo) /\ Head(todo).do \notin {"assign", "runlock"}
    BY DEF op
  <2> QED
    BY <2>1, NextWell
<1>5. ~Nested(todo)
  <2>1. todo \in Seq(Steps) /\ Len(todo) \in Nat \ {0}
    BY EmptySeq DEF WellFormed
  <2>2. 1 \in 1 .. Len(todo) /\ todo[1].do = "settle"
    BY <2>1
  <2>3. "settle" \notin Kinds("DeleteRecords")
    BY DEF Kinds
  <2> QED
    BY <2>2, <2>3 DEF WellFormed
<1> HIDE DEF a, b, p, rest
<1>6. Follows(b, Head(rest)) /\ Follows(a, b)
  BY <1>2, <1>4 DEF Follows
<1>7. \A x \in {a, b} : x.do \in Kinds(op) /\ Proper(x) /\ x.do # "runlock"
  BY <1>2 DEF Kinds, Proper, Moving
<1>8. \A i \in 1 .. Len(p) : /\ p[i].do \in Kinds(op) /\ Proper(p[i]) /\ p[i].do # "runlock"
                             /\ Nested(rest) => p[i].do \in Kinds("DeleteRecords")
  <2>1. \A i \in 1 .. Len(p) : p[i] \in {a, b}
    BY <1>3
  <2> QED
    BY <1>4, <1>5, <1>7, <2>1
<1>9. \A i \in 1 .. Len(p) - 1 : Follows(p[i], p[i + 1])
  BY <1>3, <1>6
<1>10. Follows(p[Len(p)], Head(rest))
  BY <1>3, <1>6
<1> HIDE DEF op
<1>11. WellFormed(op, p \o rest) /\ (Nested(p \o rest) <=> Nested(rest)) /\ Head(p \o rest) = Head(p)
  <2>1. Prefix(op, p, rest)
    <3>1. p \in Seq(Steps) /\ Len(p) > 0
      BY <1>3
    <3>2. Allowed(op, p, rest)
      BY <1>8 DEF Allowed
    <3>3. Chained(p)
      BY <1>9 DEF Chained
    <3> QED
      BY <1>10, <3>1, <3>2, <3>3 DEF Prefix
  <2> QED
    BY <1>4, <2>1, PrefixWell
<1> QED
  BY <1>3, <1>4, <1>5, <1>11 DEF a, b, p, rest, op

LEMMA BalanceWell ==
    ASSUME NEW op, NEW todo, WellFormed(op, todo), Head(todo).do = "balance",
           NEW counts \in Seq(Int), Len(counts) = N
    PROVE  LET new == PlanSteps(BalancePlan(counts)) \o Tail(todo) IN
           /\ WellFormed(op, new) /\ (Nested(new) <=> Nested(todo))
           /\ Head(new).do \in {"compare", "runlock"} \/ (Head(new).do = "lock" /\ Head(new).m # 0)
<1> DEFINE plan == BalancePlan(counts)
           a == PlanSteps(plan)
           rest == Tail(todo)
<1>1. plan \in Seq(Moves(N)) /\ \A k \in 1 .. Len(plan) : plan[k].from # plan[k].to
  BY PlanIsSound
<1>2. WellFormed(op, rest) /\ (Nested(rest) <=> Nested(todo)) /\ Follows(Head(todo), Head(rest))
  BY NextWell
<1>3. /\ a \in Seq(Steps)
      /\ \A i \in 1 .. Len(a) : /\ Moving(a[i]) /\ Proper(a[i])
                                /\ a[i].do \in {"lock", "lock second", "copy", "remove"}
      /\ \A i \in 1 .. Len(a) - 1 : Follows(a[i], a[i + 1])
      /\ a # <<>> => a[1].do = "lock" /\ a[Len(a)].do = "remove"
  <2> HIDE DEF plan
  <2> QED
    BY <1>1, PlanStepsAre
<1> HIDE DEF plan, a, rest
<1>4. Head(rest).do \in {"compare", "runlock"} \/ (Head(rest).do = "lock" /\ Head(rest).m # 0)
  BY <1>2 DEF Follows
<1>5. CASE a = <<>>
  <2>1. rest \in Seq(Steps)
    BY <1>2 DEF WellFormed
  <2>2. a \o rest = rest
    BY <1>5, <2>1, ConcatEmptySeq
  <2> QED
    BY <1>2, <1>4, <2>2 DEF a, rest, plan
<1>6. CASE a # <<>>
  <2>1. Len(a) \in Nat \ {0}
    BY <1>3, <1>6, EmptySeq
  <2>2. "balance" \in Kinds(op)
    <3>1. todo \in Seq(Steps) /\ Len(todo) \in Nat \ {0}
      BY EmptySeq DEF WellFormed
    <3>2. 1 \in 1 .. Len(todo) /\ todo[1].do = "balance"
      BY <3>1
    <3> QED
      BY <3>2 DEF WellFormed
  <2>3. /\ {"lock", "lock second", "copy", "remove"} \subseteq Kinds(op)
        /\ {"lock", "lock second", "copy", "remove"} \subseteq Kinds("DeleteRecords")
    BY <2>2 DEF Kinds
  <2>4. \A i \in 1 .. Len(a) : /\ a[i].do \in Kinds(op) /\ Proper(a[i]) /\ a[i].do # "runlock"
                               /\ Nested(rest) => a[i].do \in Kinds("DeleteRecords")
    BY <1>3, <2>3
  <2>5. Follows(a[Len(a)], Head(rest))
    BY <1>3, <1>4, <1>6 DEF Follows
  <2>6. WellFormed(op, a \o rest) /\ (Nested(a \o rest) <=> Nested(rest)) /\ Head(a \o rest) = Head(a)
    <3>1. Prefix(op, a, rest)
      <4>1. a \in Seq(Steps) /\ Len(a) > 0
        BY <1>3, <1>6, LenPos
      <4>2. Allowed(op, a, rest)
        BY <2>4 DEF Allowed
      <4>3. Chained(a)
        BY <1>3 DEF Chained
      <4> QED
        BY <2>5, <4>1, <4>2, <4>3 DEF Prefix
    <3> QED
      BY <1>2, <3>1, PrefixWell
  <2>7. Head(a) = a[1] /\ 1 \in 1 .. Len(a)
    BY <2>1
  <2>8. Head(a).do = "lock" /\ Head(a).m # 0
    BY <1>3, <1>6, <2>7 DEF Moving
  <2> QED
    BY <1>2, <2>6, <2>8 DEF a, rest, plan
<1> QED
  BY <1>5, <1>6

(* DeleteRecords inside a call, before the call's own last step.           *)
LEMMA RollbackWell ==
    ASSUME NEW x \in Steps, x.do = "runlock", Proper(x)
    PROVE  LET new == DeleteManySteps \o <<x>> IN
           /\ WellFormed("CreateRecordsWithId", new) /\ Nested(new)
           /\ Head(new) = Step("rlock")
<1> DEFINE q == DeleteManySteps
           l == Len(q)
           new == q \o <<x>>
<1>1. /\ WellFormed("DeleteRecords", q) /\ ~Nested(q) /\ Head(q) = Step("rlock")
  BY DeleteManyWell
<1>2. q \in Seq(Steps) /\ l \in Nat \ {0} /\ Head(q) = q[1]
  BY <1>1, EmptySeq DEF WellFormed
<1>3. <<x>> \in Seq(Steps) /\ Len(<<x>>) = 1 /\ <<x>>[1] = x
  OBVIOUS
<1> HIDE DEF q
<1>4. /\ new \in Seq(Steps) /\ Len(new) = l + 1
      /\ \A i \in 1 .. l + 1 : new[i] = IF i <= l THEN q[i] ELSE <<x>>[i - l]
  BY <1>2, <1>3, ConcatProperties
<1> HIDE DEF new, l
<1>5. new[l + 1] = x /\ \A i \in 1 .. l : new[i] = q[i]
  <2>1. l + 1 \in 1 .. l + 1 /\ ~(l + 1 <= l) /\ (l + 1) - l = 1
    BY <1>2
  <2> QED
    BY <1>2, <1>3, <1>4, <2>1
<1>6. q[l].do = "runlock" /\ l \in 1 .. l
  BY <1>1, <1>2 DEF WellFormed, Final, l
<1>7. Nested(new) /\ new # <<>> /\ Head(new) = q[1]
  <2>1. Len(new) > 1 /\ Len(new) - 1 = l
    BY <1>2, <1>4
  <2>2. new # <<>>
    BY <2>1, EmptySeq
  <2> QED
    BY <1>2, <1>4, <1>5, <1>6, <2>1, <2>2 DEF Nested
<1>8. /\ Kinds("DeleteRecords") \subseteq Kinds("CreateRecordsWithId")
      /\ "runlock" \in Kinds("DeleteRecords")
  BY DEF Kinds
<1>9. \A i \in 1 .. l : q[i].do \in Kinds("DeleteRecords") /\ Proper(q[i])
  BY <1>1 DEF WellFormed, l
<1>10. ASSUME NEW i \in 1 .. l + 1
       PROVE  new[i].do \in Kinds("DeleteRecords") /\ Proper(new[i])
  <2>1. i \in 1 .. l \/ i = l + 1
    BY <1>2
  <2> QED
    BY <1>5, <1>8, <1>9, <2>1
<1>11. ASSUME NEW i \in 1 .. l PROVE Follows(new[i], new[i + 1])
  <2>1. CASE i = l
    <3>1. new[i] = q[l] /\ new[i + 1] = x
      BY <1>5, <2>1
    <3> QED
      BY <1>6, <3>1 DEF Follows
  <2>2. CASE i # l
    <3>1. i \in 1 .. l - 1 /\ i + 1 \in 1 .. l
      BY <1>2, <2>2
    <3>2. Follows(q[i], q[i + 1])
      BY <1>1, <3>1 DEF WellFormed, l
    <3> QED
      BY <1>5, <3>1, <3>2
  <2> QED
    BY <2>1, <2>2
<1>12. ASSUME NEW i \in 1 .. l - 1 PROVE new[i].do # "runlock"
  <2>1. i \in 1 .. l /\ (i \in 1 .. l - 2 \/ i = l - 1)
    BY <1>2
  <2>2. q[i].do # "runlock"
    <3>1. CASE i \in 1 .. l - 2
      BY <1>1, <3>1 DEF WellFormed, l
    <3>2. CASE i = l - 1
      <4>1. l > 1
        BY <1>2, <3>2
      <4> QED
        BY <1>1, <3>2, <4>1 DEF Nested, l
    <3> QED
      BY <2>1, <3>1, <3>2
  <2> QED
    BY <1>5, <2>1, <2>2
<1>13. Len(new) - 1 = l /\ Len(new) - 2 = l - 1
  BY <1>2, <1>4
<1>14. WellFormed("CreateRecordsWithId", new)
  <2>1. \A i \in 1 .. Len(new) : new[i].do \in Kinds("CreateRecordsWithId") /\ Proper(new[i])
    BY <1>4, <1>8, <1>10
  <2>2. new[Len(new)].do = Final("CreateRecordsWithId")
    BY <1>4, <1>5 DEF Final
  <2> QED
    BY <1>4, <1>7, <1>10, <1>11, <1>12, <1>13, <2>1, <2>2 DEF WellFormed
<1> QED
  BY <1>1, <1>2, <1>7, <1>14 DEF new, q

(* The loop over the nodes.                                                *)
LoopPart == [i \in 1 .. 2 * N |-> At(IF i % 2 = 1 THEN "lock" ELSE "store", (i + 1) \div 2)]

LEMMA LoopPartIs ==
    /\ LoopPart \in Seq(Steps) /\ Len(LoopPart) = 2 * N
    /\ \A n \in Nodes : LoopPart[2 * n - 1] = At("lock", n) /\ LoopPart[2 * n] = At("store", n)
    /\ \A i \in 1 .. 2 * N : \E n \in Nodes : i = 2 * n - 1 \/ i = 2 * n
<1>1. N \in Nat /\ N > 0 /\ 2 * N \in Nat
  BY InternalAssumption
<1>2. \A n \in Nodes : /\ 2 * n - 1 \in 1 .. 2 * N /\ 2 * n \in 1 .. 2 * N
                       /\ (2 * n - 1) % 2 = 1 /\ (2 * n) % 2 = 0
                       /\ ((2 * n - 1) + 1) \div 2 = n /\ (2 * n + 1) \div 2 = n
  BY <1>1 DEF Nodes
<1>3. ASSUME NEW n \in Nodes
      PROVE  LoopPart[2 * n - 1] = At("lock", n) /\ LoopPart[2 * n] = At("store", n)
  <2> DEFINE i == 2 * n - 1
             j == 2 * n
  <2>1. /\ i \in 1 .. 2 * N /\ j \in 1 .. 2 * N /\ i % 2 = 1 /\ ~(j % 2 = 1)
        /\ (i + 1) \div 2 = n /\ (j + 1) \div 2 = n
    BY <1>2
  <2> HIDE DEF i, j
  <2>2. LoopPart[i] = At("lock", n) /\ LoopPart[j] = At("store", n)
    BY <2>1 DEF LoopPart
  <2> QED
    BY <2>2 DEF i, j
<1>4. ASSUME NEW i \in 1 .. 2 * N
      PROVE  \E n \in Nodes : i = 2 * n - 1 \/ i = 2 * n
  <2> DEFINE n == (i + 1) \div 2
  <2>1. n \in 1 .. N /\ (i = 2 * n - 1 \/ i = 2 * n)
    BY <1>1
  <2> QED
    BY <2>1 DEF Nodes
<1>5. ASSUME NEW i \in 1 .. 2 * N PROVE LoopPart[i] \in Steps
  <2>1. PICK n \in Nodes : i = 2 * n - 1 \/ i = 2 * n
    BY <1>4
  <2> QED
    BY <1>3, <2>1, StepsKnown
<1>6. LoopPart \in [1 .. 2 * N -> Steps]
  <2>1. LoopPart = [i \in 1 .. 2 * N |-> LoopPart[i]]
    BY DEF LoopPart
  <2> QED
    BY <1>5, <2>1
<1>7. LoopPart \in Seq(Steps) /\ Len(LoopPart) = 2 * N
  BY <1>1, <1>6
<1> QED
  BY <1>3, <1>4, <1>7

LEMMA CreateManyWell ==
    /\ WellFormed("CreateRecordsWithId", CreateManySteps)
    /\ ~Nested(CreateManySteps) /\ Head(CreateManySteps) = Step("rlock")
<1> DEFINE r == Step("rlock")
           b == Step("settle")
           c == Step("balance")
           d == Step("runlock")
           q == <<b, c, d>>
           p == LoopPart
           op == "CreateRecordsWithId"
<1>1. r \in Steps /\ b \in Steps /\ c \in Steps /\ d \in Steps
  BY StepsKnown
<1>2. r.do = "rlock" /\ b.do = "settle" /\ c.do = "balance" /\ d.do = "runlock"
  BY DEF Step, Act
<1>3. CreateManySteps = (<<r>> \o p) \o q
  BY DEF CreateManySteps, LoopPart
<1> HIDE DEF r, b, c, d
<1>4. q \in Seq(Steps) /\ Len(q) = 3 /\ q[1] = b /\ q[2] = c /\ q[3] = d /\ q # <<>> /\ Head(q) = b
  BY <1>1
<1> HIDE DEF q
<1>5. WellFormed(op, q) /\ ~Nested(q)
  <2>1. \A x \in {b, c, d} : x.do \in Kinds(op) /\ Proper(x)
    BY <1>2 DEF Kinds, Proper, Moving
  <2>2. \A i \in 1 .. Len(q) : q[i].do \in Kinds(op) /\ Proper(q[i])
    <3>1. \A i \in 1 .. Len(q) : q[i] \in {b, c, d}
      BY <1>4
    <3> QED
      BY <2>1, <3>1
  <2>3. \A i \in 1 .. Len(q) - 1 : Follows(q[i], q[i + 1])
    <3>1. Follows(b, c) /\ Follows(c, d)
      BY <1>2 DEF Follows
    <3>2. \A i \in 1 .. Len(q) - 1 : i = 1 \/ i = 2
      BY <1>4
    <3> QED
      BY <1>4, <3>1, <3>2
  <2>4. \A i \in 1 .. Len(q) - 2 : q[i].do # "runlock"
    BY <1>2, <1>4
  <2>5. ~Nested(q)
    BY <1>2, <1>4 DEF Nested
  <2>6. q[Len(q)].do = Final(op)
    BY <1>2, <1>4 DEF Final
  <2> QED
    BY <1>4, <2>2, <2>3, <2>4, <2>5, <2>6 DEF WellFormed
<1>6. N \in Nat /\ N > 0 /\ 1 \in Nodes /\ N \in Nodes
  BY InternalAssumption DEF Nodes
<1>7. \A n \in Nodes : /\ At("lock", n).do = "lock" /\ At("lock", n).n = n /\ At("lock", n).m = 0
                       /\ At("store", n).do = "store" /\ At("store", n).n = n /\ At("store", n).m = 0
  BY DEF At, Act
<1>8. WellFormed(op, p \o q) /\ ~Nested(p \o q) /\ Head(p \o q) = At("lock", 1)
  <2>1. p \in Seq(Steps) /\ Len(p) > 0 /\ Len(p) = 2 * N
    BY <1>6, LoopPartIs
  <2>2. /\ \A n \in Nodes : p[2 * n - 1] = At("lock", n) /\ p[2 * n] = At("store", n)
        /\ \A i \in 1 .. 2 * N : \E n \in Nodes : i = 2 * n - 1 \/ i = 2 * n
    BY LoopPartIs
  <2> HIDE DEF p
  <2>3. Allowed(op, p, q)
    <3> SUFFICES ASSUME NEW i \in 1 .. Len(p)
                 PROVE  p[i].do \in Kinds(op) /\ Proper(p[i]) /\ p[i].do # "runlock"
      BY <1>5 DEF Allowed
    <3>1. PICK n \in Nodes : i = 2 * n - 1 \/ i = 2 * n
      BY <2>1, <2>2
    <3>2. \A x \in {At("lock", n), At("store", n)} :
             x.do \in Kinds(op) /\ Proper(x) /\ x.do # "runlock"
      <4> DEFINE u == At("lock", n)
                 v == At("store", n)
      <4>1. u.do = "lock" /\ u.m = 0 /\ v.do = "store" /\ v.n = n
        BY <1>7
      <4> HIDE DEF u, v
      <4>2. \A x \in {u, v} : x.do \in Kinds(op) /\ Proper(x) /\ x.do # "runlock"
        BY <4>1 DEF Kinds, Proper, Moving
      <4> QED
        BY <4>2 DEF u, v
    <3>3. p[i] \in {At("lock", n), At("store", n)}
      BY <2>2, <3>1
    <3> QED
      BY <3>2, <3>3
  <2>4. Chained(p)
    <3> SUFFICES ASSUME NEW i \in 1 .. Len(p) - 1 PROVE Follows(p[i], p[i + 1])
      BY DEF Chained
    <3>1. i \in 1 .. 2 * N /\ i + 1 \in 1 .. 2 * N /\ i < 2 * N
      BY <1>6, <2>1
    <3>2. PICK n \in Nodes : i = 2 * n - 1 \/ i = 2 * n
      BY <2>2, <3>1
    <3>3. CASE i = 2 * n - 1
      <4>1. i + 1 = 2 * n /\ n # 0
        BY <3>2, <3>3 DEF Nodes
      <4>2. p[i] = At("lock", n) /\ p[i + 1] = At("store", n)
        BY <2>2, <3>3, <4>1
      <4>3. p[i].do = "lock" /\ p[i].n = n /\ p[i].m = 0
        BY <1>7, <4>2
      <4> QED
        BY <4>1, <4>2, <4>3 DEF Follows
    <3>4. CASE i = 2 * n
      <4>1. n + 1 \in Nodes /\ i + 1 = 2 * (n + 1) - 1 /\ n # N
        BY <1>6, <3>1, <3>2, <3>4 DEF Nodes
      <4>2. p[i] = At("store", n) /\ p[i + 1] = At("lock", n + 1)
        BY <2>2, <3>4, <4>1
      <4>3. p[i].do = "store" /\ p[i].n = n
        BY <1>7, <4>2
      <4> QED
        BY <4>1, <4>2, <4>3 DEF Follows
    <3> QED
      BY <3>2, <3>3, <3>4
  <2>5. p[Len(p)] = At("store", N) /\ p[1] = At("lock", 1) /\ Head(p) = p[1]
    <3>1. 2 * 1 - 1 = 1
      OBVIOUS
    <3> QED
      BY <1>6, <2>1, <2>2, <3>1
  <2>6. Follows(p[Len(p)], Head(q))
    BY <1>2, <1>4, <1>6, <1>7, <2>5 DEF Follows
  <2>7. Prefix(op, p, q)
    BY <2>1, <2>3, <2>4, <2>6 DEF Prefix
  <2> HIDE DEF op
  <2>8. WellFormed(op, p \o q) /\ (Nested(p \o q) <=> Nested(q)) /\ Head(p \o q) = Head(p)
    BY <1>5, <2>7, PrefixWell
  <2> QED
    BY <1>5, <2>5, <2>8
<1> DEFINE z == p \o q
<1>9. WellFormed(op, <<r>> \o z) /\ ~Nested(<<r>> \o z) /\ Head(<<r>> \o z) = r
  <2>1. WellFormed(op, z) /\ ~Nested(z) /\ Head(z) = At("lock", 1)
    BY <1>8
  <2> HIDE DEF z, p
  <2> DEFINE a == <<r>>
  <2>2. a \in Seq(Steps) /\ Len(a) = 1 /\ a[1] = r /\ Head(a) = r
    BY <1>1
  <2> HIDE DEF a
  <2>3. r.do \in Kinds(op) /\ Proper(r) /\ r.do # "runlock"
    BY <1>2 DEF Kinds, Proper, Moving
  <2>4. Allowed(op, a, z)
    BY <2>1, <2>2, <2>3 DEF Allowed
  <2>5. Chained(a)
    BY <2>2 DEF Chained
  <2>6. Follows(r, Head(z))
    BY <1>2, <2>1 DEF Follows
  <2>7. Len(a) > 0 /\ Follows(a[Len(a)], Head(z))
    BY <2>2, <2>6
  <2>8. Prefix(op, a, z)
    BY <2>2, <2>4, <2>5, <2>7 DEF Prefix
  <2> HIDE DEF op
  <2>9. WellFormed(op, a \o z) /\ (Nested(a \o z) <=> Nested(z)) /\ Head(a \o z) = Head(a)
    BY <2>1, <2>8, PrefixWell
  <2> QED
    BY <2>1, <2>2, <2>9 DEF a
<1>10. (<<r>> \o p) \o q = <<r>> \o z
  <2>1. <<r>> \in Seq(Steps)
    BY <1>1
  <2>2. p \in Seq(Steps)
    BY LoopPartIs
  <2> HIDE DEF p
  <2> QED
    BY <1>4, <2>1, <2>2, ConcatAssociative
<1> QED
  BY <1>3, <1>9, <1>10 DEF r

-----------------------------------------------------------------------------
(* Calls and locks.                                                        *)

LEMMA HeadWell ==
    ASSUME NEW op, NEW todo, WellFormed(op, todo)
    PROVE  /\ todo \in Seq(Steps) /\ todo # <<>> /\ Len(todo) > 0
           /\ Head(todo) \in Steps /\ Head(todo).do \in Kinds(op) /\ Proper(Head(todo))
           /\ Nested(todo) => Head(todo).do \in Kinds("DeleteRecords")
<1>1. todo \in Seq(Steps) /\ todo # <<>>
  BY DEF WellFormed
<1>2. Len(todo) > 0
  BY <1>1, LenPos
<1>3. Head(todo) = todo[1] /\ 1 \in 1 .. Len(todo) /\ Head(todo) \in Steps
  BY <1>1, <1>2
<1> QED
  BY <1>1, <1>2, <1>3 DEF WellFormed

(* Two records that say the same of a call, but for its history variables. *)
Alike(c, d) ==
    /\ c = None <=> d = None
    /\ c # None => /\ d.op = c.op /\ d.ids = c.ids /\ d.todo = c.todo /\ d.start = c.start
                   /\ d.end = c.end /\ d.good = c.good /\ d.list = c.list /\ d.ok = c.ok

LEMMA AlikeSame ==
    ASSUME NEW c, NEW d, Alike(c, d)
    PROVE  /\ Sane(c) => Sane(d)
           /\ Held(d) = Held(c) /\ Depth(d) = Depth(c) /\ (Assigning(d) <=> Assigning(c))
<1>1. CASE c = None
  BY <1>1 DEF Alike
<1>2. CASE c # None
  <2>1. /\ d # None /\ d.op = c.op /\ d.ids = c.ids /\ d.todo = c.todo /\ d.start = c.start
        /\ d.end = c.end /\ d.good = c.good /\ d.ok = c.ok
    BY <1>2 DEF Alike
  <2>2. Fitting(c) <=> Fitting(d)
    BY <2>1 DEF Fitting
  <2>3. Held(d) = Held(c) /\ Depth(d) = Depth(c) /\ (Assigning(d) <=> Assigning(c))
    BY <1>2, <2>1 DEF Held, Depth, Assigning
  <2>4. Sane(c) => Sane(d)
    BY <1>2, <2>1, <2>2 DEF Sane
  <2> QED
    BY <2>3, <2>4
<1> QED
  BY <1>1, <1>2

(* A step of goroutine t, by what it does to its call and to the locks.    *)
LEMMA Goes ==
    ASSUME LInv, NEW t \in Threads, Sane(call'[t]),
           \A u \in Threads \ {t} : Alike(call[u], call'[u]),
           \A n \in Nodes :
              nodeLock'[n] = IF n \in Held(call'[t]) THEN t
                             ELSE IF n \in Held(call[t]) THEN None ELSE nodeLock[n],
           \A n \in Nodes : n \in Held(call'[t]) => nodeLock[n] = None \/ n \in Held(call[t]),
           idLock' = IF Assigning(call'[t]) THEN t
                     ELSE IF Assigning(call[t]) THEN None ELSE idLock,
           Assigning(call'[t]) => idLock = None \/ Assigning(call[t]),
           \A u \in Threads : reads'[u] = IF u = t THEN Depth(call'[t]) ELSE reads[u]
    PROVE  Formed' /\ Locked'
<1>1. None \notin Threads
  BY InternalAssumption
<1>2. Formed /\ Locked
  BY DEF LInv
<1>3. \A u \in Threads \ {t} : /\ Sane(call'[u]) /\ Held(call'[u]) = Held(call[u])
                               /\ Depth(call'[u]) = Depth(call[u])
                               /\ Assigning(call'[u]) <=> Assigning(call[u])
  BY <1>2, AlikeSame DEF Formed
<1>4. Formed'
  BY <1>3 DEF Formed
<1>5. ASSUME NEW n \in Nodes, NEW u \in Threads PROVE nodeLock'[n] = u <=> n \in Held(call'[u])
  <2>1. \A v \in Threads : nodeLock[n] = v <=> n \in Held(call[v])
    BY <1>2 DEF Locked
  <2>2. CASE u = t
    BY <1>1, <2>1, <2>2
  <2>3. CASE u # t
    BY <1>1, <1>3, <2>1, <2>3
  <2> QED
    BY <2>2, <2>3
<1>6. ASSUME NEW u \in Threads PROVE idLock' = u <=> Assigning(call'[u])
  <2>1. \A v \in Threads : idLock = v <=> Assigning(call[v])
    BY <1>2 DEF Locked
  <2>2. CASE u = t
    BY <1>1, <2>1, <2>2
  <2>3. CASE u # t
    BY <1>1, <1>3, <2>1, <2>3
  <2> QED
    BY <2>2, <2>3
<1>7. \A u \in Threads : reads'[u] = Depth(call'[u])
  BY <1>2, <1>3 DEF Locked
<1> QED
  BY <1>4, <1>5, <1>6, <1>7 DEF Locked

LEMMA CallTypes ==
    ASSUME NEW c \in Calls
    PROVE  /\ c # None /\ c.todo \in Seq(Steps) /\ c.start \in Nat /\ c.end \in Nat
           /\ c.good \in 0 .. N /\ c.ids \subseteq Ids /\ c.list \subseteq Nat /\ c.ok \in BOOLEAN
           /\ \A q \in Seq(Steps) : [c EXCEPT !.todo = q] \in Calls
           /\ \A q \in Seq(Steps), b \in BOOLEAN : [c EXCEPT !.todo = q, !.ok = b] \in Calls
           /\ \A q \in Seq(Steps), S \in SUBSET Nat : [c EXCEPT !.list = S, !.todo = q] \in Calls
           /\ \A g \in 0 .. N : [c EXCEPT !.good = g] \in Calls
           /\ \A x \in Nat : [c EXCEPT !.old = x] \in Calls
           /\ \A b \in BOOLEAN : [c EXCEPT !.ok = b] \in Calls
           /\ \A b \in BOOLEAN : [c EXCEPT !.still = b] \in Calls /\ [c EXCEPT !.alone = b] \in Calls
           /\ \A x \in Nat : [c EXCEPT !.end = x] \in Calls
           /\ \A x \in Nat, g \in 0 .. N :
                 [c EXCEPT !.end = x, !.start = x, !.good = g] \in Calls
<1>1. c # None
  BY NoneAssumption
<1>2. /\ c.todo \in Seq(Steps) /\ c.start \in Nat /\ c.end \in Nat
      /\ c.good \in 0 .. N /\ c.ids \subseteq Ids /\ c.list \subseteq Nat /\ c.ok \in BOOLEAN
  BY DEF Calls
<1>3. \A q \in Seq(Steps) : [c EXCEPT !.todo = q] \in Calls
  BY DEF Calls
<1>4. \A q \in Seq(Steps), b \in BOOLEAN : [c EXCEPT !.todo = q, !.ok = b] \in Calls
  BY DEF Calls
<1>5. \A q \in Seq(Steps), S \in SUBSET Nat : [c EXCEPT !.list = S, !.todo = q] \in Calls
  BY DEF Calls
<1>6. \A g \in 0 .. N : [c EXCEPT !.good = g] \in Calls
  BY DEF Calls
<1>7. \A x \in Nat : [c EXCEPT !.old = x] \in Calls /\ [c EXCEPT !.end = x] \in Calls
  BY DEF Calls
<1>8. \A b \in BOOLEAN : [c EXCEPT !.ok = b] \in Calls
  BY DEF Calls
<1>9. \A b \in BOOLEAN : [c EXCEPT !.still = b] \in Calls /\ [c EXCEPT !.alone = b] \in Calls
  BY DEF Calls
<1>10. \A x \in Nat, g \in 0 .. N : [c EXCEPT !.end = x, !.start = x, !.good = g] \in Calls
  BY DEF Calls
<1> QED
  BY <1>1, <1>2, <1>3, <1>4, <1>5, <1>6, <1>7, <1>8, <1>9, <1>10

(* Goroutine t is about to do a step.                                      *)
LEMMA Turn ==
    ASSUME LInv, NEW t \in Threads, NEW what, Doing(t, what)
    PROVE  /\ call[t] \in Calls /\ call[t] # None
           /\ WellFormed(call[t].op, call[t].todo) /\ Fitting(call[t])
           /\ Now(t) = Head(call[t].todo) /\ Now(t).do = what /\ Now(t) \in Steps
           /\ what \in Kinds(call[t].op) /\ Proper(Now(t))
           /\ Nested(call[t].todo) => what \in Kinds("DeleteRecords")
<1>1. call[t] # None /\ Now(t) = Head(call[t].todo) /\ Now(t).do = what
  BY DEF Doing, Now
<1>2. call[t] \in Calls
  BY <1>1 DEF LInv, TypeOK
<1>3. WellFormed(call[t].op, call[t].todo) /\ Fitting(call[t])
  BY <1>1 DEF LInv, Formed, Sane
<1> QED
  BY <1>1, <1>2, <1>3, HeadWell

LEMMA Put ==
    ASSUME LInv, NEW t \in Threads, NEW d \in Calls \cup {None}, call' = [call EXCEPT ![t] = d]
    PROVE  /\ call' \in [Threads -> Calls \cup {None}] /\ call'[t] = d
           /\ \A u \in Threads \ {t} : Alike(call[u], call'[u]) /\ call'[u] = call[u]
<1>1. call \in [Threads -> Calls \cup {None}]
  BY DEF LInv, TypeOK
<1>2. call' \in [Threads -> Calls \cup {None}] /\ call'[t] = d
  BY <1>1
<1>3. \A u \in Threads \ {t} : call'[u] = call[u]
  BY <1>1
<1> QED
  BY <1>2, <1>3 DEF Alike

LEMMA ThenPut ==
    ASSUME LInv, NEW t \in Threads, NEW what, Doing(t, what), what \notin {"assign", "runlock"},
           NEW x \in Calls, x.todo = call[t].todo, x.op = call[t].op, Then(t, x)
    PROVE  LET d == call'[t] IN
           /\ call' \in [Threads -> Calls \cup {None}] /\ d \in Calls /\ d # None
           /\ \A u \in Threads \ {t} : Alike(call[u], call'[u])
           /\ \A u \in Threads \ {t} : call'[u] = call[u]
           /\ d.todo = Tail(call[t].todo) /\ d.op = call[t].op /\ d.ids = x.ids
           /\ d.start = x.start /\ d.end = x.end /\ d.good = x.good /\ d.list = x.list /\ d.ok = x.ok
           /\ WellFormed(d.op, d.todo) /\ Follows(Now(t), Head(d.todo))
           /\ Nested(d.todo) <=> Nested(call[t].todo)
<1> DEFINE c == call[t]
           e == [x EXCEPT !.todo = Tail(@)]
<1>1. /\ c # None /\ c \in Calls /\ WellFormed(c.op, c.todo) /\ Now(t) = Head(c.todo)
      /\ Head(c.todo).do \notin {"assign", "runlock"}
  BY Turn
<1>2. /\ WellFormed(c.op, Tail(c.todo)) /\ Follows(Head(c.todo), Head(Tail(c.todo)))
      /\ Nested(Tail(c.todo)) <=> Nested(c.todo)
  BY <1>1, NextWell
<1>3. Tail(c.todo) \in Seq(Steps)
  BY <1>2 DEF WellFormed
<1>4. /\ e \in Calls /\ e.todo = Tail(c.todo) /\ e.op = x.op /\ e.ids = x.ids
      /\ e.start = x.start /\ e.end = x.end /\ e.good = x.good /\ e.list = x.list /\ e.ok = x.ok
  <2>1. [x EXCEPT !.todo = Tail(x.todo)] \in Calls
    BY <1>3, CallTypes
  <2>2. e.todo = Tail(c.todo) /\ e.op = x.op /\ e.ids = x.ids
    BY DEF Calls
  <2>3. e.start = x.start /\ e.end = x.end /\ e.good = x.good /\ e.list = x.list /\ e.ok = x.ok
    BY DEF Calls
  <2> QED
    BY <2>1, <2>2, <2>3
<1>5. call' = [call EXCEPT ![t] = e]
  BY DEF Then
<1> HIDE DEF e
<1>6. /\ call' \in [Threads -> Calls \cup {None}] /\ call'[t] = e
      /\ \A u \in Threads \ {t} : Alike(call[u], call'[u]) /\ call'[u] = call[u]
  BY <1>4, <1>5, Put
<1>7. e # None
  BY <1>4, CallTypes
<1> QED
  BY <1>1, <1>2, <1>4, <1>6, <1>7

LEMMA ThenTurn ==
    ASSUME LInv, NEW t \in Threads, NEW what, Doing(t, what), what \notin {"assign", "runlock"},
           Then(t, call[t])
    PROVE  LET c == call[t]
               d == call'[t] IN
           /\ c \in Calls /\ c # None /\ WellFormed(c.op, c.todo) /\ Fitting(c)
           /\ Now(t) = Head(c.todo) /\ Head(c.todo).do = what /\ Head(c.todo) \in Steps
           /\ Proper(Head(c.todo)) /\ what \in Kinds(c.op)
           /\ call' \in [Threads -> Calls \cup {None}] /\ d \in Calls /\ d # None
           /\ \A u \in Threads \ {t} : Alike(call[u], call'[u])
           /\ d.todo = Tail(c.todo) /\ d.op = c.op /\ d.ids = c.ids /\ d.start = c.start
           /\ d.end = c.end /\ d.ok = c.ok /\ d.good = c.good /\ d.list = c.list
           /\ WellFormed(d.op, d.todo) /\ Follows(Head(c.todo), Head(d.todo))
           /\ Nested(d.todo) <=> Nested(c.todo)
<1> DEFINE c == call[t]
           d == call'[t]
<1>1. /\ c \in Calls /\ c # None /\ WellFormed(c.op, c.todo) /\ Fitting(c)
      /\ Now(t) = Head(c.todo) /\ Head(c.todo).do = what /\ Head(c.todo) \in Steps
      /\ Proper(Head(c.todo)) /\ what \in Kinds(c.op)
  BY Turn
<1>2. /\ call' \in [Threads -> Calls \cup {None}] /\ d \in Calls /\ d # None
      /\ \A u \in Threads \ {t} : Alike(call[u], call'[u])
      /\ d.todo = Tail(c.todo) /\ d.op = c.op /\ d.ids = c.ids /\ d.start = c.start
      /\ d.end = c.end /\ d.ok = c.ok /\ d.good = c.good /\ d.list = c.list
      /\ WellFormed(d.op, d.todo) /\ Follows(Now(t), Head(d.todo))
      /\ Nested(d.todo) <=> Nested(c.todo)
  BY <1>1, ThenPut
<1> QED
  BY <1>1, <1>2

(* A step that leaves the locks as they are.                               *)
LEMMA LocksStay ==
    ASSUME LInv, NEW t \in Threads, Sane(call'[t]), UNCHANGED locks,
           \A u \in Threads \ {t} : Alike(call[u], call'[u]),
           Held(call'[t]) = Held(call[t]), ~Assigning(call'[t]), ~Assigning(call[t]),
           Depth(call'[t]) = Depth(call[t])
    PROVE  Formed' /\ Locked'
<1>1. \A n \in Nodes : n \in Held(call[t]) => nodeLock[n] = t
  BY DEF LInv, Locked
<1>2. reads[t] = Depth(call[t])
  BY DEF LInv, Locked
<1>3. nodeLock' = nodeLock /\ idLock' = idLock /\ reads' = reads
  BY DEF locks
<1> QED
  BY <1>1, <1>2, <1>3, Goes

LEMMA StoringPlain ==
    ASSUME NEW op, NEW todo, WellFormed(op, todo), Storing(Head(todo))
    PROVE  ~Nested(todo)
<1>1. "store" \notin Kinds("DeleteRecords")
  BY DEF Kinds
<1>2. CASE Head(todo).do = "store"
  BY <1>1, <1>2, HeadWell
<1>3. CASE Head(todo).do # "store"
  <2>1. Head(todo).do = "lock" /\ Head(todo).m = 0 /\ Head(todo).n # 0
    BY <1>3 DEF Storing
  <2>2. /\ WellFormed(op, Tail(todo)) /\ Follows(Head(todo), Head(Tail(todo)))
        /\ Nested(Tail(todo)) <=> Nested(todo)
    <3>1. Head(todo).do \notin {"assign", "runlock"}
      BY <2>1
    <3> QED
      BY <3>1, NextWell
  <2> DEFINE h == Head(todo)
             r == Head(Tail(todo))
  <2>3. h.do = "lock" /\ h.m = 0 /\ h.n # 0 /\ Follows(h, r)
    BY <2>1, <2>2
  <2> HIDE DEF h, r
  <2>6. r = At("store", h.n)
    BY <2>3 DEF Follows
  <2>7. r.do = "store"
    BY <2>6 DEF At, Act
  <2>4. Head(Tail(todo)).do = "store"
    BY <2>7 DEF r
  <2>5. Nested(Tail(todo)) => Head(Tail(todo)).do \in Kinds("DeleteRecords")
    BY <2>2, HeadWell
  <2> QED
    BY <1>1, <2>2, <2>4, <2>5
<1> QED
  BY <1>2, <1>3

LEMMA IdsFinite ==
    ASSUME NEW S \in SUBSET Ids
    PROVE  IsFiniteSet(S) /\ Cardinality(S) \in Nat
<1>1. 1 \in Int /\ MaxId \in Int
  BY InternalAssumption
<1>2. IsFiniteSet(Ids)
  BY <1>1, FS_Interval DEF Ids
<1>3. IsFiniteSet(S)
  BY <1>2, FS_Subset
<1> QED
  BY <1>3, FS_CardinalityType

LEMMA CallIds ==
    ASSUME NEW c \in Calls
    PROVE  c.ids \subseteq Ids /\ c.ids \subseteq Nat
<1>1. Ids \subseteq Nat
  BY InternalAssumption DEF Ids
<1>2. c.ids \subseteq Ids
  BY CallTypes
<1> QED
  BY <1>1, <1>2

LEMMA RLockInv ==
    ASSUME LInv, NEW t \in Threads, RLock(t)
    PROVE  LInv'
<1> DEFINE c == call[t]
           d == call'[t]
           h == Head(c.todo)
           r == Head(d.todo)
<1>1. /\ c \in Calls /\ c # None /\ WellFormed(c.op, c.todo) /\ Fitting(c) /\ h.do = "rlock"
      /\ "rlock" \in Kinds(c.op)
  BY Turn DEF RLock
<1>2. /\ call' \in [Threads -> Calls \cup {None}] /\ d \in Calls /\ d # None
      /\ \A u \in Threads \ {t} : Alike(call[u], call'[u])
      /\ d.op = c.op /\ d.ids = c.ids /\ d.start = c.start /\ d.end = c.end /\ d.ok = c.ok
      /\ WellFormed(d.op, d.todo) /\ Follows(h, r) /\ (Nested(d.todo) <=> Nested(c.todo))
  BY <1>1, ThenPut, Turn DEF RLock
<1> HIDE DEF c, d
<1>3. c.op # "CreateRecord"
  BY <1>1 DEF Kinds
<1>4. r.do \in {"pick", "total", "list"} \/ r = At("lock", 1)
  BY <1>1, <1>2 DEF Follows
<1>5. At("lock", 1).do = "lock" /\ At("lock", 1).n = 1 /\ At("lock", 1).m = 0
  BY DEF At, Act
<1>6. Fitting(d)
  <2>1. CASE r.do \in {"pick", "total", "list"}
    BY <1>1, <1>2, <1>3, <2>1 DEF Fitting, Storing, FallingBack
  <2>2. CASE r = At("lock", 1)
    <3>1. Storing(r) /\ ~FallingBack(r) /\ ~Answered(r) /\ r.do = "lock" /\ r.n = 1
      BY <1>5, <2>2 DEF Storing, FallingBack, Answered
    <3>2. ~Nested(d.todo)
      BY <1>2, <3>1, StoringPlain
    <3>3. IsFiniteSet(d.ids) /\ Cardinality(d.ids) \in Nat
      BY <1>2, CallTypes, IdsFinite
    <3>4. Passed(d.ids, 0) = 0
      BY <3>3, InternalAssumption DEF Passed
    <3>5. d.op = "CreateRecordsWithId" =>
             d.start <= d.end /\ d.ok /\ d.end = Passed(d.ids, r.n - 1)
      <4>1. c.op = "CreateRecordsWithId" => c.start <= c.end /\ c.ok /\ c.end = 0
        BY <1>1, <1>2, <3>2 DEF Fitting
      <4>2. r.n - 1 = 0
        BY <3>1
      <4> QED
        BY <1>2, <3>4, <4>1, <4>2
    <3>6. /\ c.op = "CreateRecordWithId" => Cardinality(c.ids) = 1
          /\ c.op = "ListRecords" => c.ids = {}
      BY <1>1 DEF Fitting
    <3> QED
      BY <1>2, <1>3, <3>1, <3>2, <3>5, <3>6 DEF Fitting
  <2> QED
    BY <1>4, <2>1, <2>2
<1>7. Held(c) = {} /\ Held(d) = {} /\ ~Assigning(c) /\ ~Assigning(d)
  BY <1>1, <1>2, <1>4, <1>5 DEF Held, Assigning
<1>8. reads[t] = Depth(c) /\ Depth(d) = Depth(c) + 1 /\ Depth(c) \in 0 .. 1
  <2>1. reads[t] = Depth(c)
    BY DEF LInv, Locked, c
  <2> QED
    BY <1>1, <1>2, <1>3, <1>4, <1>5, <2>1 DEF Depth
<1>9. reads' = [reads EXCEPT ![t] = Depth(d)] /\ nodeLock' = nodeLock /\ idLock' = idLock
  BY <1>8 DEF RLock
<1>10. reads \in [Threads -> 0 .. 2]
  BY DEF LInv, TypeOK
<1>11. Formed' /\ Locked'
  <2>1. Sane(d)
    BY <1>2, <1>6 DEF Sane
  <2>2. \A u \in Threads : reads'[u] = IF u = t THEN Depth(d) ELSE reads[u]
    BY <1>9, <1>10
  <2> QED
    BY <1>2, <1>7, <1>9, <2>1, <2>2, Goes DEF c, d
<1>12. TypeOK'
  <2>1. reads' \in [Threads -> 0 .. 2]
    BY <1>8, <1>9, <1>10
  <2> QED
    BY <1>2, <2>1 DEF LInv, TypeOK, RLock, counters, history
<1>13. Finite'
  BY DEF LInv, Finite, RLock
<1> QED
  BY <1>11, <1>12, <1>13 DEF LInv

LEMMA RUnlockInv ==
    ASSUME LInv, NEW t \in Threads, RUnlock(t)
    PROVE  LInv'
<1> DEFINE c == call[t]
           d == call'[t]
           l == Len(c.todo)
<1>1. /\ c \in Calls /\ c # None /\ WellFormed(c.op, c.todo) /\ Fitting(c)
      /\ Head(c.todo).do = "runlock" /\ "runlock" \in Kinds(c.op)
  BY Turn DEF RUnlock
<1>2. c.op # "CreateRecord"
  BY <1>1 DEF Kinds
<1>3. reads[t] = Depth(c) /\ reads \in [Threads -> 0 .. 2] /\ Held(c) = {} /\ ~Assigning(c)
  BY <1>1 DEF LInv, TypeOK, Locked, Held, Assigning
<1>4. c.todo \in Seq(Steps) /\ l \in Nat /\ l > 0 /\ Head(c.todo) = c.todo[1]
  BY <1>1, HeadWell
<1>5. nodeLock' = nodeLock /\ idLock' = idLock /\ reads' = [reads EXCEPT ![t] = @ - 1]
  BY DEF RUnlock
<1>6. CASE l = 1
  <2>1. call' = [call EXCEPT ![t] = None] /\ acked' \in {acked, acked \cup (c.ids \ raced)}
    BY <1>6 DEF RUnlock, Answer
  <2>2. /\ call' \in [Threads -> Calls \cup {None}] /\ d = None
        /\ \A u \in Threads \ {t} : Alike(call[u], call'[u])
    BY <2>1, Put
  <2>3. Depth(c) = 1
    BY <1>1, <1>2, <1>6 DEF Depth, Nested
  <2>4. Sane(d) /\ Held(d) = {} /\ ~Assigning(d) /\ Depth(d) = 0
    BY <2>2 DEF Sane, Held, Assigning, Depth
  <2>5. reads' \in [Threads -> 0 .. 2] /\ \A u \in Threads : reads'[u] = IF u = t THEN Depth(d) ELSE reads[u]
    BY <1>3, <1>5, <2>3, <2>4
  <2>6. Formed' /\ Locked'
    BY <1>3, <1>5, <2>2, <2>4, <2>5, Goes
  <2>7. acked' \cup raced \cup slipped \subseteq Nat
    <3>1. c.ids \subseteq Nat
      BY <1>1, CallIds
    <3>2. acked \cup raced \cup slipped \subseteq Nat
      BY DEF LInv, TypeOK
    <3> QED
      BY <2>1, <3>1, <3>2
  <2>8. TypeOK' /\ Finite'
    BY <2>2, <2>5, <2>7 DEF LInv, TypeOK, Finite, RUnlock, counters
  <2> QED
    BY <2>6, <2>8 DEF LInv
<1>7. CASE l # 1
  <2> DEFINE e == [c EXCEPT !.todo = Tail(@)]
  <2>1. l > 1
    <3> HIDE DEF l
    <3> QED
      BY <1>4, <1>7
  <2>2. l = 2
    <3>1. ASSUME l > 2 PROVE FALSE
      <4>1. 1 \in 1 .. l - 2
        BY <1>4, <3>1
      <4> QED
        BY <1>1, <1>4, <4>1 DEF WellFormed
    <3> HIDE DEF l
    <3> QED
      BY <1>4, <2>1, <3>1
  <2>3. Nested(c.todo)
    BY <1>1, <1>4, <2>2 DEF Nested
  <2>4. WellFormed(c.op, Tail(c.todo)) /\ Follows(Head(c.todo), Head(Tail(c.todo)))
    BY <1>1, <2>1, TailWell
  <2>5. ~Nested(Tail(c.todo))
    <3> DEFINE q == Tail(c.todo)
    <3>1. Len(q) = 1
      BY <1>1, <1>4, <2>2, HeadTailProperties DEF WellFormed
    <3> HIDE DEF q
    <3>2. ~Nested(q)
      BY <3>1 DEF Nested
    <3> QED
      BY <3>2 DEF q
  <2>6. /\ e \in Calls /\ e.todo = Tail(c.todo) /\ e.op = c.op /\ e.ids = c.ids
        /\ e.start = c.start /\ e.end = c.end
    <3>1. Tail(c.todo) \in Seq(Steps)
      BY <2>4 DEF WellFormed
    <3>2. e \in Calls
      BY <1>1, <3>1, CallTypes
    <3> HIDE DEF c
    <3>3. c \in Calls
      BY <1>1
    <3>4. e.todo = Tail(c.todo) /\ e.op = c.op /\ e.ids = c.ids
      BY <3>3 DEF Calls
    <3>5. e.start = c.start /\ e.end = c.end
      BY <3>3 DEF Calls
    <3> QED
      BY <3>2, <3>4, <3>5
  <2>7. call' = [call EXCEPT ![t] = e] /\ acked' = acked
    BY <1>7 DEF RUnlock, Then
  <2> HIDE DEF e
  <2>8. /\ call' \in [Threads -> Calls \cup {None}] /\ d = e
        /\ \A u \in Threads \ {t} : Alike(call[u], call'[u])
    BY <2>6, <2>7, Put
  <2>9. e # None
    BY <2>6, CallTypes
  <2>10. Head(e.todo).do = "runlock"
    BY <1>1, <2>4, <2>6 DEF Follows
  <2>11. Fitting(e)
    BY <1>1, <1>2, <2>5, <2>6, <2>10 DEF Fitting, Storing, FallingBack
  <2>12. Sane(e) /\ Held(e) = {} /\ ~Assigning(e)
    BY <2>4, <2>6, <2>9, <2>10, <2>11 DEF Sane, Held, Assigning
  <2>13. Depth(c) = 2 /\ Depth(e) = 1
    <3>1. /\ c # None /\ c.op # "CreateRecord" /\ Nested(c.todo) /\ Head(c.todo).do = "runlock"
          /\ e.op # "CreateRecord" /\ ~Nested(e.todo)
      BY <1>1, <1>2, <2>3, <2>5, <2>6
    <3> HIDE DEF c
    <3> QED
      BY <2>9, <2>10, <3>1 DEF Depth
  <2>14. reads' \in [Threads -> 0 .. 2] /\ \A u \in Threads : reads'[u] = IF u = t THEN Depth(e) ELSE reads[u]
    BY <1>3, <1>5, <2>13
  <2>15. Formed' /\ Locked'
    BY <1>3, <1>5, <2>8, <2>12, <2>14, Goes
  <2>16. TypeOK' /\ Finite'
    BY <2>7, <2>8, <2>14 DEF LInv, TypeOK, Finite, RUnlock, counters
  <2> QED
    BY <2>15, <2>16 DEF LInv
<1> QED
  BY <1>6, <1>7

(* What a lock that is taken does to the locks of the nodes.               *)
LEMMA TakeLock ==
    ASSUME LInv, NEW t \in Threads, NEW n \in Nodes, nodeLock[n] = None,
           nodeLock' = [nodeLock EXCEPT ![n] = t], Held(call'[t]) = Held(call[t]) \cup {n}
    PROVE  /\ nodeLock' \in [Nodes -> Threads \cup {None}]
           /\ \A m \in Nodes :
                 nodeLock'[m] = IF m \in Held(call'[t]) THEN t
                                ELSE IF m \in Held(call[t]) THEN None ELSE nodeLock[m]
           /\ \A m \in Nodes : m \in Held(call'[t]) => nodeLock[m] = None \/ m \in Held(call[t])
<1>1. nodeLock \in [Nodes -> Threads \cup {None}]
  BY DEF LInv, TypeOK
<1>2. \A m \in Nodes : m \in Held(call[t]) => nodeLock[m] = t
  BY DEF LInv, Locked
<1> QED
  BY <1>1, <1>2

(* And one that is given back.                                             *)
LEMMA GiveLocks ==
    ASSUME LInv, NEW t \in Threads, Held(call'[t]) = {},
           nodeLock' = [n \in Nodes |-> IF n \in Held(call[t]) THEN None ELSE nodeLock[n]]
    PROVE  /\ nodeLock' \in [Nodes -> Threads \cup {None}]
           /\ \A m \in Nodes :
                 nodeLock'[m] = IF m \in Held(call'[t]) THEN t
                                ELSE IF m \in Held(call[t]) THEN None ELSE nodeLock[m]
           /\ \A m \in Nodes : m \in Held(call'[t]) => nodeLock[m] = None \/ m \in Held(call[t])
<1>1. nodeLock \in [Nodes -> Threads \cup {None}]
  BY DEF LInv, TypeOK
<1> QED
  BY <1>1

LEMMA LockNodeInv ==
    ASSUME LInv, NEW t \in Threads, LockNode(t)
    PROVE  LInv'
<1> DEFINE c == call[t]
           d == call'[t]
           h == Head(c.todo)
           r == Head(d.todo)
           n == Place(t)
<1>1. /\ c \in Calls /\ c # None /\ WellFormed(c.op, c.todo) /\ Fitting(c) /\ h.do = "lock"
      /\ Proper(h) /\ h \in Steps /\ Now(t) = h
  BY Turn DEF LockNode
<1>2. /\ call' \in [Threads -> Calls \cup {None}] /\ d \in Calls /\ d # None
      /\ \A u \in Threads \ {t} : Alike(call[u], call'[u])
      /\ d.op = c.op /\ d.ids = c.ids /\ d.start = c.start /\ d.end = c.end /\ d.ok = c.ok
      /\ d.good = c.good
      /\ WellFormed(d.op, d.todo) /\ Follows(h, r) /\ (Nested(d.todo) <=> Nested(c.todo))
  BY <1>1, ThenPut, Turn DEF LockNode
<1>3. n = IF h.n = 0 THEN c.good ELSE h.n
  BY <1>1 DEF Place
<1>4. h.n \in 0 .. N /\ h.m \in 0 .. N
  BY <1>1 DEF Steps
<1>5. nodeLock[n] = None /\ nodeLock' = [nodeLock EXCEPT ![n] = t] /\ reads' = reads /\ idLock' = idLock
  BY DEF LockNode, MayWrite
<1> HIDE DEF c, d, n
<1>6. /\ n \in Nodes /\ Fitting(d) /\ Held(d) = {n}
      /\ r.do \in {"lock second", "store", "lock id", "create", "fallback"}
  <2>1. CASE h.m # 0
    <3>1. h.n \in Nodes /\ n = h.n
      <4>1. h.n \in Nodes
        BY <1>1, <2>1 DEF Proper, Moving
      <4>2. h.n # 0
        BY <4>1, InternalAssumption DEF Nodes
      <4> QED
        BY <1>3, <4>1, <4>2
    <3>2. r.do = "lock second" /\ r.n = h.n
      BY <1>1, <1>2, <2>1 DEF Follows
    <3>3. Fitting(d)
      BY <1>1, <1>2, <3>2 DEF Fitting, Storing, FallingBack
    <3> QED
      BY <1>2, <3>1, <3>2, <3>3 DEF Held
  <2>2. CASE h.m = 0 /\ h.n # 0
    <3>1. h.n \in Nodes /\ n = h.n
      BY <1>3, <1>4, <2>2 DEF Nodes
    <3>2. r = At("store", h.n)
      BY <1>1, <1>2, <2>2 DEF Follows
    <3>3. r.do = "store" /\ r.n = h.n /\ r.k = 0
      BY <3>2 DEF At, Act
    <3>4. Storing(h) /\ Storing(r) /\ ~FallingBack(r) /\ ~Answered(h) /\ ~Answered(r)
      BY <1>1, <2>2, <3>3 DEF Storing, FallingBack, Answered
    <3>5. Fitting(d)
      BY <1>1, <1>2, <3>3, <3>4 DEF Fitting
    <3> QED
      BY <1>2, <3>1, <3>3, <3>5 DEF Held
  <2>3. CASE h.m = 0 /\ h.n = 0
    <3>1. FallingBack(h)
      BY <1>1, <2>3 DEF FallingBack
    <3>2. c.good \in Nodes /\ n = c.good
      BY <1>1, <1>3, <2>3, <3>1 DEF Fitting
    <3>3. r.do \in {"lock id", "create", "fallback"}
      BY <1>1, <1>2, <2>3 DEF Follows
    <3>4. ~Storing(r)
      BY <3>3 DEF Storing
    <3>5. Fitting(d)
      BY <1>1, <1>2, <3>1, <3>2, <3>3, <3>4 DEF Fitting
    <3> QED
      BY <1>2, <3>2, <3>3, <3>5 DEF Held
  <2> QED
    BY <2>1, <2>2, <2>3
<1>7. Held(c) = {} /\ ~Assigning(c) /\ ~Assigning(d) /\ Sane(d)
  BY <1>1, <1>2, <1>6 DEF Held, Assigning, Sane
<1>8. reads[t] = Depth(c) /\ Depth(d) = Depth(c)
  <2>1. reads[t] = Depth(c)
    BY DEF LInv, Locked, c
  <2> QED
    BY <1>1, <1>2, <1>6, <2>1 DEF Depth
<1>9. /\ nodeLock' \in [Nodes -> Threads \cup {None}]
      /\ \A m \in Nodes :
            nodeLock'[m] = IF m \in Held(d) THEN t ELSE IF m \in Held(c) THEN None ELSE nodeLock[m]
      /\ \A m \in Nodes : m \in Held(d) => nodeLock[m] = None \/ m \in Held(c)
  <2>1. Held(d) = Held(c) \cup {n}
    BY <1>6, <1>7
  <2> QED
    BY <1>5, <1>6, <2>1, TakeLock DEF c, d
<1>10. Formed' /\ Locked'
  BY <1>2, <1>5, <1>7, <1>8, <1>9, Goes DEF c, d
<1>11. TypeOK' /\ Finite'
  BY <1>2, <1>9 DEF LInv, TypeOK, Finite, LockNode, counters, history
<1> QED
  BY <1>10, <1>11 DEF LInv

LEMMA LockSecondInv ==
    ASSUME LInv, NEW t \in Threads, LockSecond(t)
    PROVE  LInv'
<1> DEFINE c == call[t]
           d == call'[t]
           h == Head(c.todo)
           r == Head(d.todo)
           n == Now(t).m
<1>0. Doing(t, "lock second") /\ Then(t, call[t])
  BY DEF LockSecond
<1>1. /\ c \in Calls /\ c # None /\ WellFormed(c.op, c.todo) /\ Fitting(c) /\ h.do = "lock second"
      /\ Proper(h) /\ Now(t) = h
  BY <1>0, ThenTurn, Zenon
<1>2. /\ call' \in [Threads -> Calls \cup {None}] /\ d \in Calls /\ d # None
      /\ \A u \in Threads \ {t} : Alike(call[u], call'[u])
      /\ d.op = c.op /\ d.ids = c.ids /\ d.start = c.start /\ d.end = c.end /\ d.ok = c.ok
      /\ d.good = c.good
      /\ WellFormed(d.op, d.todo) /\ Follows(h, r) /\ (Nested(d.todo) <=> Nested(c.todo))
  BY <1>0, ThenTurn
<1>3. nodeLock[n] = None /\ nodeLock' = [nodeLock EXCEPT ![n] = t] /\ reads' = reads /\ idLock' = idLock
  BY DEF LockSecond, MayWrite
<1>11. n = h.m
  BY <1>1
<1> HIDE DEF c, d, n
<1>4. n \in Nodes /\ r.do = "copy" /\ r.n = h.n /\ r.m = n
  BY <1>1, <1>2, <1>11 DEF Follows, Proper, Moving
<1>5. Fitting(d)
  BY <1>1, <1>2, <1>4 DEF Fitting, Storing, FallingBack
<1>6. Held(c) = {h.n} /\ Held(d) = {h.n, n} /\ ~Assigning(c) /\ ~Assigning(d) /\ Sane(d)
  BY <1>1, <1>2, <1>4, <1>5 DEF Held, Assigning, Sane
<1>7. reads[t] = Depth(c) /\ Depth(d) = Depth(c)
  <2>1. reads[t] = Depth(c)
    BY DEF LInv, Locked, c
  <2> QED
    BY <1>1, <1>2, <1>4, <2>1 DEF Depth
<1>8. /\ nodeLock' \in [Nodes -> Threads \cup {None}]
      /\ \A m \in Nodes :
            nodeLock'[m] = IF m \in Held(d) THEN t ELSE IF m \in Held(c) THEN None ELSE nodeLock[m]
      /\ \A m \in Nodes : m \in Held(d) => nodeLock[m] = None \/ m \in Held(c)
  <2>1. Held(d) = Held(c) \cup {n}
    BY <1>6
  <2> QED
    BY <1>3, <1>4, <2>1, TakeLock DEF c, d
<1>9. Formed' /\ Locked'
  BY <1>2, <1>3, <1>6, <1>7, <1>8, Goes DEF c, d
<1>10. TypeOK' /\ Finite'
  BY <1>2, <1>8 DEF LInv, TypeOK, Finite, LockSecond, counters, history
<1> QED
  BY <1>9, <1>10 DEF LInv

LEMMA LockIdInv ==
    ASSUME LInv, NEW t \in Threads, LockId(t)
    PROVE  LInv'
<1> DEFINE c == call[t]
           d == call'[t]
           h == Head(c.todo)
           r == Head(d.todo)
<1>0. Doing(t, "lock id") /\ Then(t, call[t])
  BY DEF LockId
<1>1. /\ c \in Calls /\ c # None /\ WellFormed(c.op, c.todo) /\ Fitting(c) /\ h.do = "lock id"
      /\ Proper(h)
  BY <1>0, ThenTurn, Zenon
<1>2. /\ call' \in [Threads -> Calls \cup {None}] /\ d \in Calls /\ d # None
      /\ \A u \in Threads \ {t} : Alike(call[u], call'[u])
      /\ d.op = c.op /\ d.ids = c.ids /\ d.start = c.start /\ d.end = c.end /\ d.ok = c.ok
      /\ d.good = c.good
      /\ WellFormed(d.op, d.todo) /\ Follows(h, r) /\ (Nested(d.todo) <=> Nested(c.todo))
  BY <1>0, ThenTurn
<1>3. nodeLock' = nodeLock /\ reads' = reads /\ idLock = None /\ idLock' = t
  BY DEF LockId
<1> HIDE DEF c, d
<1>4. r.do = "assign"
  BY <1>1, <1>2 DEF Follows
<1>5. Fitting(d)
  BY <1>1, <1>2, <1>4 DEF Fitting, Storing, FallingBack
<1>6. Held(d) = Held(c) /\ Assigning(d) /\ Sane(d)
  BY <1>1, <1>2, <1>4, <1>5 DEF Held, Assigning, Sane
<1>7. reads[t] = Depth(c) /\ Depth(d) = Depth(c)
  <2>1. reads[t] = Depth(c)
    BY DEF LInv, Locked, c
  <2> QED
    BY <1>1, <1>2, <1>4, <2>1 DEF Depth
<1>8. \A n \in Nodes : n \in Held(c) => nodeLock[n] = t
  BY DEF LInv, Locked, c
<1>9. Formed' /\ Locked'
  BY <1>2, <1>3, <1>6, <1>7, <1>8, Goes DEF c, d
<1>10. TypeOK' /\ Finite'
  BY <1>2, <1>3 DEF LInv, TypeOK, Finite, LockId, counters, history
<1> QED
  BY <1>9, <1>10 DEF LInv

(* A step that changes nothing but the local variables of the call.        *)
LEMMA LocalInv ==
    ASSUME LInv, NEW t \in Threads, UNCHANGED <<data, counters, locks, faults, history>>,
           call' \in [Threads -> Calls \cup {None}],
           \A u \in Threads \ {t} : Alike(call[u], call'[u]), call'[t] # None,
           WellFormed(call'[t].op, call'[t].todo), Fitting(call'[t]),
           Held(call'[t]) = Held(call[t]), ~Assigning(call'[t]), ~Assigning(call[t]),
           Depth(call'[t]) = Depth(call[t])
    PROVE  LInv'
<1>1. Formed' /\ Locked'
  <2>1. Sane(call'[t])
    BY DEF Sane
  <2> QED
    BY <2>1, LocksStay
<1>2. TypeOK' /\ Finite'
  BY DEF LInv, TypeOK, Finite, counters, locks, history
<1> QED
  BY <1>1, <1>2 DEF LInv

LEMMA LessType ==
    ASSUME LInv, NEW t
    PROVE  Less(t) \in Nodes /\ Less(t) \in 0 .. N
<1> DEFINE c == [i \in 1 .. N |-> status[i]]
<1>1. N \in Nat /\ 1 \in 1 .. N
  BY InternalAssumption
<1>2. DOMAIN c = 1 .. N /\ \A i \in 1 .. N : c[i] \in Nat
  BY DEF LInv, TypeOK, Nodes
<1> HIDE DEF c
<1>3. LessLoaded(c) \in 1 .. N
  BY <1>1, <1>2, LessLoadedIn
<1> QED
  BY <1>1, <1>3 DEF Less, Nodes, c

LEMMA ChooseInv ==
    ASSUME LInv, NEW t \in Threads, NEW what, what \in {"choose", "pick"},
           Doing(t, what), Then(t, [call[t] EXCEPT !.good = Less(t)]),
           UNCHANGED <<data, counters, locks, faults, history>>
    PROVE  LInv'
<1> DEFINE c == call[t]
           d == call'[t]
           h == Head(c.todo)
           r == Head(d.todo)
           g == Less(t)
           x == [c EXCEPT !.good = g]
<1>1. /\ c \in Calls /\ c # None /\ WellFormed(c.op, c.todo) /\ Fitting(c) /\ h.do = what
  BY Turn
<1>2. g \in Nodes /\ g \in 0 .. N
  BY LessType
<1> HIDE DEF g
<1>3. x \in Calls
  BY <1>1, <1>2, CallTypes
<1>4. x.todo = c.todo /\ x.op = c.op /\ x.ids = c.ids /\ x.good = g
  <2> HIDE DEF c
  <2> QED
    BY <1>1 DEF Calls
<1>5. x.start = c.start /\ x.end = c.end /\ x.ok = c.ok
  <2> HIDE DEF c
  <2> QED
    BY <1>1 DEF Calls
<1>6. Then(t, x) /\ what \notin {"assign", "runlock"} /\ Now(t) = h
  BY DEF g, Now
<1> HIDE DEF x
<1>7. /\ call' \in [Threads -> Calls \cup {None}] /\ d \in Calls /\ d # None
      /\ \A u \in Threads \ {t} : Alike(call[u], call'[u])
      /\ d.op = c.op /\ d.ids = c.ids /\ d.start = c.start /\ d.end = c.end /\ d.ok = c.ok
      /\ d.good = g
      /\ WellFormed(d.op, d.todo) /\ Follows(h, r) /\ (Nested(d.todo) <=> Nested(c.todo))
  BY <1>3, <1>4, <1>5, <1>6, ThenPut
<1> HIDE DEF c, d
<1>8. r = At("lock", 0) \/ r = OnAll("exists", "ask")
  BY <1>1, <1>7 DEF Follows
<1>9. (r.do = "lock" /\ r.m = 0 /\ r.n = 0) \/ r.do = "exists"
  BY <1>8 DEF At, OnAll, Act
<1>10. Fitting(d)
  <2>1. c.op # "CreateRecordsWithId"
    <3>1. what \in Kinds(c.op)
      BY Turn DEF c
    <3> QED
      BY <3>1 DEF Kinds
  <2> QED
    BY <1>1, <1>2, <1>7, <1>9, <2>1 DEF Fitting
<1>11. Held(d) = {} /\ Held(c) = {} /\ ~Assigning(c) /\ ~Assigning(d) /\ Depth(d) = Depth(c)
  BY <1>1, <1>7, <1>9 DEF Held, Assigning, Depth
<1> QED
  BY <1>7, <1>10, <1>11, LocalInv DEF c, d

LEMMA CountsSeq ==
    ASSUME LInv
    PROVE  LET c == [i \in 1 .. N |-> status[i]] IN c \in Seq(Int) /\ Len(c) = N
<1>1. N \in Nat /\ \A i \in 1 .. N : status[i] \in Int
  BY InternalAssumption DEF LInv, TypeOK, Nodes
<1> QED
  BY <1>1

LEMMA TotalsType ==
    ASSUME LInv
    PROVE  Totals \in Nat
<1> DEFINE c == [i \in 1 .. N |-> status[i]]
<1>1. c \in Seq(Int)
  BY CountsSeq
<1> HIDE DEF c
<1>2. Total(c) \in 0 .. Modulus - 1
  BY <1>1, TotalType
<1>3. Total(c) \in Nat
  BY <1>2, ModulusAssumption
<1> QED
  BY <1>3 DEF Totals, c

LEMMA CompareInv ==
    ASSUME LInv, NEW t \in Threads, Compare(t)
    PROVE  LInv'
<1> DEFINE c == call[t]
           d == call'[t]
           h == Head(c.todo)
           r == Head(d.todo)
           b == c.ok /\ Unsigned(c.old - Totals) = Cardinality(c.ids)
           x == [c EXCEPT !.ok = b]
<1>1. Doing(t, "compare") /\ Then(t, x) /\ UNCHANGED <<data, counters, locks, faults, history>>
  BY DEF Compare
<1>2. c \in Calls /\ c # None /\ WellFormed(c.op, c.todo) /\ Fitting(c) /\ h.do = "compare" /\ Now(t) = h
  BY <1>1, Turn
<1>3. b \in BOOLEAN /\ (~c.ok => ~b)
  OBVIOUS
<1> HIDE DEF b
<1>4. x \in Calls
  BY <1>2, <1>3, CallTypes
<1>5. x.todo = c.todo /\ x.op = c.op /\ x.ids = c.ids /\ x.ok = b /\ x.good = c.good
  <2> HIDE DEF c
  <2> QED
    BY <1>2 DEF Calls
<1>6. x.start = c.start /\ x.end = c.end
  <2> HIDE DEF c
  <2> QED
    BY <1>2 DEF Calls
<1> HIDE DEF x
<1>7. /\ call' \in [Threads -> Calls \cup {None}] /\ d \in Calls /\ d # None
      /\ \A u \in Threads \ {t} : Alike(call[u], call'[u])
      /\ d.op = c.op /\ d.ids = c.ids /\ d.start = c.start /\ d.end = c.end /\ d.ok = b
      /\ d.good = c.good
      /\ WellFormed(d.op, d.todo) /\ Follows(h, r) /\ (Nested(d.todo) <=> Nested(c.todo))
  BY <1>1, <1>2, <1>4, <1>5, <1>6, ThenPut
<1> HIDE DEF c, d
<1>8. r.do = "runlock"
  BY <1>2, <1>7 DEF Follows
<1>9. Fitting(d)
  BY <1>2, <1>3, <1>7, <1>8 DEF Fitting, Storing, FallingBack
<1>10. Held(d) = {} /\ Held(c) = {} /\ ~Assigning(c) /\ ~Assigning(d) /\ Depth(d) = Depth(c)
  BY <1>2, <1>7, <1>8 DEF Held, Assigning, Depth
<1> QED
  BY <1>1, <1>7, <1>9, <1>10, LocalInv DEF c, d

LEMMA CountBeforeInv ==
    ASSUME LInv, NEW t \in Threads, CountBefore(t)
    PROVE  LInv'
<1> DEFINE c == call[t]
           d == call'[t]
           h == Head(c.todo)
           r == Head(d.todo)
           x == [c EXCEPT !.old = Totals]
<1>1. Doing(t, "total") /\ Then(t, x) /\ UNCHANGED <<data, counters, locks, faults, history>>
  BY DEF CountBefore
<1>2. c \in Calls /\ c # None /\ WellFormed(c.op, c.todo) /\ Fitting(c) /\ h.do = "total" /\ Now(t) = h
  BY <1>1, Turn
<1>4. x \in Calls
  BY <1>2, TotalsType, CallTypes
<1>5. x.todo = c.todo /\ x.op = c.op /\ x.ids = c.ids /\ x.ok = c.ok /\ x.good = c.good
  <2> HIDE DEF c
  <2> QED
    BY <1>2 DEF Calls
<1>6. x.start = c.start /\ x.end = c.end
  <2> HIDE DEF c
  <2> QED
    BY <1>2 DEF Calls
<1> HIDE DEF x
<1>7. /\ call' \in [Threads -> Calls \cup {None}] /\ d \in Calls /\ d # None
      /\ \A u \in Threads \ {t} : Alike(call[u], call'[u])
      /\ d.op = c.op /\ d.ids = c.ids /\ d.start = c.start /\ d.end = c.end /\ d.ok = c.ok
      /\ d.good = c.good
      /\ WellFormed(d.op, d.todo) /\ Follows(h, r) /\ (Nested(d.todo) <=> Nested(c.todo))
  BY <1>1, <1>2, <1>4, <1>5, <1>6, ThenPut
<1> HIDE DEF c, d
<1>8. r.do = "work" /\ r.left # {}
  <2>1. r = OnAll("work", "delete")
    BY <1>2, <1>7 DEF Follows
  <2>2. Nodes \X {"delete"} # {}
    <3>1. <<1, "delete">> \in Nodes \X {"delete"}
      BY InternalAssumption DEF Nodes
    <3> QED
      BY <3>1
  <2> QED
    BY <2>1, <2>2 DEF OnAll, Act
<1>9. Fitting(d)
  BY <1>2, <1>7, <1>8 DEF Fitting, Storing, FallingBack
<1>10. Held(d) = {} /\ Held(c) = {} /\ ~Assigning(c) /\ ~Assigning(d) /\ Depth(d) = Depth(c)
  BY <1>2, <1>7, <1>8 DEF Held, Assigning, Depth
<1> QED
  BY <1>1, <1>7, <1>9, <1>10, LocalInv DEF c, d

(* Goroutine t goes on, and holds the locks that it held.                  *)
Local(t) ==
    /\ call' \in [Threads -> Calls \cup {None}] /\ call'[t] # None
    /\ \A u \in Threads \ {t} : Alike(call[u], call'[u])
    /\ WellFormed(call'[t].op, call'[t].todo) /\ Fitting(call'[t])
    /\ Held(call'[t]) = Held(call[t]) /\ Depth(call'[t]) = Depth(call[t])
    /\ ~Assigning(call[t]) /\ ~Assigning(call'[t])
    /\ call'[t].op = call[t].op /\ call'[t].ids = call[t].ids /\ (call'[t].ok => call[t].ok)

LEMMA LocalLocks ==
    ASSUME LInv, NEW t \in Threads, Local(t), UNCHANGED locks
    PROVE  Formed' /\ Locked' /\ call' \in [Threads -> Calls \cup {None}]
<1>1. Sane(call'[t])
  BY DEF Local, Sane
<1>2. /\ \A u \in Threads \ {t} : Alike(call[u], call'[u])
      /\ Held(call'[t]) = Held(call[t]) /\ Depth(call'[t]) = Depth(call[t])
      /\ ~Assigning(call[t]) /\ ~Assigning(call'[t])
  BY DEF Local
<1>3. Formed' /\ Locked'
  BY <1>1, <1>2, LocksStay
<1> QED
  BY <1>3 DEF Local

(* An early return.                                                        *)
LEMMA QuitPut ==
    ASSUME LInv, NEW t \in Threads, NEW what, what \in {"exists", "settle"}, Doing(t, what), Quit(t)
    PROVE  Local(t)
<1> DEFINE c == call[t]
           d == call'[t]
           h == Head(c.todo)
           q == LastStep(t)
           e == [c EXCEPT !.todo = q, !.ok = FALSE]
<1>1. /\ c \in Calls /\ c # None /\ WellFormed(c.op, c.todo) /\ Fitting(c) /\ h.do = what
      /\ what \in Kinds(c.op) /\ (Nested(c.todo) => what \in Kinds("DeleteRecords"))
  BY Turn
<1>2. c.op # "CreateRecord" /\ ~Nested(c.todo)
  <2> HIDE DEF c
  <2> QED
    BY <1>1 DEF Kinds
<1>3. WellFormed(c.op, q) /\ ~Nested(q) /\ Head(q).do = "runlock" /\ q \in Seq(Steps)
  <2>1. q = <<c.todo[Len(c.todo)]>>
    BY DEF LastStep
  <2> HIDE DEF q, c
  <2>2. WellFormed(c.op, q) /\ ~Nested(q) /\ Head(q).do = "runlock"
    BY <1>1, <1>2, <2>1, LastWell
  <2> QED
    BY <2>2 DEF WellFormed
<1>4. call' = [call EXCEPT ![t] = e]
  BY DEF Quit
<1> HIDE DEF q
<1>5. e \in Calls
  BY <1>1, <1>3, CallTypes
<1>6. e.todo = q /\ e.op = c.op /\ e.ids = c.ids /\ ~e.ok
  <2> HIDE DEF c
  <2> QED
    BY <1>1 DEF Calls
<1>7. e.start = c.start /\ e.end = c.end
  <2> HIDE DEF c
  <2> QED
    BY <1>1 DEF Calls
<1> HIDE DEF e
<1>8. /\ call' \in [Threads -> Calls \cup {None}] /\ d = e
      /\ \A u \in Threads \ {t} : Alike(call[u], call'[u])
  BY <1>4, <1>5, Put
<1>9. d # None
  BY <1>5, <1>8, CallTypes
<1> HIDE DEF c, d
<1>10. Fitting(d)
  BY <1>1, <1>2, <1>3, <1>6, <1>7, <1>8 DEF Fitting, Storing, FallingBack
<1>11. Held(d) = {} /\ Held(c) = {} /\ ~Assigning(c) /\ ~Assigning(d) /\ Depth(d) = Depth(c)
  BY <1>1, <1>2, <1>3, <1>6, <1>8, <1>9 DEF Held, Assigning, Depth
<1> QED
  BY <1>3, <1>6, <1>8, <1>9, <1>10, <1>11 DEF c, d, Local

(* One of the nodes that a call asks at once has answered.                 *)
LEMMA LeftPut ==
    ASSUME LInv, NEW t \in Threads, NEW what, what \in {"exists", "work"}, Doing(t, what),
           NEW S \in SUBSET (Nodes \X {"ask", "delete", "refresh"}), what = "work" => S # {},
           call' = [call EXCEPT ![t].todo[1].left = S]
    PROVE  Local(t)
<1> DEFINE c == call[t]
           d == call'[t]
           h == Head(c.todo)
           q == [c.todo EXCEPT ![1].left = S]
           e == [c EXCEPT !.todo = q]
<1>1. /\ c \in Calls /\ c # None /\ WellFormed(c.op, c.todo) /\ Fitting(c) /\ h.do = what
      /\ h \in Steps
  BY Turn
<1>2. /\ WellFormed(c.op, q) /\ Head(q) = [h EXCEPT !.left = S]
      /\ Nested(q) <=> Nested(c.todo)
  <2> DEFINE todo == c.todo
             op == c.op
  <2>1. WellFormed(op, todo) /\ Head(todo).do \in {"exists", "work"}
    BY <1>1
  <2> HIDE DEF todo, op
  <2>2. LET new == [todo EXCEPT ![1].left = S] IN
        /\ WellFormed(op, new) /\ Head(new) = [Head(todo) EXCEPT !.left = S]
        /\ Nested(new) <=> Nested(todo)
    BY <2>1, LeftWell
  <2> QED
    BY <2>2 DEF todo, op
<1>3. Head(q).do = what /\ Head(q).left = S
  BY <1>1, <1>2 DEF Steps
<1>4. call' = [call EXCEPT ![t] = e]
  OBVIOUS
<1> HIDE DEF q
<1>5. e \in Calls
  BY <1>1, <1>2, CallTypes DEF WellFormed
<1>6. e.todo = q /\ e.op = c.op /\ e.ids = c.ids /\ e.ok = c.ok /\ e.good = c.good
  <2> HIDE DEF c
  <2> QED
    BY <1>1 DEF Calls
<1>7. e.start = c.start /\ e.end = c.end
  <2> HIDE DEF c
  <2> QED
    BY <1>1 DEF Calls
<1> HIDE DEF e
<1>8. /\ call' \in [Threads -> Calls \cup {None}] /\ d = e
      /\ \A u \in Threads \ {t} : Alike(call[u], call'[u])
  BY <1>4, <1>5, Put
<1>9. d # None
  BY <1>5, <1>8, CallTypes
<1> HIDE DEF c, d
<1>10. Fitting(d)
  BY <1>1, <1>2, <1>3, <1>6, <1>7, <1>8 DEF Fitting, Storing, FallingBack
<1>11. Held(d) = {} /\ Held(c) = {} /\ ~Assigning(c) /\ ~Assigning(d) /\ Depth(d) = Depth(c)
  BY <1>1, <1>2, <1>3, <1>6, <1>8, <1>9 DEF Held, Assigning, Depth
<1> QED
  BY <1>2, <1>6, <1>8, <1>9, <1>10, <1>11 DEF c, d, Local

LEMMA Rpc ==
    ASSUME LInv, NEW rpc \in Outcomes, Count(rpc[2])
    PROVE  /\ faults' \in 0 .. MaxFaults /\ rpc[1] \in BOOLEAN /\ rpc[2] \in BOOLEAN
           /\ rpc[2] => rpc[1]
           /\ faults <= faults' /\ (faults' = 0 => rpc[2] /\ faults = 0)
<1>1. faults \in 0 .. MaxFaults /\ MaxFaults \in Nat
  BY InternalAssumption DEF LInv, TypeOK
<1>2. CASE rpc = <<TRUE, TRUE>>
  BY <1>1, <1>2 DEF Count
<1>3. CASE faults < MaxFaults /\ rpc = <<TRUE, FALSE>>
  BY <1>1, <1>3 DEF Count
<1>4. CASE faults < MaxFaults /\ rpc = <<FALSE, FALSE>>
  BY <1>1, <1>4 DEF Count
<1> QED
  BY <1>2, <1>3, <1>4 DEF Outcomes

LEMMA ExistsInv ==
    ASSUME LInv, NEW t \in Threads, Exists(t)
    PROVE  LInv'
<1>1. Doing(t, "exists") /\ UNCHANGED <<data, counters, locks, history>>
  BY DEF Exists
<1>2. PICK w \in Now(t).left, rpc \in {o \in Outcomes : o[1]} :
        /\ IF rpc[2] /\ call[t].ids \subseteq data[w[1]] THEN Quit(t)
           ELSE IF Cardinality(Now(t).left) = 1 THEN Then(t, call[t])
           ELSE call' = [call EXCEPT ![t].todo[1].left = @ \ {w}]
        /\ Count(rpc[2])
  BY DEF Exists
<1>3. faults' \in 0 .. MaxFaults
  BY <1>2, Rpc
<1>4. Local(t)
  <2>1. CASE Quit(t)
    BY <1>1, <2>1, QuitPut
  <2>2. CASE Then(t, call[t])
    <3> DEFINE c == call[t]
               d == call'[t]
               h == Head(c.todo)
               r == Head(d.todo)
    <3>1. /\ c \in Calls /\ c # None /\ WellFormed(c.op, c.todo) /\ Fitting(c) /\ h.do = "exists"
          /\ "exists" \in Kinds(c.op)
      BY <1>1, <2>2, ThenTurn, Zenon
    <3>2. /\ call' \in [Threads -> Calls \cup {None}] /\ d \in Calls /\ d # None
          /\ \A u \in Threads \ {t} : Alike(call[u], call'[u])
          /\ d.op = c.op /\ d.ids = c.ids /\ d.start = c.start /\ d.end = c.end /\ d.ok = c.ok
          /\ d.good = c.good
          /\ WellFormed(d.op, d.todo) /\ Follows(h, r) /\ (Nested(d.todo) <=> Nested(c.todo))
      BY <1>1, <2>2, ThenTurn
    <3> HIDE DEF c, d
    <3>3. r = At("lock", 0) /\ c.op # "CreateRecordsWithId"
      BY <3>1, <3>2 DEF Follows, Kinds
    <3>4. r.do = "lock" /\ r.n = 0 /\ r.m = 0
      BY <3>3 DEF At, Act
    <3>5. Fitting(d)
      BY <3>1, <3>2, <3>3, <3>4 DEF Fitting
    <3>6. Held(d) = {} /\ Held(c) = {} /\ ~Assigning(c) /\ ~Assigning(d) /\ Depth(d) = Depth(c)
      BY <3>1, <3>2, <3>4 DEF Held, Assigning, Depth
    <3> QED
      BY <3>2, <3>5, <3>6 DEF Local, c, d
  <2>3. CASE call' = [call EXCEPT ![t].todo[1].left = @ \ {w}]
    <3> DEFINE S == call[t].todo[1].left \ {w}
    <3>1. Now(t) = call[t].todo[1] /\ Now(t) \in Steps
      BY <1>1, Turn, HeadWell
    <3>2. S \in SUBSET (Nodes \X {"ask", "delete", "refresh"})
      BY <3>1 DEF Steps
    <3>3. call' = [call EXCEPT ![t].todo[1].left = S]
      BY <2>3
    <3> HIDE DEF S
    <3> QED
      BY <1>1, <3>2, <3>3, LeftPut
  <2> QED
    BY <1>2, <2>1, <2>2, <2>3
<1>5. Formed' /\ Locked' /\ call' \in [Threads -> Calls \cup {None}]
  BY <1>1, <1>4, LocalLocks
<1>6. TypeOK' /\ Finite'
  BY <1>1, <1>3, <1>5 DEF LInv, TypeOK, Finite, counters, locks, history
<1> QED
  BY <1>5, <1>6 DEF LInv

LEMMA SettleInv ==
    ASSUME LInv, NEW t \in Threads, Settle(t)
    PROVE  LInv'
<1> DEFINE c == call[t]
           d == call'[t]
           h == Head(c.todo)
           r == Head(d.todo)
<1>1. Doing(t, "settle") /\ UNCHANGED <<data, counters, locks, faults, history>>
  BY DEF Settle
<1>2. /\ c \in Calls /\ c # None /\ WellFormed(c.op, c.todo) /\ Fitting(c) /\ h.do = "settle"
      /\ "settle" \in Kinds(c.op)
  BY <1>1, Turn
<1>3. c.op = "CreateRecordsWithId"
  <2> HIDE DEF c
  <2>1. c.op \in {"CreateRecord", "CreateRecordWithId", "CreateRecordsWithId", "DeleteRecords",
                 "ListRecords"}
    BY <1>2 DEF Calls
  <2> QED
    BY <1>2, <2>1 DEF Kinds
<1>4. Local(t)
  <2>1. CASE Quit(t)
    BY <1>1, <2>1, QuitPut
  <2>2. CASE Then(t, call[t])
    <3>1. /\ call' \in [Threads -> Calls \cup {None}] /\ d \in Calls /\ d # None
          /\ \A u \in Threads \ {t} : Alike(call[u], call'[u])
          /\ d.op = c.op /\ d.ids = c.ids /\ d.start = c.start /\ d.end = c.end /\ d.ok = c.ok
          /\ d.good = c.good
          /\ WellFormed(d.op, d.todo) /\ Follows(h, r) /\ (Nested(d.todo) <=> Nested(c.todo))
      BY <1>1, <2>2, ThenTurn
    <3> HIDE DEF c, d
    <3>2. r.do = "balance"
      BY <1>2, <3>1 DEF Follows
    <3>3. Fitting(d)
      BY <1>2, <3>1, <3>2 DEF Fitting, Storing, FallingBack
    <3>4. Held(d) = {} /\ Held(c) = {} /\ ~Assigning(c) /\ ~Assigning(d) /\ Depth(d) = Depth(c)
      BY <1>2, <3>1, <3>2 DEF Held, Assigning, Depth
    <3> QED
      BY <3>1, <3>3, <3>4 DEF Local, c, d
  <2>3. CASE /\ c.good # 0
             /\ call' = [call EXCEPT ![t].todo = <<At("lock", 0), Step("fallback")>> \o Tail(@)]
    <3> DEFINE q == <<At("lock", 0), Step("fallback")>> \o Tail(c.todo)
               e == [c EXCEPT !.todo = q]
    <3>1. /\ WellFormed(c.op, q) /\ ~Nested(q) /\ ~Nested(c.todo) /\ Head(q) = At("lock", 0)
      <4> DEFINE todo == c.todo
      <4>1. WellFormed("CreateRecordsWithId", todo) /\ Head(todo).do = "settle"
        BY <1>2, <1>3
      <4> HIDE DEF todo
      <4>2. LET new == <<At("lock", 0), Step("fallback")>> \o Tail(todo) IN
            /\ WellFormed("CreateRecordsWithId", new) /\ ~Nested(new) /\ ~Nested(todo)
            /\ Head(new) = At("lock", 0)
        BY <4>1, SettleWell
      <4> QED
        BY <1>3, <4>2 DEF todo
    <3>2. call' = [call EXCEPT ![t] = e]
      BY <2>3
    <3> HIDE DEF q
    <3>3. e \in Calls
      BY <1>2, <3>1, CallTypes DEF WellFormed
    <3>4. e.todo = q /\ e.op = c.op /\ e.ids = c.ids /\ e.ok = c.ok /\ e.good = c.good
      <4> HIDE DEF c
      <4> QED
        BY <1>2 DEF Calls
    <3>5. e.start = c.start /\ e.end = c.end
      <4> HIDE DEF c
      <4> QED
        BY <1>2 DEF Calls
    <3>6. e.good \in Nodes
      <4>1. c.good \in 0 .. N
        BY <1>2, CallTypes
      <4> QED
        BY <2>3, <3>4, <4>1, InternalAssumption DEF Nodes
    <3> HIDE DEF e
    <3>7. /\ call' \in [Threads -> Calls \cup {None}] /\ d = e
          /\ \A u \in Threads \ {t} : Alike(call[u], call'[u])
      BY <3>2, <3>3, Put
    <3>8. d # None
      BY <3>3, <3>7, CallTypes
    <3> HIDE DEF c, d
    <3>9. Head(q).do = "lock" /\ Head(q).n = 0 /\ Head(q).m = 0
      BY <3>1 DEF At, Act
    <3>10. Fitting(d)
      BY <1>2, <1>3, <3>1, <3>4, <3>5, <3>6, <3>7, <3>9 DEF Fitting, Storing, FallingBack
    <3>11. Held(d) = {} /\ Held(c) = {} /\ ~Assigning(c) /\ ~Assigning(d) /\ Depth(d) = Depth(c)
      BY <1>2, <1>3, <3>1, <3>4, <3>7, <3>8, <3>9 DEF Held, Assigning, Depth
    <3> QED
      BY <3>1, <3>4, <3>7, <3>8, <3>10, <3>11 DEF c, d, Local
  <2> QED
    BY <2>1, <2>2, <2>3 DEF Settle
<1>5. Formed' /\ Locked' /\ call' \in [Threads -> Calls \cup {None}]
  BY <1>1, <1>4, LocalLocks
<1>6. TypeOK' /\ Finite'
  BY <1>1, <1>5 DEF LInv, TypeOK, Finite, counters, locks, history
<1> QED
  BY <1>5, <1>6 DEF LInv

LEMMA UnsignedNat ==
    ASSUME NEW x \in Int
    PROVE  Unsigned(x) \in Nat
BY ModulusAssumption DEF Unsigned

LEMMA WorkPut ==
    ASSUME LInv, NEW t \in Threads, Doing(t, "work"),
           NEW S \in SUBSET (Nodes \X {"ask", "delete", "refresh"}), WorkLeft(t, S)
    PROVE  Local(t)
<1> DEFINE c == call[t]
           d == call'[t]
           h == Head(c.todo)
           r == Head(d.todo)
<1>1. /\ c \in Calls /\ c # None /\ WellFormed(c.op, c.todo) /\ Fitting(c) /\ h.do = "work"
  BY Turn
<1>2. CASE S = {}
  <2>1. Doing(t, "work") /\ Then(t, call[t])
    BY <1>2 DEF WorkLeft
  <2>2. /\ call' \in [Threads -> Calls \cup {None}] /\ d \in Calls /\ d # None
        /\ \A u \in Threads \ {t} : Alike(call[u], call'[u])
        /\ d.op = c.op /\ d.ids = c.ids /\ d.start = c.start /\ d.end = c.end /\ d.ok = c.ok
        /\ d.good = c.good
        /\ WellFormed(d.op, d.todo) /\ Follows(h, r) /\ (Nested(d.todo) <=> Nested(c.todo))
    BY <2>1, ThenTurn
  <2> HIDE DEF c, d
  <2>3. r.do = "balance"
    BY <1>1, <2>2 DEF Follows
  <2>4. Fitting(d)
    BY <1>1, <2>2, <2>3 DEF Fitting, Storing, FallingBack
  <2>5. Held(d) = {} /\ Held(c) = {} /\ ~Assigning(c) /\ ~Assigning(d) /\ Depth(d) = Depth(c)
    BY <1>1, <2>2, <2>3 DEF Held, Assigning, Depth
  <2> QED
    BY <2>2, <2>4, <2>5 DEF Local, c, d
<1>3. CASE S # {}
  <2>1. call' = [call EXCEPT ![t].todo[1].left = S]
    BY <1>3 DEF WorkLeft
  <2> QED
    BY <1>3, <2>1, LeftPut
<1> QED
  BY <1>2, <1>3

LEMMA WorkerDeleteInv ==
    ASSUME LInv, NEW t \in Threads, WorkerDelete(t)
    PROVE  LInv'
<1>1. Doing(t, "work") /\ UNCHANGED <<counters, locks, history>>
  BY DEF WorkerDelete
<1>2. PICK n \in Nodes, rpc \in Outcomes :
        /\ data' = IF rpc[1] THEN [data EXCEPT ![n] = @ \ call[t].ids] ELSE data
        /\ WorkLeft(t, (Now(t).left \ {<<n, "delete">>}) \cup {<<n, "refresh">>})
        /\ Count(rpc[2])
  BY DEF WorkerDelete
<1>3. faults' \in 0 .. MaxFaults
  BY <1>2, Rpc
<1>4. Local(t)
  <2> DEFINE S == (Now(t).left \ {<<n, "delete">>}) \cup {<<n, "refresh">>}
  <2>1. Now(t) \in Steps
    BY <1>1, Turn
  <2>2. S \in SUBSET (Nodes \X {"ask", "delete", "refresh"})
    BY <2>1 DEF Steps
  <2>3. WorkLeft(t, S)
    BY <1>2
  <2> HIDE DEF S
  <2> QED
    BY <1>1, <2>2, <2>3, WorkPut
<1>5. Formed' /\ Locked' /\ call' \in [Threads -> Calls \cup {None}]
  BY <1>1, <1>4, LocalLocks
<1>6. data' \in [Nodes -> SUBSET Nat] /\ Finite'
  <2>1. data \in [Nodes -> SUBSET Nat] /\ \A m \in Nodes : IsFiniteSet(data[m])
    BY DEF LInv, TypeOK, Finite
  <2>2. IsFiniteSet(data[n] \ call[t].ids)
    BY <2>1, FS_Subset
  <2> QED
    BY <1>2, <2>1, <2>2 DEF Finite
<1>7. TypeOK'
  BY <1>1, <1>3, <1>5, <1>6 DEF LInv, TypeOK, counters, locks, history
<1> QED
  BY <1>5, <1>6, <1>7 DEF LInv

LEMMA WorkerRefreshInv ==
    ASSUME LInv, NEW t \in Threads, WorkerRefresh(t)
    PROVE  LInv'
<1>1. Doing(t, "work") /\ UNCHANGED <<data, locks, history>>
  BY DEF WorkerRefresh
<1>2. PICK n \in Nodes, rpc \in {o \in Outcomes : o[1]} :
        /\ IF rpc[2]
           THEN /\ status' = [status EXCEPT ![n] = Cardinality(data[n])]
                /\ next' = [next EXCEPT ![n] = own[n]]
           ELSE UNCHANGED <<status, next>>
        /\ nextId' = Raised(next'[n])
        /\ WorkLeft(t, Now(t).left \ {<<n, "refresh">>})
        /\ Count(rpc[2])
  BY DEF WorkerRefresh
<1>3. faults' \in 0 .. MaxFaults
  BY <1>2, Rpc
<1>4. Local(t)
  <2> DEFINE S == Now(t).left \ {<<n, "refresh">>}
  <2>1. Now(t) \in Steps
    BY <1>1, Turn
  <2>2. S \in SUBSET (Nodes \X {"ask", "delete", "refresh"})
    BY <2>1 DEF Steps
  <2>3. WorkLeft(t, S)
    BY <1>2
  <2> HIDE DEF S
  <2> QED
    BY <1>1, <2>2, <2>3, WorkPut
<1>5. Formed' /\ Locked' /\ call' \in [Threads -> Calls \cup {None}]
  BY <1>1, <1>4, LocalLocks
<1>6. status' \in [Nodes -> Nat] /\ next' \in [Nodes -> Nat]
  <2>1. Cardinality(data[n]) \in Nat
    BY FS_CardinalityType DEF LInv, Finite
  <2> QED
    BY <1>2, <2>1 DEF LInv, TypeOK
<1>7. nextId' \in Nat
  BY <1>2, <1>6 DEF LInv, TypeOK, Raised
<1>8. TypeOK' /\ Finite'
  BY <1>1, <1>3, <1>5, <1>6, <1>7 DEF LInv, TypeOK, Finite, locks, history
<1> QED
  BY <1>5, <1>8 DEF LInv

LEMMA BalanceInv ==
    ASSUME LInv, NEW t \in Threads, Balance(t)
    PROVE  LInv'
<1> DEFINE c == call[t]
           d == call'[t]
           h == Head(c.todo)
           counts == [i \in 1 .. N |-> status[i]]
           q == PlanSteps(BalancePlan(counts)) \o Tail(c.todo)
           e == [c EXCEPT !.todo = q]
<1>1. Doing(t, "balance") /\ UNCHANGED <<data, counters, locks, faults, history>>
  BY DEF Balance
<1>2. /\ c \in Calls /\ c # None /\ WellFormed(c.op, c.todo) /\ Fitting(c) /\ h.do = "balance"
  BY <1>1, Turn
<1>3. /\ WellFormed(c.op, q) /\ (Nested(q) <=> Nested(c.todo))
      /\ Head(q).do \in {"compare", "runlock"} \/ (Head(q).do = "lock" /\ Head(q).m # 0)
  <2> DEFINE todo == c.todo
             op == c.op
  <2>1. WellFormed(op, todo) /\ Head(todo).do = "balance" /\ counts \in Seq(Int) /\ Len(counts) = N
    BY <1>2, CountsSeq
  <2> HIDE DEF todo, op, counts
  <2>2. LET new == PlanSteps(BalancePlan(counts)) \o Tail(todo) IN
        /\ WellFormed(op, new) /\ (Nested(new) <=> Nested(todo))
        /\ Head(new).do \in {"compare", "runlock"} \/ (Head(new).do = "lock" /\ Head(new).m # 0)
    BY <2>1, BalanceWell
  <2> QED
    BY <2>2 DEF todo, op
<1>4. call' = [call EXCEPT ![t] = e]
  BY DEF Balance
<1> HIDE DEF q
<1>5. e \in Calls
  BY <1>2, <1>3, CallTypes DEF WellFormed
<1>6. e.todo = q /\ e.op = c.op /\ e.ids = c.ids /\ e.ok = c.ok /\ e.good = c.good
  <2> HIDE DEF c
  <2> QED
    BY <1>2 DEF Calls
<1>7. e.start = c.start /\ e.end = c.end
  <2> HIDE DEF c
  <2> QED
    BY <1>2 DEF Calls
<1> HIDE DEF e
<1>8. /\ call' \in [Threads -> Calls \cup {None}] /\ d = e
      /\ \A u \in Threads \ {t} : Alike(call[u], call'[u])
  BY <1>4, <1>5, Put
<1>9. d # None
  BY <1>5, <1>8, CallTypes
<1> HIDE DEF c, d
<1>10. Fitting(d)
  BY <1>2, <1>3, <1>6, <1>7, <1>8 DEF Fitting, Storing, FallingBack
<1>11. Held(d) = {} /\ Held(c) = {} /\ ~Assigning(c) /\ ~Assigning(d) /\ Depth(d) = Depth(c)
  BY <1>2, <1>3, <1>6, <1>8, <1>9 DEF Held, Assigning, Depth
<1> QED
  BY <1>1, <1>3, <1>6, <1>8, <1>9, <1>10, <1>11, LocalInv DEF c, d

(* What ListRecords does to its own state; all else it leaves alone.       *)
Listing(t) ==
    LET c == call[t]
        d == call'[t]
    IN  /\ UNCHANGED <<data, counters, locks, faults, history>>
        /\ call' \in [Threads -> Calls \cup {None}] /\ c \in Calls /\ d \in Calls
        /\ \A u \in Threads \ {t} : call'[u] = call[u]
        /\ c.op = "ListRecords" /\ d.op = "ListRecords" /\ c.ids = {} /\ d.ids = {}
        /\ d.list = c.list /\ Fitting(d)
        /\ WellFormed(d.op, d.todo) /\ ~Nested(c.todo) /\ ~Nested(d.todo)
        /\ Head(c.todo).do \in {"list", "query"} /\ Head(d.todo).do \in {"list", "query", "runlock"}

LEMMA ListDoes ==
    ASSUME LInv, NEW t \in Threads, List(t) \/ Query(t)
    PROVE  Listing(t)
<1> DEFINE c == call[t]
           d == call'[t]
           h == Head(c.todo)
<1>1. PICK what \in {"list", "query"} :
        /\ Doing(t, what) /\ UNCHANGED <<data, counters, locks, faults, history>>
        /\ \/ Then(t, call[t])
           \/ what = "list" /\ Now(t).n # N /\ call' = [call EXCEPT ![t].todo[1].n = @ + 1]
  BY DEF List, Query
<1>2. /\ c \in Calls /\ c # None /\ WellFormed(c.op, c.todo) /\ Fitting(c) /\ h.do = what
      /\ what \in Kinds(c.op) /\ Proper(h) /\ Now(t) = h /\ h \in Steps
      /\ Nested(c.todo) => what \in Kinds("DeleteRecords")
  BY <1>1, Turn
<1>3. c.op = "ListRecords" /\ ~Nested(c.todo) /\ c.ids = {}
  <2> HIDE DEF c
  <2>1. c.op \in {"CreateRecord", "CreateRecordWithId", "CreateRecordsWithId", "DeleteRecords",
                 "ListRecords"}
    BY <1>2 DEF Calls
  <2>2. c.op = "ListRecords" /\ ~Nested(c.todo)
    BY <1>2, <2>1 DEF Kinds
  <2> QED
    BY <1>2, <2>2 DEF Fitting
<1>4. CASE Then(t, call[t])
  <2> DEFINE r == Head(d.todo)
  <2>1. /\ call' \in [Threads -> Calls \cup {None}] /\ d \in Calls
        /\ \A u \in Threads \ {t} : call'[u] = call[u]
        /\ d.op = c.op /\ d.ids = c.ids /\ d.list = c.list
        /\ WellFormed(d.op, d.todo) /\ Follows(h, r) /\ (Nested(d.todo) <=> Nested(c.todo))
    BY <1>1, <1>2, <1>4, ThenPut
  <2> HIDE DEF c, d
  <2>2. r.do \in {"query", "runlock"}
    BY <1>2, <2>1 DEF Follows
  <2>3. Fitting(d)
    BY <1>3, <2>1, <2>2 DEF Fitting, Storing, FallingBack
  <2> QED
    BY <1>1, <1>2, <1>3, <2>1, <2>2, <2>3 DEF Listing, c, d
<1>5. CASE what = "list" /\ Now(t).n # N /\ call' = [call EXCEPT ![t].todo[1].n = @ + 1]
  <2> DEFINE n == h.n + 1
             q == [c.todo EXCEPT ![1].n = n]
             e == [c EXCEPT !.todo = q]
  <2>1. n \in Nodes
    <3>1. h.n \in Nodes /\ h.n # N
      BY <1>2, <1>5 DEF Proper
    <3> QED
      BY <3>1, InternalAssumption DEF Nodes
  <2>2. c.todo[1] = h
    BY <1>2, HeadWell
  <2>3. call' = [call EXCEPT ![t] = e]
    BY <1>5, <2>2
  <2> HIDE DEF n
  <2>4. WellFormed(c.op, q) /\ Head(q).do = "list" /\ ~Nested(q)
    <3> DEFINE todo == c.todo
               op == c.op
    <3>1. WellFormed(op, todo) /\ Head(todo).do = "list" /\ ~Nested(todo)
      BY <1>2, <1>3, <1>5
    <3> HIDE DEF todo, op
    <3>2. LET new == [todo EXCEPT ![1].n = n] IN
          WellFormed(op, new) /\ Head(new).do = "list" /\ (Nested(new) <=> Nested(todo))
      BY <2>1, <3>1, ListWell
    <3> QED
      BY <3>1, <3>2 DEF todo, op
  <2> HIDE DEF q
  <2>5. e \in Calls
    BY <1>2, <2>4, CallTypes DEF WellFormed
  <2>6. e.todo = q /\ e.op = c.op /\ e.ids = c.ids /\ e.list = c.list
    <3> HIDE DEF c
    <3> QED
      BY <1>2 DEF Calls
  <2> HIDE DEF e
  <2>7. /\ call' \in [Threads -> Calls \cup {None}] /\ d = e
        /\ \A u \in Threads \ {t} : call'[u] = call[u]
    BY <2>3, <2>5, Put
  <2> HIDE DEF c, d
  <2>8. Fitting(d)
    BY <1>3, <2>4, <2>6, <2>7 DEF Fitting, Storing, FallingBack
  <2> QED
    BY <1>1, <1>2, <1>3, <2>4, <2>5, <2>6, <2>7, <2>8 DEF Listing, c, d
<1> QED
  BY <1>1, <1>4, <1>5

LEMMA ListInv ==
    ASSUME LInv, NEW t \in Threads, List(t) \/ Query(t)
    PROVE  LInv'
<1> DEFINE c == call[t]
           d == call'[t]
<1>1. Listing(t)
  BY ListDoes
<1>2. /\ UNCHANGED <<data, counters, locks, faults, history>>
      /\ call' \in [Threads -> Calls \cup {None}] /\ d \in Calls /\ c \in Calls
      /\ WellFormed(d.op, d.todo) /\ Fitting(d) /\ c.op = d.op /\ c.op = "ListRecords"
      /\ ~Nested(c.todo) /\ ~Nested(d.todo)
      /\ Head(c.todo).do \in {"list", "query"} /\ Head(d.todo).do \in {"list", "query", "runlock"}
  BY <1>1 DEF Listing
<1>3. \A u \in Threads \ {t} : Alike(call[u], call'[u])
  BY <1>1 DEF Listing, Alike
<1>4. c # None /\ d # None
  BY <1>2, CallTypes
<1> HIDE DEF c, d
<1>5. Held(d) = {} /\ Held(c) = {} /\ ~Assigning(c) /\ ~Assigning(d) /\ Depth(d) = Depth(c)
  BY <1>2, <1>4 DEF Held, Assigning, Depth
<1> QED
  BY <1>2, <1>3, <1>4, <1>5, LocalInv DEF c, d

-----------------------------------------------------------------------------
(* Numbers and what the nodes store.                                       *)

LEMMA MaxTop ==
    ASSUME NEW S, S \subseteq Int, S # {}, NEW b \in Nat, \A y \in S : -1 <= y /\ y <= b
    PROVE  Max(S) \in S /\ \A y \in S : y <= Max(S)
<1> DEFINE T == {k \in Nat : \A y \in S : y <= k - 1}
<1>1. T \subseteq Nat /\ b + 1 \in T
  OBVIOUS
<1> HIDE DEF T
<1>2. PICK x \in T : \A y \in T : x <= y
  BY <1>1, NatMin
<1>3. x \in Nat /\ \A y \in S : y <= x - 1
  BY <1>2 DEF T
<1>4. ASSUME x - 1 \notin S PROVE FALSE
  <2>1. \A y \in S : y \in Int /\ y <= (x - 1) - 1 /\ -1 <= y
    BY <1>3, <1>4
  <2>2. x - 1 \in Nat
    <3>1. PICK y \in S : y \in Int /\ y <= (x - 1) - 1 /\ -1 <= y
      BY <2>1
    <3> QED
      BY <1>3, <3>1
  <2>3. x - 1 \in T
    BY <2>1, <2>2 DEF T
  <2> QED
    BY <1>2, <1>3, <2>3
<1>5. \E z \in S : \A y \in S : z >= y
  BY <1>3, <1>4
<1>6. Max(S) \in S /\ \A y \in S : Max(S) >= y
  BY <1>5 DEF Max
<1> QED
  BY <1>6

(* A finite set of naturals has a bound.                                   *)
LEMMA FiniteTop ==
    ASSUME NEW S, S \subseteq Nat, IsFiniteSet(S)
    PROVE  \E b \in Nat : \A y \in S : y <= b
<1> DEFINE G == {n \in Nat : \A f \in [1 .. n -> Nat] : \E b \in Nat : \A i \in 1 .. n : f[i] <= b}
<1>1. 0 \in G
  <2>1. \A f \in [1 .. 0 -> Nat] : \A i \in 1 .. 0 : f[i] <= 0
    OBVIOUS
  <2> QED
    BY <2>1
<1>2. ASSUME NEW n \in Nat, n \in G PROVE n + 1 \in G
  <2>0. n + 1 \in Nat
    OBVIOUS
  <2> SUFFICES ASSUME NEW f \in [1 .. n + 1 -> Nat]
               PROVE  \E b \in Nat : \A i \in 1 .. n + 1 : f[i] <= b
    BY <2>0, Zenon
  <2> DEFINE g == [i \in 1 .. n |-> f[i]]
  <2>1. g \in [1 .. n -> Nat]
    OBVIOUS
  <2>2. PICK b \in Nat : \A i \in 1 .. n : g[i] <= b
    BY <1>2, <2>1
  <2>3. f[n + 1] \in Nat
    OBVIOUS
  <2>4. \A i \in 1 .. n + 1 : f[i] \in Nat /\ (i = n + 1 \/ f[i] <= b)
    BY <2>2
  <2>5. b + f[n + 1] \in Nat /\ \A i \in 1 .. n + 1 : f[i] <= b + f[n + 1]
    BY <2>3, <2>4
  <2> QED
    BY <2>5
<1> HIDE DEF G
<1>3. Nat \subseteq G
  BY <1>1, <1>2, Induct
<1>4. PICK n \in Nat : ExistsSurjection(1 .. n, S)
  BY FS_NatSurjection
<1>5. PICK f \in [1 .. n -> S] : \A y \in S : \E i \in 1 .. n : f[i] = y
  BY <1>4 DEF ExistsSurjection, Surjection
<1>6. f \in [1 .. n -> Nat] /\ n \in G
  BY <1>3, <1>5
<1>7. PICK b \in Nat : \A i \in 1 .. n : f[i] <= b
  BY <1>6 DEF G
<1> QED
  BY <1>5, <1>7

(* A call changes what one node stores.                                    *)
LEMMA BatchTypes ==
    ASSUME LInv, NEW n \in Nodes, NEW ids, ids \subseteq Nat, IsFiniteSet(ids),
           NEW acted, NEW told, data' \in BatchData(n, ids, acted, told)
    PROVE  /\ data' \in [Nodes -> SUBSET Nat] /\ Finite'
           /\ \A m \in Nodes \ {n} : data'[m] = data[m]
<1>1. data \in [Nodes -> SUBSET Nat] /\ \A m \in Nodes : IsFiniteSet(data[m])
  BY DEF LInv, TypeOK, Finite
<1>2. IsFiniteSet(data[n] \ ids) /\ IsFiniteSet(data[n] \cup ids)
  BY <1>1, FS_Subset, FS_Union
<1>3. \/ data' = data \/ data' = [data EXCEPT ![n] = @ \cup ids]
      \/ data' = [data EXCEPT ![n] = @ \ ids]
  BY DEF BatchData
<1>4. data' \in [Nodes -> SUBSET Nat] /\ \A m \in Nodes \ {n} : data'[m] = data[m]
  BY <1>1, <1>3
<1>5. data'[n] \in {data[n], data[n] \cup ids, data[n] \ ids}
  BY <1>1, <1>3
<1>6. Finite'
  BY <1>1, <1>2, <1>4, <1>5 DEF Finite
<1> QED
  BY <1>4, <1>6

LEMMA TopType ==
    ASSUME NEW ids, ids \subseteq Ids
    PROVE  Max(ids \cup {0}) \in Nat
<1> DEFINE S == ids \cup {0}
<1>1. MaxId \in Nat /\ S \subseteq Int /\ S \subseteq Nat /\ S # {}
      /\ \A y \in S : -1 <= y /\ y <= MaxId
  BY InternalAssumption DEF Ids
<1> HIDE DEF S
<1>2. Max(S) \in S
  BY <1>1, MaxTop
<1> QED
  BY <1>1, <1>2 DEF S

(* The RPC of goroutine t was answered, nextId has to be raised.           *)
LEMMA StampPut ==
    ASSUME LInv, NEW t \in Threads, NEW what \in {"create", "store", "fallback"}, Doing(t, what),
           NEW x \in Calls, x.todo = call[t].todo, x.op = call[t].op,
           NEW k \in Nat \ {0}, GoOn(t, x, k)
    PROVE  LET d == call'[t]
               g == Head(d.todo) IN
           /\ call' \in [Threads -> Calls \cup {None}] /\ d \in Calls /\ d # None
           /\ \A u \in Threads \ {t} : Alike(call[u], call'[u])
           /\ \A u \in Threads \ {t} : call'[u] = call[u]
           /\ Tail(d.todo) = Tail(call[t].todo)
           /\ d.op = call[t].op /\ d.ids = x.ids
           /\ d.start = x.start /\ d.end = x.end /\ d.good = x.good /\ d.list = x.list /\ d.ok = x.ok
           /\ WellFormed(d.op, d.todo) /\ (Nested(d.todo) <=> Nested(call[t].todo))
           /\ g.do = what /\ g.n = Now(t).n /\ g.m = Now(t).m /\ g.k = k
<1> DEFINE c == call[t]
           q == [c.todo EXCEPT ![1].k = k]
           e == [x EXCEPT !.todo = q]
<1>1. /\ c # None /\ c \in Calls /\ WellFormed(c.op, c.todo) /\ Now(t) = Head(c.todo)
      /\ Head(c.todo).do = what
  BY Turn
<1>2. /\ WellFormed(c.op, q) /\ Tail(q) = Tail(c.todo) /\ (Nested(q) <=> Nested(c.todo))
      /\ Head(q).do = what /\ Head(q).n = Now(t).n /\ Head(q).m = Now(t).m /\ Head(q).k = k
  <2> DEFINE todo == c.todo
             op == c.op
  <2>1. WellFormed(op, todo) /\ Head(todo).do \in {"create", "store", "fallback"} /\ k \in Nat
    BY <1>1
  <2> HIDE DEF todo, op
  <2>2. LET new == [todo EXCEPT ![1].k = k]
            h == Head(new) IN
        /\ WellFormed(op, new) /\ Tail(new) = Tail(todo)
        /\ h.do = Head(todo).do /\ h.n = Head(todo).n /\ h.m = Head(todo).m /\ h.k = k
        /\ Nested(new) <=> Nested(todo)
    BY <2>1, StampWell
  <2> QED
    BY <1>1, <2>2 DEF todo, op
<1>3. call' = [call EXCEPT ![t] = e]
  BY DEF GoOn
<1> HIDE DEF q
<1>4. /\ e \in Calls /\ e.todo = q /\ e.op = x.op /\ e.ids = x.ids
      /\ e.start = x.start /\ e.end = x.end /\ e.good = x.good /\ e.list = x.list /\ e.ok = x.ok
  <2>1. e \in Calls
    BY <1>2, CallTypes DEF WellFormed
  <2>2. e.todo = q /\ e.op = x.op /\ e.ids = x.ids
    BY DEF Calls
  <2>3. e.start = x.start /\ e.end = x.end /\ e.good = x.good /\ e.list = x.list /\ e.ok = x.ok
    BY DEF Calls
  <2> QED
    BY <2>1, <2>2, <2>3
<1> HIDE DEF e
<1>6. /\ call' \in [Threads -> Calls \cup {None}] /\ call'[t] = e
      /\ \A u \in Threads \ {t} : Alike(call[u], call'[u]) /\ call'[u] = call[u]
  BY <1>3, <1>4, Put
<1>7. e # None
  BY <1>4, CallTypes
<1> QED
  BY <1>2, <1>4, <1>6, <1>7

(* Goroutine t goes on, or returns, and gives its locks of nodes back.     *)
LEMMA GivenBack ==
    ASSUME LInv, NEW t \in Threads, Sane(call'[t]),
           \A u \in Threads \ {t} : Alike(call[u], call'[u]),
           Held(call'[t]) = {}, ~Assigning(call'[t]), Depth(call'[t]) = Depth(call[t]),
           nodeLock' = [n \in Nodes |-> IF n \in Held(call[t]) THEN None ELSE nodeLock[n]],
           idLock' = IF Assigning(call[t]) THEN None ELSE idLock, reads' = reads
    PROVE  Formed' /\ Locked' /\ nodeLock' \in [Nodes -> Threads \cup {None}]
<1>1. /\ nodeLock' \in [Nodes -> Threads \cup {None}]
      /\ \A m \in Nodes :
            nodeLock'[m] = IF m \in Held(call'[t]) THEN t
                           ELSE IF m \in Held(call[t]) THEN None ELSE nodeLock[m]
      /\ \A m \in Nodes : m \in Held(call'[t]) => nodeLock[m] = None \/ m \in Held(call[t])
  BY GiveLocks
<1>2. \A u \in Threads : reads'[u] = IF u = t THEN Depth(call'[t]) ELSE reads[u]
  BY DEF LInv, Locked
<1>3. Formed' /\ Locked'
  BY <1>1, <1>2, Goes
<1> QED
  BY <1>1, <1>3

(* One node is unlocked that t held.                                       *)
LEMMA OneGiven ==
    ASSUME LInv, NEW t, NEW n \in Nodes, Held(call[t]) = {n}, nodeLock' = [nodeLock EXCEPT ![n] = None]
    PROVE  nodeLock' = [m \in Nodes |-> IF m \in Held(call[t]) THEN None ELSE nodeLock[m]]
<1>1. nodeLock \in [Nodes -> Threads \cup {None}]
  BY DEF LInv, TypeOK
<1> QED
  BY <1>1

(* The lock of the node is given back unless nextId has to be raised.      *)
LEMMA KeptBack ==
    ASSUME LInv, NEW t \in Threads, NEW n \in Nodes, NEW k, KeepLock(n, k), Sane(call'[t]),
           \A u \in Threads \ {t} : Alike(call[u], call'[u]),
           Held(call[t]) = {n}, Held(call'[t]) = IF k = 0 THEN {} ELSE {n},
           ~Assigning(call[t]), ~Assigning(call'[t]), Depth(call'[t]) = Depth(call[t]),
           idLock' = idLock, reads' = reads
    PROVE  Formed' /\ Locked' /\ nodeLock' \in [Nodes -> Threads \cup {None}]
<1>1. CASE k = 0
  <2>1. nodeLock' = [m \in Nodes |-> IF m \in Held(call[t]) THEN None ELSE nodeLock[m]]
    BY <1>1, OneGiven DEF KeepLock
  <2> QED
    BY <1>1, <2>1, GivenBack
<1>2. CASE k # 0
  <2>1. nodeLock' = nodeLock
    BY <1>2 DEF KeepLock
  <2>2. /\ \A m \in Nodes : m \in Held(call[t]) => nodeLock[m] = t
        /\ reads[t] = Depth(call[t]) /\ nodeLock \in [Nodes -> Threads \cup {None}]
    BY DEF LInv, Locked, TypeOK
  <2>3. Formed' /\ Locked'
    BY <1>2, <2>1, <2>2, Goes
  <2> QED
    BY <2>1, <2>2, <2>3
<1> QED
  BY <1>1, <1>2

LEMMA AssignInv ==
    ASSUME LInv, NEW t \in Threads, Assign(t)
    PROVE  LInv'
<1> DEFINE c == call[t]
           d == call'[t]
           n == c.good
<1>1. /\ Doing(t, "assign") /\ idLock' = None /\ call' = [call EXCEPT ![t] = None]
      /\ UNCHANGED <<reads, writer, own, calls, slipped>>
  BY DEF Assign
<1>2. /\ c \in Calls /\ c # None /\ WellFormed(c.op, c.todo) /\ Fitting(c) /\ Head(c.todo).do = "assign"
      /\ "assign" \in Kinds(c.op)
  BY <1>1, Turn
<1>3. PICK rpc \in Outcomes :
        /\ raced' = raced \cup ({nextId} \cap InProgress(t))
        /\ data' = IF rpc[1] THEN [data EXCEPT ![n] = @ \cup {nextId}] ELSE data
        /\ IF rpc[2] /\ nextId \notin data[n]
           THEN /\ nextId' = nextId + 1
                /\ status' = [status EXCEPT ![n] = Unsigned(@ + 1)]
                /\ next' = [next EXCEPT ![n] = nextId + 1]
                /\ acked' = acked \cup ({nextId} \ raced')
           ELSE UNCHANGED <<counters, acked>>
        /\ nodeLock' = [nodeLock EXCEPT ![n] = None]
        /\ Count(rpc[2])
  BY DEF Assign
<1>4. /\ call' \in [Threads -> Calls \cup {None}] /\ d = None
      /\ \A u \in Threads \ {t} : Alike(call[u], call'[u])
  BY <1>1, Put
<1>5. faults' \in 0 .. MaxFaults
  BY <1>3, Rpc
<1>6. n \in Nodes
  <2> HIDE DEF c
  <2> QED
    BY <1>2 DEF Fitting
<1>7. c.op = "CreateRecord"
  <2> HIDE DEF c
  <2>1. c.op \in {"CreateRecord", "CreateRecordWithId", "CreateRecordsWithId", "DeleteRecords",
                 "ListRecords"}
    BY <1>2 DEF Calls
  <2> QED
    BY <1>2, <2>1 DEF Kinds
<1>8. data' \in [Nodes -> SUBSET Nat] /\ Finite'
  <2>1. data \in [Nodes -> SUBSET Nat] /\ nextId \in Nat /\ \A m \in Nodes : IsFiniteSet(data[m])
    BY DEF LInv, TypeOK, Finite
  <2>2. IsFiniteSet(data[n] \cup {nextId})
    BY <1>6, <2>1, FS_AddElement
  <2> QED
    BY <1>3, <2>1, <2>2 DEF Finite
<1>9. status' \in [Nodes -> Nat] /\ next' \in [Nodes -> Nat] /\ nextId' \in Nat
  <2>1. status \in [Nodes -> Nat] /\ next \in [Nodes -> Nat] /\ nextId \in Nat
    BY DEF LInv, TypeOK
  <2>2. Unsigned(status[n] + 1) \in Nat
    BY <1>6, <2>1, UnsignedNat
  <2> QED
    BY <1>3, <2>1, <2>2 DEF counters
<1>10. raced' \subseteq Nat /\ acked' \subseteq Nat
  BY <1>3 DEF LInv, TypeOK
<1> HIDE DEF c, d
<1>11. /\ Sane(d) /\ Held(d) = {} /\ ~Assigning(d) /\ Depth(d) = Depth(c)
       /\ Held(c) = {n} /\ Assigning(c)
  BY <1>2, <1>4, <1>7 DEF Sane, Held, Assigning, Depth
<1>12. nodeLock' = [m \in Nodes |-> IF m \in Held(call[t]) THEN None ELSE nodeLock[m]]
  BY <1>3, <1>6, <1>11, OneGiven DEF c
<1>13. Formed' /\ Locked' /\ nodeLock' \in [Nodes -> Threads \cup {None}]
  BY <1>1, <1>4, <1>11, <1>12, GivenBack DEF c, d
<1>14. TypeOK'
  BY <1>1, <1>4, <1>5, <1>8, <1>9, <1>10, <1>13 DEF LInv, TypeOK
<1> QED
  BY <1>8, <1>13, <1>14 DEF LInv

(* What CreateRecordWithId does when its RPC returns.                      *)
Created(t, rpc, id, k) ==
    LET c == call[t]
        d == call'[t]
        n == c.good
        fresh == rpc[2] /\ id \notin data[n]
    IN  /\ data' = IF rpc[1] THEN [data EXCEPT ![n] = @ \cup {id}] ELSE data
        /\ IF fresh
           THEN /\ k = (IF next[n] <= id THEN id + 1 ELSE next[n]) /\ k # 0
                /\ status' = [status EXCEPT ![n] = Unsigned(@ + 1)]
                /\ next' = [next EXCEPT ![n] = k]
           ELSE k = 0 /\ UNCHANGED <<status, next>>
        /\ KeepLock(n, k) /\ Count(rpc[2]) /\ UNCHANGED <<nextId, reads, writer, idLock, own>>
        /\ UNCHANGED <<calls, acked, raced>>
        /\ slipped' = IF c.still THEN slipped ELSE slipped \cup c.ids
        /\ n \in Nodes /\ id \in Nat /\ c.ids = {id} /\ c.op = "CreateRecordWithId" /\ c # None
        /\ Head(c.todo).do = "create" /\ Head(c.todo).k = 0 /\ c.ids \subseteq Nat
        /\ call' \in [Threads -> Calls \cup {None}] /\ d \in Calls /\ d # None
        /\ \A u \in Threads \ {t} : Alike(call[u], call'[u])
        /\ \A u \in Threads \ {t} : call'[u] = call[u]
        /\ d.op = c.op /\ d.ids = c.ids /\ d.good = n /\ d.list = c.list /\ d.ok = fresh
        /\ WellFormed(d.op, d.todo) /\ ~Nested(d.todo) /\ ~Nested(c.todo)
        /\ IF k = 0 THEN Head(d.todo).do = "runlock"
           ELSE Head(d.todo).do = "create" /\ Head(d.todo).k = k /\ Head(d.todo).n = 0

LEMMA CreateDoes ==
    ASSUME LInv, NEW t \in Threads, Create(t)
    PROVE  \E rpc \in Outcomes, id \in call[t].ids, k \in Nat : Created(t, rpc, id, k)
<1> DEFINE c == call[t]
           d == call'[t]
           h == Head(c.todo)
           r == Head(d.todo)
           n == c.good
<1>1. /\ Doing(t, "create") /\ UNCHANGED <<nextId, reads, writer, idLock, own, calls, acked, raced>>
      /\ slipped' = IF call[t].still THEN slipped ELSE slipped \cup call[t].ids
      /\ Now(t).k = 0
  BY DEF Create
<1>2. /\ c \in Calls /\ c # None /\ WellFormed(c.op, c.todo) /\ Fitting(c) /\ h.do = "create"
      /\ "create" \in Kinds(c.op) /\ Now(t) = h /\ Proper(h)
      /\ Nested(c.todo) => "create" \in Kinds("DeleteRecords")
  BY <1>1, Turn
<1>3. PICK rpc \in Outcomes, id \in c.ids :
        LET fresh == id \notin data[n]
            higher == IF next[n] <= id THEN id + 1 ELSE next[n]
            k == IF rpc[2] /\ fresh THEN higher ELSE 0
        IN  /\ data' = IF rpc[1] THEN [data EXCEPT ![n] = @ \cup {id}] ELSE data
            /\ IF rpc[2] /\ fresh
               THEN /\ status' = [status EXCEPT ![n] = Unsigned(@ + 1)]
                    /\ next' = [next EXCEPT ![n] = higher]
               ELSE UNCHANGED <<status, next>>
            /\ GoOn(t, [c EXCEPT !.ok = rpc[2] /\ fresh], k)
            /\ KeepLock(n, k)
            /\ Count(rpc[2])
  BY DEF Create
<1> DEFINE fresh == rpc[2] /\ id \notin data[n]
           k == IF fresh THEN IF next[n] <= id THEN id + 1 ELSE next[n] ELSE 0
           x == [c EXCEPT !.ok = fresh]
<1>4. n \in Nodes /\ c.op = "CreateRecordWithId" /\ ~Nested(c.todo) /\ Cardinality(c.ids) = 1
  <2> HIDE DEF c
  <2>1. c.op \in {"CreateRecord", "CreateRecordWithId", "CreateRecordsWithId", "DeleteRecords",
                 "ListRecords"}
    BY <1>2 DEF Calls
  <2>2. c.op = "CreateRecordWithId" /\ ~Nested(c.todo)
    BY <1>2, <2>1 DEF Kinds
  <2> QED
    BY <1>2, <2>2 DEF Fitting
<1>5. id \in Nat /\ c.ids \subseteq Nat /\ c.ids = {id}
  <2>1. id \in Nat /\ c.ids \subseteq Nat
    BY <1>2, <1>3, CallIds
  <2>2. IsFiniteSet(c.ids)
    BY <1>2, CallTypes, IdsFinite
  <2>3. \A y \in c.ids : y = id
    <3> DEFINE S == c.ids
    <3>1. IsFiniteSet(S) /\ Cardinality(S) = 1 /\ id \in S
      BY <1>3, <1>4, <2>2
    <3> HIDE DEF S
    <3>2. \E y : S = {y}
      BY <3>1, FS_Singleton
    <3> QED
      BY <3>1, <3>2 DEF S
  <2> QED
    BY <1>3, <2>1, <2>3
<1>6. k \in Nat /\ (fresh => k # 0) /\ (~fresh => k = 0) /\ fresh \in BOOLEAN
  <2>1. next[n] \in Nat
    BY <1>4 DEF LInv, TypeOK
  <2>2. fresh => next[n] # 0 \/ next[n] <= id
    BY <1>5, <2>1
  <2> QED
    BY <1>5, <2>1, <2>2
<1>7. GoOn(t, x, k) /\ KeepLock(n, k) /\ Count(rpc[2])
  BY <1>3
<1>8. x \in Calls
  BY <1>2, <1>6, CallTypes
<1> HIDE DEF fresh, k
<1>9. x.todo = c.todo /\ x.op = c.op /\ x.ids = c.ids /\ x.ok = fresh /\ x.good = n /\ x.list = c.list
  <2> HIDE DEF c
  <2> QED
    BY <1>2 DEF Calls
<1> HIDE DEF x
<1>10. /\ call' \in [Threads -> Calls \cup {None}] /\ d \in Calls /\ d # None
       /\ \A u \in Threads \ {t} : Alike(call[u], call'[u])
       /\ \A u \in Threads \ {t} : call'[u] = call[u]
       /\ d.op = c.op /\ d.ids = c.ids /\ d.good = n /\ d.list = c.list /\ d.ok = fresh
       /\ WellFormed(d.op, d.todo) /\ ~Nested(d.todo)
       /\ IF k = 0 THEN r.do = "runlock" ELSE r.do = "create" /\ r.k = k /\ r.n = 0
  <2>1. CASE k = 0
    <3>1. Then(t, x)
      BY <1>7, <2>1 DEF GoOn, Then
    <3>2. /\ call' \in [Threads -> Calls \cup {None}] /\ d \in Calls /\ d # None
          /\ \A u \in Threads \ {t} : Alike(call[u], call'[u])
          /\ \A u \in Threads \ {t} : call'[u] = call[u]
          /\ d.op = c.op /\ d.ids = c.ids /\ d.good = n /\ d.list = c.list /\ d.ok = fresh
          /\ WellFormed(d.op, d.todo) /\ Follows(h, r) /\ (Nested(d.todo) <=> Nested(c.todo))
      BY <1>1, <1>2, <1>8, <1>9, <3>1, ThenPut
    <3> HIDE DEF c, d
    <3>3. r.do = "runlock"
      BY <1>2, <3>2 DEF Follows
    <3> QED
      BY <1>4, <2>1, <3>2, <3>3
  <2>2. CASE k # 0
    <3>1. k \in Nat \ {0} /\ "create" \in {"create", "store", "fallback"} /\ h.n = 0
      BY <1>2, <1>6, <2>2 DEF Proper
    <3>2. /\ call' \in [Threads -> Calls \cup {None}] /\ d \in Calls /\ d # None
          /\ \A u \in Threads \ {t} : Alike(call[u], call'[u])
          /\ \A u \in Threads \ {t} : call'[u] = call[u]
          /\ d.op = c.op /\ d.ids = c.ids /\ d.good = n /\ d.list = c.list /\ d.ok = fresh
          /\ WellFormed(d.op, d.todo) /\ (Nested(d.todo) <=> Nested(c.todo))
          /\ r.do = "create" /\ r.n = Now(t).n /\ r.k = k
      BY <1>1, <1>2, <1>7, <1>8, <1>9, <3>1, StampPut
    <3> QED
      BY <1>2, <1>4, <2>2, <3>1, <3>2
  <2> QED
    BY <2>1, <2>2
<1>11. IF fresh
       THEN /\ k = (IF next[n] <= id THEN id + 1 ELSE next[n]) /\ k # 0
            /\ status' = [status EXCEPT ![n] = Unsigned(@ + 1)] /\ next' = [next EXCEPT ![n] = k]
       ELSE k = 0 /\ UNCHANGED <<status, next>>
  BY <1>3, <1>6 DEF fresh, k
<1>12. Created(t, rpc, id, k)
  BY <1>1, <1>2, <1>3, <1>4, <1>5, <1>7, <1>10, <1>11 DEF Created, fresh
<1> QED
  BY <1>3, <1>6, <1>12

LEMMA CreateInv ==
    ASSUME LInv, NEW t \in Threads, Create(t)
    PROVE  LInv'
<1> DEFINE c == call[t]
           d == call'[t]
           n == c.good
<1>1. PICK rpc \in Outcomes, id \in c.ids, k \in Nat : Created(t, rpc, id, k)
  BY CreateDoes
<1>2. /\ data' = IF rpc[1] THEN [data EXCEPT ![n] = @ \cup {id}] ELSE data
      /\ \/ /\ status' = [status EXCEPT ![n] = Unsigned(@ + 1)] /\ next' = [next EXCEPT ![n] = k]
         \/ UNCHANGED <<status, next>>
      /\ UNCHANGED <<nextId, reads, writer, idLock, own, calls, acked, raced>>
      /\ slipped' = IF c.still THEN slipped ELSE slipped \cup c.ids
      /\ n \in Nodes /\ id \in Nat /\ c.ids \subseteq Nat /\ c.ids = {id}
      /\ KeepLock(n, k) /\ Count(rpc[2])
      /\ call' \in [Threads -> Calls \cup {None}]
      /\ \A u \in Threads \ {t} : Alike(call[u], call'[u])
  BY <1>1 DEF Created
<1>3. /\ c.op = "CreateRecordWithId" /\ d.op = c.op /\ d.ids = c.ids /\ d.good = n /\ c # None
      /\ d # None /\ WellFormed(d.op, d.todo) /\ ~Nested(d.todo) /\ ~Nested(c.todo)
      /\ Head(c.todo).do = "create"
      /\ IF k = 0 THEN Head(d.todo).do = "runlock" ELSE Head(d.todo).do = "create"
  BY <1>1 DEF Created
<1>4. faults' \in 0 .. MaxFaults
  BY <1>2, Rpc
<1>5. data' \in [Nodes -> SUBSET Nat] /\ Finite'
  <2>1. data \in [Nodes -> SUBSET Nat] /\ \A m \in Nodes : IsFiniteSet(data[m])
    BY DEF LInv, TypeOK, Finite
  <2>2. IsFiniteSet(data[n] \cup {id})
    BY <1>2, <2>1, FS_AddElement
  <2> QED
    BY <1>2, <2>1, <2>2 DEF Finite
<1>6. status' \in [Nodes -> Nat] /\ next' \in [Nodes -> Nat]
  <2>1. status \in [Nodes -> Nat] /\ next \in [Nodes -> Nat]
    BY DEF LInv, TypeOK
  <2>2. Unsigned(status[n] + 1) \in Nat
    BY <1>2, <2>1, UnsignedNat
  <2> QED
    BY <1>2, <2>1, <2>2
<1>7. slipped' \subseteq Nat
  BY <1>2 DEF LInv, TypeOK
<1> HIDE DEF c, d
<1>8. Fitting(d)
  <2>1. Cardinality(d.ids) = 1
    BY <1>2, <1>3, FS_Singleton
  <2> QED
    BY <1>2, <1>3, <2>1 DEF Fitting, Storing, FallingBack
<1>9. /\ Sane(d) /\ Held(d) = (IF k = 0 THEN {} ELSE {n}) /\ ~Assigning(d) /\ Depth(d) = Depth(c)
      /\ Held(c) = {n} /\ ~Assigning(c)
  <2>1. Sane(d)
    BY <1>3, <1>8 DEF Sane
  <2>2. Depth(d) = Depth(c) /\ ~Assigning(d) /\ ~Assigning(c)
    BY <1>3 DEF Depth, Assigning
  <2>3. Held(c) = {n} /\ Held(d) = (IF k = 0 THEN {} ELSE {n})
    BY <1>3 DEF Held
  <2> QED
    BY <2>1, <2>2, <2>3
<1>10. Formed' /\ Locked' /\ nodeLock' \in [Nodes -> Threads \cup {None}]
  BY <1>2, <1>9, KeptBack DEF c, d
<1>11. TypeOK'
  BY <1>2, <1>4, <1>5, <1>6, <1>7, <1>10 DEF LInv, TypeOK
<1> QED
  BY <1>5, <1>10, <1>11 DEF LInv

(* The nodes' shares add up to the records of a batch.                     *)
LEMMA PassedAdds ==
    ASSUME NEW ids, Cardinality(ids) \in Nat, NEW i \in Nodes
    PROVE  /\ Passed(ids, i - 1) + Share(Cardinality(ids), N, i) = Passed(ids, i)
           /\ Share(Cardinality(ids), N, i) \in Nat
           /\ Passed(ids, N) = Cardinality(ids) /\ Passed(ids, 0) = 0
<1> DEFINE a == Cardinality(ids)
           q == a \div N
           r == a % N
<1>1. N \in Nat \ {0} /\ i \in 1 .. N
  BY InternalAssumption DEF Nodes
<1>2. q \in Nat /\ r \in 0 .. N - 1 /\ a = N * q + r
  BY <1>1
<1>3. /\ Share(a, N, i) = q + (IF i <= r THEN 1 ELSE 0)
      /\ \A j : Passed(ids, j) = q * j + (IF j <= r THEN j ELSE r)
  BY DEF Share, Passed
<1> HIDE DEF q, r, a
<1>4. q * (i - 1) + q = q * i /\ q * (i - 1) \in Nat /\ q * i \in Nat
  BY <1>1, <1>2
<1>5. Passed(ids, i - 1) + Share(a, N, i) = Passed(ids, i)
  BY <1>1, <1>2, <1>3, <1>4
<1>6. Passed(ids, N) = a
  <2>1. N * q = q * N /\ ~(N <= r) /\ q * N \in Nat
    BY <1>1, <1>2
  <2> QED
    BY <1>2, <1>3, <2>1
<1>7. Passed(ids, 0) = 0
  BY <1>2, <1>3
<1>8. Share(a, N, i) \in Nat
  BY <1>2, <1>3
<1> QED
  BY <1>5, <1>6, <1>7, <1>8 DEF a

(* What a batch of records on node n changes.                              *)
Batched(n, ids, rpc, k) ==
    /\ data' \in BatchData(n, ids, rpc[1], rpc[2])
    /\ LET top == Max(ids \cup {0}) IN
       IF rpc[2]
       THEN /\ k = (IF next[n] <= top THEN top + 2 ELSE 0)
            /\ status' = [status EXCEPT ![n] = Unsigned(@ + Cardinality(ids))]
            /\ next' = [next EXCEPT ![n] = IF @ <= top THEN top + 1 ELSE @]
       ELSE k = 0 /\ UNCHANGED <<status, next>>
    /\ KeepLock(n, k) /\ Count(rpc[2])
    /\ UNCHANGED <<nextId, reads, writer, idLock, history>>

LEMMA CreatorBatches ==
    ASSUME LInv, NEW t, NEW n \in Nodes, NEW ids, ids \subseteq Ids, NEW rpc \in Outcomes,
           NEW x, Creator(t, n, ids, rpc, x), UNCHANGED <<nextId, reads, writer, idLock, history>>
    PROVE  LET k == IF rpc[2] THEN RaiseTo(n, ids) ELSE 0 IN
           k \in Nat /\ GoOn(t, x, k) /\ Batched(n, ids, rpc, k)
<1> DEFINE top == Max(ids \cup {0})
<1>1. top \in Nat
  BY TopType
<1>2. RaiseTo(n, ids) = IF next[n] <= top THEN top + 2 ELSE 0
  BY DEF RaiseTo
<1> HIDE DEF top
<1>3. RaiseTo(n, ids) \in Nat
  BY <1>1, <1>2
<1> QED
  BY <1>2, <1>3 DEF Creator, Batched, top

LEMMA BatchedTypes ==
    ASSUME LInv, NEW t \in Threads, NEW n \in Nodes, NEW ids, ids \subseteq Ids,
           NEW rpc \in Outcomes, NEW k, Batched(n, ids, rpc, k),
           call' \in [Threads -> Calls \cup {None}], Sane(call'[t]),
           \A u \in Threads \ {t} : Alike(call[u], call'[u]),
           Held(call[t]) = {n}, Held(call'[t]) = IF k = 0 THEN {} ELSE {n},
           ~Assigning(call[t]), ~Assigning(call'[t]), Depth(call'[t]) = Depth(call[t])
    PROVE  LInv'
<1> DEFINE top == Max(ids \cup {0})
<1>1. /\ data' \in BatchData(n, ids, rpc[1], rpc[2]) /\ KeepLock(n, k) /\ Count(rpc[2])
      /\ UNCHANGED <<nextId, reads, writer, idLock, history>>
      /\ \/ /\ status' = [status EXCEPT ![n] = Unsigned(@ + Cardinality(ids))]
            /\ next' = [next EXCEPT ![n] = IF @ <= top THEN top + 1 ELSE @]
         \/ UNCHANGED <<status, next>>
  BY DEF Batched
<1>2. faults' \in 0 .. MaxFaults
  BY <1>1, Rpc
<1>3. ids \subseteq Nat /\ IsFiniteSet(ids) /\ Cardinality(ids) \in Nat
  BY IdsFinite, InternalAssumption DEF Ids
<1>4. data' \in [Nodes -> SUBSET Nat] /\ Finite'
  BY <1>1, <1>3, BatchTypes
<1>5. top \in Nat
  BY TopType
<1> HIDE DEF top
<1>6. status \in [Nodes -> Nat] /\ next \in [Nodes -> Nat]
  BY DEF LInv, TypeOK
<1>7. Unsigned(status[n] + Cardinality(ids)) \in Nat
  BY <1>3, <1>6, UnsignedNat
<1>8. status' \in [Nodes -> Nat] /\ next' \in [Nodes -> Nat]
  BY <1>1, <1>5, <1>6, <1>7
<1>9. Formed' /\ Locked' /\ nodeLock' \in [Nodes -> Threads \cup {None}]
  BY <1>1, KeptBack
<1>10. TypeOK'
  BY <1>1, <1>2, <1>4, <1>8, <1>9 DEF LInv, TypeOK, history
<1> QED
  BY <1>4, <1>9, <1>10 DEF LInv

(* The loop goes on to the next node, or ends.                             *)
LEMMA AfterStore ==
    ASSUME NEW h, NEW d \in Calls, h.do = "store", h.n \in Nodes, Follows(h, Head(d.todo)),
           ~Nested(d.todo), d.op = "CreateRecordsWithId", d.ok, d.start <= d.end,
           d.end = Passed(d.ids, h.n)
    PROVE  /\ Fitting(d)
           /\ \/ Head(d.todo).do = "settle"
              \/ Head(d.todo).do = "lock" /\ Head(d.todo).n # 0 /\ Head(d.todo).m = 0
<1> DEFINE r == Head(d.todo)
           n == h.n
<1>1. Cardinality(d.ids) \in Nat
  BY CallTypes, IdsFinite
<1>2. \/ n = N /\ r.do = "settle"
      \/ r.do = "lock" /\ r.n = n + 1 /\ r.m = 0 /\ r.n # 0 /\ r.n - 1 = n
  <2>1. IF n = N THEN r.do = "settle" ELSE r = At("lock", n + 1)
    <3> HIDE DEF r
    <3> QED
      BY DEF Follows, r
  <2>2. r = At("lock", n + 1) => r.do = "lock" /\ r.n = n + 1 /\ r.m = 0
    BY DEF At, Act
  <2>3. n \in Nat /\ n > 0
    BY DEF Nodes
  <2> HIDE DEF r, n
  <2> QED
    BY <2>1, <2>2, <2>3
<1>3. CASE n = N /\ r.do = "settle"
  <2>1. d.end = Cardinality(d.ids)
    BY <1>1, <1>3, PassedAdds
  <2> QED
    BY <1>3, <2>1 DEF Fitting, Storing, FallingBack
<1>4. CASE r.do = "lock" /\ r.n = n + 1 /\ r.m = 0 /\ r.n # 0 /\ r.n - 1 = n
  <2>1. ~Answered(r)
    BY <1>4 DEF Answered
  <2> QED
    BY <1>4, <2>1 DEF Fitting, Storing, FallingBack
<1> QED
  BY <1>2, <1>3, <1>4

(* The steps left of p: one fewer, or the first with another value of k.   *)
Shortens(p, q) == q = Tail(p) \/ (Tail(q) = Tail(p) /\ Head(q).do = Head(p).do)

(* What the loop of CreateRecordsWithId does when the RPC to a node returns. *)
Slicing(t, rpc, k) ==
    LET c == call[t]
        d == call'[t]
        h == Head(c.todo)
        r == Head(d.todo)
        end == c.end + Share(Cardinality(c.ids), N, h.n)
    IN  /\ Batched(h.n, Slice(t, c.start, end), rpc, k)
        /\ c \in Calls /\ c # None /\ c.op = "CreateRecordsWithId" /\ ~Nested(c.todo) /\ c.ok
        /\ h.do = "store" /\ h.k = 0 /\ h.n \in Nodes
        /\ c.start \in Nat /\ c.end \in Nat /\ end \in Nat /\ c.start <= c.end /\ c.end <= end
        /\ end = Passed(c.ids, h.n) /\ Slice(t, c.start, end) \subseteq Ids
        /\ call' \in [Threads -> Calls \cup {None}] /\ d \in Calls /\ d # None
        /\ \A u \in Threads \ {t} : Alike(call[u], call'[u])
        /\ \A u \in Threads \ {t} : call'[u] = call[u]
        /\ d.op = c.op /\ d.ids = c.ids /\ d.list = c.list /\ d.ok = c.ok /\ d.end = end
        /\ d.start = (IF rpc[2] THEN end ELSE c.start) /\ d.good = (IF rpc[2] THEN h.n ELSE c.good)
        /\ WellFormed(d.op, d.todo) /\ ~Nested(d.todo) /\ Shortens(c.todo, d.todo)
        /\ IF k = 0 THEN Follows(h, r) ELSE r.do = "store" /\ r.n = h.n /\ r.k = k

LEMMA StoreDoes ==
    ASSUME LInv, NEW t \in Threads, Store(t)
    PROVE  \E rpc \in Outcomes, k \in Nat : Slicing(t, rpc, k)
<1> DEFINE c == call[t]
           d == call'[t]
           h == Head(c.todo)
           r == Head(d.todo)
           n == h.n
           end == c.end + Share(Cardinality(c.ids), N, n)
           ids == Slice(t, c.start, end)
<1>1. Doing(t, "store") /\ UNCHANGED <<nextId, reads, writer, idLock, history>> /\ Now(t).k = 0
  BY DEF Store
<1>2. /\ c \in Calls /\ c # None /\ WellFormed(c.op, c.todo) /\ Fitting(c) /\ h.do = "store"
      /\ "store" \in Kinds(c.op) /\ Now(t) = h /\ Proper(h)
  BY <1>1, Turn
<1>3. PICK rpc \in Outcomes :
         Creator(t, n, ids, rpc, IF rpc[2] THEN [c EXCEPT !.end = end, !.start = end, !.good = n]
                                 ELSE [c EXCEPT !.end = end])
  BY <1>2 DEF Store
<1> DEFINE x == IF rpc[2] THEN [c EXCEPT !.end = end, !.start = end, !.good = n]
                ELSE [c EXCEPT !.end = end]
           k == IF rpc[2] THEN RaiseTo(n, ids) ELSE 0
<1>4. n \in Nodes /\ n \in 0 .. N /\ Storing(h) /\ ~Nested(c.todo) /\ ~Answered(h)
  <2>1. n \in Nodes
    BY <1>2 DEF Proper
  <2>2. Storing(h) /\ ~Answered(h)
    BY <1>1, <1>2 DEF Storing, Answered
  <2> QED
    BY <1>2, <2>1, <2>2, StoringPlain, InternalAssumption DEF Nodes
<1>5. c.op = "CreateRecordsWithId"
  <2> HIDE DEF c
  <2>1. c.op \in {"CreateRecord", "CreateRecordWithId", "CreateRecordsWithId", "DeleteRecords",
                 "ListRecords"}
    BY <1>2 DEF Calls
  <2> QED
    BY <1>2, <2>1 DEF Kinds
<1>6. c.start \in Nat /\ c.end \in Nat /\ c.ids \subseteq Ids /\ Cardinality(c.ids) \in Nat
  BY <1>2, CallTypes, IdsFinite
<1>7. end \in Nat /\ c.end <= end /\ end = Passed(c.ids, n) /\ c.ok /\ c.start <= c.end
  <2>1. c.ok /\ c.end = Passed(c.ids, n - 1) /\ c.start <= c.end
    <3> HIDE DEF c
    <3> QED
      BY <1>2, <1>4, <1>5 DEF Fitting
  <2>2. Share(Cardinality(c.ids), N, n) \in Nat
    BY <1>4, <1>6, PassedAdds
  <2>3. end = Passed(c.ids, n)
    BY <1>4, <1>6, <2>1, PassedAdds
  <2> QED
    BY <1>6, <2>1, <2>2, <2>3
<1>8. ids \subseteq Ids
  BY <1>6 DEF Slice
<1> HIDE DEF end, ids
<1>9. k \in Nat /\ GoOn(t, x, k) /\ Batched(n, ids, rpc, k)
  BY <1>1, <1>3, <1>4, <1>8, CreatorBatches
<1>10. x \in Calls
  BY <1>2, <1>4, <1>7, CallTypes
<1> HIDE DEF n, k
<1>11. x.todo = c.todo /\ x.op = c.op /\ x.ids = c.ids /\ x.ok = c.ok /\ x.list = c.list
  <2> HIDE DEF c
  <2> QED
    BY <1>2 DEF Calls
<1>12. /\ x.end = end /\ x.start = (IF rpc[2] THEN end ELSE c.start)
       /\ x.good = IF rpc[2] THEN n ELSE c.good
  <2> HIDE DEF c
  <2> QED
    BY <1>2 DEF Calls
<1> HIDE DEF x
<1>13. /\ call' \in [Threads -> Calls \cup {None}] /\ d \in Calls /\ d # None
       /\ \A u \in Threads \ {t} : Alike(call[u], call'[u])
       /\ \A u \in Threads \ {t} : call'[u] = call[u]
       /\ d.op = c.op /\ d.ids = x.ids /\ d.list = x.list /\ d.ok = x.ok /\ d.end = x.end
       /\ d.start = x.start /\ d.good = x.good
       /\ WellFormed(d.op, d.todo) /\ ~Nested(d.todo) /\ Shortens(c.todo, d.todo)
       /\ IF k = 0 THEN Follows(h, r) ELSE r.do = "store" /\ r.n = h.n /\ r.k = k
  <2>1. CASE k = 0
    <3>1. Then(t, x)
      BY <1>9, <2>1 DEF GoOn, Then
    <3> QED
      BY <1>1, <1>2, <1>4, <1>10, <1>11, <2>1, <3>1, ThenPut DEF Shortens
  <2>2. CASE k # 0
    <3>1. k \in Nat \ {0} /\ "store" \in {"create", "store", "fallback"}
      BY <1>9, <2>2
    <3> QED
      BY <1>1, <1>2, <1>4, <1>9, <1>10, <1>11, <2>2, <3>1, StampPut DEF Shortens
  <2> QED
    BY <2>1, <2>2
<1>14. Slicing(t, rpc, k)
  BY <1>1, <1>2, <1>4, <1>5, <1>6, <1>7, <1>8, <1>9, <1>11, <1>12, <1>13 DEF Slicing, end, ids, n
<1> QED
  BY <1>9, <1>14

LEMMA StoreInv ==
    ASSUME LInv, NEW t \in Threads, Store(t)
    PROVE  LInv'
<1> DEFINE c == call[t]
           d == call'[t]
           h == Head(c.todo)
           r == Head(d.todo)
           end == c.end + Share(Cardinality(c.ids), N, h.n)
           ids == Slice(t, c.start, end)
<1>1. PICK rpc \in Outcomes, k \in Nat : Slicing(t, rpc, k)
  BY StoreDoes
<1>2. /\ Batched(h.n, ids, rpc, k) /\ ids \subseteq Ids
      /\ c \in Calls /\ c # None /\ c.op = "CreateRecordsWithId" /\ ~Nested(c.todo) /\ c.ok
      /\ h.do = "store" /\ h.n \in Nodes
      /\ c.start \in Nat /\ c.end \in Nat /\ end \in Nat /\ c.start <= c.end /\ c.end <= end
      /\ end = Passed(c.ids, h.n)
      /\ call' \in [Threads -> Calls \cup {None}] /\ d \in Calls /\ d # None
      /\ \A u \in Threads \ {t} : Alike(call[u], call'[u])
      /\ d.op = c.op /\ d.ids = c.ids /\ d.ok = c.ok /\ d.end = end
      /\ d.start = (IF rpc[2] THEN end ELSE c.start)
      /\ WellFormed(d.op, d.todo) /\ ~Nested(d.todo)
      /\ IF k = 0 THEN Follows(h, r) ELSE r.do = "store" /\ r.n = h.n /\ r.k = k
  BY <1>1 DEF Slicing
<1> HIDE DEF c, d, end, ids
<1>3. d.start <= d.end
  BY <1>2
<1>4. /\ Fitting(d)
      /\ \/ k # 0
         \/ r.do = "settle"
         \/ r.do = "lock" /\ r.n # 0 /\ r.m = 0
  <2>1. CASE k = 0
    BY <1>2, <1>3, <2>1, AfterStore
  <2>2. CASE k # 0
    <3>1. r.do = "store" /\ r.n = h.n /\ Storing(r) /\ Answered(r) /\ ~FallingBack(r)
      BY <1>2, <2>2 DEF Storing, Answered, FallingBack
    <3> QED
      BY <1>2, <1>3, <2>2, <3>1 DEF Fitting
  <2> QED
    BY <2>1, <2>2
<1>5. Held(c) = {h.n} /\ Held(d) = IF k = 0 THEN {} ELSE {h.n}
  BY <1>2, <1>4 DEF Held
<1>6. Sane(d) /\ ~Assigning(d) /\ Depth(d) = Depth(c) /\ ~Assigning(c)
  BY <1>2, <1>4 DEF Sane, Assigning, Depth
<1> QED
  BY <1>2, <1>5, <1>6, BatchedTypes DEF c, d

(* What the fallback does when its RPC returns.                            *)
Falling(t, rpc, k) ==
    LET c == call[t]
        d == call'[t]
        h == Head(c.todo)
        r == Head(d.todo)
    IN  /\ Batched(c.good, Slice(t, c.start, c.end), rpc, k)
        /\ c \in Calls /\ c # None /\ c.op = "CreateRecordsWithId" /\ ~Nested(c.todo)
        /\ h.do = "fallback" /\ h.k = 0 /\ c.good \in Nodes /\ c.start <= c.end
        /\ c.end = Cardinality(c.ids) /\ Slice(t, c.start, c.end) \subseteq Ids
        /\ call' \in [Threads -> Calls \cup {None}] /\ d \in Calls /\ d # None
        /\ \A u \in Threads \ {t} : Alike(call[u], call'[u])
        /\ \A u \in Threads \ {t} : call'[u] = call[u]
        /\ d.op = c.op /\ d.ids = c.ids /\ d.list = c.list /\ d.end = c.end
        /\ d.start = c.start /\ d.good = c.good /\ WellFormed(d.op, d.todo)
        /\ IF ~rpc[2] THEN r.do = "rlock" /\ Nested(d.todo) /\ ~d.ok
           ELSE /\ d.ok = c.ok /\ ~Nested(d.todo) /\ Shortens(c.todo, d.todo)
                /\ IF k = 0 THEN Follows(h, r) ELSE r.do = "fallback" /\ r.k = k /\ r.n = 0

LEMMA TailJoined ==
    ASSUME NEW S, NEW a \in S, NEW p \in Seq(S), NEW q \in Seq(S)
    PROVE  Tail((<<a>> \o p) \o q) = p \o q
<1> DEFINE l == (<<a>> \o p) \o q
<1>1. <<a>> \in Seq(S) /\ Len(<<a>>) = 1
  OBVIOUS
<1>2. l = <<a>> \o (p \o q)
  BY <1>1
<1> QED
  BY <1>1, <1>2

LEMMA FallbackDoes ==
    ASSUME LInv, NEW t \in Threads, Fallback(t)
    PROVE  \E rpc \in Outcomes, k \in Nat : Falling(t, rpc, k)
<1> DEFINE c == call[t]
           d == call'[t]
           h == Head(c.todo)
           r == Head(d.todo)
           n == c.good
           ids == Slice(t, c.start, c.end)
           q == (<<h>> \o DeleteManySteps) \o LastStep(t)
<1>1. Doing(t, "fallback") /\ UNCHANGED <<nextId, reads, writer, idLock, history>> /\ Now(t).k = 0
  BY DEF Fallback
<1>2. /\ c \in Calls /\ c # None /\ WellFormed(c.op, c.todo) /\ Fitting(c) /\ h.do = "fallback"
      /\ "fallback" \in Kinds(c.op) /\ (Nested(c.todo) => "fallback" \in Kinds("DeleteRecords"))
      /\ h \in Steps /\ Now(t) = h /\ Proper(h)
  BY <1>1, Turn
<1>3. PICK rpc \in Outcomes :
         Creator(t, n, ids, rpc, IF rpc[2] THEN c ELSE [c EXCEPT !.todo = q, !.ok = FALSE])
  BY <1>2 DEF Fallback
<1> DEFINE k == IF rpc[2] THEN RaiseTo(n, ids) ELSE 0
<1>4. /\ n \in Nodes /\ c.op = "CreateRecordsWithId" /\ ~Nested(c.todo) /\ c.start <= c.end
      /\ c.end = Cardinality(c.ids)
  <2> HIDE DEF c
  <2>1. c.op \in {"CreateRecord", "CreateRecordWithId", "CreateRecordsWithId", "DeleteRecords",
                 "ListRecords"}
    BY <1>2 DEF Calls
  <2>2. c.op = "CreateRecordsWithId" /\ ~Nested(c.todo)
    BY <1>2, <2>1 DEF Kinds
  <2>3. FallingBack(h)
    BY <1>2 DEF FallingBack
  <2> QED
    BY <1>2, <2>2, <2>3 DEF Fitting
<1>5. ids \subseteq Ids
  <2>1. c.ids \subseteq Ids
    BY <1>2, CallTypes
  <2> QED
    BY <2>1 DEF Slice
<1> HIDE DEF ids
<1>6. /\ k \in Nat /\ Batched(n, ids, rpc, k)
      /\ GoOn(t, IF rpc[2] THEN c ELSE [c EXCEPT !.todo = q, !.ok = FALSE], k)
  BY <1>1, <1>3, <1>4, <1>5, CreatorBatches
<1>7. /\ call' \in [Threads -> Calls \cup {None}] /\ d \in Calls /\ d # None
      /\ \A u \in Threads \ {t} : Alike(call[u], call'[u])
      /\ \A u \in Threads \ {t} : call'[u] = call[u]
      /\ d.op = c.op /\ d.ids = c.ids /\ d.list = c.list /\ d.end = c.end
      /\ d.start = c.start /\ d.good = c.good /\ WellFormed(d.op, d.todo)
      /\ IF ~rpc[2] THEN r.do = "rlock" /\ Nested(d.todo) /\ ~d.ok
         ELSE /\ d.ok = c.ok /\ ~Nested(d.todo) /\ Shortens(c.todo, d.todo)
              /\ IF k = 0 THEN Follows(h, r) ELSE r.do = "fallback" /\ r.k = k /\ r.n = 0
  <2>1. CASE rpc[2] /\ k = 0
    <3>1. Then(t, call[t])
      BY <1>6, <2>1 DEF GoOn, Then
    <3> QED
      BY <1>1, <1>2, <1>4, <2>1, <3>1, ThenPut DEF Shortens
  <2>2. CASE rpc[2] /\ k # 0
    <3> HIDE DEF k
    <3>1. k \in Nat \ {0} /\ "fallback" \in {"create", "store", "fallback"} /\ h.n = 0
          /\ GoOn(t, c, k)
      BY <1>2, <1>6, <2>2 DEF Proper
    <3> QED
      BY <1>1, <1>2, <1>4, <2>2, <3>1, StampPut DEF Shortens
  <2>3. CASE ~rpc[2]
    <3> DEFINE l == c.todo[Len(c.todo)]
               p == DeleteManySteps \o <<l>>
               e == [c EXCEPT !.todo = p, !.ok = FALSE]
    <3>1. l \in Steps /\ l.do = "runlock" /\ Proper(l)
      <4>1. Len(c.todo) > 0 /\ c.todo \in Seq(Steps)
        BY <1>2, HeadWell
      <4>2. Len(c.todo) \in 1 .. Len(c.todo)
        BY <4>1
      <4> QED
        BY <1>2, <1>4, <4>1, <4>2 DEF WellFormed, Final
    <3>2. Tail(q) = p
      <4>1. DeleteManySteps \in Seq(Steps) /\ <<l>> \in Seq(Steps)
        BY <3>1, DeleteManyWell DEF WellFormed
      <4> QED
        BY <1>2, <4>1, TailJoined DEF LastStep
    <3>3. call' = [call EXCEPT ![t] = e]
      <4> HIDE DEF q, p
      <4>1. GoOn(t, [c EXCEPT !.todo = q, !.ok = FALSE], 0)
        BY <1>6, <2>3
      <4> DEFINE y == [c EXCEPT !.todo = q, !.ok = FALSE]
      <4>2. [y EXCEPT !.todo = Tail(@)] = e
        <5> HIDE DEF c
        <5> QED
          BY <1>2, <3>2 DEF Calls
      <4> HIDE DEF e
      <4> QED
        BY <4>1, <4>2 DEF GoOn
    <3> HIDE DEF l
    <3>4. WellFormed("CreateRecordsWithId", p) /\ Nested(p) /\ Head(p) = Step("rlock")
      BY <3>1, RollbackWell
    <3> HIDE DEF p, q
    <3>5. p \in Seq(Steps) /\ Head(p).do = "rlock"
      BY <3>4 DEF WellFormed, Step, Act
    <3>6. e \in Calls
      BY <1>2, <3>5, CallTypes
    <3>7. e.todo = p /\ e.op = c.op /\ e.ids = c.ids /\ ~e.ok /\ e.list = c.list
      <4> HIDE DEF c
      <4> QED
        BY <1>2 DEF Calls
    <3>8. e.start = c.start /\ e.end = c.end /\ e.good = c.good
      <4> HIDE DEF c
      <4> QED
        BY <1>2 DEF Calls
    <3> HIDE DEF e
    <3>9. /\ call' \in [Threads -> Calls \cup {None}] /\ d = e
          /\ \A u \in Threads \ {t} : Alike(call[u], call'[u]) /\ call'[u] = call[u]
      BY <3>3, <3>6, Put
    <3>10. d # None
      BY <3>6, <3>9, CallTypes
    <3> QED
      BY <1>4, <2>3, <3>4, <3>5, <3>6, <3>7, <3>8, <3>9, <3>10
  <2> QED
    BY <2>1, <2>2, <2>3
<1> HIDE DEF k
<1>8. Falling(t, rpc, k)
  BY <1>1, <1>2, <1>4, <1>5, <1>6, <1>7 DEF Falling, ids
<1> QED
  BY <1>6, <1>8

LEMMA FallbackInv ==
    ASSUME LInv, NEW t \in Threads, Fallback(t)
    PROVE  LInv'
<1> DEFINE c == call[t]
           d == call'[t]
           h == Head(c.todo)
           r == Head(d.todo)
           ids == Slice(t, c.start, c.end)
<1>1. PICK rpc \in Outcomes, k \in Nat : Falling(t, rpc, k)
  BY FallbackDoes
<1>2. /\ Batched(c.good, ids, rpc, k) /\ ids \subseteq Ids
      /\ c \in Calls /\ c # None /\ c.op = "CreateRecordsWithId" /\ ~Nested(c.todo)
      /\ h.do = "fallback" /\ c.good \in Nodes /\ c.start <= c.end /\ c.end = Cardinality(c.ids)
      /\ call' \in [Threads -> Calls \cup {None}] /\ d \in Calls /\ d # None
      /\ \A u \in Threads \ {t} : Alike(call[u], call'[u])
      /\ d.op = c.op /\ d.ids = c.ids /\ d.end = c.end /\ d.start = c.start
      /\ d.good = c.good /\ WellFormed(d.op, d.todo)
      /\ IF ~rpc[2] THEN r.do = "rlock" /\ Nested(d.todo) /\ ~d.ok
         ELSE /\ ~Nested(d.todo)
              /\ IF k = 0 THEN Follows(h, r) ELSE r.do = "fallback" /\ r.k = k /\ r.n = 0
      /\ ~rpc[2] => k = 0
  BY <1>1 DEF Falling, Batched
<1> HIDE DEF c, d, ids
<1>3. \/ r.do = "rlock" /\ Nested(d.todo) /\ ~d.ok /\ k = 0
      \/ r.do = "balance" /\ ~Nested(d.todo) /\ k = 0
      \/ r.do = "fallback" /\ ~Nested(d.todo) /\ k # 0
  <2>1. Follows(h, r) => r.do = "balance"
    BY <1>2 DEF Follows
  <2> QED
    BY <1>2, <2>1
<1>4. Fitting(d)
  BY <1>2, <1>3 DEF Fitting, Storing, FallingBack
<1>5. Held(c) = {c.good} /\ Held(d) = IF k = 0 THEN {} ELSE {c.good}
  BY <1>2, <1>3 DEF Held
<1>6. Sane(d) /\ ~Assigning(d) /\ ~Assigning(c)
  BY <1>2, <1>3, <1>4 DEF Sane, Assigning
<1>7. Depth(d) = 1 /\ Depth(c) = 1
  BY <1>2, <1>3 DEF Depth
<1> QED
  BY <1>2, <1>5, <1>6, <1>7, BatchedTypes DEF c, d

(* What raising nextId does.                                               *)
RaisedBy(t, n) ==
    LET c == call[t]
        d == call'[t]
        h == Head(c.todo)
    IN  /\ c \in Calls /\ c # None /\ WellFormed(c.op, c.todo) /\ Fitting(c)
        /\ h \in Steps /\ Proper(h) /\ Answered(h) /\ h.do \in Kinds(c.op) /\ ~Nested(c.todo)
        /\ n \in Nodes /\ Held(c) = {n} /\ n = Place(t)
        /\ nextId' \in {nextId, h.k} /\ nextId <= nextId' /\ h.k <= nextId' /\ nextId' \in Nat
        /\ nodeLock' = [nodeLock EXCEPT ![n] = None]
        /\ UNCHANGED <<data, status, next, reads, writer, idLock, faults, history>>
        /\ call' \in [Threads -> Calls \cup {None}] /\ d \in Calls /\ d # None
        /\ \A u \in Threads \ {t} : Alike(call[u], call'[u])
        /\ \A u \in Threads \ {t} : call'[u] = call[u]
        /\ d.todo = Tail(c.todo) /\ d.op = c.op /\ d.ids = c.ids /\ d.start = c.start
        /\ d.end = c.end /\ d.ok = c.ok /\ d.good = c.good /\ d.list = c.list
        /\ WellFormed(d.op, d.todo) /\ Follows(h, Head(d.todo)) /\ ~Nested(d.todo)

LEMMA RaiseDoes ==
    ASSUME LInv, NEW t \in Threads, Raise(t)
    PROVE  RaisedBy(t, Place(t)) /\ idLock = None
<1> DEFINE c == call[t]
           d == call'[t]
           h == Head(c.todo)
           n == Place(t)
<1>1. PICK what \in {"create", "store", "fallback"} : Doing(t, what)
  BY DEF Raise, Creating
<1>2. /\ Now(t).k # 0 /\ idLock = None /\ nextId' = Max({nextId, Now(t).k}) /\ Then(t, call[t])
      /\ nodeLock' = [nodeLock EXCEPT ![n] = None]
      /\ UNCHANGED <<data, status, next, reads, writer, idLock, faults, history>>
  BY DEF Raise
<1>3. /\ c \in Calls /\ c # None /\ WellFormed(c.op, c.todo) /\ Fitting(c) /\ h.do = what
      /\ what \in Kinds(c.op) /\ Now(t) = h /\ Proper(h) /\ h \in Steps
      /\ Nested(c.todo) => what \in Kinds("DeleteRecords")
  BY <1>1, Turn
<1>4. /\ call' \in [Threads -> Calls \cup {None}] /\ d \in Calls /\ d # None
      /\ \A u \in Threads \ {t} : Alike(call[u], call'[u])
      /\ \A u \in Threads \ {t} : call'[u] = call[u]
      /\ d.todo = Tail(c.todo) /\ d.op = c.op /\ d.ids = c.ids /\ d.start = c.start
      /\ d.end = c.end /\ d.ok = c.ok /\ d.good = c.good /\ d.list = c.list
      /\ WellFormed(d.op, d.todo) /\ Follows(h, Head(d.todo)) /\ (Nested(d.todo) <=> Nested(c.todo))
  BY <1>1, <1>2, <1>3, ThenPut
<1>5. n = IF h.n = 0 THEN c.good ELSE h.n
  BY <1>3 DEF Place
<1> HIDE DEF c, d, n
<1>6. ~Nested(c.todo) /\ Answered(h)
  BY <1>1, <1>2, <1>3 DEF Kinds, Answered
<1>7. n \in Nodes /\ Held(c) = {n}
  <2>1. CASE what = "store"
    <3>1. h.n \in Nodes /\ h.n # 0
      BY <1>3, <2>1, InternalAssumption DEF Proper, Nodes
    <3> QED
      BY <1>3, <1>5, <2>1, <3>1 DEF Held
  <2>2. CASE what # "store"
    <3>1. h.n = 0
      BY <1>1, <1>3, <2>2 DEF Proper
    <3>2. c.good \in Nodes
      BY <1>1, <1>3, <2>2 DEF Fitting
    <3> QED
      BY <1>1, <1>3, <1>5, <2>2, <3>1, <3>2 DEF Held
  <2> QED
    BY <2>1, <2>2
<1>8. nextId' \in {nextId, h.k} /\ nextId <= nextId' /\ h.k <= nextId' /\ nextId' \in Nat
  <2> DEFINE k == h.k
             S == {nextId, k}
  <2>1. nextId \in Nat /\ k \in Nat
    BY <1>3 DEF LInv, TypeOK, Steps
  <2> HIDE DEF k
  <2>2. /\ S \subseteq Int /\ S # {} /\ nextId + k \in Nat
        /\ \A y \in S : -1 <= y /\ y <= nextId + k
    BY <2>1
  <2>3. nextId \in S /\ k \in S /\ \A y \in S : y \in Nat
    BY <2>1
  <2> HIDE DEF S
  <2>4. Max(S) \in S /\ \A y \in S : y <= Max(S)
    BY <2>2, MaxTop
  <2>5. nextId' = Max(S)
    BY <1>2, <1>3 DEF S, k
  <2> QED
    BY <2>3, <2>4, <2>5 DEF S, k
<1> QED
  BY <1>2, <1>3, <1>4, <1>6, <1>7, <1>8 DEF RaisedBy, c, d, n

LEMMA RaiseInv ==
    ASSUME LInv, NEW t \in Threads, Raise(t)
    PROVE  LInv'
<1> DEFINE c == call[t]
           d == call'[t]
           h == Head(c.todo)
           r == Head(d.todo)
           n == Place(t)
<1>1. RaisedBy(t, n)
  BY RaiseDoes
<1>2. /\ c \in Calls /\ c # None /\ WellFormed(c.op, c.todo) /\ Fitting(c)
      /\ Proper(h) /\ Answered(h) /\ h.do \in Kinds(c.op) /\ ~Nested(c.todo)
      /\ n \in Nodes /\ Held(c) = {n} /\ nextId' \in Nat
      /\ nodeLock' = [nodeLock EXCEPT ![n] = None]
      /\ UNCHANGED <<data, status, next, reads, writer, idLock, faults, history>>
      /\ call' \in [Threads -> Calls \cup {None}] /\ d \in Calls /\ d # None
      /\ \A u \in Threads \ {t} : Alike(call[u], call'[u])
      /\ d.op = c.op /\ d.ids = c.ids /\ d.start = c.start /\ d.end = c.end /\ d.ok = c.ok
      /\ d.good = c.good
      /\ WellFormed(d.op, d.todo) /\ Follows(h, r) /\ ~Nested(d.todo)
  BY <1>1 DEF RaisedBy
<1> HIDE DEF c, d, n
<1>3. c.op # "CreateRecord" /\ h.do \in {"create", "store", "fallback"}
  BY <1>2 DEF Kinds, Answered
<1>4. /\ Fitting(d)
      /\ \/ r.do \in {"settle", "runlock", "balance"}
         \/ r.do = "lock" /\ r.m = 0 /\ r.n # 0
  <2>1. CASE h.do = "store"
    <3>1. c.op = "CreateRecordsWithId" /\ Storing(h)
      <4>1. c.op \in {"CreateRecord", "CreateRecordWithId", "CreateRecordsWithId", "DeleteRecords",
                     "ListRecords"}
        BY <1>2 DEF Calls
      <4> QED
        BY <1>2, <2>1, <4>1 DEF Kinds, Storing
    <3>2. h.n \in Nodes /\ c.ok /\ c.start <= c.end /\ c.end = Passed(c.ids, h.n)
      BY <1>2, <2>1, <3>1 DEF Fitting, Proper
    <3> QED
      BY <1>2, <2>1, <3>1, <3>2, AfterStore
  <2>2. CASE h.do # "store"
    <3>1. r.do \in {"runlock", "balance"}
      BY <1>2, <1>3, <2>2 DEF Follows
    <3> QED
      BY <1>2, <1>3, <3>1 DEF Fitting, Storing, FallingBack
  <2> QED
    BY <2>1, <2>2
<1>5. Sane(d) /\ Held(d) = {} /\ ~Assigning(d) /\ ~Assigning(c)
  BY <1>2, <1>3, <1>4 DEF Sane, Held, Assigning
<1>6. Depth(d) = Depth(c)
  BY <1>2, <1>3, <1>4 DEF Depth
<1>7. nodeLock' = [m \in Nodes |-> IF m \in Held(call[t]) THEN None ELSE nodeLock[m]]
  BY <1>2, OneGiven DEF c
<1>8. Formed' /\ Locked' /\ nodeLock' \in [Nodes -> Threads \cup {None}]
  BY <1>2, <1>5, <1>6, <1>7, GivenBack DEF c, d
<1>9. TypeOK' /\ Finite'
  BY <1>2, <1>8 DEF LInv, TypeOK, Finite, history
<1> QED
  BY <1>8, <1>9 DEF LInv

(* Records are moved: the other calls know it.                             *)
LEMMA Moved ==
    ASSUME LInv, NEW t \in Threads, NEW d \in Calls,
           call' = [Disturb(call, t, Unmoved) EXCEPT ![t] = d]
    PROVE  /\ call' \in [Threads -> Calls \cup {None}] /\ call'[t] = d
           /\ \A u \in Threads \ {t} : Alike(call[u], call'[u])
           /\ \A u \in Threads \ {t} : call[u] # None => call'[u].still = FALSE
<1> DEFINE m == Disturb(call, t, Unmoved)
<1>1. call \in [Threads -> Calls \cup {None}]
  BY DEF LInv, TypeOK
<1>2. /\ DOMAIN m = Threads
      /\ \A u \in Threads \ {t} : m[u] = IF call[u] # None THEN [call[u] EXCEPT !.still = FALSE] ELSE None
  BY <1>1 DEF Disturb, Unmoved
<1>3. DOMAIN call' = Threads /\ call'[t] = d /\ \A u \in Threads \ {t} : call'[u] = m[u]
  <2> HIDE DEF m
  <2>1. call' = [m EXCEPT ![t] = d]
    BY DEF m
  <2> QED
    BY <1>2, <2>1
<1>4. ASSUME NEW u \in Threads \ {t}
      PROVE  /\ call'[u] \in Calls \cup {None} /\ Alike(call[u], call'[u])
             /\ call[u] # None => call'[u].still = FALSE
  <2> DEFINE c == call[u]
             e == [c EXCEPT !.still = FALSE]
  <2>1. CASE c = None
    BY <1>2, <1>3, <2>1 DEF Alike
  <2>2. CASE c # None
    <3>1. c \in Calls /\ call'[u] = e
      BY <1>1, <1>2, <1>3, <2>2
    <3>2. e \in Calls
      BY <3>1, CallTypes
    <3>3. e # None
      BY <3>2, CallTypes
    <3>4. e.op = c.op /\ e.ids = c.ids /\ e.todo = c.todo /\ e.start = c.start
      <4> HIDE DEF c
      <4> QED
        BY <3>1 DEF Calls
    <3>5. e.end = c.end /\ e.good = c.good /\ e.list = c.list /\ e.ok = c.ok /\ e.still = FALSE
      <4> HIDE DEF c
      <4> QED
        BY <3>1 DEF Calls
    <3> HIDE DEF c, e
    <3>6. Alike(c, e)
      BY <2>2, <3>3, <3>4, <3>5 DEF Alike
    <3> QED
      BY <3>1, <3>2, <3>5, <3>6 DEF c
  <2> QED
    BY <2>1, <2>2
<1>5. call' = [u \in Threads |-> call'[u]]
  <2> HIDE DEF m
  <2>1. call' = [m EXCEPT ![t] = d]
    BY DEF m
  <2> QED
    BY <1>2, <2>1
<1>6. \A u \in Threads : call'[u] \in Calls \cup {None}
  BY <1>3, <1>4
<1>7. call' \in [Threads -> Calls \cup {None}]
  BY <1>5, <1>6
<1> QED
  BY <1>3, <1>4, <1>7

(* A transfer in progress, and what comes after it.                        *)
LEMMA InTransfer ==
    ASSUME LInv, NEW t \in Threads, NEW what, what \in {"copy", "remove"}, Doing(t, what)
    PROVE  LET c == call[t]
               s == Now(t) IN
           /\ c \in Calls /\ c # None /\ WellFormed(c.op, c.todo) /\ Fitting(c) /\ s = Head(c.todo)
           /\ s \in Steps /\ s.do = what /\ s.n \in Nodes /\ s.m \in Nodes /\ s.n # s.m /\ s.k \in Nat
           /\ Held(c) = {s.n, s.m} /\ ~Assigning(c) /\ c.op # "CreateRecord"
           /\ WellFormed(c.op, Tail(c.todo)) /\ (Nested(Tail(c.todo)) <=> Nested(c.todo))
           /\ Follows(s, Head(Tail(c.todo)))
<1> DEFINE c == call[t]
           s == Now(t)
<1>1. /\ c \in Calls /\ c # None /\ WellFormed(c.op, c.todo) /\ Fitting(c) /\ s = Head(c.todo)
      /\ s \in Steps /\ s.do = what /\ what \in Kinds(c.op) /\ Proper(s)
  BY Turn
<1>2. /\ WellFormed(c.op, Tail(c.todo)) /\ (Nested(Tail(c.todo)) <=> Nested(c.todo))
      /\ Follows(s, Head(Tail(c.todo)))
  <2>1. Head(c.todo).do \notin {"assign", "runlock"}
    BY <1>1
  <2> QED
    BY <1>1, <2>1, NextWell
<1> HIDE DEF c, s
<1>3. s.n \in Nodes /\ s.m \in Nodes /\ s.n # s.m /\ s.k \in Nat
  BY <1>1 DEF Proper, Moving, Steps
<1>4. c.op # "CreateRecord"
  BY <1>1 DEF Kinds
<1>5. Held(c) = {s.n, s.m} /\ ~Assigning(c)
  BY <1>1 DEF Held, Assigning
<1> QED
  BY <1>1, <1>2, <1>3, <1>4, <1>5 DEF c, s

(* The call of a transfer goes on with the steps q.                        *)
LEMMA TransferGoes ==
    ASSUME NEW c \in Calls, c # None, WellFormed(c.op, c.todo), Fitting(c), NEW what,
           Head(c.todo).do = what, what \in {"copy", "remove"}, c.op # "CreateRecord",
           NEW q, WellFormed(c.op, q), Nested(q) <=> Nested(c.todo),
           \/ Head(q).do \in {"compare", "runlock", "remove"}
           \/ Head(q).do = "lock" /\ Head(q).m # 0,
           NEW d \in Calls, d.todo = q, d.op = c.op, d.ids = c.ids, d.start = c.start,
           d.end = c.end, d.ok = c.ok, d.good = c.good
    PROVE  /\ d # None /\ Sane(d) /\ Depth(d) = Depth(c) /\ ~Assigning(d)
           /\ Head(q).do # "remove" => Held(d) = {}
           /\ Head(q).do = "remove" => Held(d) = {Head(q).n, Head(q).m}
<1>1. d # None
  BY CallTypes
<1>2. Fitting(d)
  BY DEF Fitting, Storing, FallingBack
<1>3. Sane(d)
  BY <1>2 DEF Sane
<1>4. ~Assigning(d) /\ Depth(d) = Depth(c)
  BY <1>1 DEF Assigning, Depth
<1>5. Head(q).do # "remove" => Held(d) = {}
  BY <1>1 DEF Held
<1>6. Head(q).do = "remove" => Held(d) = {Head(q).n, Head(q).m}
  BY <1>1 DEF Held
<1> QED
  BY <1>1, <1>3, <1>4, <1>5, <1>6

(* The records a transfer takes.                                           *)
LEMMA ListTypes ==
    ASSUME LInv, NEW n \in Nodes, NEW k
    PROVE  LET list == FirstOf(data[n], k) IN
           list \subseteq data[n] /\ list \subseteq Nat /\ IsFiniteSet(list)
<1> DEFINE list == FirstOf(data[n], k)
<1>1. list \subseteq data[n]
  BY DEF FirstOf
<1>2. data[n] \subseteq Nat /\ IsFiniteSet(data[n])
  BY DEF LInv, TypeOK, Finite
<1> HIDE DEF list
<1>3. IsFiniteSet(list)
  BY <1>1, <1>2, FS_Subset
<1> QED
  BY <1>1, <1>2, <1>3 DEF list

LEMMA CopyInv ==
    ASSUME LInv, NEW t \in Threads, Copy(t)
    PROVE  LInv'
<1> DEFINE c == call[t]
           d == call'[t]
           s == Now(t)
           list == FirstOf(data[s.n], s.k)
           moving == Disturb(call, t, Unmoved)
<1>1. Doing(t, "copy") /\ UNCHANGED <<nextId, reads, writer, idLock, history>>
  BY DEF Copy
<1>2. /\ c \in Calls /\ c # None /\ WellFormed(c.op, c.todo) /\ Fitting(c) /\ s = Head(c.todo)
      /\ s \in Steps /\ s.do = "copy" /\ s.n \in Nodes /\ s.m \in Nodes /\ s.n # s.m /\ s.k \in Nat
      /\ Held(c) = {s.n, s.m} /\ ~Assigning(c) /\ c.op # "CreateRecord"
      /\ WellFormed(c.op, Tail(c.todo)) /\ (Nested(Tail(c.todo)) <=> Nested(c.todo))
      /\ Follows(s, Head(Tail(c.todo)))
  BY <1>1, InTransfer
<1>3. PICK rpc \in Outcomes :
        /\ data' \in BatchData(s.m, list, rpc[1], rpc[2])
        /\ IF rpc[2]
           THEN /\ status' = [status EXCEPT ![s.m] = Unsigned(@ + s.k)]
                /\ next' = [next EXCEPT ![s.m] = Max(list \cup {@ - 1}) + 1]
                /\ call' = [moving EXCEPT ![t].list = list, ![t].todo = Tail(@)]
                /\ UNCHANGED nodeLock
           ELSE /\ call' = [moving EXCEPT ![t].todo = Tail(Tail(@))]
                /\ nodeLock' = BothUnlocked(t)
                /\ UNCHANGED <<status, next>>
        /\ Count(rpc[2])
  BY DEF Copy
<1>4. faults' \in 0 .. MaxFaults
  BY <1>3, Rpc
<1>5. list \subseteq Nat /\ IsFiniteSet(list)
  BY <1>2, ListTypes
<1> HIDE DEF list
<1>6. data' \in [Nodes -> SUBSET Nat] /\ Finite'
  BY <1>2, <1>3, <1>5, BatchTypes
<1>7. status' \in [Nodes -> Nat] /\ next' \in [Nodes -> Nat]
  <2>1. status \in [Nodes -> Nat] /\ next \in [Nodes -> Nat]
    BY DEF LInv, TypeOK
  <2>2. Unsigned(status[s.m] + s.k) \in Nat
    <3>1. status[s.m] + s.k \in Int
      BY <1>2, <2>1
    <3> QED
      BY <3>1, UnsignedNat
  <2>3. Max(list \cup {next[s.m] - 1}) + 1 \in Nat
    <3> DEFINE a == next[s.m]
               S == list \cup {a - 1}
    <3>1. a \in Nat
      BY <1>2, <2>1
    <3>2. PICK b \in Nat : \A y \in list : y <= b
      BY <1>5, FiniteTop
    <3> HIDE DEF a
    <3>3. /\ S \subseteq Int /\ S # {} /\ b + a \in Nat
          /\ \A y \in S : -1 <= y /\ y <= b + a
      <4>1. \A y \in list : y \in Nat /\ y <= b
        BY <1>5, <3>2
      <4> QED
        BY <3>1, <4>1
    <3> HIDE DEF S
    <3>4. Max(S) \in S
      BY <3>3, MaxTop
    <3> DEFINE top == Max(S)
    <3>6. top \in S
      BY <3>4
    <3> HIDE DEF top
    <3>7. top \in Int /\ -1 <= top
      BY <3>3, <3>6
    <3>8. top + 1 \in Nat
      BY <3>7
    <3>5. Max(S) + 1 \in Nat
      BY <3>8 DEF top
    <3> QED
      BY <3>5 DEF S, a
  <2> QED
    BY <1>3, <2>1, <2>2, <2>3
<1>8. call \in [Threads -> Calls \cup {None}]
  BY DEF LInv, TypeOK
<1>9. moving[t] = c /\ t \in DOMAIN moving
  BY <1>8 DEF Disturb
<1> DEFINE T == Tail(c.todo)
<1>10. Head(T).do = "remove" /\ Head(T).n = s.n /\ Head(T).m = s.m
  <2> HIDE DEF c, s
  <2> QED
    BY <1>2 DEF Follows
<1>11. CASE rpc[2]
  <2> DEFINE e == [c EXCEPT !.list = list, !.todo = T]
  <2>1. call' = [moving EXCEPT ![t] = e]
    <3> HIDE DEF moving
    <3> QED
      BY <1>3, <1>9, <1>11
  <2> HIDE DEF T
  <2>2. e \in Calls
    BY <1>2, <1>5, CallTypes DEF WellFormed, T
  <2>3. e.todo = T /\ e.op = c.op /\ e.ids = c.ids /\ e.ok = c.ok
    <3> HIDE DEF c
    <3> QED
      BY <1>2 DEF Calls
  <2>4. e.start = c.start /\ e.end = c.end /\ e.good = c.good
    <3> HIDE DEF c
    <3> QED
      BY <1>2 DEF Calls
  <2> HIDE DEF e
  <2>5. /\ call' \in [Threads -> Calls \cup {None}] /\ d = e
        /\ \A u \in Threads \ {t} : Alike(call[u], call'[u])
    BY <2>1, <2>2, Moved
  <2> HIDE DEF c, d, s
  <2>6. Sane(e) /\ Depth(e) = Depth(c) /\ ~Assigning(e) /\ Held(e) = {s.n, s.m}
    <3>1. WellFormed(c.op, T) /\ (Nested(T) <=> Nested(c.todo)) /\ Head(c.todo).do = "copy"
      BY <1>2 DEF T
    <3>2. /\ Sane(e) /\ Depth(e) = Depth(c) /\ ~Assigning(e)
          /\ (Head(T).do = "remove" => Held(e) = {Head(T).n, Head(T).m})
      BY <1>2, <1>10, <2>2, <2>3, <2>4, <3>1, TransferGoes
    <3> QED
      BY <1>10, <3>2
  <2>7. UNCHANGED locks
    BY <1>1, <1>3, <1>11 DEF locks
  <2>8. Formed' /\ Locked'
    BY <1>2, <2>5, <2>6, <2>7, LocksStay DEF c, d
  <2>9. TypeOK'
    BY <1>1, <1>4, <1>6, <1>7, <2>5, <2>7 DEF LInv, TypeOK, history, locks
  <2> QED
    BY <1>6, <2>8, <2>9 DEF LInv
<1>12. CASE ~rpc[2]
  <2> DEFINE q == Tail(T)
             e == [c EXCEPT !.todo = q]
  <2>1. call' = [moving EXCEPT ![t] = e]
    <3> HIDE DEF moving
    <3> QED
      BY <1>3, <1>9, <1>12
  <2> HIDE DEF T
  <2>2. /\ WellFormed(c.op, q) /\ (Nested(q) <=> Nested(c.todo)) /\ Follows(Head(T), Head(q))
    <3>1. Head(T).do \notin {"assign", "runlock"} /\ WellFormed(c.op, T) /\ (Nested(T) <=> Nested(c.todo))
      BY <1>2, <1>10 DEF T
    <3> QED
      BY <3>1, NextWell
  <2> HIDE DEF q
  <2>3. e \in Calls
    BY <1>2, <2>2, CallTypes DEF WellFormed
  <2>4. e.todo = q /\ e.op = c.op /\ e.ids = c.ids /\ e.ok = c.ok
    <3> HIDE DEF c
    <3> QED
      BY <1>2 DEF Calls
  <2>5. e.start = c.start /\ e.end = c.end /\ e.good = c.good
    <3> HIDE DEF c
    <3> QED
      BY <1>2 DEF Calls
  <2> HIDE DEF e
  <2>6. /\ call' \in [Threads -> Calls \cup {None}] /\ d = e
        /\ \A u \in Threads \ {t} : Alike(call[u], call'[u])
    BY <2>1, <2>3, Moved
  <2> HIDE DEF c, d, s
  <2>7. /\ Head(q).do \in {"compare", "runlock"} \/ (Head(q).do = "lock" /\ Head(q).m # 0)
        /\ Head(q).do # "remove"
    BY <1>10, <2>2 DEF Follows
  <2>8. Sane(e) /\ Depth(e) = Depth(c) /\ ~Assigning(e) /\ Held(e) = {}
    <3>1. Head(c.todo).do = "copy"
      BY <1>2
    <3>2. /\ Sane(e) /\ Depth(e) = Depth(c) /\ ~Assigning(e)
          /\ (Head(q).do # "remove" => Held(e) = {})
      BY <1>2, <2>2, <2>3, <2>4, <2>5, <2>7, <3>1, TransferGoes
    <3> QED
      BY <2>7, <3>2
  <2>9. nodeLock' = [l \in Nodes |-> IF l \in Held(call[t]) THEN None ELSE nodeLock[l]]
    <3>1. nodeLock' = [nodeLock EXCEPT ![s.n] = None, ![s.m] = None]
      BY <1>3, <1>12 DEF BothUnlocked, s
    <3>2. Held(call[t]) = {s.n, s.m} /\ nodeLock \in [Nodes -> Threads \cup {None}]
      BY <1>2 DEF c, LInv, TypeOK
    <3> QED
      BY <1>2, <3>1, <3>2
  <2>10. Formed' /\ Locked' /\ nodeLock' \in [Nodes -> Threads \cup {None}]
    BY <1>1, <1>2, <2>6, <2>8, <2>9, GivenBack DEF c, d
  <2>11. TypeOK'
    BY <1>1, <1>4, <1>6, <1>7, <2>6, <2>10 DEF LInv, TypeOK, history
  <2> QED
    BY <1>6, <2>10, <2>11 DEF LInv
<1> QED
  BY <1>11, <1>12

LEMMA DeleteMovedInv ==
    ASSUME LInv, NEW t \in Threads, DeleteMoved(t)
    PROVE  LInv'
<1> DEFINE c == call[t]
           d == call'[t]
           s == Now(t)
           moving == Disturb(call, t, Unmoved)
           q == Tail(c.todo)
           none == {}
           e == [c EXCEPT !.list = none, !.todo = q]
<1>1. /\ Doing(t, "remove") /\ UNCHANGED <<next, nextId, reads, writer, idLock, history>>
      /\ status' = [status EXCEPT ![s.n] = Unsigned(@ - s.k)]
      /\ call' = [moving EXCEPT ![t].list = none, ![t].todo = Tail(@)]
      /\ nodeLock' = [nodeLock EXCEPT ![s.n] = None, ![s.m] = None]
  BY DEF DeleteMoved, BothUnlocked
<1>2. /\ c \in Calls /\ c # None /\ WellFormed(c.op, c.todo) /\ Fitting(c) /\ s = Head(c.todo)
      /\ s \in Steps /\ s.do = "remove" /\ s.n \in Nodes /\ s.m \in Nodes /\ s.n # s.m /\ s.k \in Nat
      /\ Held(c) = {s.n, s.m} /\ ~Assigning(c) /\ c.op # "CreateRecord"
      /\ WellFormed(c.op, q) /\ (Nested(q) <=> Nested(c.todo)) /\ Follows(s, Head(q))
  BY <1>1, InTransfer
<1>3. PICK rpc \in Outcomes :
        /\ data' = IF rpc[1] THEN [data EXCEPT ![s.n] = @ \ c.list] ELSE data
        /\ Count(rpc[2])
  BY DEF DeleteMoved
<1>4. faults' \in 0 .. MaxFaults
  BY <1>3, Rpc
<1>5. data' \in [Nodes -> SUBSET Nat] /\ Finite'
  <2>1. data \in [Nodes -> SUBSET Nat] /\ \A m \in Nodes : IsFiniteSet(data[m])
    BY DEF LInv, TypeOK, Finite
  <2>2. IsFiniteSet(data[s.n] \ c.list)
    BY <1>2, <2>1, FS_Subset
  <2> QED
    BY <1>3, <2>1, <2>2 DEF Finite
<1>6. status' \in [Nodes -> Nat]
  <2>1. status \in [Nodes -> Nat]
    BY DEF LInv, TypeOK
  <2>2. Unsigned(status[s.n] - s.k) \in Nat
    BY <1>2, <2>1, UnsignedNat
  <2> QED
    BY <1>1, <2>1, <2>2
<1>7. call \in [Threads -> Calls \cup {None}]
  BY DEF LInv, TypeOK
<1>8. moving[t] = c /\ t \in DOMAIN moving
  BY <1>7 DEF Disturb
<1>9. call' = [moving EXCEPT ![t] = e]
  <2> HIDE DEF moving, none
  <2> QED
    BY <1>1, <1>8
<1> HIDE DEF q
<1>10. e \in Calls
  <2>1. none \in SUBSET Nat /\ q \in Seq(Steps)
    BY <1>2 DEF WellFormed
  <2> HIDE DEF none
  <2> QED
    BY <1>2, <2>1, CallTypes
<1>11. e.todo = q /\ e.op = c.op /\ e.ids = c.ids /\ e.ok = c.ok
  <2> HIDE DEF c
  <2> QED
    BY <1>2 DEF Calls
<1>12. e.start = c.start /\ e.end = c.end /\ e.good = c.good
  <2> HIDE DEF c
  <2> QED
    BY <1>2 DEF Calls
<1> HIDE DEF e
<1>13. /\ call' \in [Threads -> Calls \cup {None}] /\ d = e
       /\ \A u \in Threads \ {t} : Alike(call[u], call'[u])
  BY <1>9, <1>10, Moved
<1> HIDE DEF c, d, s
<1>14. /\ Head(q).do \in {"compare", "runlock"} \/ (Head(q).do = "lock" /\ Head(q).m # 0)
       /\ Head(q).do # "remove"
  BY <1>2 DEF Follows
<1>15. Sane(e) /\ Depth(e) = Depth(c) /\ ~Assigning(e) /\ Held(e) = {}
  <2>1. Head(c.todo).do = "remove"
    BY <1>2
  <2>2. /\ Sane(e) /\ Depth(e) = Depth(c) /\ ~Assigning(e)
        /\ (Head(q).do # "remove" => Held(e) = {})
    BY <1>2, <1>10, <1>11, <1>12, <1>14, <2>1, TransferGoes
  <2> QED
    BY <1>14, <2>2
<1>16. nodeLock' = [l \in Nodes |-> IF l \in Held(call[t]) THEN None ELSE nodeLock[l]]
  <2>1. Held(call[t]) = {s.n, s.m} /\ nodeLock \in [Nodes -> Threads \cup {None}]
    BY <1>2 DEF c, LInv, TypeOK
  <2> QED
    BY <1>1, <1>2, <2>1
<1>17. Formed' /\ Locked' /\ nodeLock' \in [Nodes -> Threads \cup {None}]
  BY <1>1, <1>2, <1>13, <1>15, <1>16, GivenBack DEF c, d
<1>18. TypeOK'
  BY <1>1, <1>4, <1>5, <1>6, <1>13, <1>17 DEF LInv, TypeOK, history
<1> QED
  BY <1>5, <1>17, <1>18 DEF LInv

-----------------------------------------------------------------------------
(* Calls begin.                                                            *)

(* A call begins, and the others know it.                                  *)
LEMMA BeginPut ==
    ASSUME LInv, NEW t \in Threads, NEW op, NEW ids, NEW todo, Begin(t, op, ids, todo),
           op \in {"CreateRecord", "CreateRecordWithId", "CreateRecordsWithId",
                   "DeleteRecords", "ListRecords"},
           ids \subseteq Ids, WellFormed(op, todo)
    PROVE  LET d == call'[t] IN
           /\ call[t] = None /\ call' \in [Threads -> Calls \cup {None}]
           /\ \A u \in Threads \ {t} : Alike(call[u], call'[u])
           /\ d \in Calls /\ d # None /\ d.op = op /\ d.ids = ids /\ d.todo = todo
           /\ d.start = 0 /\ d.end = 0 /\ d.ok = TRUE
<1> DEFINE Aside(c) == [c EXCEPT !.alone = FALSE]
           others == Disturb(call, t, Aside)
           e == [op |-> op, ids |-> ids, todo |-> todo, start |-> 0, end |-> 0,
                 good |-> 0, old |-> 0, list |-> {}, ok |-> TRUE,
                 had |-> ids \cap Stored, alone |-> Others(t) = {} /\ CountsAreRight,
                 still |-> TRUE]
           d == call'[t]
<1>1. call[t] = None /\ call' = [others EXCEPT ![t] = e]
  BY DEF Begin
<1>2. call \in [Threads -> Calls \cup {None}]
  BY DEF LInv, TypeOK
<1>3. e \in Calls
  <2> DEFINE a == Others(t) = {} /\ CountsAreRight
             h == ids \cap Stored
  <2>1. a \in BOOLEAN /\ h \in SUBSET Ids /\ 0 \in 0 .. N /\ 0 \in Nat /\ todo \in Seq(Steps)
    BY InternalAssumption DEF WellFormed
  <2> HIDE DEF a, h
  <2>2. [op |-> op, ids |-> ids, todo |-> todo, start |-> 0, end |-> 0,
         good |-> 0, old |-> 0, list |-> {}, ok |-> TRUE,
         had |-> h, alone |-> a, still |-> TRUE] \in Calls
    BY <2>1 DEF Calls
  <2> QED
    BY <2>2 DEF a, h
<1>4. e.op = op /\ e.ids = ids /\ e.todo = todo /\ e.start = 0 /\ e.end = 0 /\ e.ok = TRUE
  OBVIOUS
<1> HIDE DEF e
<1>5. /\ DOMAIN others = Threads
      /\ \A u \in Threads \ {t} : others[u] = IF call[u] # None THEN [call[u] EXCEPT !.alone = FALSE] ELSE None
  BY <1>2 DEF Disturb
<1> HIDE DEF others
<1>6. /\ d = e /\ \A u \in Threads \ {t} : call'[u] = others[u]
      /\ call' = [u \in Threads |-> call'[u]]
  BY <1>1, <1>5
<1>7. ASSUME NEW u \in Threads \ {t}
      PROVE  call'[u] \in Calls \cup {None} /\ Alike(call[u], call'[u])
  <2> DEFINE c == call[u]
             x == [c EXCEPT !.alone = FALSE]
  <2>1. CASE c = None
    BY <1>5, <1>6, <2>1 DEF Alike
  <2>2. CASE c # None
    <3>1. c \in Calls /\ call'[u] = x
      BY <1>2, <1>5, <1>6, <2>2
    <3>2. x \in Calls
      BY <3>1, CallTypes
    <3>3. x # None
      BY <3>2, CallTypes
    <3>4. x.op = c.op /\ x.ids = c.ids /\ x.todo = c.todo /\ x.start = c.start
      <4> HIDE DEF c
      <4> QED
        BY <3>1 DEF Calls
    <3>5. x.end = c.end /\ x.good = c.good /\ x.list = c.list /\ x.ok = c.ok
      <4> HIDE DEF c
      <4> QED
        BY <3>1 DEF Calls
    <3> HIDE DEF c, x
    <3>6. Alike(c, x)
      BY <2>2, <3>3, <3>4, <3>5 DEF Alike
    <3> QED
      BY <3>1, <3>2, <3>6 DEF c
  <2> QED
    BY <2>1, <2>2
<1>8. call' \in [Threads -> Calls \cup {None}]
  <2>1. \A u \in Threads : call'[u] \in Calls \cup {None}
    BY <1>3, <1>6, <1>7
  <2> QED
    BY <1>6, <2>1
<1>9. e # None
  BY <1>3, CallTypes
<1> QED
  BY <1>1, <1>3, <1>4, <1>6, <1>7, <1>8, <1>9

LEMMA BeginInv ==
    ASSUME LInv, NEW t \in Threads, NEW op, NEW ids, NEW todo, Begin(t, op, ids, todo),
           op \in {"CreateRecord", "CreateRecordWithId", "CreateRecordsWithId",
                   "DeleteRecords", "ListRecords"},
           ids \subseteq Ids, WellFormed(op, todo), ~Nested(todo),
           op \in {"CreateRecord", "ListRecords"} => ids = {},
           op = "CreateRecord" => Head(todo).do = "choose",
           op # "CreateRecord" => Head(todo).do = "rlock",
           op = "CreateRecordWithId" => Cardinality(ids) = 1
    PROVE  LInv'
<1> DEFINE d == call'[t]
<1>1. /\ calls < MaxCalls /\ calls' = calls + 1
      /\ raced' = raced \cup (ids \cap InProgress(t))
                        \cup (IF op = "CreateRecordsWithId" THEN ids \cap Stored ELSE {})
      /\ acked' = IF op = "DeleteRecords" THEN acked \ ids ELSE acked
      /\ UNCHANGED <<data, own, counters, locks, faults, slipped>>
  BY DEF Begin
<1>2. /\ call[t] = None /\ call' \in [Threads -> Calls \cup {None}]
      /\ \A u \in Threads \ {t} : Alike(call[u], call'[u])
      /\ d \in Calls /\ d # None /\ d.op = op /\ d.ids = ids /\ d.todo = todo
      /\ d.start = 0 /\ d.end = 0 /\ d.ok = TRUE
  BY BeginPut, ZenonT(60)
<1> HIDE DEF d
<1>3. Fitting(d)
  <2>1. d.start <= d.end
    BY <1>2
  <2> QED
    BY <1>2, <2>1 DEF Fitting, Storing, FallingBack
<1>4. Sane(d) /\ Held(d) = {} /\ ~Assigning(d)
  BY <1>2, <1>3 DEF Sane, Held, Assigning
<1>5. Depth(d) = 0
  BY <1>2 DEF Depth
<1>6. Held(call[t]) = {} /\ ~Assigning(call[t]) /\ Depth(call[t]) = 0
  BY <1>2 DEF Held, Assigning, Depth
<1>7. Formed' /\ Locked'
  BY <1>1, <1>2, <1>4, <1>5, <1>6, LocksStay DEF d
<1>8. calls' \in 0 .. MaxCalls
  BY <1>1, InternalAssumption DEF LInv, TypeOK
<1>9. acked' \cup raced' \cup slipped' \subseteq Nat
  <2>1. ids \subseteq Nat
    BY InternalAssumption DEF Ids
  <2> QED
    BY <1>1, <2>1 DEF LInv, TypeOK
<1>10. TypeOK' /\ Finite'
  BY <1>1, <1>2, <1>8, <1>9 DEF LInv, TypeOK, Finite, counters, locks
<1> QED
  BY <1>7, <1>10 DEF LInv

LEMMA CallsInv ==
    ASSUME LInv, NEW t \in Threads,
           \/ CreateRecord(t) \/ ListRecords(t)
           \/ \E id \in Ids : CreateRecordWithId(t, id)
           \/ \E ids \in SUBSET Ids : CreateRecordsWithId(t, ids) \/ DeleteRecords(t, ids)
    PROVE  LInv'
<1>1. CASE CreateRecord(t)
  <2> DEFINE op == "CreateRecord"
             todo == CreateRecordSteps
             ids == {}
  <2>1. /\ Begin(t, op, ids, todo) /\ WellFormed(op, todo) /\ ~Nested(todo) /\ Head(todo).do = "choose"
        /\ op = "CreateRecord" /\ ids = {} /\ ids \subseteq Ids
    BY <1>1, CreateRecordWell DEF CreateRecord, Step, Act
  <2> HIDE DEF op, todo, ids
  <2> QED
    BY <2>1, BeginInv
<1>5. CASE ListRecords(t)
  <2> DEFINE op == "ListRecords"
             todo == ListSteps
             ids == {}
  <2>1. /\ Begin(t, op, ids, todo) /\ WellFormed(op, todo) /\ ~Nested(todo) /\ Head(todo).do = "rlock"
        /\ op = "ListRecords" /\ ids = {} /\ ids \subseteq Ids
    BY <1>5, ListStepsWell DEF ListRecords, Step, Act
  <2> HIDE DEF op, todo, ids
  <2> QED
    BY <2>1, BeginInv
<1>2. ASSUME NEW id \in Ids, CreateRecordWithId(t, id) PROVE LInv'
  <2> DEFINE op == "CreateRecordWithId"
             todo == CreateWithIdSteps
             ids == {id}
  <2>1. /\ Begin(t, op, ids, todo) /\ WellFormed(op, todo) /\ ~Nested(todo) /\ Head(todo).do = "rlock"
        /\ op = "CreateRecordWithId" /\ Cardinality(ids) = 1 /\ ids \subseteq Ids
    <3>1. Cardinality({id}) = 1
      BY FS_Singleton
    <3>2. Step("rlock").do = "rlock"
      BY DEF Step, Act
    <3>3. Head(todo).do = "rlock" /\ WellFormed(op, todo) /\ ~Nested(todo)
      <4>1. Head(CreateWithIdSteps) = Step("rlock")
        BY CreateWithIdWell
      <4> QED
        BY <3>2, <4>1, CreateWithIdWell, Zenon
    <3> QED
      BY <1>2, <3>1, <3>3 DEF CreateRecordWithId
  <2> HIDE DEF op, todo, ids
  <2>2. /\ op \in {"CreateRecord", "CreateRecordWithId", "CreateRecordsWithId",
                   "DeleteRecords", "ListRecords"}
        /\ op # "CreateRecord"
    BY <2>1
  <2> QED
    BY <2>1, <2>2, BeginInv
<1>3. ASSUME NEW ids \in SUBSET Ids, CreateRecordsWithId(t, ids) PROVE LInv'
  <2> DEFINE op == "CreateRecordsWithId"
             todo == CreateManySteps
  <2>1. /\ Begin(t, op, ids, todo) /\ WellFormed(op, todo) /\ ~Nested(todo) /\ Head(todo).do = "rlock"
        /\ op = "CreateRecordsWithId"
    BY <1>3, CreateManyWell DEF CreateRecordsWithId, Step, Act
  <2> HIDE DEF op, todo
  <2> QED
    BY <2>1, BeginInv
<1>4. ASSUME NEW ids \in SUBSET Ids, DeleteRecords(t, ids) PROVE LInv'
  <2> DEFINE op == "DeleteRecords"
             todo == DeleteManySteps
  <2>1. /\ Begin(t, op, ids, todo) /\ WellFormed(op, todo) /\ ~Nested(todo) /\ Head(todo).do = "rlock"
        /\ op = "DeleteRecords"
    BY <1>4, DeleteManyWell DEF DeleteRecords, Step, Act
  <2> HIDE DEF op, todo
  <2> QED
    BY <2>1, BeginInv
<1> QED
  BY <1>1, <1>2, <1>3, <1>4, <1>5

LEMMA WriterInv ==
    ASSUME LInv, WLock \/ WUnlock
    PROVE  LInv'
<1>1. UNCHANGED <<data, counters, reads, nodeLock, idLock, call, faults, history>>
  BY DEF WLock, WUnlock
<1>2. writer' \in {"away", "waiting"}
  BY DEF WLock, WUnlock
<1>3. TypeOK' /\ Finite'
  BY <1>1, <1>2 DEF LInv, TypeOK, Finite, counters, history
<1>4. Formed' /\ Locked'
  BY <1>1 DEF LInv, Formed, Locked
<1> QED
  BY <1>3, <1>4 DEF LInv

LEMMA ProceedInv ==
    ASSUME LInv, NEW t \in Threads, Proceed(t)
    PROVE  LInv'
<1>1. CASE Choose(t)
  <2> DEFINE what == "choose"
  <2>1. /\ what \in {"choose", "pick"} /\ Doing(t, what) /\ Then(t, [call[t] EXCEPT !.good = Less(t)])
        /\ UNCHANGED <<data, counters, locks, faults, history>>
    BY <1>1 DEF Choose
  <2> HIDE DEF what
  <2> QED
    BY <2>1, ChooseInv
<1>2. CASE Pick(t)
  <2> DEFINE what == "pick"
  <2>1. /\ what \in {"choose", "pick"} /\ Doing(t, what) /\ Then(t, [call[t] EXCEPT !.good = Less(t)])
        /\ UNCHANGED <<data, counters, locks, faults, history>>
    BY <1>2 DEF Pick
  <2> HIDE DEF what
  <2> QED
    BY <2>1, ChooseInv
<1> QED
  BY <1>1, <1>2, RLockInv, RUnlockInv, LockNodeInv, LockSecondInv, LockIdInv, AssignInv, ExistsInv,
     CreateInv, StoreInv, SettleInv, FallbackInv, CountBeforeInv, WorkerDeleteInv,
     WorkerRefreshInv, CompareInv, BalanceInv, CopyInv, DeleteMovedInv, RaiseInv, ListInv DEF Proceed

LEMMA InitInv ==
    ASSUME Init
    PROVE  LInv
<1>1. N \in Nat \ {0} /\ MaxId \in Nat \ {0} /\ MaxCalls \in Nat /\ MaxFaults \in Nat /\ Nodes # {}
  BY InternalAssumption DEF Nodes
<1>2. data \in [Nodes -> SUBSET Ids]
  BY InternalAssumption DEF Init, Nodes, Ids
<1>3. data \in [Nodes -> SUBSET Nat] /\ Ids \subseteq Nat
  BY <1>1, <1>2 DEF Ids
<1>4. \A n \in Nodes : IsFiniteSet(data[n]) /\ Cardinality(data[n]) \in Nat
  BY <1>2, IdsFinite
<1>5. own \in [Nodes -> Nat] /\ own = next /\ \A n \in Nodes : own[n] <= MaxId + 1
  <2>1. ASSUME NEW n \in Nodes, data[n] # {} PROVE Max(data[n]) \in Ids
    <3> DEFINE S == data[n]
    <3>1. S \subseteq 1 .. MaxId /\ S # {} /\ MaxId \in Nat
      BY <1>1, <1>2, <2>1 DEF Ids
    <3> HIDE DEF S
    <3>2. Max(S) \in S
      BY <3>1, MaxOf
    <3> QED
      BY <1>2, <3>2 DEF S
  <2>2. own = [n \in Nodes |-> IF data[n] = {} THEN 1 ELSE Max(data[n]) + 1] /\ own = next
    BY DEF Init
  <2>3. \A n \in Nodes : own[n] \in Nat /\ own[n] <= MaxId + 1
    <3> SUFFICES ASSUME NEW n \in Nodes PROVE own[n] \in Nat /\ own[n] <= MaxId + 1
      OBVIOUS
    <3>1. CASE data[n] = {}
      BY <1>1, <2>2, <3>1
    <3>2. CASE data[n] # {}
      <4>1. Max(data[n]) \in Ids /\ own[n] = Max(data[n]) + 1
        BY <2>1, <2>2, <3>2
      <4> QED
        BY <1>1, <4>1 DEF Ids
    <3> QED
      BY <3>1, <3>2
  <2> QED
    BY <2>2, <2>3
<1>6. nextId \in Nat /\ \A n \in Nodes : next[n] <= nextId
  <2> DEFINE S == {next[n] : n \in Nodes}
  <2>1. /\ S \subseteq Int /\ S \subseteq Nat /\ S # {} /\ MaxId + 1 \in Nat
        /\ \A y \in S : -1 <= y /\ y <= MaxId + 1
    BY <1>1, <1>5
  <2>2. \A n \in Nodes : next[n] \in S
    OBVIOUS
  <2>3. nextId = Max(S)
    BY DEF Init
  <2> HIDE DEF S
  <2>4. Max(S) \in S /\ \A y \in S : y <= Max(S)
    BY <2>1, MaxTop
  <2> QED
    BY <2>1, <2>2, <2>3, <2>4
<1>7. status \in [Nodes -> Nat]
  BY <1>4 DEF Init
<1>8. acked \subseteq Nat
  BY <1>3 DEF Init, Stored
<1>9. TypeOK
  BY <1>1, <1>3, <1>5, <1>6, <1>7, <1>8 DEF Init, TypeOK
<1>10. \A t \in Threads : Sane(call[t]) /\ Held(call[t]) = {} /\ Depth(call[t]) = 0 /\ ~Assigning(call[t])
  BY DEF Init, Sane, Held, Depth, Assigning
<1>11. Formed /\ Locked
  BY <1>10, InternalAssumption DEF Init, Formed, Locked
<1> QED
  BY <1>4, <1>9, <1>11 DEF LInv, Finite

LEMMA NextInv ==
    ASSUME LInv, [Next]_vars
    PROVE  LInv'
<1>1. CASE UNCHANGED vars
  BY <1>1 DEF LInv, TypeOK, Finite, Formed, Locked, vars, counters, locks, history
<1>2. CASE Next
  <2>1. ASSUME NEW t \in Threads, Proceed(t) PROVE LInv'
    BY <2>1, ProceedInv
  <2>2. ASSUME NEW t \in Threads,
               \/ CreateRecord(t) \/ ListRecords(t)
               \/ \E id \in Ids : CreateRecordWithId(t, id)
               \/ \E ids \in SUBSET Ids : CreateRecordsWithId(t, ids) \/ DeleteRecords(t, ids)
        PROVE  LInv'
    BY <2>2, CallsInv
  <2> QED
    BY <1>2, <2>1, <2>2, WriterInv DEF Next
<1> QED
  BY <1>1, <1>2

(* At every moment each goroutine holds the locks of nodes, idLock and     *)
(* nodesLock that the place it has reached in its call says, and nobody    *)
(* else holds them; the steps it has left are in the order of the code     *)
(* (mux_records.go and balancer.go).                                       *)
THEOREM LocksAreRight == Spec => []LInv
<1>1. Init => LInv
  BY InitInv
<1>2. LInv /\ [Next]_vars => LInv'
  BY NextInv
<1> QED
  BY <1>1, <1>2, PTL DEF Spec

(* Goroutine t is blocked, by what it does next.                           *)
LEMMA BlockedHow ==
    ASSUME LInv, NEW t \in Threads, call[t] # None, Blocked(t)
    PROVE  LET s == Now(t) IN
           \/ s.do \in {"rlock", "choose"} /\ writer = "waiting"
           \/ s.do \in {"choose", "pick", "total", "balance", "compare"} /\ \E n \in Nodes : KeptOut(n)
           \/ s.do = "list" /\ KeptOut(s.n) /\ s.n \in Nodes
           \/ s.do = "lock" /\ ~MayWrite(Place(t)) /\ Place(t) \in Nodes
           \/ s.do = "lock second" /\ ~MayWrite(s.m) /\ s.m \in Nodes /\ s.n \in Nodes
           \/ s.do \in {"lock id", "create", "store", "fallback"} /\ idLock # None
           \/ s.do = "work" /\ (idLock # None \/ \E n \in Nodes : ~MayWrite(n))
<1> DEFINE c == call[t]
           s == Now(t)
<1>1. /\ c \in Calls /\ WellFormed(c.op, c.todo) /\ Fitting(c) /\ s = Head(c.todo)
      /\ s \in Steps /\ Proper(s)
  <2>1. c \in Calls
    BY DEF LInv, TypeOK
  <2>2. WellFormed(c.op, c.todo) /\ Fitting(c)
    BY DEF LInv, Formed, Sane
  <2>3. Now(t) = Head(c.todo)
    BY DEF Now
  <2> QED
    BY <2>1, <2>2, <2>3, HeadWell
<1>2. s.do = "lock" => Place(t) \in Nodes
  <2>1. Place(t) = IF s.n = 0 THEN c.good ELSE s.n
    BY DEF Place
  <2>2. s.n \in 0 .. N /\ s.m \in 0 .. N
    BY <1>1 DEF Steps
  <2> HIDE DEF c, s
  <2>3. CASE s.do = "lock" /\ s.n = 0
    <3>1. s.m = 0
      <4>1. s.m # 0 => s.n \in Nodes
        BY <1>1, <2>3 DEF Proper, Moving
      <4> QED
        BY <2>3, <4>1, InternalAssumption DEF Nodes
    <3>2. FallingBack(s)
      BY <2>3, <3>1 DEF FallingBack
    <3>3. c.good \in Nodes
      BY <1>1, <3>2 DEF Fitting
    <3> QED
      BY <2>1, <2>3, <3>3
  <2>4. CASE s.n # 0
    BY <2>1, <2>2, <2>4, InternalAssumption DEF Nodes
  <2> QED
    BY <2>3, <2>4
<1>3. (s.do = "lock second" => s.m \in Nodes /\ s.n \in Nodes) /\ (s.do = "list" => s.n \in Nodes)
  BY <1>1 DEF Proper, Moving
<1>4. s.do = "work" /\ (\A w \in s.left : w[2] = "refresh" /\ (~MayWrite(w[1]) \/ idLock # None))
        => idLock # None \/ \E n \in Nodes : ~MayWrite(n)
  <2> SUFFICES ASSUME s.do = "work",
                      \A w \in s.left : w[2] = "refresh" /\ (~MayWrite(w[1]) \/ idLock # None)
               PROVE  idLock # None \/ \E n \in Nodes : ~MayWrite(n)
    OBVIOUS
  <2>1. s.left # {} /\ s.left \subseteq Nodes \X {"ask", "delete", "refresh"}
    <3> HIDE DEF s, c
    <3> QED
      BY <1>1 DEF Fitting, Steps
  <2>2. PICK w \in s.left : w[1] \in Nodes
    BY <2>1
  <2>3. ~MayWrite(w[1]) \/ idLock # None
    BY <2>2
  <2> QED
    BY <2>2, <2>3
<1>5. writer # "away" => writer = "waiting"
  BY DEF LInv, TypeOK
<1>6. t \in Raising => s.do \in {"create", "store", "fallback"}
  BY DEF Raising, Creating, Doing, Now
<1> QED
  BY <1>2, <1>3, <1>4, <1>5, <1>6 DEF Blocked, MayRead

(* If all calls wait for locks, then for the writer that waits between the *)
(* two read locks of a rollback (mux_records.go:442 and 458), or in a      *)
(* circle of transfers (balancer.go:13), of which ListRecords may be one   *)
(* (mux_records.go:159).  The holder of idLock never waits, so neither     *)
(* does a holder of a node's lock, unless for a second node; and of the    *)
(* ListRecords calls, which all go through the nodes in the same order,    *)
(* the one that got farthest waits for no other.                           *)
THEOREM Deadlocks == Spec => []DeadlocksAreKnown
<1>1. LInv => DeadlocksAreKnown
  <2> SUFFICES ASSUME LInv, Halted PROVE DeadlocksAreKnown
    BY DEF DeadlocksAreKnown
  <2>1. Busy # {} /\ \A t \in Busy : Blocked(t)
    BY DEF Halted
  <2>2. \A t \in Busy : /\ t \in Threads /\ call[t] # None
                        /\ WellFormed(call[t].op, call[t].todo) /\ call[t].todo # <<>>
    BY DEF Busy, LInv, Formed, Sane, WellFormed
  <2>3. \A t \in Busy : LET s == Now(t) IN
           \/ s.do \in {"rlock", "choose"} /\ writer = "waiting"
           \/ s.do \in {"choose", "pick", "total", "balance", "compare"} /\ \E n \in Nodes : KeptOut(n)
           \/ s.do = "list" /\ KeptOut(s.n) /\ s.n \in Nodes
           \/ s.do = "lock" /\ ~MayWrite(Place(t)) /\ Place(t) \in Nodes
           \/ s.do = "lock second" /\ ~MayWrite(s.m) /\ s.m \in Nodes /\ s.n \in Nodes
           \/ s.do \in {"lock id", "create", "store", "fallback"} /\ idLock # None
           \/ s.do = "work" /\ (idLock # None \/ \E n \in Nodes : ~MayWrite(n))
    BY <2>1, <2>2, BlockedHow
  <2>4. /\ \A n \in Nodes, t \in Threads : nodeLock[n] = t <=> n \in Held(call[t])
        /\ \A t \in Threads : idLock = t <=> Assigning(call[t])
        /\ \A t \in Threads : reads[t] = Depth(call[t])
        /\ nodeLock \in [Nodes -> Threads \cup {None}] /\ idLock \in Threads \cup {None}
    BY DEF LInv, Locked, TypeOK
  <2>5. idLock = None
    <3> SUFFICES ASSUME idLock # None PROVE FALSE
      OBVIOUS
    <3>1. PICK t \in Threads : idLock = t
      BY <2>4
    <3>2. call[t] # None /\ Now(t).do = "assign"
      BY <2>4, <3>1 DEF Assigning, Now
    <3>3. t \in Busy
      BY <3>2 DEF Busy
    <3> QED
      BY <2>3, <3>2, <3>3
  <2> DEFINE Seconds == {t \in Busy : Doing(t, "lock second")}
             Lists == {t \in Busy : Doing(t, "list")}
  (* Who holds the lock of a node waits for that of another.               *)
  <2>6. ASSUME NEW n \in Nodes, nodeLock[n] # None
        PROVE  \E t \in Seconds : Halfway(t, n)
    <3>1. PICK t \in Threads : nodeLock[n] = t
      BY <2>4, <2>6
    <3>2. n \in Held(call[t])
      BY <2>4, <3>1
    <3> DEFINE s == Now(t)
    <3>3. /\ call[t] # None
          /\ \/ s.do \in {"lock id", "assign", "create", "fallback"}
             \/ s.do \in {"store", "lock second"} /\ n = s.n
             \/ s.do \in {"copy", "remove"}
      BY <3>2 DEF Held, Now
    <3>4. t \in Busy
      BY <3>3 DEF Busy
    <3> HIDE DEF s
    <3>5. s.do = "lock second"
      BY <2>3, <2>5, <3>3, <3>4 DEF s
    <3> QED
      BY <2>2, <3>3, <3>4, <3>5 DEF s, Halfway, Doing, Now
  (* Who holds one for reading is a ListRecords that waits for the next.   *)
  <2>7. ASSUME NEW n \in Nodes, NEW t \in ReadLocks(n)
        PROVE  t \in Lists /\ n < Now(t).n
    <3>1. t \in Busy /\ (Now(t).do = "query" \/ (Doing(t, "list") /\ n < Now(t).n))
      BY DEF ReadLocks, Doing, Now
    <3> QED
      BY <2>3, <3>1
  <2>8. \A t \in Busy : Now(t).do = "list" <=> t \in Lists
    BY <2>2 DEF Doing, Now
  <2>9. \A t \in Lists : Now(t).n \in Nodes /\ KeptOut(Now(t).n)
    BY <2>3, <2>8
  <2>10. \A t \in Seconds : Now(t).m \in Nodes /\ ~MayWrite(Now(t).m)
    <3> SUFFICES ASSUME NEW t \in Seconds PROVE Now(t).m \in Nodes /\ ~MayWrite(Now(t).m)
      OBVIOUS
    <3>1. t \in Busy /\ Now(t).do = "lock second"
      BY DEF Doing, Now
    <3> QED
      BY <2>3, <3>1
  <2>11. Seconds \subseteq Busy /\ Lists \subseteq Busy
        /\ (\A t \in Seconds : Doing(t, "lock second")) /\ \A t \in Lists : Doing(t, "list")
    OBVIOUS
  <2> HIDE DEF Seconds, Lists
  <2>12. CASE Lists # {}
    <3> DEFINE S == {Now(t).n : t \in Lists}
    <3>1. S \subseteq 1 .. N /\ S # {} /\ N \in Nat
      BY <2>9, <2>12, InternalAssumption DEF Nodes
    <3>2. \A t \in Lists : Now(t).n \in S
      OBVIOUS
    <3>3. \A n \in S : \E t \in Lists : Now(t).n = n
      OBVIOUS
    <3> HIDE DEF S
    <3>4. Max(S) \in S /\ \A y \in S : y <= Max(S)
      BY <3>1, MaxOf
    <3>5. PICK v \in Lists : Now(v).n = Max(S)
      BY <3>3, <3>4
    <3>6. \A t \in Lists : Now(t).n <= Now(v).n
      BY <3>2, <3>4, <3>5
    <3>7. \E u \in Seconds : Halfway(u, Now(v).n)
      <4>1. Now(v).n \in Nodes /\ KeptOut(Now(v).n)
        BY <2>9
      <4>2. ReadLocks(Now(v).n) = {}
        <5> SUFFICES ASSUME NEW u \in ReadLocks(Now(v).n) PROVE FALSE
          OBVIOUS
        <5>1. u \in Lists /\ Now(v).n < Now(u).n
          BY <2>7, <4>1
        <5>2. Now(u).n <= Now(v).n /\ Now(u).n \in Nodes
          BY <2>9, <3>6, <5>1
        <5> QED
          BY <4>1, <5>1, <5>2, InternalAssumption DEF Nodes
      <4>3. nodeLock[Now(v).n] # None
        BY <4>1, <4>2 DEF KeptOut
      <4> QED
        BY <2>6, <4>1, <4>3
    <3> DEFINE circle == Seconds \cup {v}
    <3>8. circle \in (SUBSET Busy) \ {{}}
      BY <2>11
    <3>9. ASSUME NEW t \in Seconds
          PROVE  \E u \in circle : Halfway(u, Now(t).m) \/ u \in ReadLocks(Now(t).m)
      <4> DEFINE m == Now(t).m
      <4>1. m \in Nodes /\ ~MayWrite(m)
        BY <2>10
      <4> HIDE DEF m
      <4>2. CASE nodeLock[m] # None
        BY <2>6, <4>1, <4>2 DEF m
      <4>3. CASE ReadLocks(m) # {}
        <5>1. PICK u \in ReadLocks(m) : u \in Lists /\ m < Now(u).n
          BY <2>7, <4>1, <4>3
        <5>2. Now(u).n \in Nodes /\ Now(v).n \in Nodes /\ Now(u).n <= Now(v).n
          BY <2>9, <3>6, <5>1
        <5>3. m < Now(v).n
          BY <4>1, <5>1, <5>2, InternalAssumption DEF Nodes
        <5>4. v \in ReadLocks(m)
          BY <2>11, <5>3 DEF ReadLocks
        <5> QED
          BY <5>4 DEF m
      <4> QED
        BY <4>1, <4>2, <4>3 DEF MayWrite
    <3>10. \A t \in circle :
              \/ /\ Doing(t, "lock second")
                 /\ \E u \in circle : Halfway(u, Now(t).m) \/ u \in ReadLocks(Now(t).m)
              \/ Doing(t, "list") /\ \E u \in circle : Halfway(u, Now(t).n)
      BY <2>11, <3>7, <3>9
    <3> HIDE DEF circle
    <3> QED
      BY <3>8, <3>10 DEF DeadlocksAreKnown
  <2>13. CASE Lists = {} /\ \E n \in Nodes : nodeLock[n] # None
    <3>1. Seconds \in (SUBSET Busy) \ {{}}
      BY <2>6, <2>11, <2>13
    <3>2. ASSUME NEW t \in Seconds PROVE \E u \in Seconds : Halfway(u, Now(t).m)
      <4>1. Now(t).m \in Nodes /\ ~MayWrite(Now(t).m)
        BY <2>10
      <4>2. ReadLocks(Now(t).m) = {}
        BY <2>7, <2>13, <4>1
      <4> QED
        BY <2>6, <4>1, <4>2 DEF MayWrite
    <3> QED
      BY <2>11, <3>1, <3>2 DEF DeadlocksAreKnown
  <2>14. CASE Lists = {} /\ \A n \in Nodes : nodeLock[n] = None
    <3>1. \A n \in Nodes : MayWrite(n) /\ ~KeptOut(n)
      BY <2>7, <2>14 DEF MayWrite, KeptOut
    <3>2. \A t \in Busy : Now(t).do \in {"rlock", "choose"} /\ writer = "waiting"
      BY <2>3, <2>5, <3>1
    <3>3. writer = "waiting"
      BY <2>1, <3>2
    <3>4. ASSUME NEW u \in Threads, reads[u] # 0 PROVE u \in Busy /\ Doing(u, "rlock") /\ reads[u] = 1
      <4> DEFINE c == call[u]
      <4>1. c # None /\ c.op # "CreateRecord" /\ reads[u] = Depth(c)
        BY <2>4, <3>4 DEF Depth
      <4>2. u \in Busy /\ Now(u) = Head(c.todo)
        BY <4>1 DEF Busy, Now
      <4>3. WellFormed(c.op, c.todo) /\ c \in Calls
        BY <4>1 DEF LInv, Formed, Sane, TypeOK
      <4>4. Now(u).do = "rlock"
        <5>1. Now(u).do \in Kinds(c.op)
          BY <4>2, <4>3, HeadWell
        <5>2. c.op \in {"CreateRecordWithId", "CreateRecordsWithId", "DeleteRecords", "ListRecords"}
          <6> HIDE DEF c
          <6> QED
            BY <4>1, <4>3 DEF Calls
        <5>3. "choose" \notin Kinds(c.op)
          BY <5>2 DEF Kinds
        <5> QED
          BY <3>2, <4>2, <5>1, <5>3
      <4> HIDE DEF c
      <4>5. Depth(c) = (IF Nested(c.todo) THEN 2 ELSE 1) - 1
        BY <4>1, <4>2, <4>4 DEF Depth
      <4>6. reads[u] = 1
        BY <3>4, <4>1, <4>5
      <4> QED
        BY <4>1, <4>2, <4>3, <4>4, <4>6 DEF Doing, c, WellFormed
    <3> QED
      BY <3>3, <3>4 DEF DeadlocksAreKnown
  <2> QED
    BY <2>12, <2>13, <2>14
<1> QED
  BY <1>1, LocksAreRight, PTL

-----------------------------------------------------------------------------
(* What callers were told is stored stays stored.  A record may be on its  *)
(* way: it is safe on a node that no transfer is about to remove it from.  *)

Leaves(c, n, id) == c # None /\ Head(c.todo).do = "remove" /\ Head(c.todo).n = n /\ id \in c.list
Leaving(n, id) == \E t \in Threads : Leaves(call[t], n, id)
Safe(id) == \E n \in Nodes : id \in data[n] /\ ~Leaving(n, id)

(* What a call has stored so far, if it is going to tell its caller so.    *)
Early(s) == s.do \in {"rlock", "settle"} \/ Storing(s) \/ (FallingBack(s) /\ ~Answered(s))
Got(c) ==
    IF c = None THEN {}
    ELSE IF ~c.ok \/ c.op \in {"CreateRecord", "DeleteRecords", "ListRecords"} THEN {}
    ELSE IF c.op = "CreateRecordWithId"
         THEN (IF Head(c.todo).do = "runlock" \/ Answered(Head(c.todo)) THEN c.ids ELSE {})
    ELSE IF Early(Head(c.todo)) THEN {x \in c.ids : Before(c.ids, x) < c.start} ELSE c.ids

Claimed(id) == id \in acked \/ \E t \in Threads : id \in Got(call[t])
Kept == \A id \in Nat \ raced : Claimed(id) => Safe(id)

(* The calls that remove records are about none that others claim.         *)
Removing(c) == c # None /\ c.op \in {"CreateRecordsWithId", "DeleteRecords"}
Apart ==
    /\ \A t, u \in Threads : t # u /\ call[t] # None /\ call[u] # None =>
                                call[t].ids \cap call[u].ids \subseteq raced
    /\ \A t \in Threads : Removing(call[t]) => call[t].ids \cap acked \subseteq raced

(* A batch that has not failed does not delete.                            *)
Forward(c) ==
    c # None /\ c.op = "CreateRecordsWithId" /\ c.ok =>
        \A i \in 1 .. Len(c.todo) : c.todo[i].do \notin {"total", "work"}
Straight == \A t \in Threads : Forward(call[t])

SInv == LInv /\ Apart /\ Kept /\ Straight

LEMMA AlikeGot ==
    ASSUME NEW c, NEW d, Alike(c, d)
    PROVE  /\ Got(d) = Got(c) /\ (Removing(d) <=> Removing(c)) /\ (Forward(c) => Forward(d))
           /\ \A n, id : Leaves(d, n, id) <=> Leaves(c, n, id)
<1>1. CASE c = None
  BY <1>1 DEF Alike, Got, Removing, Forward, Leaves
<1>2. CASE c # None
  <2>1. /\ d # None /\ d.op = c.op /\ d.ids = c.ids /\ d.todo = c.todo /\ d.start = c.start
        /\ d.list = c.list /\ d.ok = c.ok
    BY <1>2 DEF Alike
  <2>2. Got(d) = Got(c)
    BY <1>2, <2>1 DEF Got
  <2> QED
    BY <1>2, <2>1, <2>2 DEF Removing, Forward, Leaves
<1> QED
  BY <1>1, <1>2

LEMMA GotIn ==
    ASSUME NEW c, c # None
    PROVE  Got(c) \subseteq c.ids
BY DEF Got

LEMMA BeforeBelow ==
    ASSUME NEW S, IsFiniteSet(S), S \subseteq Nat, NEW x \in S
    PROVE  Before(S, x) \in Nat /\ Before(S, x) < Cardinality(S)
<1> DEFINE T == {y \in S : y < x}
<1>1. T \in SUBSET S /\ x \notin T /\ Before(S, x) = Cardinality(T)
  BY DEF Before
<1> HIDE DEF T
<1>2. IsFiniteSet(T) /\ Cardinality(T) <= Cardinality(S) /\ Cardinality(T) # Cardinality(S)
  BY <1>1, FS_Subset
<1>3. Cardinality(T) \in Nat /\ Cardinality(S) \in Nat
  BY <1>2, FS_CardinalityType
<1> QED
  BY <1>1, <1>2, <1>3

(* The lock of a node keeps transfers of others from removing from it.     *)
LEMMA LockedKeeps ==
    ASSUME LInv, NEW t \in Threads, NEW n \in Nodes, n \in Held(call[t]), NEW u \in Threads, u # t
    PROVE  \A id : ~Leaves(call[u], n, id)
<1>1. nodeLock[n] = t /\ n \notin Held(call[u])
  BY DEF LInv, Locked
<1> QED
  BY <1>1 DEF Leaves, Held

(* A record stays safe if no transfer starts to remove it, and only the    *)
(* ones that are to be removed are.                                        *)
LEMMA SafeStays ==
    ASSUME NEW t \in Threads, \A u \in Threads \ {t} : Alike(call[u], call'[u]), NEW id,
           \A n \in Nodes : Leaves(call'[t], n, id) => Leaves(call[t], n, id),
           \A n \in Nodes : id \in data[n] /\ ~Leaves(call[t], n, id) => id \in data'[n],
           Safe(id)
    PROVE  Safe(id)'
<1>1. PICK n \in Nodes : id \in data[n] /\ ~Leaving(n, id)
  BY DEF Safe
<1>2. \A u \in Threads : ~Leaves(call[u], n, id)
  BY <1>1 DEF Leaving
<1>3. \A u \in Threads : ~Leaves(call'[u], n, id)
  BY <1>2, AlikeGot
<1>4. id \in data'[n]
  BY <1>1, <1>2
<1> QED
  BY <1>3, <1>4 DEF Safe, Leaving

LEMMA KeptStays ==
    ASSUME Kept, raced \subseteq raced', NEW t \in Threads,
           \A u \in Threads \ {t} : Alike(call[u], call'[u]),
           \A id \in Nat \ raced' : id \in acked' => id \in acked \/ Safe(id)',
           \A id \in Nat \ raced' : id \in Got(call'[t]) => id \in Got(call[t]) \/ Safe(id)',
           \A id \in Nat \ raced' : Claimed(id) /\ Safe(id) => Safe(id)'
    PROVE  Kept'
<1> SUFFICES ASSUME NEW id \in Nat \ raced', Claimed(id)' PROVE Safe(id)'
  BY DEF Kept
<1>1. \A u \in Threads \ {t} : Got(call'[u]) = Got(call[u])
  BY AlikeGot
<1>2. Claimed(id) \/ Safe(id)'
  BY <1>1 DEF Claimed
<1>3. Claimed(id) => Safe(id)
  BY DEF Kept
<1> QED
  BY <1>2, <1>3

LEMMA ApartStays ==
    ASSUME Apart, raced \subseteq raced', NEW t \in Threads,
           \A u \in Threads \ {t} : Alike(call[u], call'[u]),
           call'[t] # None => /\ call[t] # None /\ call'[t].ids = call[t].ids
                              /\ call'[t].op = call[t].op,
           \A u \in Threads : \A id : Removing(call'[u]) /\ id \in call'[u].ids /\ id \in acked'
                                 => id \in acked \/ id \in raced'
    PROVE  Apart'
<1>1. \A u \in Threads : call'[u] # None => /\ call[u] # None /\ call'[u].ids = call[u].ids
                                            /\ call'[u].op = call[u].op
  BY DEF Alike
<1>2. ASSUME NEW u \in Threads, NEW v \in Threads, u # v, call'[u] # None, call'[v] # None
      PROVE  call'[u].ids \cap call'[v].ids \subseteq raced'
  <2>1. call[u] # None /\ call[v] # None /\ call'[u].ids = call[u].ids /\ call'[v].ids = call[v].ids
    BY <1>1, <1>2
  <2>2. call[u].ids \cap call[v].ids \subseteq raced
    BY <1>2, <2>1 DEF Apart
  <2> QED
    BY <2>1, <2>2
<1>3. ASSUME NEW u \in Threads, Removing(call'[u]) PROVE call'[u].ids \cap acked' \subseteq raced'
  <2>1. Removing(call[u]) /\ call'[u].ids = call[u].ids
    BY <1>1, <1>3 DEF Removing
  <2>2. call[u].ids \cap acked \subseteq raced
    BY <2>1 DEF Apart
  <2> QED
    BY <1>3, <2>1, <2>2
<1> QED
  BY <1>2, <1>3 DEF Apart

LEMMA StraightStays ==
    ASSUME Straight, NEW t \in Threads, \A u \in Threads \ {t} : Alike(call[u], call'[u]),
           Forward(call'[t])
    PROVE  Straight'
<1>1. \A u \in Threads \ {t} : Forward(call'[u])
  BY AlikeGot DEF Straight
<1> QED
  BY <1>1 DEF Straight

(* A step that stores and deletes nothing.                                 *)
LEMMA QuietKeeps ==
    ASSUME SInv, LInv', NEW t \in Threads, call[t] # None, call'[t] # None,
           \A u \in Threads \ {t} : Alike(call[u], call'[u]),
           call'[t].ids = call[t].ids, call'[t].op = call[t].op,
           Head(call'[t].todo).do # "remove", Forward(call'[t]),
           Got(call'[t]) \subseteq Got(call[t]), data' = data, acked' = acked, raced' = raced
    PROVE  SInv'
<1>1. Apart'
  BY ApartStays DEF SInv
<1>2. Straight'
  BY StraightStays DEF SInv
<1>3. \A n, id : ~Leaves(call'[t], n, id)
  BY DEF Leaves
<1>4. \A id : Safe(id) => Safe(id)'
  BY <1>3, SafeStays
<1>5. Kept'
  BY <1>4, KeptStays DEF SInv
<1> QED
  BY <1>1, <1>2, <1>5 DEF SInv

LEMMA StepDoes ==
    /\ \A n : At("lock", n).do = "lock" /\ At("store", n).do = "store"
    /\ OnAll("exists", "ask").do = "exists" /\ OnAll("work", "delete").do = "work"
BY DEF At, OnAll, Act

(* A call goes on to its next step.                                        *)
LEMMA ThenOnward ==
    ASSUME LInv, Straight, NEW t \in Threads, NEW what, Doing(t, what),
           what \notin {"assign", "runlock", "copy"},
           NEW x \in Calls, x.todo = call[t].todo, x.op = call[t].op, x.ids = call[t].ids,
           x.ok => call[t].ok, Then(t, x)
    PROVE  LET c == call[t]
               d == call'[t] IN
           /\ c \in Calls /\ c # None /\ WellFormed(c.op, c.todo) /\ Fitting(c)
           /\ Head(c.todo).do = what /\ what \in Kinds(c.op) /\ Forward(c)
           /\ d \in Calls /\ d # None /\ \A u \in Threads \ {t} : Alike(call[u], call'[u])
           /\ d.op = c.op /\ d.ids = c.ids /\ d.start = x.start /\ d.ok = x.ok
           /\ Follows(Head(c.todo), Head(d.todo)) /\ Head(d.todo).do \in Kinds(c.op)
           /\ Head(d.todo).do # "remove" /\ Forward(d)
           /\ d.op = "CreateRecordsWithId" /\ d.ok => Head(d.todo).do \notin {"total", "work"}
<1> DEFINE c == call[t]
           d == call'[t]
           h == Head(c.todo)
           r == Head(d.todo)
<1>1. /\ c \in Calls /\ c # None /\ WellFormed(c.op, c.todo) /\ Fitting(c) /\ h.do = what
      /\ what \in Kinds(c.op) /\ Now(t) = h
  BY Turn
<1>2. /\ d \in Calls /\ d # None /\ \A u \in Threads \ {t} : Alike(call[u], call'[u])
      /\ d.todo = Tail(c.todo) /\ d.op = c.op /\ d.ids = c.ids /\ d.start = x.start /\ d.ok = x.ok
      /\ WellFormed(d.op, d.todo) /\ Follows(h, r)
  BY <1>1, ThenPut
<1>3. Forward(c)
  BY DEF Straight
<1>4. /\ d.todo \in Seq(Steps) /\ Len(d.todo) > 0 /\ r.do \in Kinds(d.op)
      /\ c.todo \in Seq(Steps) /\ c.todo # <<>>
  BY <1>1, <1>2, HeadWell
<1>5. x.ok => c.ok
  OBVIOUS
<1> HIDE DEF c, d
<1>6. r.do # "remove"
  <2>1. /\ r = At("store", h.n) => r.do = "store"
        /\ r = At("lock", 0) \/ r = At("lock", 1) \/ r = At("lock", h.n + 1) => r.do = "lock"
        /\ r = OnAll("exists", "ask") => r.do = "exists"
        /\ r = OnAll("work", "delete") => r.do = "work"
    BY StepDoes
  <2>2. h.do \in StepNames
    <3>1. h \in Steps
      BY <1>4
    <3> QED
      BY <3>1 DEF Steps
  <2> QED
    BY <1>1, <1>2, <2>1, <2>2 DEF Follows, StepNames
<1>7. r = d.todo[1] /\ 1 \in 1 .. Len(d.todo)
  BY <1>4
<1>8. \A i \in 1 .. Len(d.todo) : d.todo[i] = c.todo[i + 1] /\ i + 1 \in 1 .. Len(c.todo)
  BY <1>2, <1>4
<1>9. Forward(d)
  BY <1>1, <1>2, <1>3, <1>5, <1>8 DEF Forward
<1>10. d.op = "CreateRecordsWithId" /\ d.ok => r.do \notin {"total", "work"}
  BY <1>2, <1>7, <1>9 DEF Forward
<1> QED
  BY <1>1, <1>2, <1>3, <1>4, <1>6, <1>9, <1>10 DEF c, d

LEMMA QuietThen ==
    ASSUME SInv, LInv', NEW t \in Threads, NEW what, Doing(t, what),
           what \notin {"assign", "runlock", "copy"},
           what \in {"store", "create", "fallback"} => Answered(Head(call[t].todo)),
           NEW x \in Calls, x.todo = call[t].todo, x.op = call[t].op, x.ids = call[t].ids,
           x.start = call[t].start, x.ok => call[t].ok, Then(t, x),
           what = "settle" => call[t].start = call[t].end,
           data' = data, acked' = acked, raced' = raced
    PROVE  SInv'
<1> DEFINE c == call[t]
           d == call'[t]
           h == Head(c.todo)
           r == Head(d.todo)
<1>1. LInv /\ Straight /\ what \notin {"assign", "runlock", "copy"}
  BY DEF SInv
<1>2. /\ c \in Calls /\ c # None /\ WellFormed(c.op, c.todo) /\ Fitting(c)
      /\ h.do = what /\ what \in Kinds(c.op) /\ Forward(c)
      /\ d \in Calls /\ d # None /\ \A u \in Threads \ {t} : Alike(call[u], call'[u])
      /\ d.op = c.op /\ d.ids = c.ids /\ d.start = x.start /\ d.ok = x.ok
      /\ Follows(h, r) /\ r.do \in Kinds(c.op) /\ r.do # "remove" /\ Forward(d)
      /\ d.op = "CreateRecordsWithId" /\ d.ok => r.do \notin {"total", "work"}
  BY <1>1, ThenOnward
<1>3. /\ x.start = c.start /\ (x.ok => c.ok) /\ (what = "settle" => c.start = c.end)
      /\ what \in {"store", "create", "fallback"} => Answered(h)
  OBVIOUS
<1>4. IsFiniteSet(c.ids) /\ c.ids \subseteq Nat
  BY <1>2, CallIds, IdsFinite
<1> HIDE DEF c, d
<1>5. Got(d) \subseteq Got(c)
  <2>1. CASE ~d.ok \/ c.op \notin {"CreateRecordWithId", "CreateRecordsWithId"}
    <3>1. c.op \in {"CreateRecord", "CreateRecordWithId", "CreateRecordsWithId",
                    "DeleteRecords", "ListRecords"}
      BY <1>2 DEF Calls
    <3> QED
      BY <1>2, <2>1, <3>1 DEF Got
  <2>2. CASE d.ok /\ c.op = "CreateRecordWithId"
    <3>1. what \in {"rlock", "pick", "exists", "lock", "create"}
      BY <1>2, <2>2 DEF Kinds
    <3>2. CASE what = "create"
      <4>1. Got(c) = c.ids
        BY <1>2, <1>3, <2>2, <3>2 DEF Got
      <4> QED
        BY <1>2, <4>1, GotIn
    <3>3. CASE what # "create"
      <4>1. /\ r = At("lock", 0) \/ r = At("lock", 1) => r.do = "lock"
            /\ r = OnAll("exists", "ask") => r.do = "exists"
        BY StepDoes
      <4>2. r.do # "store" /\ r.do # "lock second" /\ \A n : r # At("store", n)
        BY <1>2, <2>2, StepDoes DEF Kinds
      <4>3. r.do # "runlock" /\ ~Answered(r)
        <5> HIDE DEF h, r
        <5>1. CASE what = "lock"
          <6>1. r.k = 0 /\ r.do \in {"lock id", "create", "fallback"}
            BY <1>2, <4>2, <5>1 DEF Follows
          <6> QED
            BY <6>1 DEF Answered
        <5>2. CASE what \in {"rlock", "pick", "exists"}
          <6>1. r.do \in {"pick", "total", "list", "lock", "exists"}
            BY <1>2, <4>1, <5>2 DEF Follows
          <6> QED
            BY <6>1 DEF Answered
        <5> QED
          BY <3>1, <3>3, <5>1, <5>2
      <4> QED
        BY <1>2, <2>2, <4>3 DEF Got
    <3> QED
      BY <3>2, <3>3
  <2>3. CASE d.ok /\ c.op = "CreateRecordsWithId"
    <3>1. Got(d) \subseteq c.ids
      BY <1>2, GotIn
    <3>2. Got(c) = IF Early(h) THEN {y \in c.ids : Before(c.ids, y) < c.start} ELSE c.ids
      BY <1>2, <1>3, <2>3 DEF Got
    <3>3. CASE ~Early(h)
      BY <3>1, <3>2, <3>3
    <3>4. CASE Early(h) /\ Early(r)
      BY <1>2, <1>3, <2>3, <3>2, <3>4 DEF Got
    <3>5. CASE Early(h) /\ ~Early(r)
      <4>1. what = "settle"
        <5>1. what \in {"rlock", "settle", "store"} \/ (what = "lock" /\ h.m = 0)
          BY <1>2, <1>3, <3>5 DEF Early, Storing, FallingBack
        <5>2. /\ r.do \notin {"pick", "list", "total", "store", "lock id", "create", "settle"}
              /\ r.do = "fallback" => r.k # 0
              /\ \A n : n # 0 => r # At("lock", n)
          <6>1. \A n : At("lock", n).do = "lock" /\ At("lock", n).m = 0 /\ At("lock", n).n = n
            BY DEF At, Act
          <6>2. r.do \notin {"pick", "list", "total", "lock id", "create"}
            BY <1>2, <2>3 DEF Kinds
          <6>3. ~Early(r)
            BY <3>5
          <6> HIDE DEF h, r
          <6>4. r.do # "store" /\ r.do # "settle" /\ (r.do = "fallback" => r.k # 0)
            BY <6>3 DEF Early, Storing, FallingBack, Answered
          <6>5. ASSUME NEW n, n # 0 PROVE r # At("lock", n)
            BY <6>1, <6>3, <6>5 DEF Early, Storing
          <6> QED
            BY <6>2, <6>4, <6>5
        <5>5. what = "store" => h.n + 1 # 0
          BY <1>2, InternalAssumption, HeadWell DEF Proper, Nodes
        <5>3. r # At("lock", 1)
          <6>1. At("lock", 1).do = "lock" /\ At("lock", 1).m = 0 /\ At("lock", 1).n = 1
            BY DEF At, Act
          <6> QED
            BY <3>5, <6>1 DEF Early, Storing
        <5>4. h.n # 0 => At("store", h.n).do = "store"
          BY DEF At, Act
        <5> QED
          BY <1>2, <5>1, <5>2, <5>3, <5>4, <5>5 DEF Follows
      <4>2. c.start = Cardinality(c.ids)
        BY <1>2, <1>3, <2>3, <4>1 DEF Fitting
      <4>3. \A y \in c.ids : Before(c.ids, y) < c.start
        BY <1>4, <4>2, BeforeBelow
      <4> QED
        BY <3>1, <3>2, <3>5, <4>3
    <3> QED
      BY <3>3, <3>4, <3>5
  <2> QED
    BY <2>1, <2>2, <2>3
<1> QED
  BY <1>2, <1>5, QuietKeeps DEF c, d

LEMMA LocksKeep ==
    ASSUME SInv, NEW t \in Threads, RLock(t) \/ LockNode(t) \/ LockSecond(t) \/ LockId(t)
    PROVE  SInv'
<1>1. LInv'
  BY RLockInv, LockNodeInv, LockSecondInv, LockIdInv DEF SInv
<1>2. PICK what \in {"rlock", "lock", "lock second", "lock id"} : Doing(t, what)
  BY DEF RLock, LockNode, LockSecond, LockId
<1>3. Then(t, call[t]) /\ data' = data /\ acked' = acked /\ raced' = raced
  BY DEF RLock, LockNode, LockSecond, LockId, history
<1>4. call[t] \in Calls
  BY <1>2, Turn DEF SInv
<1>5. what \notin {"assign", "runlock", "copy", "store", "create", "fallback", "settle"}
  BY <1>2
<1> QED
  BY <1>1, <1>2, <1>3, <1>4, <1>5, QuietThen

LEMMA ReadsKeep ==
    ASSUME SInv, LInv', NEW t \in Threads, Choose(t) \/ Pick(t) \/ CountBefore(t) \/ Compare(t)
    PROVE  SInv'
<1> DEFINE c == call[t]
           ok == c.ok /\ Unsigned(c.old - Totals) = Cardinality(c.ids)
           x == [c EXCEPT !.good = Less(t)]
           y == [c EXCEPT !.old = Totals]
           z == [c EXCEPT !.ok = ok]
<1>1. PICK what \in {"choose", "pick", "total", "compare"} : Doing(t, what)
  BY DEF Choose, Pick, CountBefore, Compare
<1>2. data' = data /\ acked' = acked /\ raced' = raced
  BY DEF Choose, Pick, CountBefore, Compare, history
<1>3. c \in Calls
  BY <1>1, Turn DEF SInv
<1>4. Then(t, x) \/ Then(t, y) \/ Then(t, z)
  BY DEF Choose, Pick, CountBefore, Compare
<1>5. ok \in BOOLEAN /\ (ok => c.ok) /\ Less(t) \in 0 .. N /\ Totals \in Nat
  <2>1. LInv
    BY DEF SInv
  <2> QED
    BY <1>3, <2>1, LessType, TotalsType
<1> HIDE DEF ok
<1>6. x \in Calls /\ y \in Calls /\ z \in Calls
  BY <1>3, <1>5, CallTypes
<1> HIDE DEF c
<1>7. x.todo = c.todo /\ x.op = c.op /\ x.ids = c.ids /\ x.start = c.start /\ x.ok = c.ok
  BY <1>3 DEF Calls
<1>8. y.todo = c.todo /\ y.op = c.op /\ y.ids = c.ids /\ y.start = c.start /\ y.ok = c.ok
  BY <1>3 DEF Calls
<1>9. z.todo = c.todo /\ z.op = c.op /\ z.ids = c.ids /\ z.start = c.start /\ z.ok = ok
  BY <1>3 DEF Calls
<1> HIDE DEF x, y, z
<1>10. PICK w \in {x, y, z} : Then(t, w)
  BY <1>4
<1>11. w \in Calls /\ w.todo = c.todo /\ w.op = c.op /\ w.ids = c.ids /\ w.start = c.start /\ (w.ok => c.ok)
  BY <1>5, <1>6, <1>7, <1>8, <1>9, <1>10
<1>12. what \notin {"assign", "runlock", "copy", "store", "create", "fallback", "settle"}
  BY <1>1
<1> QED
  BY <1>1, <1>2, <1>10, <1>11, <1>12, QuietThen DEF c

(* The same of a call that returns early or waits for more answers.        *)
LEMMA LocalKeeps ==
    ASSUME SInv, LInv', NEW t \in Threads, call[t] # None, Local(t), Held(call[t]) = {},
           Forward(call'[t]), Got(call'[t]) \subseteq Got(call[t]),
           data' = data, acked' = acked, raced' = raced
    PROVE  SInv'
<1>1. /\ call'[t] # None /\ \A u \in Threads \ {t} : Alike(call[u], call'[u])
      /\ call'[t].op = call[t].op /\ call'[t].ids = call[t].ids /\ Held(call'[t]) = {}
  BY DEF Local
<1>2. Head(call'[t].todo).do # "remove"
  BY <1>1 DEF Held
<1> QED
  BY <1>1, <1>2, QuietKeeps

LEMMA QuitKeeps ==
    ASSUME SInv, LInv', NEW t \in Threads, NEW what, what \in {"exists", "settle"},
           Doing(t, what), Quit(t), data' = data, acked' = acked, raced' = raced
    PROVE  SInv'
<1>1. LInv /\ Local(t)
  BY QuitPut DEF SInv
<1>2. call[t] \in Calls /\ call[t] # None /\ Head(call[t].todo).do = what
  BY <1>1, Turn
<1>3. Held(call[t]) = {}
  BY <1>2 DEF Held
<1>4. ~call'[t].ok
  <2> DEFINE c == call[t]
             q == LastStep(t)
             e == [c EXCEPT !.todo = q, !.ok = FALSE]
  <2>1. call' = [call EXCEPT ![t] = e]
    BY DEF Quit
  <2>2. call \in [Threads -> Calls \cup {None}]
    BY <1>1 DEF LInv, TypeOK
  <2>3. call'[t] = e
    BY <2>1, <2>2
  <2> HIDE DEF c, q
  <2>4. e.ok = FALSE
    BY <1>2 DEF Calls, c
  <2> QED
    BY <2>3, <2>4
<1>5. Forward(call'[t]) /\ Got(call'[t]) = {}
  BY <1>4 DEF Forward, Got
<1> QED
  BY <1>1, <1>2, <1>3, <1>5, LocalKeeps

LEMMA LeftKeeps ==
    ASSUME SInv, NEW t \in Threads, NEW what, what \in {"exists", "work"}, Doing(t, what),
           NEW S, call' = [call EXCEPT ![t].todo[1].left = S]
    PROVE  Forward(call'[t]) /\ Got(call'[t]) \subseteq Got(call[t])
<1> DEFINE c == call[t]
           d == call'[t]
           q == [c.todo EXCEPT ![1].left = S]
           e == [c EXCEPT !.todo = q]
<1>1. /\ c \in Calls /\ c # None /\ Head(c.todo).do = what /\ what \in Kinds(c.op)
      /\ WellFormed(c.op, c.todo)
  BY Turn DEF SInv
<1>2. call' = [call EXCEPT ![t] = e] /\ call \in [Threads -> Calls \cup {None}]
  BY DEF SInv, LInv, TypeOK
<1>3. d = e
  BY <1>2
<1>4. c.todo \in Seq(Steps) /\ Len(c.todo) > 0 /\ Head(c.todo) = c.todo[1]
  BY <1>1, HeadWell
<1> DEFINE todo == c.todo
<1>5. Len(q) = Len(todo) /\ \A i \in 1 .. Len(q) : q[i].do = todo[i].do
  <2>1. todo \in Seq(Steps) /\ Len(todo) > 0 /\ todo[1] \in Steps
    BY <1>4
  <2> HIDE DEF todo
  <2>2. [todo[1] EXCEPT !.left = S].do = todo[1].do
    BY <2>1 DEF Steps
  <2> DEFINE p == [todo EXCEPT ![1].left = S]
  <2>3. DOMAIN p = 1 .. Len(todo) /\ p[1] = [todo[1] EXCEPT !.left = S]
        /\ \A i \in 2 .. Len(todo) : p[i] = todo[i]
    BY <2>1
  <2>4. Len(p) = Len(todo) /\ \A i \in 1 .. Len(p) : p[i].do = todo[i].do
    BY <2>1, <2>2, <2>3
  <2> QED
    BY <2>4 DEF todo
<1>6. Forward(c)
  BY DEF SInv, Straight
<1> HIDE DEF q, c
<1>7. e.todo = q /\ e.op = c.op /\ e.ids = c.ids /\ e.ok = c.ok /\ e.start = c.start
  BY <1>1 DEF Calls
<1> HIDE DEF e, d
<1>8. Forward(d)
  BY <1>1, <1>3, <1>5, <1>6, <1>7 DEF Forward
<1>9. Got(d) \subseteq Got(c)
  <2>1. Head(q).do = what
    BY <1>1, <1>4, <1>5
  <2>2. CASE c.op = "CreateRecordsWithId" /\ c.ok
    <3>1. what = "exists"
      BY <1>1, <1>4, <1>6, <2>2 DEF Forward
    <3> QED
      BY <1>1, <2>2, <3>1 DEF Kinds
  <2>3. CASE c.op = "CreateRecordWithId"
    <3>1. Head(d.todo).do \notin {"runlock", "create", "store", "fallback"}
      BY <1>3, <1>7, <2>1
    <3>2. Got(d) = {}
      BY <1>3, <1>7, <2>3, <3>1 DEF Got, Answered
    <3> QED
      BY <3>2
  <2>4. CASE c.op # "CreateRecordWithId" /\ ~(c.op = "CreateRecordsWithId" /\ c.ok)
    <3>1. c.op \in {"CreateRecord", "CreateRecordWithId", "CreateRecordsWithId",
                    "DeleteRecords", "ListRecords"}
      BY <1>1 DEF Calls
    <3> QED
      BY <1>1, <1>3, <1>7, <2>4, <3>1 DEF Got
  <2> QED
    BY <2>2, <2>3, <2>4
<1> QED
  BY <1>8, <1>9 DEF c, d

LEMMA JoinPlain ==
    ASSUME NEW a \in Seq(Steps), NEW b \in Seq(Steps),
           \A i \in 1 .. Len(a) : a[i].do \notin {"total", "work"},
           \A i \in 1 .. Len(b) : b[i].do \notin {"total", "work"}
    PROVE  \A i \in 1 .. Len(a \o b) : (a \o b)[i].do \notin {"total", "work"}
<1>1. Len(a) \in Nat /\ Len(b) \in Nat /\ Len(a \o b) = Len(a) + Len(b)
  OBVIOUS
<1>2. ASSUME NEW i \in 1 .. Len(a) + Len(b) PROVE (a \o b)[i].do \notin {"total", "work"}
  <2>1. (a \o b)[i] = IF i <= Len(a) THEN a[i] ELSE b[i - Len(a)]
    BY <1>1
  <2>2. CASE i <= Len(a)
    BY <1>1, <2>1, <2>2
  <2>3. CASE ~(i <= Len(a))
    <3> DEFINE j == i - Len(a)
    <3>1. j \in 1 .. Len(b) /\ (a \o b)[i] = b[j]
      BY <1>1, <2>1, <2>3
    <3> HIDE DEF j
    <3> QED
      BY <3>1
  <2> QED
    BY <2>2, <2>3
<1> QED
  BY <1>1, <1>2

(* The steps a are put before the rest of a call.                          *)
LEMMA JoinKeeps ==
    ASSUME SInv, LInv', NEW t \in Threads, NEW what, Doing(t, what), what \in {"settle", "balance"},
           NEW a \in Seq(Steps), \A i \in 1 .. Len(a) : a[i].do \notin {"total", "work"},
           call' = [call EXCEPT ![t].todo = a \o Tail(@)],
           NEW q, q = a \o Tail(call[t].todo), Head(q).do # "remove",
           what = "settle" => Early(Head(q)),
           data' = data, acked' = acked, raced' = raced
    PROVE  SInv'
<1> DEFINE c == call[t]
           d == call'[t]
           e == [c EXCEPT !.todo = q]
<1>1. /\ c \in Calls /\ c # None /\ Head(c.todo).do = what /\ what \in Kinds(c.op)
      /\ WellFormed(c.op, c.todo)
  BY Turn DEF SInv
<1>2. call' = [call EXCEPT ![t] = e] /\ call \in [Threads -> Calls \cup {None}]
  BY DEF SInv, LInv, TypeOK
<1>3. c.todo \in Seq(Steps) /\ c.todo # <<>>
  BY <1>1, HeadWell
<1>4. q \in Seq(Steps)
  BY <1>3
<1>5. e \in Calls
  BY <1>1, <1>4, CallTypes
<1>6. d = e /\ \A u \in Threads \ {t} : Alike(call[u], call'[u])
  <2> HIDE DEF e
  <2> QED
    BY <1>2, <1>5, Put DEF SInv
<1>7. d # None
  BY <1>5, <1>6, CallTypes
<1> DEFINE todo == c.todo
<1>8. (\A i \in 1 .. Len(todo) : todo[i].do \notin {"total", "work"})
      => \A i \in 1 .. Len(q) : q[i].do \notin {"total", "work"}
  <2>1. todo \in Seq(Steps) /\ todo # <<>> /\ q = a \o Tail(todo)
    BY <1>3
  <2> HIDE DEF todo
  <2> DEFINE b == Tail(todo)
  <2>2. b \in Seq(Steps) /\ \A i \in 1 .. Len(b) : b[i] = todo[i + 1] /\ i + 1 \in 1 .. Len(todo)
    BY <2>1
  <2>3. q = a \o b
    BY <2>1
  <2> HIDE DEF b
  <2> QED
    BY <2>2, <2>3, JoinPlain
<1>9. Forward(c)
  BY DEF SInv, Straight
<1> HIDE DEF c
<1>10. e.todo = q /\ e.op = c.op /\ e.ids = c.ids /\ e.ok = c.ok /\ e.start = c.start
  BY <1>1 DEF Calls
<1> HIDE DEF e, d
<1>11. Forward(d)
  BY <1>1, <1>6, <1>8, <1>9, <1>10 DEF Forward
<1>12. Got(d) \subseteq Got(c)
  <2>1. c.op \in {"CreateRecord", "CreateRecordWithId", "CreateRecordsWithId", "DeleteRecords",
                 "ListRecords"}
    BY <1>1 DEF Calls
  <2>2. c.op # "CreateRecordWithId"
    BY <1>1 DEF Kinds
  <2>3. CASE c.op = "CreateRecordsWithId" /\ c.ok
    <3>1. CASE what = "settle"
      <4>1. Early(Head(c.todo))
        BY <1>1, <3>1 DEF Early
      <4> QED
        BY <1>1, <1>6, <1>7, <1>10, <2>3, <3>1, <4>1 DEF Got
    <3>2. CASE what = "balance"
      <4>1. ~Early(Head(c.todo))
        BY <1>1, <3>2 DEF Early, Storing, FallingBack
      <4>2. Got(c) = c.ids /\ Got(d) \subseteq d.ids
        BY <1>1, <1>7, <2>3, <4>1, GotIn DEF Got
      <4> QED
        BY <1>6, <1>10, <4>2
    <3> QED
      BY <3>1, <3>2
  <2>4. CASE ~(c.op = "CreateRecordsWithId" /\ c.ok)
    BY <1>6, <1>10, <2>1, <2>2, <2>4 DEF Got
  <2> QED
    BY <2>3, <2>4
<1> QED
  BY <1>1, <1>6, <1>7, <1>10, <1>11, <1>12, QuietKeeps DEF c, d

LEMMA ExistsKeeps ==
    ASSUME SInv, NEW t \in Threads, Exists(t)
    PROVE  SInv'
<1> DEFINE what == "exists"
<1>1. /\ Doing(t, what) /\ what = "exists" /\ data' = data /\ acked' = acked /\ raced' = raced
  BY DEF Exists, history
<1>2. LInv' /\ LInv
  BY ExistsInv DEF SInv
<1>3. PICK w \in Now(t).left :
        \/ Quit(t) \/ Then(t, call[t]) \/ call' = [call EXCEPT ![t].todo[1].left = @ \ {w}]
  BY DEF Exists
<1> HIDE DEF what
<1>4. call[t] \in Calls /\ call[t] # None /\ Head(call[t].todo).do = "exists" /\ Now(t) \in Steps
      /\ Now(t) = Head(call[t].todo) /\ WellFormed(call[t].op, call[t].todo)
  BY <1>1, <1>2, Turn
<1>5. CASE Quit(t)
  BY <1>1, <1>2, <1>5, QuitKeeps
<1>6. CASE Then(t, call[t])
  BY <1>1, <1>2, <1>4, <1>6, QuietThen
<1>7. CASE call' = [call EXCEPT ![t].todo[1].left = @ \ {w}]
  <2> DEFINE S == call[t].todo[1].left \ {w}
  <2>1. Now(t) = call[t].todo[1]
    BY <1>4, HeadWell
  <2>2. S \in SUBSET (Nodes \X {"ask", "delete", "refresh"})
    BY <1>4, <2>1 DEF Steps
  <2>3. call' = [call EXCEPT ![t].todo[1].left = S]
    BY <1>7
  <2> HIDE DEF S
  <2>4. Local(t)
    BY <1>1, <1>2, <2>2, <2>3, LeftPut
  <2>5. Forward(call'[t]) /\ Got(call'[t]) \subseteq Got(call[t])
    BY <1>1, <2>3, LeftKeeps
  <2>6. Held(call[t]) = {}
    BY <1>4 DEF Held
  <2> QED
    BY <1>1, <1>2, <1>4, <2>4, <2>5, <2>6, LocalKeeps
<1> QED
  BY <1>3, <1>5, <1>6, <1>7

LEMMA SettleKeeps ==
    ASSUME SInv, NEW t \in Threads, Settle(t)
    PROVE  SInv'
<1> DEFINE what == "settle"
           a == <<At("lock", 0), Step("fallback")>>
<1>1. /\ Doing(t, what) /\ what = "settle" /\ data' = data /\ acked' = acked /\ raced' = raced
  BY DEF Settle, history
<1>2. LInv' /\ LInv
  BY SettleInv DEF SInv
<1>3. call[t] \in Calls
  BY <1>1, <1>2, Turn
<1>4. \/ Quit(t) \/ (Then(t, call[t]) /\ call[t].start = call[t].end)
      \/ call' = [call EXCEPT ![t].todo = a \o Tail(@)]
  BY DEF Settle
<1> HIDE DEF what
<1>5. CASE Quit(t)
  BY <1>1, <1>2, <1>5, QuitKeeps
<1>6. CASE Then(t, call[t]) /\ call[t].start = call[t].end
  BY <1>1, <1>2, <1>3, <1>6, QuietThen
<1>7. CASE call' = [call EXCEPT ![t].todo = a \o Tail(@)]
  <2> DEFINE q == a \o Tail(call[t].todo)
  <2>1. At("lock", 0) \in Steps /\ Step("fallback") \in Steps
    BY StepsKnown
  <2>2. a \in Seq(Steps) /\ Len(a) = 2 /\ a[1] = At("lock", 0) /\ a[2] = Step("fallback")
    BY <2>1
  <2>3. call[t].todo \in Seq(Steps) /\ call[t].todo # <<>>
    <3>1. WellFormed(call[t].op, call[t].todo)
      BY <1>1, <1>2, Turn
    <3> QED
      BY <3>1, HeadWell
  <2> HIDE DEF a
  <2> DEFINE first == At("lock", 0)
  <2>8. a[1] = first
    BY <2>2
  <2> HIDE DEF first
  <2>9. Head(q) = first
    BY <2>2, <2>3, <2>8
  <2>4. Head(q) = At("lock", 0)
    BY <2>9 DEF first
  <2>5. /\ At("lock", 0).do = "lock" /\ At("lock", 0).m = 0 /\ At("lock", 0).n = 0
        /\ Step("fallback").do = "fallback"
    BY DEF At, Step, Act
  <2>6. \A i \in 1 .. Len(a) : a[i].do \notin {"total", "work"}
    BY <2>2, <2>5
  <2>7. Head(q).do # "remove" /\ Early(Head(q))
    BY <2>4, <2>5 DEF Early, FallingBack, Answered
  <2> QED
    BY <1>1, <1>2, <1>7, <2>2, <2>6, <2>7, JoinKeeps
<1> QED
  BY <1>4, <1>5, <1>6, <1>7

LEMMA BalanceKeeps ==
    ASSUME SInv, NEW t \in Threads, Balance(t)
    PROVE  SInv'
<1> DEFINE what == "balance"
           counts == [i \in 1 .. N |-> status[i]]
           a == PlanSteps(BalancePlan(counts))
           q == a \o Tail(call[t].todo)
<1>1. /\ Doing(t, what) /\ what = "balance" /\ data' = data /\ acked' = acked /\ raced' = raced
      /\ call' = [call EXCEPT ![t].todo = a \o Tail(@)]
  BY DEF Balance, history
<1>2. LInv' /\ LInv
  BY BalanceInv DEF SInv
<1>3. counts \in Seq(Int) /\ Len(counts) = N
  BY <1>2, CountsSeq
<1> HIDE DEF what, counts
<1>4. WellFormed(call[t].op, call[t].todo) /\ Head(call[t].todo).do = "balance"
  BY <1>1, <1>2, Turn
<1>5. Head(q).do \in {"compare", "runlock", "lock"}
  <2> DEFINE todo == call[t].todo
             op == call[t].op
  <2>1. WellFormed(op, todo) /\ Head(todo).do = "balance"
    BY <1>4
  <2> HIDE DEF todo, op
  <2>2. LET new == PlanSteps(BalancePlan(counts)) \o Tail(todo) IN
        Head(new).do \in {"compare", "runlock"} \/ (Head(new).do = "lock" /\ Head(new).m # 0)
    BY <1>3, <2>1, BalanceWell
  <2> QED
    BY <2>2 DEF todo
<1> DEFINE plan == BalancePlan(counts)
<1>6. plan \in Seq(Moves(N)) /\ \A k \in 1 .. Len(plan) : plan[k].from # plan[k].to
  BY <1>3, PlanIsSound
<1>7. /\ PlanSteps(plan) \in Seq(Steps)
      /\ \A i \in 1 .. Len(PlanSteps(plan)) :
            PlanSteps(plan)[i].do \in {"lock", "lock second", "copy", "remove"}
  <2> HIDE DEF plan
  <2> QED
    BY <1>6, PlanStepsAre
<1>8. a \in Seq(Steps) /\ \A i \in 1 .. Len(a) : a[i].do \notin {"total", "work"}
  BY <1>7
<1> HIDE DEF a
<1>9. Head(q).do # "remove" /\ what # "settle" /\ what \in {"settle", "balance"}
  BY <1>1, <1>5
<1> QED
  BY <1>1, <1>2, <1>8, <1>9, JoinKeeps

(* Goroutines that delete claim nothing.                                   *)
LEMMA WorkHarmless ==
    ASSUME SInv, NEW t \in Threads, Doing(t, "work")
    PROVE  Got(call[t]) = {} /\ Removing(call[t]) /\ ~(call[t].op = "CreateRecordsWithId" /\ call[t].ok)
<1> DEFINE c == call[t]
<1>1. /\ c \in Calls /\ c # None /\ WellFormed(c.op, c.todo) /\ Head(c.todo).do = "work"
      /\ "work" \in Kinds(c.op)
  BY Turn DEF SInv
<1>2. c.todo \in Seq(Steps) /\ Len(c.todo) > 0 /\ Head(c.todo) = c.todo[1] /\ 1 \in 1 .. Len(c.todo)
  <2>1. c.todo \in Seq(Steps) /\ Len(c.todo) > 0
    BY <1>1, HeadWell
  <2> QED
    BY <2>1
<1>3. Forward(c)
  BY DEF SInv, Straight
<1> HIDE DEF c
<1>4. c.op \in {"CreateRecord", "CreateRecordWithId", "CreateRecordsWithId",
                "DeleteRecords", "ListRecords"}
  BY <1>1 DEF Calls
<1>5. c.op \in {"CreateRecordsWithId", "DeleteRecords"}
  BY <1>1, <1>4 DEF Kinds
<1>6. ~(c.op = "CreateRecordsWithId" /\ c.ok)
  BY <1>1, <1>2, <1>3 DEF Forward
<1>7. Got(c) = {} /\ Removing(c)
  BY <1>1, <1>5, <1>6 DEF Got, Removing
<1> QED
  BY <1>6, <1>7 DEF c

LEMMA WorkLeftKeeps ==
    ASSUME SInv, NEW t \in Threads, Doing(t, "work"),
           NEW S \in SUBSET (Nodes \X {"ask", "delete", "refresh"}), WorkLeft(t, S)
    PROVE  /\ call[t] # None /\ Local(t) /\ Held(call[t]) = {} /\ Forward(call'[t])
           /\ Got(call'[t]) = {} /\ Removing(call[t])
<1>1. LInv
  BY DEF SInv
<1>2. Local(t)
  BY <1>1, WorkPut
<1>3. /\ Got(call[t]) = {} /\ Removing(call[t])
      /\ ~(call[t].op = "CreateRecordsWithId" /\ call[t].ok)
  BY WorkHarmless
<1>4. call[t] # None /\ Head(call[t].todo).do = "work"
  BY DEF Doing
<1>5. Held(call[t]) = {}
  BY <1>4 DEF Held
<1> DEFINE c == call[t]
           d == call'[t]
<1>6. d # None /\ d.op = c.op /\ (d.ok => c.ok) /\ c.op \in {"CreateRecordsWithId", "DeleteRecords"}
  BY <1>2, <1>3 DEF Local, Removing
<1>7. ~(c.op = "CreateRecordsWithId" /\ c.ok)
  BY <1>3
<1> HIDE DEF c, d
<1>8. Forward(d) /\ Got(d) = {}
  BY <1>6, <1>7 DEF Forward, Got
<1> QED
  BY <1>2, <1>3, <1>4, <1>5, <1>8 DEF d

LEMMA WorkerRefreshKeeps ==
    ASSUME SInv, NEW t \in Threads, WorkerRefresh(t)
    PROVE  SInv'
<1>1. Doing(t, "work") /\ data' = data /\ acked' = acked /\ raced' = raced
  BY DEF WorkerRefresh, history
<1>2. LInv' /\ LInv
  BY WorkerRefreshInv DEF SInv
<1>3. PICK n \in Nodes : WorkLeft(t, Now(t).left \ {<<n, "refresh">>})
  BY DEF WorkerRefresh
<1> DEFINE S == Now(t).left \ {<<n, "refresh">>}
<1>4. Now(t) \in Steps
  BY <1>1, <1>2, Turn
<1>5. S \in SUBSET (Nodes \X {"ask", "delete", "refresh"}) /\ WorkLeft(t, S)
  BY <1>3, <1>4 DEF Steps
<1> HIDE DEF S
<1>6. /\ call[t] # None /\ Local(t) /\ Held(call[t]) = {} /\ Forward(call'[t]) /\ Got(call'[t]) = {}
  BY <1>1, <1>5, WorkLeftKeeps
<1>7. Got(call'[t]) \subseteq Got(call[t])
  BY <1>6
<1> QED
  BY <1>1, <1>2, <1>6, <1>7, LocalKeeps

LEMMA WriterKeeps ==
    ASSUME SInv, WLock \/ WUnlock \/ UNCHANGED vars
    PROVE  SInv'
<1>1. LInv'
  BY WriterInv, NextInv DEF SInv
<1>2. data' = data /\ call' = call /\ acked' = acked /\ raced' = raced
  BY DEF WLock, WUnlock, vars, history
<1> QED
  BY <1>1, <1>2 DEF SInv, Apart, Kept, Straight, Claimed, Safe, Leaving

(* A step that stores or deletes.                                          *)
LEMMA StepKeeps ==
    ASSUME SInv, LInv', raced \subseteq raced', NEW t \in Threads,
           \A u \in Threads \ {t} : Alike(call[u], call'[u]),
           call'[t] # None => /\ call[t] # None /\ call'[t].ids = call[t].ids
                              /\ call'[t].op = call[t].op,
           Forward(call'[t]),
           \A u \in Threads : \A id : Removing(call'[u]) /\ id \in call'[u].ids /\ id \in acked'
                                 => id \in acked \/ id \in raced',
           \A id \in Nat \ raced' : id \in acked' => id \in acked \/ Safe(id)',
           \A id \in Nat \ raced' : id \in Got(call'[t]) => id \in Got(call[t]) \/ Safe(id)',
           \A id \in Nat \ raced' : Claimed(id) /\ Safe(id) => Safe(id)'
    PROVE  SInv'
<1>1. Apart'
  BY ApartStays DEF SInv
<1>2. Straight'
  BY StraightStays DEF SInv
<1>3. Kept'
  BY KeptStays DEF SInv
<1> QED
  BY <1>1, <1>2, <1>3 DEF SInv

(* What is stored on a node while its lock is held is safe.                *)
LEMMA SafeHere ==
    ASSUME LInv, NEW t \in Threads, NEW n \in Nodes, n \in Held(call[t]),
           \A u \in Threads \ {t} : Alike(call[u], call'[u]),
           NEW id, ~Leaves(call'[t], n, id), id \in data'[n]
    PROVE  Safe(id)'
<1>1. \A u \in Threads \ {t} : ~Leaves(call'[u], n, id)
  BY LockedKeeps, AlikeGot
<1> QED
  BY <1>1 DEF Safe, Leaving

(* What one removes, somebody else does not claim.                         *)
LEMMA OnlyOwn ==
    ASSUME SInv, NEW t \in Threads, Removing(call[t]), NEW id, id \notin raced, Claimed(id),
           id \in call[t].ids
    PROVE  id \in Got(call[t])
<1>1. call[t] # None
  BY DEF Removing
<1>2. id \notin acked
  BY DEF SInv, Apart
<1>3. PICK u \in Threads : id \in Got(call[u])
  BY <1>2 DEF Claimed
<1>4. call[u] # None
  BY <1>3 DEF Got
<1>5. id \in call[u].ids
  BY <1>3, <1>4, GotIn
<1>6. u = t
  BY <1>1, <1>4, <1>5 DEF SInv, Apart
<1> QED
  BY <1>3, <1>6

LEMMA WorkerDeleteKeeps ==
    ASSUME SInv, NEW t \in Threads, WorkerDelete(t)
    PROVE  SInv'
<1>1. Doing(t, "work") /\ acked' = acked /\ raced' = raced
  BY DEF WorkerDelete, history
<1>2. LInv' /\ LInv
  BY WorkerDeleteInv DEF SInv
<1>3. PICK n \in Nodes :
        /\ data' = data \/ data' = [data EXCEPT ![n] = @ \ call[t].ids]
        /\ WorkLeft(t, (Now(t).left \ {<<n, "delete">>}) \cup {<<n, "refresh">>})
  BY DEF WorkerDelete
<1> DEFINE S == (Now(t).left \ {<<n, "delete">>}) \cup {<<n, "refresh">>}
<1>4. Now(t) \in Steps
  BY <1>1, <1>2, Turn
<1>5. S \in SUBSET (Nodes \X {"ask", "delete", "refresh"}) /\ WorkLeft(t, S)
  BY <1>3, <1>4 DEF Steps
<1> HIDE DEF S
<1>6. /\ call[t] # None /\ Local(t) /\ Held(call[t]) = {} /\ Forward(call'[t])
      /\ Got(call'[t]) = {} /\ Removing(call[t]) /\ Got(call[t]) = {}
  BY <1>1, <1>5, WorkLeftKeeps, WorkHarmless
<1>7. /\ call'[t] # None /\ \A u \in Threads \ {t} : Alike(call[u], call'[u])
      /\ call'[t].op = call[t].op /\ call'[t].ids = call[t].ids /\ Held(call'[t]) = {}
  BY <1>6 DEF Local
<1>8. \A m, id : ~Leaves(call'[t], m, id)
  BY <1>7 DEF Leaves, Held
<1>9. ASSUME NEW id \in Nat \ raced', Claimed(id), Safe(id) PROVE Safe(id)'
  <2>1. id \notin call[t].ids
    BY <1>1, <1>6, <1>9, OnlyOwn
  <2>2. data \in [Nodes -> SUBSET Nat]
    BY <1>2 DEF LInv, TypeOK
  <2>3. \A m \in Nodes : id \in data[m] => id \in data'[m]
    BY <1>3, <2>1, <2>2
  <2> QED
    BY <1>7, <1>8, <1>9, <2>3, SafeStays
<1> QED
  BY <1>1, <1>2, <1>6, <1>7, <1>9, StepKeeps

LEMMA AssignKeeps ==
    ASSUME SInv, NEW t \in Threads, Assign(t)
    PROVE  SInv'
<1> DEFINE c == call[t]
           n == c.good
<1>1. /\ Doing(t, "assign") /\ call' = [call EXCEPT ![t] = None]
  BY DEF Assign
<1>2. LInv' /\ LInv
  BY AssignInv DEF SInv
<1>3. /\ c \in Calls /\ c # None /\ Fitting(c) /\ Head(c.todo).do = "assign"
  BY <1>1, <1>2, Turn
<1>4. PICK rpc \in Outcomes :
        /\ raced' = raced \cup ({nextId} \cap InProgress(t))
        /\ data' = IF rpc[1] THEN [data EXCEPT ![n] = @ \cup {nextId}] ELSE data
        /\ acked' = acked \/ (rpc[2] /\ acked' = acked \cup ({nextId} \ raced'))
        /\ Count(rpc[2])
  BY DEF Assign
<1>5. rpc[2] => rpc[1]
  BY <1>2, <1>4, Rpc
<1>6. /\ call'[t] = None /\ \A u \in Threads \ {t} : Alike(call[u], call'[u]) /\ call'[u] = call[u]
  BY <1>1, <1>2, Put
<1>7. n \in Nodes /\ n \in Held(call[t])
  <2> HIDE DEF c
  <2>1. n \in Nodes /\ n \in Held(c)
    BY <1>3 DEF Fitting, Held
  <2> QED
    BY <2>1 DEF c
<1>8. data \in [Nodes -> SUBSET Nat]
  BY <1>2 DEF LInv, TypeOK
<1>9. \A m, id : ~Leaves(call'[t], m, id)
  BY <1>6 DEF Leaves
<1>10. Forward(call'[t]) /\ Got(call'[t]) = {}
  BY <1>6 DEF Forward, Got
<1>11. \A m \in Nodes : data[m] \subseteq data'[m]
  BY <1>4, <1>7, <1>8
<1>12. \A id : Safe(id) => Safe(id)'
  BY <1>6, <1>9, <1>11, SafeStays
<1>13. ASSUME NEW id \in Nat \ raced', id \in acked', id \notin acked PROVE Safe(id)'
  <2>1. id = nextId /\ rpc[1]
    BY <1>4, <1>5, <1>13
  <2>2. id \in data'[n]
    BY <1>4, <1>7, <1>8, <2>1
  <2> QED
    BY <1>2, <1>6, <1>7, <1>9, <2>2, SafeHere
<1>14. ASSUME NEW u \in Threads, NEW id, Removing(call'[u]), id \in call'[u].ids, id \in acked'
       PROVE  id \in acked \/ id \in raced'
  <2>1. u # t /\ call[u] # None /\ call'[u] = call[u]
    BY <1>6, <1>14 DEF Removing
  <2>2. id \in InProgress(t)
    BY <1>14, <2>1 DEF InProgress, Others, Busy
  <2> QED
    BY <1>4, <1>14, <2>2
<1>15. raced \subseteq raced'
  BY <1>4
<1> QED
  BY <1>2, <1>6, <1>10, <1>12, <1>13, <1>14, <1>15, StepKeeps

LEMMA CreateKeeps ==
    ASSUME SInv, NEW t \in Threads, Create(t)
    PROVE  SInv'
<1> DEFINE c == call[t]
           d == call'[t]
           n == c.good
<1>1. LInv' /\ LInv
  BY CreateInv DEF SInv
<1>2. PICK rpc \in Outcomes, id \in c.ids, k \in Nat : Created(t, rpc, id, k)
  BY <1>1, CreateDoes
<1>3. /\ data' = (IF rpc[1] THEN [data EXCEPT ![n] = @ \cup {id}] ELSE data)
      /\ Count(rpc[2]) /\ acked' = acked /\ raced' = raced
      /\ n \in Nodes /\ id \in Nat /\ c.ids = {id} /\ c.op = "CreateRecordWithId" /\ c # None
      /\ Head(c.todo).do = "create" /\ d # None
      /\ \A u \in Threads \ {t} : Alike(call[u], call'[u])
      /\ d.op = c.op /\ d.ids = c.ids /\ Head(d.todo).do \in {"runlock", "create"}
      /\ d.ok => rpc[2]
  BY <1>2 DEF Created
<1>4. rpc[2] => rpc[1]
  BY <1>1, <1>3, Rpc
<1>5. data \in [Nodes -> SUBSET Nat] /\ n \in Held(call[t])
  BY <1>1, <1>3 DEF LInv, TypeOK, Held
<1>6. \A m, i : ~Leaves(call'[t], m, i)
  BY <1>3 DEF Leaves
<1>7. \A m \in Nodes : data[m] \subseteq data'[m]
  BY <1>3, <1>5
<1>8. \A i : Safe(i) => Safe(i)'
  BY <1>3, <1>6, <1>7, SafeStays
<1>9. ASSUME NEW i \in Got(d) PROVE Safe(i)'
  <2>1. d.ok
    BY <1>9 DEF Got
  <2>2. i = id
    BY <1>3, <1>9, GotIn
  <2>3. i \in data'[n]
    BY <1>3, <1>4, <1>5, <2>1, <2>2
  <2> QED
    BY <1>1, <1>3, <1>5, <1>6, <2>3, SafeHere
<1>10. Forward(d)
  BY <1>3 DEF Forward
<1> QED
  BY <1>1, <1>3, <1>8, <1>9, <1>10, StepKeeps

(* A node stores a part of a batch, or fails and deletes that part.        *)
LEMMA BatchKeeps ==
    ASSUME SInv, LInv', NEW t \in Threads, Removing(call[t]), call'[t] # None,
           \A u \in Threads \ {t} : Alike(call[u], call'[u]),
           call'[t].ids = call[t].ids, call'[t].op = call[t].op,
           Head(call'[t].todo).do # "remove", Forward(call'[t]),
           NEW n \in Nodes, n \in Held(call[t]), NEW part, part \subseteq call[t].ids,
           NEW acted, NEW told, told => acted, data' \in BatchData(n, part, acted, told),
           Got(call[t]) \cap part = {},
           \A id \in Got(call'[t]) : id \in Got(call[t]) \/ (told /\ id \in part),
           acked' = acked, raced' = raced
    PROVE  SInv'
<1>1. LInv /\ call[t] # None
  BY DEF SInv, Removing
<1>2. data \in [Nodes -> SUBSET Nat]
  BY <1>1 DEF LInv, TypeOK
<1>3. \A m, id : ~Leaves(call'[t], m, id)
  BY DEF Leaves
<1>4. \/ data' = data \/ data' = [data EXCEPT ![n] = @ \cup part]
      \/ data' = [data EXCEPT ![n] = @ \ part]
  BY DEF BatchData
<1>5. ASSUME NEW id \in Nat \ raced', Claimed(id), Safe(id) PROVE Safe(id)'
  <2>1. id \notin part
    BY <1>5, OnlyOwn
  <2>2. \A m \in Nodes : id \in data[m] => id \in data'[m]
    BY <1>2, <1>4, <2>1
  <2> QED
    BY <1>3, <1>5, <2>2, SafeStays
<1>6. ASSUME NEW id \in Got(call'[t]), id \notin Got(call[t]) PROVE Safe(id)'
  <2>1. told /\ id \in part
    BY <1>6
  <2>2. data' = [data EXCEPT ![n] = @ \cup part]
    BY <2>1 DEF BatchData
  <2>3. id \in data'[n]
    BY <1>2, <2>1, <2>2
  <2> QED
    BY <1>1, <1>3, <2>3, SafeHere
<1> QED
  BY <1>1, <1>5, <1>6, StepKeeps

LEMMA ForwardGoes ==
    ASSUME NEW c, NEW d, c # None, WellFormed(c.op, c.todo), WellFormed(d.op, d.todo),
           d.op = c.op, d.ok => c.ok, Shortens(c.todo, d.todo), Forward(c)
    PROVE  Forward(d)
<1>1. /\ c.todo \in Seq(Steps) /\ c.todo # <<>> /\ Len(c.todo) > 0
      /\ d.todo \in Seq(Steps) /\ d.todo # <<>> /\ Len(d.todo) > 0
  BY HeadWell
<1>2. CASE d.todo = Tail(c.todo)
  <2>1. \A i \in 1 .. Len(d.todo) : d.todo[i] = c.todo[i + 1] /\ i + 1 \in 1 .. Len(c.todo)
    BY <1>1, <1>2
  <2> QED
    BY <2>1 DEF Forward
<1>3. CASE Tail(d.todo) = Tail(c.todo) /\ Head(d.todo).do = Head(c.todo).do
  <2> DEFINE p == Tail(d.todo)
             q == Tail(c.todo)
  <2>4. Len(p) = Len(d.todo) - 1 /\ \A i \in 1 .. Len(p) : p[i] = d.todo[i + 1]
    BY <1>1, HeadTailProperties
  <2>6. Len(q) = Len(c.todo) - 1 /\ \A i \in 1 .. Len(q) : q[i] = c.todo[i + 1]
    BY <1>1, HeadTailProperties
  <2>7. p = q
    BY <1>3
  <2> HIDE DEF p, q
  <2>5. Len(p) = Len(c.todo) - 1 /\ \A i \in 1 .. Len(p) : p[i] = c.todo[i + 1]
    BY <2>6, <2>7
  <2>1. \A i \in 1 .. Len(p) : d.todo[i + 1] = c.todo[i + 1]
    BY <2>4, <2>5
  <2>2. Len(d.todo) = Len(c.todo) /\ Len(p) = Len(d.todo) - 1
    BY <1>1, <2>4, <2>5
  <2>3. \A i \in 1 .. Len(d.todo) : d.todo[i].do = c.todo[i].do
    <3> SUFFICES ASSUME NEW i \in 1 .. Len(d.todo) PROVE d.todo[i].do = c.todo[i].do
      OBVIOUS
    <3>1. CASE i = 1
      BY <1>1, <1>3, <3>1
    <3>2. CASE i # 1
      <4>1. i - 1 \in 1 .. Len(p) /\ (i - 1) + 1 = i
        BY <1>1, <2>2, <3>2
      <4> QED
        BY <2>1, <4>1
    <3> QED
      BY <3>1, <3>2
  <2> QED
    BY <2>2, <2>3 DEF Forward
<1> QED
  BY <1>2, <1>3 DEF Shortens

LEMMA StoreKeeps ==
    ASSUME SInv, NEW t \in Threads, Store(t)
    PROVE  SInv'
<1> DEFINE c == call[t]
           d == call'[t]
           h == Head(c.todo)
           r == Head(d.todo)
           end == c.end + Share(Cardinality(c.ids), N, h.n)
           part == Slice(t, c.start, end)
<1>1. LInv' /\ LInv /\ Forward(c) /\ Sane(c)
  BY StoreInv DEF SInv, Straight, LInv, Formed
<1>2. PICK rpc \in Outcomes, k \in Nat : Slicing(t, rpc, k)
  BY <1>1, StoreDoes
<1>3. /\ Batched(h.n, part, rpc, k)
      /\ c \in Calls /\ c # None /\ c.op = "CreateRecordsWithId" /\ c.ok
      /\ h.do = "store" /\ h.n \in Nodes
      /\ c.start \in Nat /\ c.end \in Nat /\ end \in Nat /\ c.start <= c.end /\ c.end <= end
      /\ d # None /\ \A u \in Threads \ {t} : Alike(call[u], call'[u])
      /\ d.op = c.op /\ d.ids = c.ids /\ d.ok = c.ok
      /\ d.start = (IF rpc[2] THEN end ELSE c.start)
      /\ WellFormed(d.op, d.todo) /\ Shortens(c.todo, d.todo)
      /\ IF k = 0 THEN Follows(h, r) ELSE r.do = "store"
  BY <1>2 DEF Slicing
<1>4. /\ data' \in BatchData(h.n, part, rpc[1], rpc[2]) /\ Count(rpc[2])
      /\ acked' = acked /\ raced' = raced
  BY <1>3 DEF Batched, history
<1>5. rpc[2] => rpc[1]
  BY <1>1, <1>4, Rpc
<1>6. IsFiniteSet(c.ids) /\ c.ids \subseteq Nat
  BY <1>3, IdsFinite, CallIds
<1>7. part = {z \in c.ids : Before(c.ids, z) \in c.start .. end - 1}
  BY DEF Slice
<1> HIDE DEF end, part
<1>8. h.n \in Held(call[t])
  BY <1>3 DEF Held
<1> HIDE DEF c, d
<1>9. Forward(d)
  BY <1>1, <1>3, ForwardGoes DEF Sane
<1>10. Early(h) /\ Early(r) /\ r.do # "remove"
  <2>1. Early(h)
    BY <1>3 DEF Early, Storing
  <2>2. CASE k # 0
    BY <1>3, <2>1, <2>2 DEF Early, Storing
  <2>3. CASE k = 0
    <3>1. IF h.n = N THEN r.do = "settle" ELSE r = At("lock", h.n + 1)
      BY <1>3, <2>3 DEF Follows
    <3>2. r = At("lock", h.n + 1) => r.do = "lock" /\ r.n = h.n + 1 /\ r.m = 0
      BY DEF At, Act
    <3>3. h.n \in Nat /\ h.n > 0
      BY <1>3, InternalAssumption DEF Nodes
    <3> QED
      BY <2>1, <3>1, <3>2, <3>3 DEF Early, Storing
  <2> QED
    BY <2>2, <2>3
<1>11. Got(c) = {z \in c.ids : Before(c.ids, z) < c.start}
  BY <1>3, <1>10 DEF Got
<1>12. Got(d) = {z \in c.ids : Before(c.ids, z) < d.start}
  BY <1>3, <1>10 DEF Got
<1>13. \A z \in c.ids : Before(c.ids, z) \in Nat
  BY <1>6, BeforeBelow
<1>14. Got(c) \cap part = {} /\ part \subseteq c.ids
  BY <1>3, <1>7, <1>11, <1>13
<1>15. ASSUME NEW z \in Got(d) PROVE z \in Got(c) \/ (rpc[2] /\ z \in part)
  <2>1. z \in c.ids /\ Before(c.ids, z) < d.start /\ Before(c.ids, z) \in Nat
    BY <1>12, <1>13, <1>15
  <2>2. CASE ~rpc[2]
    BY <1>3, <1>11, <2>1, <2>2
  <2>3. CASE rpc[2]
    BY <1>3, <1>7, <1>11, <2>1, <2>3
  <2> QED
    BY <2>2, <2>3
<1>16. Removing(c)
  BY <1>3 DEF Removing
<1> DEFINE told == rpc[2]
           acted == rpc[1]
           n == h.n
<1>17. /\ data' \in BatchData(n, part, acted, told) /\ (told => acted)
       /\ \A z \in Got(d) : z \in Got(c) \/ (told /\ z \in part)
       /\ n \in Nodes /\ n \in Held(call[t])
  BY <1>3, <1>4, <1>5, <1>8, <1>15
<1> HIDE DEF told, acted, n
<1> QED
  BY <1>1, <1>3, <1>4, <1>9, <1>10, <1>14, <1>16, <1>17, BatchKeeps DEF c, d

LEMMA FallbackKeeps ==
    ASSUME SInv, NEW t \in Threads, Fallback(t)
    PROVE  SInv'
<1> DEFINE c == call[t]
           d == call'[t]
           h == Head(c.todo)
           r == Head(d.todo)
           part == Slice(t, c.start, c.end)
<1>1. LInv' /\ LInv /\ Forward(c) /\ Sane(c)
  BY FallbackInv DEF SInv, Straight, LInv, Formed
<1>2. PICK rpc \in Outcomes, k \in Nat : Falling(t, rpc, k)
  BY <1>1, FallbackDoes
<1>3. /\ Batched(c.good, part, rpc, k)
      /\ c \in Calls /\ c # None /\ c.op = "CreateRecordsWithId" /\ c.good \in Nodes
      /\ h.do = "fallback" /\ h.k = 0 /\ c.end = Cardinality(c.ids)
      /\ d # None /\ \A u \in Threads \ {t} : Alike(call[u], call'[u])
      /\ d.op = c.op /\ d.ids = c.ids /\ WellFormed(d.op, d.todo)
      /\ IF ~rpc[2] THEN r.do = "rlock" /\ ~d.ok
         ELSE /\ d.ok = c.ok /\ Shortens(c.todo, d.todo)
              /\ IF k = 0 THEN Follows(h, r) ELSE r.do = "fallback" /\ r.k = k
  BY <1>2 DEF Falling
<1>4. /\ data' \in BatchData(c.good, part, rpc[1], rpc[2]) /\ Count(rpc[2])
      /\ acked' = acked /\ raced' = raced
  BY <1>3 DEF Batched, history
<1>5. rpc[2] => rpc[1]
  BY <1>1, <1>4, Rpc
<1>6. IsFiniteSet(c.ids) /\ c.ids \subseteq Nat /\ c.start \in Nat /\ c.end \in Nat
  BY <1>3, IdsFinite, CallIds, CallTypes
<1>7. part = {z \in c.ids : Before(c.ids, z) \in c.start .. c.end - 1}
  BY DEF Slice
<1> HIDE DEF part
<1>8. c.good \in Held(call[t])
  BY <1>3 DEF Held
<1> HIDE DEF c, d
<1>9. Forward(d)
  <2>1. CASE rpc[2]
    BY <1>1, <1>3, <2>1, ForwardGoes DEF Sane
  <2>2. CASE ~rpc[2]
    BY <1>3, <2>2 DEF Forward
  <2> QED
    BY <2>1, <2>2
<1>10. Early(h) /\ r.do # "remove"
  BY <1>3 DEF Early, FallingBack, Answered, Follows
<1>11. \A z \in c.ids : Before(c.ids, z) \in Nat /\ Before(c.ids, z) < c.end
  BY <1>3, <1>6, BeforeBelow
<1>12. Got(c) = IF c.ok THEN {z \in c.ids : Before(c.ids, z) < c.start} ELSE {}
  BY <1>3, <1>10 DEF Got
<1>13. Got(c) \cap part = {} /\ part \subseteq c.ids
  BY <1>6, <1>7, <1>11, <1>12
<1>14. ASSUME NEW z \in Got(d) PROVE z \in Got(c) \/ (rpc[2] /\ z \in part)
  <2>1. rpc[2] /\ c.ok
    BY <1>3, <1>14 DEF Got
  <2>2. z \in c.ids
    BY <1>3, <1>14, GotIn
  <2> QED
    BY <1>6, <1>7, <1>11, <1>12, <2>1, <2>2
<1>15. Removing(c)
  BY <1>3 DEF Removing
<1> DEFINE told == rpc[2]
           acted == rpc[1]
           n == c.good
<1>16. /\ data' \in BatchData(n, part, acted, told) /\ (told => acted)
       /\ \A z \in Got(d) : z \in Got(c) \/ (told /\ z \in part)
       /\ n \in Nodes /\ n \in Held(call[t])
  BY <1>3, <1>4, <1>5, <1>8, <1>14
<1> HIDE DEF told, acted, n
<1> QED
  BY <1>1, <1>3, <1>4, <1>9, <1>10, <1>13, <1>15, <1>16, BatchKeeps DEF c, d

(* nextId is raised after the RPC: nothing is stored or deleted.           *)
LEMMA RaiseKeeps ==
    ASSUME SInv, NEW t \in Threads, Raise(t)
    PROVE  SInv'
<1>1. LInv' /\ LInv
  BY RaiseInv DEF SInv
<1>2. PICK what \in {"create", "store", "fallback"} : Doing(t, what)
  BY DEF Raise, Creating
<1>3. /\ Then(t, call[t]) /\ data' = data /\ acked' = acked /\ raced' = raced
  BY DEF Raise, history
<1>4. call[t] \in Calls /\ Answered(Head(call[t].todo))
  BY <1>1, RaiseDoes DEF RaisedBy
<1>5. what \notin {"assign", "runlock", "copy", "settle"}
  BY <1>2
<1> QED
  BY <1>1, <1>2, <1>3, <1>4, <1>5, QuietThen

LEMMA ListKeeps ==
    ASSUME SInv, NEW t \in Threads, List(t) \/ Query(t)
    PROVE  SInv'
<1>1. LInv' /\ LInv
  BY ListInv DEF SInv
<1>2. Listing(t)
  BY <1>1, ListDoes
<1>3. /\ call[t] # None /\ call'[t] # None /\ call[t].op = "ListRecords" /\ call'[t].op = "ListRecords"
      /\ \A u \in Threads \ {t} : Alike(call[u], call'[u])
      /\ call[t].ids = {} /\ call'[t].ids = {} /\ Head(call'[t].todo).do # "remove"
      /\ data' = data /\ acked' = acked /\ raced' = raced
  <2>1. \A u \in Threads \ {t} : Alike(call[u], call'[u])
    BY <1>2 DEF Listing, Alike
  <2> QED
    BY <1>2, <2>1, NoneAssumption DEF Listing, history
<1>4. Forward(call'[t]) /\ Got(call'[t]) = {}
  BY <1>3 DEF Forward, Got
<1> QED
  BY <1>1, <1>3, <1>4, QuietKeeps

LEMMA TailPlain ==
    ASSUME NEW s \in Seq(Steps), s # <<>>, \A i \in 1 .. Len(s) : s[i].do \notin {"total", "work"}
    PROVE  \A i \in 1 .. Len(Tail(s)) : Tail(s)[i].do \notin {"total", "work"}
<1>1. \A i \in 1 .. Len(Tail(s)) : Tail(s)[i] = s[i + 1] /\ i + 1 \in 1 .. Len(s)
  OBVIOUS
<1> QED
  BY <1>1

(* A call in the middle of a transfer claims all that it is about.         *)
LEMMA MovingOn ==
    ASSUME SInv, NEW t \in Threads, NEW what, what \in {"copy", "remove"}, Doing(t, what),
           NEW d, d # None, d.op = call[t].op, d.ids = call[t].ids, d.ok = call[t].ok,
           d.todo = Tail(call[t].todo) \/ d.todo = Tail(Tail(call[t].todo)),
           Tail(call[t].todo) # <<>>
    PROVE  Forward(d) /\ Got(d) \subseteq Got(call[t])
<1> DEFINE c == call[t]
           T == Tail(c.todo)
<1>1. /\ c \in Calls /\ c # None /\ WellFormed(c.op, c.todo) /\ Head(c.todo).do = what
      /\ what \in Kinds(c.op)
  BY Turn DEF SInv
<1>2. c.todo \in Seq(Steps) /\ c.todo # <<>>
  BY <1>1, HeadWell
<1>3. Forward(c)
  BY DEF SInv, Straight
<1>4. T \in Seq(Steps) /\ T # <<>>
  BY <1>2
<1>5. d.todo = T \/ d.todo = Tail(T)
  OBVIOUS
<1>6. d.op = c.op /\ d.ids = c.ids /\ d.ok = c.ok
  OBVIOUS
<1> HIDE DEF c
<1>7. Forward(d)
  <2>1. CASE c.op = "CreateRecordsWithId" /\ c.ok
    <3>1. \A i \in 1 .. Len(c.todo) : c.todo[i].do \notin {"total", "work"}
      BY <1>1, <1>3, <2>1 DEF Forward
    <3>2. \A i \in 1 .. Len(T) : T[i].do \notin {"total", "work"}
      BY <1>2, <3>1, TailPlain
    <3> HIDE DEF T
    <3>3. \A i \in 1 .. Len(Tail(T)) : Tail(T)[i].do \notin {"total", "work"}
      BY <1>4, <3>2, TailPlain
    <3> QED
      BY <1>5, <3>2, <3>3 DEF Forward
  <2>2. CASE ~(c.op = "CreateRecordsWithId" /\ c.ok)
    BY <1>6, <2>2 DEF Forward
  <2> QED
    BY <2>1, <2>2
<1>8. Got(d) \subseteq Got(c)
  <2>1. c.op \in {"CreateRecord", "CreateRecordWithId", "CreateRecordsWithId", "DeleteRecords",
                 "ListRecords"}
    BY <1>1 DEF Calls
  <2>2. c.op \in {"CreateRecordsWithId", "DeleteRecords"}
    BY <1>1, <2>1 DEF Kinds
  <2>3. ~Early(Head(c.todo))
    BY <1>1 DEF Early, Storing, FallingBack
  <2>4. Got(d) \subseteq d.ids
    BY GotIn
  <2>5. CASE c.op = "CreateRecordsWithId" /\ c.ok
    BY <1>1, <1>6, <2>3, <2>4, <2>5 DEF Got
  <2>6. CASE ~(c.op = "CreateRecordsWithId" /\ c.ok)
    BY <1>6, <2>2, <2>6 DEF Got
  <2> QED
    BY <2>5, <2>6
<1> QED
  BY <1>7, <1>8 DEF c

LEMMA CopyKeeps ==
    ASSUME SInv, NEW t \in Threads, Copy(t)
    PROVE  SInv'
<1> DEFINE c == call[t]
           d == call'[t]
           s == Now(t)
           list == FirstOf(data[s.n], s.k)
           moving == Disturb(call, t, Unmoved)
           T == Tail(c.todo)
           what == "copy"
<1>1. Doing(t, what) /\ what = "copy" /\ acked' = acked /\ raced' = raced
  BY DEF Copy, history
<1>2. LInv' /\ LInv
  BY CopyInv DEF SInv
<1> HIDE DEF what
<1>3. /\ c \in Calls /\ c # None /\ WellFormed(c.op, c.todo) /\ s = Head(c.todo)
      /\ s.do = "copy" /\ s.n \in Nodes /\ s.m \in Nodes /\ s.n # s.m
      /\ Held(c) = {s.n, s.m} /\ WellFormed(c.op, T) /\ Follows(s, Head(T))
  BY <1>1, <1>2, InTransfer
<1>4. PICK rpc \in Outcomes :
        /\ data' \in BatchData(s.m, list, rpc[1], rpc[2])
        /\ IF rpc[2] THEN call' = [moving EXCEPT ![t].list = list, ![t].todo = Tail(@)]
           ELSE call' = [moving EXCEPT ![t].todo = Tail(Tail(@))]
        /\ Count(rpc[2])
  BY DEF Copy
<1>5. rpc[2] => rpc[1]
  BY <1>2, <1>4, Rpc
<1>6. list \subseteq data[s.n] /\ list \subseteq Nat
  BY <1>2, <1>3, ListTypes
<1>7. call \in [Threads -> Calls \cup {None}] /\ data \in [Nodes -> SUBSET Nat]
  BY <1>2 DEF LInv, TypeOK
<1>8. moving[t] = c /\ t \in DOMAIN moving
  BY <1>7 DEF Disturb
<1>9. T \in Seq(Steps) /\ T # <<>> /\ Head(T).do = "remove" /\ Head(T).n = s.n
  <2>1. T \in Seq(Steps) /\ T # <<>>
    BY <1>3 DEF WellFormed
  <2> HIDE DEF c, s
  <2> QED
    BY <1>3, <2>1 DEF Follows
<1> HIDE DEF list
<1>10. CASE rpc[2]
  <2> DEFINE e == [c EXCEPT !.list = list, !.todo = T]
  <2>1. call' = [moving EXCEPT ![t] = e]
    <3> HIDE DEF moving
    <3> QED
      BY <1>4, <1>8, <1>10
  <2>2. e \in Calls
    <3> HIDE DEF T
    <3> QED
      BY <1>3, <1>6, <1>9, CallTypes
  <2> HIDE DEF T
  <2>3. e.todo = T /\ e.op = c.op /\ e.ids = c.ids /\ e.ok = c.ok /\ e.list = list
    <3> HIDE DEF c
    <3> QED
      BY <1>3 DEF Calls
  <2> HIDE DEF e
  <2>4. d = e /\ \A u \in Threads \ {t} : Alike(call[u], call'[u])
    BY <1>2, <2>1, <2>2, Moved
  <2>5. d # None
    BY <2>2, <2>4, CallTypes
  <2>6. Forward(d) /\ Got(d) \subseteq Got(c)
    BY <1>1, <1>9, <2>3, <2>4, <2>5, MovingOn DEF T
  <2>7. data' = [data EXCEPT ![s.m] = @ \cup list]
    BY <1>4, <1>5, <1>10 DEF BatchData
  <2>8. ASSUME NEW id, Safe(id) PROVE Safe(id)'
    <3>1. PICK n \in Nodes : id \in data[n] /\ ~Leaving(n, id)
      BY <2>8 DEF Safe
    <3>2. CASE n = s.n /\ id \in list
      <4>1. id \in data'[s.m]
        BY <1>3, <1>7, <2>7, <3>2
      <4>2. ~Leaves(d, s.m, id)
        BY <1>3, <1>9, <2>3, <2>4 DEF Leaves
      <4> QED
        BY <1>2, <1>3, <2>4, <4>1, <4>2, SafeHere
    <3>3. CASE ~(n = s.n /\ id \in list)
      <4>1. id \in data'[n]
        BY <1>3, <1>7, <2>7, <3>1
      <4>2. ~Leaves(d, n, id)
        BY <1>9, <2>3, <2>4, <3>3 DEF Leaves
      <4>3. \A u \in Threads \ {t} : ~Leaves(call'[u], n, id)
        BY <2>4, <3>1, AlikeGot DEF Leaving
      <4> QED
        BY <4>1, <4>2, <4>3 DEF Safe, Leaving
    <3> QED
      BY <3>2, <3>3
  <2> QED
    BY <1>1, <1>2, <1>3, <2>3, <2>4, <2>5, <2>6, <2>8, StepKeeps
<1>11. CASE ~rpc[2]
  <2> DEFINE q == Tail(T)
             e == [c EXCEPT !.todo = q]
  <2>1. call' = [moving EXCEPT ![t] = e]
    <3> HIDE DEF moving
    <3> QED
      BY <1>4, <1>8, <1>11
  <2> HIDE DEF T
  <2>2. WellFormed(c.op, q) /\ Follows(Head(T), Head(q))
    <3>1. Head(T).do \notin {"assign", "runlock"} /\ WellFormed(c.op, T)
      BY <1>3, <1>9 DEF T
    <3> QED
      BY <3>1, NextWell
  <2>3. e \in Calls
    <3>1. q \in Seq(Steps)
      BY <2>2 DEF WellFormed
    <3> HIDE DEF q
    <3> QED
      BY <1>3, <3>1, CallTypes
  <2>4. e.todo = q /\ e.op = c.op /\ e.ids = c.ids /\ e.ok = c.ok
    <3> HIDE DEF c, q
    <3> QED
      BY <1>3 DEF Calls
  <2> HIDE DEF e
  <2>5. d = e /\ \A u \in Threads \ {t} : Alike(call[u], call'[u])
    BY <1>2, <2>1, <2>3, Moved
  <2>6. d # None
    BY <2>3, <2>5, CallTypes
  <2>7. Forward(d) /\ Got(d) \subseteq Got(c)
    BY <1>1, <1>9, <2>4, <2>5, <2>6, MovingOn DEF T
  <2>8. \A m, id : ~Leaves(d, m, id)
    <3> HIDE DEF q
    <3>1. Head(q).do # "remove"
      BY <1>9, <2>2 DEF Follows
    <3> QED
      BY <2>4, <2>5, <3>1 DEF Leaves
  <2>9. \/ data' = data \/ data' = [data EXCEPT ![s.m] = @ \cup list]
        \/ data' = [data EXCEPT ![s.m] = @ \ list]
    BY <1>4 DEF BatchData
  <2>10. ASSUME NEW id, Safe(id) PROVE Safe(id)'
    <3>1. PICK n \in Nodes : id \in data[n] /\ ~Leaving(n, id)
      BY <2>10 DEF Safe
    <3>2. CASE n = s.m /\ id \in list
      <4>1. id \in data'[s.n]
        BY <1>3, <1>6, <1>7, <2>9, <3>2
      <4> QED
        BY <1>2, <1>3, <2>5, <2>8, <4>1, SafeHere
    <3>3. CASE ~(n = s.m /\ id \in list)
      <4>1. id \in data'[n]
        BY <1>3, <1>7, <2>9, <3>1, <3>3
      <4>2. \A u \in Threads \ {t} : ~Leaves(call'[u], n, id)
        BY <2>5, <3>1, AlikeGot DEF Leaving
      <4> QED
        BY <2>8, <4>1, <4>2 DEF Safe, Leaving
    <3> QED
      BY <3>2, <3>3
  <2> QED
    BY <1>1, <1>2, <1>3, <2>4, <2>5, <2>6, <2>7, <2>10, StepKeeps
<1> QED
  BY <1>10, <1>11

LEMMA DeleteMovedKeeps ==
    ASSUME SInv, NEW t \in Threads, DeleteMoved(t)
    PROVE  SInv'
<1> DEFINE c == call[t]
           d == call'[t]
           s == Now(t)
           moving == Disturb(call, t, Unmoved)
           q == Tail(c.todo)
           none == {}
           e == [c EXCEPT !.list = none, !.todo = q]
           what == "remove"
<1>1. /\ Doing(t, what) /\ what = "remove" /\ acked' = acked /\ raced' = raced
      /\ call' = [moving EXCEPT ![t].list = none, ![t].todo = Tail(@)]
  BY DEF DeleteMoved, history
<1>2. LInv' /\ LInv
  BY DeleteMovedInv DEF SInv
<1> HIDE DEF what
<1>3. /\ c \in Calls /\ c # None /\ s = Head(c.todo) /\ s.do = "remove" /\ s.n \in Nodes
      /\ WellFormed(c.op, q) /\ Follows(s, Head(q))
  BY <1>1, <1>2, InTransfer
<1>4. data' = data \/ data' = [data EXCEPT ![s.n] = @ \ c.list]
  BY DEF DeleteMoved
<1>5. call \in [Threads -> Calls \cup {None}] /\ data \in [Nodes -> SUBSET Nat]
  BY <1>2 DEF LInv, TypeOK
<1>6. moving[t] = c /\ t \in DOMAIN moving
  BY <1>5 DEF Disturb
<1>7. call' = [moving EXCEPT ![t] = e]
  <2> HIDE DEF moving, none
  <2> QED
    BY <1>1, <1>6
<1>8. q \in Seq(Steps) /\ q # <<>> /\ none \in SUBSET Nat
  BY <1>3 DEF WellFormed
<1> HIDE DEF q, none
<1>9. e \in Calls
  BY <1>3, <1>8, CallTypes
<1>10. e.todo = q /\ e.op = c.op /\ e.ids = c.ids /\ e.ok = c.ok
  <2> HIDE DEF c
  <2> QED
    BY <1>3 DEF Calls
<1> HIDE DEF e
<1>11. d = e /\ \A u \in Threads \ {t} : Alike(call[u], call'[u])
  BY <1>2, <1>7, <1>9, Moved
<1>12. d # None
  BY <1>9, <1>11, CallTypes
<1>13. Forward(d) /\ Got(d) \subseteq Got(c)
  BY <1>1, <1>8, <1>10, <1>11, <1>12, MovingOn DEF q
<1>14. \A m, id : ~Leaves(d, m, id)
  <2>1. Head(q).do # "remove"
    BY <1>3 DEF Follows
  <2> QED
    BY <1>10, <1>11, <2>1 DEF Leaves
<1>15. ASSUME NEW id, Safe(id) PROVE Safe(id)'
  <2>1. ASSUME NEW m \in Nodes, id \in data[m], ~Leaves(c, m, id) PROVE id \in data'[m]
    <3>1. ~(m = s.n /\ id \in c.list)
      BY <1>3, <2>1 DEF Leaves
    <3> QED
      BY <1>3, <1>4, <1>5, <2>1, <3>1
  <2> QED
    BY <1>11, <1>14, <1>15, <2>1, SafeStays
<1> QED
  BY <1>1, <1>2, <1>3, <1>10, <1>11, <1>12, <1>13, <1>15, StepKeeps

LEMMA RUnlockKeeps ==
    ASSUME SInv, NEW t \in Threads, RUnlock(t)
    PROVE  SInv'
<1> DEFINE c == call[t]
           d == call'[t]
           l == Len(c.todo)
<1>1. LInv' /\ LInv
  BY RUnlockInv DEF SInv
<1>2. /\ c \in Calls /\ c # None /\ WellFormed(c.op, c.todo) /\ Fitting(c)
      /\ Head(c.todo).do = "runlock" /\ "runlock" \in Kinds(c.op)
  BY <1>1, Turn DEF RUnlock
<1>3. c.op # "CreateRecord"
  BY <1>2 DEF Kinds
<1>4. data' = data /\ raced' = raced
  BY DEF RUnlock
<1>5. CASE l = 1
  <2>1. /\ call' = [call EXCEPT ![t] = None]
        /\ acked' = IF c.ok /\ c.op # "DeleteRecords" THEN acked \cup (c.ids \ raced) ELSE acked
    BY <1>5 DEF RUnlock, Answer
  <2>2. d = None /\ \A u \in Threads \ {t} : Alike(call[u], call'[u])
    BY <1>1, <2>1, Put
  <2>3. Forward(d) /\ Got(d) = {} /\ \A m, id : ~Leaves(d, m, id)
    BY <2>2 DEF Forward, Got, Leaves
  <2>4. \A id : Safe(id) => Safe(id)'
    BY <1>4, <2>2, <2>3, SafeStays
  <2>5. ASSUME NEW id, id \in acked', id \notin acked PROVE id \in Got(c) /\ id \in c.ids /\ id \notin raced
    <3>1. c.ok /\ c.op # "DeleteRecords" /\ id \in c.ids /\ id \notin raced
      BY <2>1, <2>5
    <3>4. Fitting(c)
      BY <1>1, <1>2 DEF LInv, Formed, Sane
    <3> HIDE DEF c
    <3>5. c.op # "ListRecords"
      BY <3>1, <3>4 DEF Fitting
    <3>2. ~Early(Head(c.todo))
      BY <1>2 DEF Early, Storing, FallingBack
    <3>3. Got(c) = c.ids
      BY <1>2, <1>3, <3>1, <3>2, <3>5 DEF Got
    <3> QED
      BY <3>1, <3>3
  <2>6. ASSUME NEW id \in Nat \ raced', id \in acked', id \notin acked PROVE Safe(id)'
    <3>1. Claimed(id)
      BY <2>5, <2>6 DEF Claimed
    <3>2. Safe(id)
      BY <1>4, <3>1 DEF SInv, Kept
    <3> QED
      BY <2>4, <3>2
  <2>7. ASSUME NEW u \in Threads, NEW id, Removing(call'[u]), id \in call'[u].ids, id \in acked'
        PROVE  id \in acked \/ id \in raced'
    <3>1. u # t
      BY <2>2, <2>7 DEF Removing
    <3>2. call[u] # None /\ call'[u].ids = call[u].ids
      BY <2>2, <2>7, <3>1 DEF Alike, Removing
    <3>3. call[u].ids \cap c.ids \subseteq raced
      BY <1>2, <3>1, <3>2 DEF SInv, Apart
    <3> QED
      BY <1>4, <2>5, <2>7, <3>2, <3>3
  <2> QED
    BY <1>1, <1>4, <2>2, <2>3, <2>4, <2>6, <2>7, StepKeeps
<1>6. CASE l # 1
  <2> DEFINE e == [c EXCEPT !.todo = Tail(@)]
  <2>1. c.todo \in Seq(Steps) /\ l \in Nat /\ l > 0 /\ Head(c.todo) = c.todo[1]
    BY <1>2, HeadWell
  <2>2. l > 1
    <3> HIDE DEF l
    <3> QED
      BY <1>6, <2>1
  <2>3. l = 2
    <3>1. ASSUME l > 2 PROVE FALSE
      <4>1. 1 \in 1 .. l - 2
        BY <2>1, <3>1
      <4> QED
        BY <1>2, <2>1, <4>1 DEF WellFormed
    <3> HIDE DEF l
    <3> QED
      BY <2>1, <2>2, <3>1
  <2>4. ~c.ok
    <3>1. Nested(c.todo)
      BY <1>2, <2>1, <2>3 DEF Nested
    <3> HIDE DEF c
    <3> QED
      BY <1>2, <3>1 DEF Fitting
  <2>5. WellFormed(c.op, Tail(c.todo)) /\ Follows(Head(c.todo), Head(Tail(c.todo)))
    BY <1>2, <2>2, TailWell
  <2>6. call' = [call EXCEPT ![t] = e] /\ acked' = acked
    BY <1>6 DEF RUnlock, Then
  <2>7. e \in Calls
    <3>1. Tail(c.todo) \in Seq(Steps)
      BY <2>5 DEF WellFormed
    <3> QED
      BY <1>2, <3>1, CallTypes
  <2>8. e.todo = Tail(c.todo) /\ e.op = c.op /\ e.ids = c.ids /\ e.ok = c.ok
    <3> HIDE DEF c
    <3> QED
      BY <1>2 DEF Calls
  <2> HIDE DEF e
  <2>9. d = e /\ \A u \in Threads \ {t} : Alike(call[u], call'[u])
    BY <1>1, <2>6, <2>7, Put
  <2>10. d # None
    BY <2>7, <2>9, CallTypes
  <2> HIDE DEF c, d
  <2>11. Head(d.todo).do # "remove"
    <3>1. Head(Tail(c.todo)).do = "runlock"
      BY <1>2, <2>5 DEF Follows
    <3> QED
      BY <2>8, <2>9, <3>1
  <2>12. Forward(d) /\ Got(d) = {}
    BY <2>4, <2>8, <2>9 DEF Forward, Got
  <2>13. Got(d) \subseteq Got(c)
    BY <2>12
  <2> QED
    BY <1>1, <1>2, <1>4, <2>6, <2>8, <2>9, <2>10, <2>11, <2>12, <2>13, QuietKeeps DEF c, d
<1> QED
  BY <1>5, <1>6

LEMMA BeginKeeps ==
    ASSUME SInv, LInv', NEW t \in Threads, NEW op, NEW ids, NEW todo, Begin(t, op, ids, todo),
           op \in {"CreateRecord", "CreateRecordWithId", "CreateRecordsWithId",
                   "DeleteRecords", "ListRecords"},
           ids \subseteq Ids, WellFormed(op, todo), Head(todo).do \in {"choose", "rlock"},
           op = "CreateRecordsWithId" =>
              /\ Head(todo).do = "rlock"
              /\ \A i \in 1 .. Len(todo) : todo[i].do \notin {"total", "work"}
    PROVE  SInv'
<1> DEFINE d == call'[t]
<1>1. LInv
  BY DEF SInv
<1>2. /\ call[t] = None /\ \A u \in Threads \ {t} : Alike(call[u], call'[u])
      /\ d \in Calls /\ d # None /\ d.op = op /\ d.ids = ids /\ d.todo = todo /\ d.start = 0
  BY <1>1, BeginPut, ZenonT(60)
<1>3. /\ data' = data /\ acked' = IF op = "DeleteRecords" THEN acked \ ids ELSE acked
      /\ raced' = raced \cup (ids \cap InProgress(t))
                        \cup (IF op = "CreateRecordsWithId" THEN ids \cap Stored ELSE {})
  BY DEF Begin
<1>4. IsFiniteSet(ids) /\ ids \subseteq Nat
  BY <1>2, CallIds, IdsFinite
<1>5. \A z \in ids : Before(ids, z) \in Nat
  BY <1>4, BeforeBelow
<1> HIDE DEF d
<1>6. Forward(d)
  BY <1>2 DEF Forward
<1>7. Got(d) = {}
  <2>1. CASE op = "CreateRecordsWithId"
    <3>1. Early(Head(d.todo))
      BY <1>2, <2>1 DEF Early
    <3>2. Got(d) \subseteq {z \in d.ids : Before(d.ids, z) < d.start}
      BY <1>2, <2>1, <3>1 DEF Got
    <3> QED
      BY <1>2, <1>5, <3>2
  <2>2. CASE op # "CreateRecordsWithId"
    BY <1>2, <2>2 DEF Got, Answered
  <2> QED
    BY <2>1, <2>2
<1>8. \A m, id : ~Leaves(call'[t], m, id)
  BY <1>2 DEF Leaves, d
<1>9. \A id : Safe(id) => Safe(id)'
  BY <1>2, <1>3, <1>8, SafeStays
<1>10. raced \subseteq raced' /\ acked' \subseteq acked
  BY <1>3
<1>11. Kept'
  BY <1>2, <1>7, <1>9, <1>10, KeptStays DEF SInv, d
<1>12. Straight'
  BY <1>2, <1>6, StraightStays DEF SInv, d
<1>13. \A u \in Threads \ {t} : call'[u] # None => /\ call[u] # None /\ call'[u].ids = call[u].ids
                                                   /\ (Removing(call'[u]) => Removing(call[u]))
  BY <1>2, AlikeGot DEF Alike
<1>14. \A u \in Threads \ {t} : call'[u] # None => ids \cap call'[u].ids \subseteq raced'
  <2> SUFFICES ASSUME NEW u \in Threads \ {t}, call'[u] # None, NEW id \in ids \cap call'[u].ids
               PROVE  id \in raced'
    OBVIOUS
  <2>1. id \in InProgress(t)
    BY <1>13 DEF InProgress, Others, Busy
  <2> QED
    BY <1>3, <2>1
<1>15. ASSUME NEW u \in Threads, NEW v \in Threads, u # v, call'[u] # None, call'[v] # None
       PROVE  call'[u].ids \cap call'[v].ids \subseteq raced'
  <2>1. CASE u = t
    BY <1>2, <1>14, <1>15, <2>1 DEF d
  <2>2. CASE v = t
    BY <1>2, <1>14, <1>15, <2>2 DEF d
  <2>3. CASE u # t /\ v # t
    <3>1. /\ call[u] # None /\ call'[u].ids = call[u].ids
          /\ call[v] # None /\ call'[v].ids = call[v].ids
      BY <1>13, <1>15, <2>3
    <3>2. call[u].ids \cap call[v].ids \subseteq raced
      BY <1>15, <3>1 DEF SInv, Apart
    <3> QED
      BY <1>10, <3>1, <3>2
  <2> QED
    BY <2>1, <2>2, <2>3
<1>16. ASSUME NEW u \in Threads, Removing(call'[u]) PROVE call'[u].ids \cap acked' \subseteq raced'
  <2>1. CASE u # t
    <3>1. Removing(call[u]) /\ call'[u].ids = call[u].ids
      BY <1>13, <1>16, <2>1 DEF Removing
    <3>2. call[u].ids \cap acked \subseteq raced
      BY <3>1 DEF SInv, Apart
    <3> QED
      BY <1>10, <3>1, <3>2
  <2>2. CASE u = t /\ op = "DeleteRecords"
    BY <1>2, <1>3, <2>2 DEF d
  <2>3. CASE u = t /\ op # "DeleteRecords"
    <3>1. op = "CreateRecordsWithId" /\ call'[u].ids = ids
      BY <1>2, <1>16, <2>3 DEF Removing, d
    <3>2. ASSUME NEW id \in ids, id \in acked', id \notin raced PROVE id \in Stored
      <4>1. Claimed(id) /\ id \in Nat
        BY <1>4, <1>10, <3>2 DEF Claimed
      <4>2. Safe(id)
        BY <3>2, <4>1 DEF SInv, Kept
      <4> QED
        BY <4>2 DEF Safe, Stored
    <3> QED
      BY <1>3, <3>1, <3>2
  <2> QED
    BY <2>1, <2>2, <2>3
<1>17. Apart'
  BY <1>15, <1>16 DEF Apart
<1> QED
  BY <1>11, <1>12, <1>17 DEF SInv

(* CreateRecordsWithId deletes nothing, unless its fallback fails.         *)
LEMMA CreateManyPlain ==
    \A i \in 1 .. Len(CreateManySteps) : CreateManySteps[i].do \notin {"total", "work"}
<1> DEFINE r == Step("rlock")
           b == Step("settle")
           c == Step("balance")
           d == Step("runlock")
           q == <<b, c, d>>
           p == <<r>>
<1>1. r \in Steps /\ b \in Steps /\ c \in Steps /\ d \in Steps
  BY StepsKnown
<1>2. r.do = "rlock" /\ b.do = "settle" /\ c.do = "balance" /\ d.do = "runlock"
  BY DEF Step, Act
<1>3. CreateManySteps = (p \o LoopPart) \o q
  BY DEF CreateManySteps, LoopPart
<1> HIDE DEF r, b, c, d
<1>4. p \in Seq(Steps) /\ Len(p) = 1 /\ p[1] = r
  BY <1>1
<1>5. q \in Seq(Steps) /\ Len(q) = 3 /\ q[1] = b /\ q[2] = c /\ q[3] = d
  BY <1>1
<1> HIDE DEF p, q
<1>6. \A i \in 1 .. Len(p) : p[i].do \notin {"total", "work"}
  BY <1>2, <1>4
<1>7. \A i \in 1 .. Len(q) : q[i].do \notin {"total", "work"}
  BY <1>2, <1>5
<1>8. LoopPart \in Seq(Steps) /\ \A i \in 1 .. Len(LoopPart) : LoopPart[i].do \notin {"total", "work"}
  <2>1. LoopPart \in Seq(Steps) /\ Len(LoopPart) = 2 * N
    BY LoopPartIs
  <2> SUFFICES ASSUME NEW i \in 1 .. 2 * N PROVE LoopPart[i].do \notin {"total", "work"}
    BY <2>1
  <2>2. PICK n \in Nodes : i = 2 * n - 1 \/ i = 2 * n
    BY LoopPartIs
  <2>3. LoopPart[i] = At("lock", n) \/ LoopPart[i] = At("store", n)
    BY <2>2, LoopPartIs
  <2> QED
    BY <2>3, StepDoes
<1> DEFINE pl == p \o LoopPart
<1>9. pl \in Seq(Steps)
  BY <1>4, <1>8
<1>10. \A i \in 1 .. Len(pl) : pl[i].do \notin {"total", "work"}
  BY <1>4, <1>6, <1>8, JoinPlain
<1> HIDE DEF pl
<1>11. \A i \in 1 .. Len(pl \o q) : (pl \o q)[i].do \notin {"total", "work"}
  BY <1>5, <1>7, <1>9, <1>10, JoinPlain
<1> QED
  BY <1>3, <1>11 DEF pl

LEMMA CallsKeep ==
    ASSUME SInv, NEW t \in Threads,
           \/ CreateRecord(t) \/ ListRecords(t)
           \/ \E id \in Ids : CreateRecordWithId(t, id)
           \/ \E ids \in SUBSET Ids : CreateRecordsWithId(t, ids) \/ DeleteRecords(t, ids)
    PROVE  SInv'
<1>1. LInv'
  BY CallsInv DEF SInv
<1>2. CASE CreateRecord(t)
  <2> DEFINE op == "CreateRecord"
             todo == CreateRecordSteps
             ids == {}
  <2>1. /\ Begin(t, op, ids, todo) /\ WellFormed(op, todo) /\ Head(todo).do = "choose"
        /\ op = "CreateRecord" /\ ids \subseteq Ids
    BY <1>2, CreateRecordWell DEF CreateRecord, Step, Act
  <2> HIDE DEF op, todo, ids
  <2> QED
    BY <1>1, <2>1, BeginKeeps
<1>3. ASSUME NEW id \in Ids, CreateRecordWithId(t, id) PROVE SInv'
  <2> DEFINE op == "CreateRecordWithId"
             todo == CreateWithIdSteps
             ids == {id}
  <2>1. Step("rlock").do = "rlock"
    BY DEF Step, Act
  <2>2. Head(todo).do = "rlock" /\ WellFormed(op, todo)
    <3>1. Head(CreateWithIdSteps) = Step("rlock")
      BY CreateWithIdWell
    <3> QED
      BY <2>1, <3>1, CreateWithIdWell, Zenon
  <2>3. Begin(t, op, ids, todo) /\ op = "CreateRecordWithId" /\ ids \subseteq Ids
    BY <1>3 DEF CreateRecordWithId
  <2> HIDE DEF op, todo, ids
  <2> QED
    BY <1>1, <2>2, <2>3, BeginKeeps
<1>4. ASSUME NEW ids \in SUBSET Ids, CreateRecordsWithId(t, ids) PROVE SInv'
  <2> DEFINE op == "CreateRecordsWithId"
             todo == CreateManySteps
  <2>1. /\ Begin(t, op, ids, todo) /\ WellFormed(op, todo) /\ Head(todo).do = "rlock"
        /\ op = "CreateRecordsWithId"
    BY <1>4, CreateManyWell DEF CreateRecordsWithId, Step, Act
  <2>2. \A i \in 1 .. Len(todo) : todo[i].do \notin {"total", "work"}
    BY CreateManyPlain
  <2> HIDE DEF op, todo
  <2> QED
    BY <1>1, <2>1, <2>2, BeginKeeps
<1>5. ASSUME NEW ids \in SUBSET Ids, DeleteRecords(t, ids) PROVE SInv'
  <2> DEFINE op == "DeleteRecords"
             todo == DeleteManySteps
  <2>1. /\ Begin(t, op, ids, todo) /\ WellFormed(op, todo) /\ Head(todo).do = "rlock"
        /\ op = "DeleteRecords"
    BY <1>5, DeleteManyWell DEF DeleteRecords, Step, Act
  <2> HIDE DEF op, todo
  <2> QED
    BY <1>1, <2>1, BeginKeeps
<1>6. CASE ListRecords(t)
  <2> DEFINE op == "ListRecords"
             todo == ListSteps
             ids == {}
  <2>1. /\ Begin(t, op, ids, todo) /\ WellFormed(op, todo) /\ Head(todo).do = "rlock"
        /\ op = "ListRecords" /\ ids \subseteq Ids
    BY <1>6, ListStepsWell DEF ListRecords, Step, Act
  <2> HIDE DEF op, todo, ids
  <2> QED
    BY <1>1, <2>1, BeginKeeps
<1> QED
  BY <1>2, <1>3, <1>4, <1>5, <1>6

LEMMA InitKept ==
    ASSUME Init
    PROVE  SInv
<1>1. LInv
  BY InitInv
<1>2. \A t \in Threads : call[t] = None
  BY DEF Init
<1>3. Apart /\ Straight
  BY <1>2 DEF Apart, Straight, Removing, Forward
<1>4. Kept
  BY <1>2 DEF Kept, Claimed, Safe, Leaving, Leaves, Got, Init, Stored
<1> QED
  BY <1>1, <1>3, <1>4 DEF SInv

LEMMA NextKept ==
    ASSUME SInv, [Next]_vars
    PROVE  SInv'
<1>1. LInv'
  BY NextInv DEF SInv
<1>2. CASE UNCHANGED vars
  BY <1>2, WriterKeeps
<1>3. CASE Next
  <2>1. ASSUME NEW t \in Threads, Proceed(t) PROVE SInv'
    <3>1. CASE RLock(t) \/ LockNode(t) \/ LockSecond(t) \/ LockId(t)
      BY <3>1, LocksKeep
    <3>2. CASE Choose(t) \/ Pick(t) \/ CountBefore(t) \/ Compare(t)
      BY <1>1, <3>2, ReadsKeep
    <3> QED
      BY <2>1, <3>1, <3>2, RUnlockKeeps, AssignKeeps, ExistsKeeps, CreateKeeps, StoreKeeps,
         SettleKeeps, FallbackKeeps, WorkerDeleteKeeps, WorkerRefreshKeeps, BalanceKeeps,
         CopyKeeps, DeleteMovedKeeps, RaiseKeeps, ListKeeps DEF Proceed
  <2>2. ASSUME NEW t \in Threads,
               \/ CreateRecord(t) \/ ListRecords(t)
               \/ \E id \in Ids : CreateRecordWithId(t, id)
               \/ \E ids \in SUBSET Ids : CreateRecordsWithId(t, ids) \/ DeleteRecords(t, ids)
        PROVE  SInv'
    BY <2>2, CallsKeep
  <2> QED
    BY <1>3, <2>1, <2>2, WriterKeeps DEF Next
<1> QED
  BY <1>2, <1>3

(* What CreateRecord, CreateRecordWithId or CreateRecordsWithId told a     *)
(* caller is stored is on some node until DeleteRecords is called for it:  *)
(* no failed RPC, rollback of a batch or interleaving of the transfers of  *)
(* two balances loses it (mux_records.go and balancer.go).  Identifiers    *)
(* that two calls at once are about, and stored ones that a batch names    *)
(* again, are excepted.                                                    *)
THEOREM AckedStays == Spec => []AckedIsStored
<1>1. Init => SInv
  BY InitKept
<1>2. SInv /\ [Next]_vars => SInv'
  BY NextKept
<1>3. SInv => AckedIsStored
  <2> SUFFICES ASSUME SInv, NEW id \in acked \ raced PROVE id \in Stored
    BY DEF AckedIsStored
  <2>1. id \in Nat /\ Claimed(id)
    BY DEF SInv, LInv, TypeOK, Claimed
  <2>2. Safe(id)
    BY <2>1 DEF SInv, Kept
  <2> QED
    BY <2>2 DEF Safe, Stored
<1> QED
  BY <1>1, <1>2, <1>3, PTL DEF Spec

=============================================================================
