--------------------------- MODULE ProcessProofs ---------------------------
(***************************************************************************)
(* Proofs about Process.                                                   *)
(***************************************************************************)
EXTENDS Process, FiniteSetTheorems, TLAPS

-----------------------------------------------------------------------------
(* The inductive invariant. *)

Connecting == {"new", "connect", "ready", "set", "return"}

\* The child's main thread connects while it starts, and no thread has a
\* request before it runs or after its exit has begun.
ChildInv ==
  /\ child = "none" => pc[Main] = "idle" /\ ~connected
  /\ child = "starting" <=> pc[Main] \in Connecting
  /\ pc[Main] \notin Connecting => pc[Main] \in {"idle", "exit"}
  /\ pc[Main] = "exit" => stopping
  /\ child # "running" \/ pc[Main] = "exit" => \A t \in Threads : pc[t] = "idle"
  /\ child # "running" => db = [t \in Threads |-> Null]

\* process.conn refers to an object of its own as soon as anybody connects, and
\* all Ndb objects to the one that mod_ndb_child_init() left there.
ConnInv ==
  /\ \A a \in Actors : pc[a] \in Connecting \ {"new"} => connection # Null
  /\ \A a \in Actors : pc[a] = "connect" => conn_retries[a] < ConnectTries
  /\ child = "running" => connection # Null
  /\ connection # Null => object[connection] # "none"
  /\ \A t \in Threads : db[t] # Null => object[db[t]] # "none"
  /\ \A t, u \in Threads : db[t] # Null /\ db[u] # Null => db[t] = db[u]

\* A connection that mod_ndb_child_init() found ready is never made again.
FirstInv ==
  /\ pc[Main] = "set" => object[connection] = "ready"
  /\ child = "starting" /\ connected =>
       pc[Main] = "return" /\ object[connection] = "ready"
  /\ init_ok =>
       /\ child = "running" /\ connected /\ object[connection] = "ready"
       /\ \A t \in Threads : db[t] \in {connection, Null} /\ pc[t] \notin Connecting

\* The number of a thread is that of its instance.
InstInv ==
  \A t \in Threads : /\ inst[t] \in {t, NoOne}
                     /\ pc[t] \in UsingInstance => inst[t] = t

\* restart_lock is held where will_restart is read and written.
LockInv ==
  /\ \A t \in Threads : pc[t] \in {"test", "signal", "unlock"} => restart_lock = t
  /\ \A t \in Threads : pc[t] = "signal" => ~will_restart
  /\ signals = IF will_restart THEN 1 ELSE 0

PInv == TypeOK /\ ChildInv /\ ConnInv /\ FirstInv /\ InstInv /\ LockInv

-----------------------------------------------------------------------------
(* Arithmetic and names. *)

\* The remainder of a number of the form q * n + r.
LEMMA Remainder ==
  ASSUME NEW n \in Nat \ {0}, NEW q \in Nat, NEW r \in 0 .. n - 1
  PROVE  (q * n + r) % n = r
<1> DEFINE a == q * n + r
           d == a \div n
           m == a % n
<1>1. q * n \in Nat /\ a \in Nat
  BY SMT
<1>2. d \in Int /\ m \in 0 .. n - 1 /\ a = n * d + m
  BY <1>1, SMT
<1>3. d = q
  <2>1. n * (q - d) = m - r
    BY <1>1, <1>2, SMT
  <2>2. q - d \in Int /\ m - r < n /\ m - r > -n
    BY <1>2, SMT
  <2>3. CASE q - d >= 1
    <3>1. n * (q - d) >= n
      BY <2>2, <2>3, SMT
    <3> QED
      BY <2>1, <2>2, <3>1, SMT
  <2>4. CASE q - d <= -1
    <3>1. n * (q - d) <= -n
      BY <2>2, <2>4, SMT
    <3> QED
      BY <2>1, <2>2, <3>1, SMT
  <2> QED
    BY <1>2, <2>2, <2>3, <2>4, SMT
<1> QED
  BY <1>1, <1>2, <1>3, SMT

\* my_instance() gives thread t the instance that child_init made for it
\* (mod_ndb_ap20.cc:271).
LEMMA ThreadId == \A t \in Threads : thread_id(t) = t
<1> SUFFICES ASSUME NEW t \in Threads PROVE thread_id(t) = t
  OBVIOUS
<1>1. ThreadLimit \in Nat \ {0} /\ t \in 0 .. ThreadLimit - 1 /\ ChildNum \in Nat
  BY ProcessAssumption DEF Threads
<1> QED
  BY <1>1, Remainder DEF thread_id

\* Threads and the main thread are actors, each of its own.
LEMMA ActorFacts == /\ Threads \subseteq Actors /\ Main \in Actors /\ Main \notin Threads
                    /\ NoOne \notin Threads /\ Null \notin Objects
BY ProcessAssumption DEF Actors, Threads, Main, NoOne

\* Two names are never all of them.
LEMMA AnotherObject == ASSUME NEW x, NEW y PROVE \E o \in Objects : o # x /\ o # y
<1>1. IsFiniteSet(Objects) /\ Cardinality(Objects) >= 3 /\ Cardinality(Objects) \in Nat
  BY ProcessAssumption, FS_CardinalityType
<1> DEFINE S == Objects \ {x}
           T == S \ {y}
<1>2. IsFiniteSet(S) /\ Cardinality(S) >= 2 /\ Cardinality(S) \in Nat
  BY <1>1, FS_RemoveElement
<1>3. IsFiniteSet(T) /\ Cardinality(T) >= 1
  BY <1>2, FS_RemoveElement
<1>4. T # {}
  BY <1>3, FS_EmptySet
<1> QED
  BY <1>4

\* connect_to_cluster() has a name for the object it makes.
LEMMA Fresh ==
  ASSUME TypeOK, ConnInv
  PROVE  FreshName \in Objects /\ FreshName \notin OfNdbs \cup {connection}
<1>1. \E o \in Objects : o \notin OfNdbs \cup {connection}
  <2>1. CASE \A t \in Threads : db[t] = Null
    <3>1. PICK o \in Objects : o # Null /\ o # connection
      BY AnotherObject
    <3> QED
      BY <2>1, <3>1 DEF OfNdbs
  <2>2. CASE \E t \in Threads : db[t] # Null
    <3>1. PICK t \in Threads : db[t] # Null
      BY <2>2
    <3>2. PICK o \in Objects : o # db[t] /\ o # connection
      BY AnotherObject
    <3>3. \A u \in Threads : db[u] \in {db[t], Null}
      BY <3>1 DEF ConnInv
    <3> QED
      BY <3>2, <3>3, ActorFacts DEF OfNdbs
  <2> QED
    BY <2>1, <2>2
<1> QED
  BY <1>1 DEF FreshName

\* The step of an actor moves that actor.
LEMMA GotoAt ==
  ASSUME TypeOK, NEW a \in Actors, NEW l, Goto(a, l)
  PROVE  pc'[a] = l /\ \A b \in Actors : b # a => pc'[b] = pc[b]
BY DEF TypeOK, Goto

\* ... to a label.
LEMMA GotoType ==
  ASSUME TypeOK, NEW a \in Actors, NEW l \in Labels, Goto(a, l)
  PROVE  pc' \in [Actors -> Labels]
BY DEF TypeOK, Goto

-----------------------------------------------------------------------------
(* Type correctness. *)

\* The memory of a new child.
LEMMA ChildGoneType == ASSUME TypeOK, ChildGone PROVE TypeOK'
<1>1. pc' \in [Actors -> Labels] /\ conn_retries' \in [Actors -> 0 .. ConnectTries]
  BY ProcessAssumption DEF ChildGone, Labels
<1> QED
  BY <1>1 DEF ChildGone, TypeOK

\* The steps of connect_to_cluster() (mod_ndb_ap20.cc:166-227).
LEMMA ConnectType ==
  ASSUME TypeOK, ConnInv, NEW a \in Actors, connect_to_cluster(a)
  PROVE  TypeOK'
<1> USE DEF Others, conn, restart, Labels
<1>0. ConnectTries \in Nat \ {0}
  BY ProcessAssumption
<1>1. CASE newConnection(a)
  <2>1. connection' \in Objects
    BY <1>1, Fresh DEF newConnection
  <2>2. object' \in [Objects -> {"none", "new", "connected", "ready"}]
    BY <1>1 DEF newConnection, TypeOK
  <2>3. conn_retries' \in [Actors -> 0 .. ConnectTries]
    BY <1>0, <1>1 DEF newConnection, TypeOK
  <2>4. pc' \in [Actors -> Labels]
    BY <1>1, GotoType DEF newConnection
  <2> QED
    BY <1>1, <2>1, <2>2, <2>3, <2>4 DEF newConnection, TypeOK
<1>2. CASE connect(a)
  <2>1. conn_retries' \in [Actors -> 0 .. ConnectTries]
    BY <1>0, <1>2 DEF connect, TypeOK, ConnInv
  <2>2. object' \in [Objects -> {"none", "new", "connected", "ready"}]
    BY <1>2 DEF connect, TypeOK
  <2>3. pc' \in [Actors -> Labels]
    BY <1>2, GotoType DEF connect
  <2> QED
    BY <1>2, <2>1, <2>2, <2>3 DEF connect, TypeOK
<1>3. CASE waitUntilReady(a)
  <2>1. object' \in [Objects -> {"none", "new", "connected", "ready"}]
    BY <1>3 DEF waitUntilReady, TypeOK
  <2>2. pc' \in [Actors -> Labels]
    BY <1>3, GotoType DEF waitUntilReady
  <2> QED
    BY <1>3, <2>1, <2>2 DEF waitUntilReady, TypeOK
<1>4. CASE setConnected(a)
  <2>1. pc' \in [Actors -> Labels]
    BY <1>4, GotoType DEF setConnected
  <2> QED
    BY <1>4, <2>1 DEF setConnected, TypeOK
<1> QED
  BY <1>1, <1>2, <1>3, <1>4 DEF connect_to_cluster

\* The steps of a thread with a request.
LEMMA ThreadType ==
  ASSUME TypeOK, ConnInv, InstInv, LockInv, NEW t \in Threads, Accept(t) \/ ThreadStep(t)
  PROVE  TypeOK'
<1> USE DEF Others, Thread, conn, restart, Labels
<1>0. t \in Actors /\ thread_id(t) = t /\ ConnectTries \in Nat
  BY ActorFacts, ThreadId, ProcessAssumption
<1>1. CASE Accept(t)
  BY <1>0, <1>1, GotoType DEF Accept, TypeOK
<1>2. CASE my_instance(t)
  BY <1>0, <1>2, GotoType DEF my_instance, haveInstance, TypeOK
<1>3. CASE connect_to_cluster(t)
  BY <1>0, <1>3, ConnectType
<1>4. CASE my_instanceConnected(t)
  <2>1. pc' \in [Actors -> Labels]
    BY <1>0, <1>4, GotoType DEF my_instanceConnected, haveInstance
  <2>2. conn_retries' \in [Actors -> 0 .. ConnectTries]
    BY <1>0, <1>4 DEF my_instanceConnected, TypeOK
  <2>3. inst' \in [Threads -> Threads \cup {NoOne}]
    BY <1>0, <1>4 DEF my_instanceConnected, haveInstance, TypeOK
  <2> QED
    BY <1>4, <2>1, <2>2, <2>3 DEF my_instanceConnected, TypeOK
<1>5. CASE useInstance(t)
  <2>1. CASE ChildGone
    BY <2>1, ChildGoneType
  <2>2. CASE Done(t) /\ UNCHANGED <<Thread, restart, conn_retries>>
    <3>1. pc' \in [Actors -> Labels]
      BY <1>0, <2>2, GotoType DEF Done
    <3> QED
      BY <1>0, <2>2, <3>1 DEF Done, TypeOK
  <2>3. CASE Goto(t, "lock") /\ UNCHANGED <<inst, Thread, restart, conn_retries>>
    <3>1. pc' \in [Actors -> Labels]
      BY <1>0, <2>3, GotoType
    <3> QED
      BY <1>0, <2>3, <3>1 DEF TypeOK
  <2> QED
    BY <1>5, <2>1, <2>2, <2>3 DEF useInstance
<1>6. CASE lockRestart(t)
  BY <1>0, <1>6, GotoType DEF lockRestart, TypeOK
<1>7. CASE testRestart(t)
  BY <1>0, <1>7, GotoType DEF testRestart, TypeOK
<1>8. CASE signalParent(t)
  BY <1>0, <1>8, GotoType DEF signalParent, TypeOK
<1>9. CASE unlockRestart(t)
  BY <1>0, <1>9, GotoType DEF unlockRestart, releaseLock, Done, TypeOK
<1> QED
  BY <1>1, <1>2, <1>3, <1>4, <1>5, <1>6, <1>7, <1>8, <1>9 DEF ThreadStep

\* Every step keeps the types.
LEMMA TypeNext == PInv /\ [Next]_vars => TypeOK'
<1> SUFFICES ASSUME PInv, [Next]_vars PROVE TypeOK'
  OBVIOUS
<1>0. TypeOK /\ ConnInv /\ InstInv /\ LockInv
  BY DEF PInv
<1> USE DEF Others, conn, restart, Labels, InChild
<1>1. CASE UNCHANGED vars
  BY <1>0, <1>1 DEF vars, TypeOK
<1>2. CASE \E t \in Threads : Accept(t) \/ ThreadStep(t)
  BY <1>0, <1>2, ThreadType
<1>3. CASE MainStep
  <2>1. CASE connect_to_cluster(Main)
    BY <1>0, <2>1, ConnectType, ActorFacts
  <2>2. CASE init_instances
    <3>1. pc' \in [Actors -> Labels]
      BY <1>0, <2>2, GotoType, ActorFacts DEF init_instances
    <3>2. db' \in [Threads -> Objects \cup {Null}]
      BY <1>0, <2>2 DEF init_instances, TypeOK
    <3>3. conn_retries' \in [Actors -> 0 .. ConnectTries]
      <4>1. 0 \in 0 .. ConnectTries
        BY ProcessAssumption, SMT
      <4>2. conn_retries' = [conn_retries EXCEPT ![Main] = 0]
        BY <2>2 DEF init_instances
      <4> QED
        BY <1>0, <4>1, <4>2 DEF TypeOK
    <3> QED
      BY <1>0, <2>2, <3>1, <3>2, <3>3 DEF init_instances, TypeOK
  <2>3. CASE childExitBegins
    BY <1>0, <2>3, GotoType, ActorFacts DEF childExitBegins, deletedFirst, TypeOK
  <2>4. CASE childExitEnds
    BY <1>0, <2>4, ChildGoneType DEF childExitEnds
  <2> QED
    BY <1>3, <2>1, <2>2, <2>3, <2>4 DEF MainStep
<1>4. CASE ParentStep
  <2>1. CASE Fork
    BY <1>0, <2>1, GotoType, ActorFacts DEF Fork, TypeOK
  <2>2. CASE mod_ndb_post_config \/ Graceful
    BY <1>0, <2>2 DEF mod_ndb_post_config, Graceful, TypeOK
  <2> QED
    BY <1>4, <2>1, <2>2 DEF ParentStep
<1>5. CASE ClusterReady
  BY <1>0, <1>5 DEF ClusterReady, TypeOK
<1> QED
  BY <1>1, <1>2, <1>3, <1>4, <1>5 DEF Next

-----------------------------------------------------------------------------
(* What the steps of a thread and of a connection may change. *)

\* A child that is gone leaves nothing behind.
LEMMA Gone ==
  ASSUME ChildGone
  PROVE  ChildInv' /\ ConnInv' /\ FirstInv' /\ InstInv' /\ LockInv'
<1>1. /\ child' = "none" /\ connected' = FALSE /\ connection' = Null
      /\ will_restart' = FALSE /\ signals' = 0 /\ init_ok' = FALSE
      /\ \A a \in Actors : pc'[a] = "idle"
      /\ db' = [t \in Threads |-> Null] /\ \A t \in Threads : db'[t] = Null
      /\ \A t \in Threads : inst'[t] = NoOne
  BY DEF ChildGone
<1>2. ChildInv'
  BY <1>1, ActorFacts DEF ChildInv, Connecting
<1>3. ConnInv' /\ FirstInv'
  BY <1>1, ActorFacts DEF ConnInv, FirstInv, Connecting
<1>4. InstInv' /\ LockInv'
  BY <1>1, ActorFacts DEF InstInv, LockInv, UsingInstance
<1> QED
  BY <1>2, <1>3, <1>4

\* A step of connect_to_cluster() is inside it before and after.
LEMMA ConnectMoves ==
  ASSUME TypeOK, NEW a \in Actors, connect_to_cluster(a)
  PROVE  /\ pc[a] \in Connecting \ {"return"} /\ pc'[a] \in Connecting \ {"new"}
         /\ \A b \in Actors \ {a} : pc'[b] = pc[b] /\ conn_retries'[b] = conn_retries[b]
         /\ UNCHANGED Others
<1> USE DEF Connecting
<1>1. CASE newConnection(a)
  BY <1>1, GotoAt DEF newConnection, TypeOK
<1>2. CASE connect(a)
  BY <1>2, GotoAt DEF connect, TypeOK
<1>3. CASE waitUntilReady(a)
  BY <1>3, GotoAt DEF waitUntilReady, TypeOK
<1>4. CASE setConnected(a)
  BY <1>4, GotoAt DEF setConnected, TypeOK
<1> QED
  BY <1>1, <1>2, <1>3, <1>4 DEF connect_to_cluster

\* The step of a thread is the child's death, or one of connect_to_cluster(), or
\* it leaves the connection and the other actors alone.
QuietStep(t) ==
  /\ UNCHANGED <<child, stopping, connected, connection, object, db, init_ok>>
  /\ \A b \in Actors \ {t} : pc'[b] = pc[b] /\ conn_retries'[b] = conn_retries[b]
  /\ pc'[t] \notin Connecting \ {"new"}
  /\ connected => pc'[t] # "new"
  /\ pc[t] = "idle" => child = "running" /\ ~stopping

LEMMA ThreadMoves ==
  ASSUME TypeOK, NEW t \in Threads, Accept(t) \/ ThreadStep(t)
  PROVE  ChildGone \/ connect_to_cluster(t) \/ QuietStep(t)
<1> USE DEF QuietStep, Connecting, Thread, conn, Others
<1>0. t \in Actors
  BY ActorFacts
<1>1. CASE Accept(t)
  BY <1>0, <1>1, GotoAt DEF Accept
<1>2. CASE my_instance(t)
  BY <1>0, <1>2, GotoAt DEF my_instance, haveInstance, mustConnect
<1>3. CASE my_instanceConnected(t)
  BY <1>0, <1>3, GotoAt DEF my_instanceConnected, haveInstance, TypeOK
<1>4. CASE Done(t) /\ pc[t] = "use" /\ UNCHANGED <<Thread, restart, conn_retries>>
  BY <1>0, <1>4, GotoAt DEF Done
<1>5. CASE Goto(t, "lock") /\ pc[t] = "use" /\ UNCHANGED <<inst, Thread, restart, conn_retries>>
  BY <1>0, <1>5, GotoAt
<1>6. CASE useInstance(t)
  BY <1>4, <1>5, <1>6 DEF useInstance
<1>7. CASE lockRestart(t)
  BY <1>0, <1>7, GotoAt DEF lockRestart
<1>8. CASE testRestart(t)
  BY <1>0, <1>8, GotoAt DEF testRestart
<1>9. CASE signalParent(t)
  BY <1>0, <1>9, GotoAt DEF signalParent
<1>10. CASE unlockRestart(t)
  BY <1>0, <1>10, GotoAt DEF unlockRestart, Done
<1> QED
  BY <1>1, <1>2, <1>3, <1>6, <1>7, <1>8, <1>9, <1>10 DEF ThreadStep


-----------------------------------------------------------------------------
(* The invariant is kept, conjunct by conjunct. *)

LEMMA ChildNext == PInv /\ [Next]_vars => ChildInv'
<1> SUFFICES ASSUME PInv, [Next]_vars PROVE ChildInv'
  OBVIOUS
<1>0. /\ TypeOK /\ ChildInv /\ Main \in Actors
      /\ \A t \in Threads : t \in Actors /\ t # Main
  BY ActorFacts DEF PInv
<1> USE DEF ChildInv, Connecting, conn, Others, InChild
<1>1. CASE UNCHANGED vars
  BY <1>0, <1>1 DEF vars
<1>2. ASSUME NEW t \in Threads, Accept(t) \/ ThreadStep(t) PROVE ChildInv'
  <2>1. CASE ChildGone
    BY <2>1, Gone
  <2>2. CASE connect_to_cluster(t)
    BY <1>0, <2>2, ConnectMoves
  <2>3. CASE QuietStep(t)
    BY <1>0, <2>3 DEF QuietStep
  <2> QED
    BY <1>0, <1>2, <2>1, <2>2, <2>3, ThreadMoves
<1>3. CASE MainStep
  <2>1. CASE connect_to_cluster(Main)
    <3>1. \A t \in Threads : pc'[t] = pc[t]
      BY <1>0, <2>1, ConnectMoves
    <3>2. child = "starting" /\ child' = child /\ stopping' = stopping /\ db' = db
      BY <1>0, <2>1, ConnectMoves
    <3>3. pc'[Main] \in Connecting
      BY <1>0, <2>1, ConnectMoves
    <3> QED
      BY <1>0, <3>1, <3>2, <3>3
  <2>2. CASE init_instances
    BY <1>0, <2>2, GotoAt DEF init_instances
  <2>3. CASE childExitBegins
    BY <1>0, <2>3, GotoAt DEF childExitBegins
  <2>4. CASE childExitEnds
    BY <2>4, Gone DEF childExitEnds
  <2> QED
    BY <1>3, <2>1, <2>2, <2>3, <2>4 DEF MainStep
<1>4. CASE ParentStep
  <2>1. CASE Fork
    BY <1>0, <2>1, GotoAt DEF Fork
  <2>2. CASE mod_ndb_post_config
    BY <1>0, <2>2 DEF mod_ndb_post_config
  <2>3. CASE Graceful
    BY <1>0, <2>3 DEF Graceful
  <2> QED
    BY <1>4, <2>1, <2>2, <2>3 DEF ParentStep
<1>5. CASE ClusterReady
  BY <1>0, <1>5 DEF ClusterReady
<1> QED
  BY <1>1, <1>2, <1>3, <1>4, <1>5 DEF Next

LEMMA InstNext == PInv /\ [Next]_vars => InstInv'
<1> SUFFICES ASSUME PInv, [Next]_vars PROVE InstInv'
  OBVIOUS
<1>0. TypeOK /\ InstInv /\ \A t \in Threads : t \in Actors /\ t # Main
  BY ActorFacts DEF PInv
<1> USE DEF InstInv, UsingInstance, conn, restart, Others, Thread, InChild
<1>1. CASE UNCHANGED vars
  BY <1>0, <1>1 DEF vars
<1>2. ASSUME NEW t \in Threads, Accept(t) \/ ThreadStep(t) PROVE InstInv'
  <2>0. t \in Actors /\ thread_id(t) = t
    BY ActorFacts, ThreadId
  <2>1. CASE ChildGone
    BY <2>1, Gone
  <2>2. CASE connect_to_cluster(t)
    BY <1>0, <2>0, <2>2, ConnectMoves DEF Connecting
  <2>3. CASE Accept(t)
    BY <1>0, <2>0, <2>3, GotoAt DEF Accept
  <2>4. ASSUME haveInstance(t) PROVE InstInv'
    BY <1>0, <2>0, <2>4, GotoAt DEF haveInstance, TypeOK
  <2>5. ASSUME Done(t) PROVE InstInv'
    BY <1>0, <2>0, <2>5, GotoAt DEF Done, TypeOK
  <2>6. ASSUME NEW l, Goto(t, l), l \in UsingInstance => pc[t] \in UsingInstance,
               inst' = inst
        PROVE  InstInv'
    BY <1>0, <2>0, <2>6, GotoAt
  <2>7. CASE my_instance(t)
    BY <2>4, <2>6, <2>7 DEF my_instance
  <2>8. CASE my_instanceConnected(t)
    BY <2>4, <2>6, <2>8 DEF my_instanceConnected
  <2>9. CASE useInstance(t)
    BY <2>1, <2>5, <2>6, <2>9 DEF useInstance
  <2>10. CASE lockRestart(t)
    BY <2>6, <2>10 DEF lockRestart
  <2>11. CASE testRestart(t)
    BY <2>6, <2>11 DEF testRestart
  <2>12. CASE signalParent(t)
    BY <2>6, <2>12 DEF signalParent
  <2>13. CASE unlockRestart(t)
    BY <2>5, <2>13 DEF unlockRestart
  <2> QED
    BY <1>2, <2>2, <2>3, <2>7, <2>8, <2>9, <2>10, <2>11, <2>12, <2>13 DEF ThreadStep
<1>3. ASSUME NEW l, Goto(Main, l), inst' = inst PROVE InstInv'
  BY <1>0, <1>3, GotoAt, ActorFacts
<1>4. CASE MainStep
  <2>1. CASE connect_to_cluster(Main)
    BY <1>0, <2>1, ConnectMoves, ActorFacts
  <2>2. CASE init_instances
    BY <1>3, <2>2 DEF init_instances
  <2>3. CASE childExitBegins
    BY <1>3, <2>3 DEF childExitBegins
  <2>4. CASE childExitEnds
    BY <2>4, Gone DEF childExitEnds
  <2> QED
    BY <1>4, <2>1, <2>2, <2>3, <2>4 DEF MainStep
<1>5. CASE ParentStep
  BY <1>0, <1>3, <1>5 DEF ParentStep, Fork, mod_ndb_post_config, Graceful
<1>6. CASE ClusterReady
  BY <1>0, <1>6 DEF ClusterReady
<1> QED
  BY <1>1, <1>2, <1>4, <1>5, <1>6 DEF Next


\* A step of connect_to_cluster() keeps what ConnInv says.
LEMMA ConnectConn ==
  ASSUME TypeOK, ConnInv, NEW a \in Actors, connect_to_cluster(a)
  PROVE  ConnInv'
<1> USE DEF Others, conn, Connecting
<1>0. /\ a \in Actors /\ \A t \in Threads : t \in Actors
      /\ ConnectTries \in Nat \ {0} /\ Null \notin Objects
  BY ActorFacts, ProcessAssumption
<1>1. CASE newConnection(a)
  <2>1. FreshName \in Objects /\ FreshName \notin OfNdbs
    BY Fresh
  <2>2. connection' # Null /\ object'[connection'] = "new"
    BY <1>0, <1>1, <2>1 DEF newConnection
  <2>3. \A t \in Threads : db'[t] # Null => object'[db'[t]] # "none"
    BY <1>1, <2>1 DEF newConnection, OfNdbs, ConnInv, TypeOK
  <2>4. conn_retries'[a] = 0 /\ \A b \in Actors \ {a} : conn_retries'[b] = conn_retries[b]
    BY <1>1 DEF newConnection, TypeOK
  <2>5. \A b \in Actors \ {a} : pc'[b] = pc[b]
    BY <1>1, ConnectMoves
  <2> QED
    BY <1>0, <1>1, <2>2, <2>3, <2>4, <2>5 DEF newConnection, ConnInv
<1>2. CASE connect(a)
  <2>0. connection \in Objects
    BY <1>2 DEF connect, ConnInv, TypeOK
  <2>1. \A o \in Objects : object[o] # "none" => object'[o] # "none"
    BY <1>2 DEF connect, TypeOK
  <2>2. conn_retries'[a] = conn_retries[a] + 1
        /\ \A b \in Actors \ {a} : conn_retries'[b] = conn_retries[b]
    BY <1>2 DEF connect, TypeOK
  <2>3. \A b \in Actors \ {a} : pc'[b] = pc[b]
    BY <1>2, ConnectMoves
  <2>4. pc'[a] = "connect" => conn_retries[a] + 1 # ConnectTries
    BY <1>2, GotoAt DEF connect, retryAgain
  <2>5. conn_retries[a] \in Nat /\ conn_retries[a] < ConnectTries
    BY <1>2 DEF connect, ConnInv, TypeOK
  <2>6. pc'[a] = "connect" => conn_retries'[a] < ConnectTries
    BY <1>0, <2>2, <2>4, <2>5
  <2>7. UNCHANGED <<connection, db, child>>
    BY <1>2 DEF connect
  <2> QED
    BY <1>2, <2>0, <2>1, <2>2, <2>3, <2>6, <2>7 DEF connect, ConnInv, TypeOK
<1>3. CASE waitUntilReady(a)
  <2>1. \A o \in Objects : object[o] # "none" => object'[o] # "none"
    BY <1>3 DEF waitUntilReady, TypeOK
  <2>2. pc'[a] # "connect" /\ \A b \in Actors \ {a} : pc'[b] = pc[b]
    BY <1>3, GotoAt DEF waitUntilReady
  <2> QED
    BY <1>3, <2>1, <2>2 DEF waitUntilReady, ConnInv, TypeOK
<1>4. CASE setConnected(a)
  <2>1. pc'[a] = "return" /\ \A b \in Actors \ {a} : pc'[b] = pc[b]
    BY <1>4, GotoAt DEF setConnected
  <2> QED
    BY <1>4, <2>1 DEF setConnected, ConnInv
<1> QED
  BY <1>1, <1>2, <1>3, <1>4 DEF connect_to_cluster

LEMMA ConnNext == PInv /\ [Next]_vars => ConnInv'
<1> SUFFICES ASSUME PInv, [Next]_vars PROVE ConnInv'
  OBVIOUS
<1>0. /\ TypeOK /\ ChildInv /\ ConnInv /\ Main \in Actors
      /\ \A t \in Threads : t \in Actors /\ t # Main
  BY ActorFacts DEF PInv
<1> USE DEF Connecting, conn, Others, InChild
<1>1. CASE UNCHANGED vars
  BY <1>0, <1>1 DEF vars, ConnInv
<1>2. ASSUME NEW t \in Threads, Accept(t) \/ ThreadStep(t) PROVE ConnInv'
  <2>1. CASE ChildGone
    BY <2>1, Gone
  <2>2. CASE connect_to_cluster(t)
    BY <1>0, <2>2, ConnectConn
  <2>3. CASE QuietStep(t)
    BY <1>0, <2>3 DEF QuietStep, ConnInv
  <2> QED
    BY <1>0, <1>2, <2>1, <2>2, <2>3, ThreadMoves
<1>3. CASE MainStep
  <2>1. CASE connect_to_cluster(Main)
    BY <1>0, <2>1, ConnectConn
  <2>2. CASE init_instances
    <3>1. connection # Null /\ object[connection] # "none"
      BY <1>0, <2>2 DEF init_instances, ConnInv
    <3>2. \A t \in Threads : db'[t] \in {connection, Null}
      BY <2>2 DEF init_instances
    <3>3. pc'[Main] = "idle" /\ \A b \in Actors \ {Main} : pc'[b] = pc[b]
      BY <1>0, <2>2, GotoAt DEF init_instances
    <3>4. \A b \in Actors \ {Main} : conn_retries'[b] = conn_retries[b]
      BY <1>0, <2>2 DEF init_instances, TypeOK
    <3>5. UNCHANGED <<connection, object>>
      BY <2>2 DEF init_instances
    <3> QED
      BY <1>0, <3>1, <3>2, <3>3, <3>4, <3>5 DEF ConnInv
  <2>3. CASE childExitBegins
    <3>1. pc'[Main] = "exit" /\ \A b \in Actors \ {Main} : pc'[b] = pc[b]
      BY <1>0, <2>3, GotoAt DEF childExitBegins
    <3>2. \A t \in Threads : db'[t] = Null
      BY <2>3 DEF childExitBegins, deletedFirst
    <3> QED
      BY <1>0, <2>3, <3>1, <3>2 DEF childExitBegins, deletedFirst, ConnInv
  <2>4. CASE childExitEnds
    BY <2>4, Gone DEF childExitEnds
  <2> QED
    BY <1>3, <2>1, <2>2, <2>3, <2>4 DEF MainStep
<1>4. CASE ParentStep
  <2>1. CASE Fork
    BY <1>0, <2>1, GotoAt DEF Fork, ConnInv
  <2>2. CASE mod_ndb_post_config \/ Graceful
    BY <1>0, <2>2 DEF mod_ndb_post_config, Graceful, ConnInv
  <2> QED
    BY <1>4, <2>1, <2>2 DEF ParentStep
<1>5. CASE ClusterReady
  BY <1>0, <1>5 DEF ClusterReady, ConnInv, TypeOK
<1> QED
  BY <1>1, <1>2, <1>3, <1>4, <1>5 DEF Next


LEMMA FirstNext == PInv /\ [Next]_vars => FirstInv'
<1> SUFFICES ASSUME PInv, [Next]_vars PROVE FirstInv'
  OBVIOUS
<1>0. /\ TypeOK /\ ChildInv /\ ConnInv /\ FirstInv /\ Main \in Actors
      /\ \A t \in Threads : t \in Actors /\ t # Main
  BY ActorFacts DEF PInv
<1> USE DEF Connecting, conn, Others, InChild
<1>1. CASE UNCHANGED vars
  BY <1>0, <1>1 DEF vars, FirstInv
<1>2. ASSUME NEW t \in Threads, Accept(t) \/ ThreadStep(t) PROVE FirstInv'
  <2>1. CASE ChildGone
    BY <2>1, Gone
  <2>2. CASE connect_to_cluster(t)
    <3>1. pc[t] \in Connecting /\ UNCHANGED <<child, init_ok>> /\ pc'[Main] = pc[Main]
      BY <1>0, <2>2, ConnectMoves
    <3>2. child = "running" /\ ~init_ok /\ pc[Main] \notin Connecting
      BY <1>0, <3>1 DEF ChildInv, FirstInv, TypeOK
    <3> QED
      BY <3>1, <3>2 DEF FirstInv
  <2>3. CASE QuietStep(t)
    BY <1>0, <2>3 DEF QuietStep, FirstInv
  <2> QED
    BY <1>0, <1>2, <2>1, <2>2, <2>3, ThreadMoves
<1>3. CASE MainStep
  <2>1. CASE connect_to_cluster(Main)
    <3>0. child = "starting" /\ ~init_ok /\ UNCHANGED <<child, init_ok>>
      BY <1>0, <2>1, ConnectMoves DEF ChildInv, FirstInv
    <3>1. CASE newConnection(Main)
      BY <1>0, <3>0, <3>1, GotoAt DEF newConnection, FirstInv
    <3>2. CASE connect(Main)
      BY <1>0, <3>0, <3>2, GotoAt DEF connect, FirstInv
    <3>3. CASE waitUntilReady(Main)
      <4>1. pc'[Main] = "set" => object'[connection] = "ready"
        <5>1. CASE Goto(Main, "return")
          BY <1>0, <5>1, GotoAt
        <5>2. CASE /\ object[connection] \in {"connected", "ready"}
                   /\ object' = [object EXCEPT ![connection] = "ready"]
          <6>1. connection \in Objects
            BY <1>0, <3>3 DEF waitUntilReady, ConnInv, TypeOK
          <6> QED
            BY <1>0, <5>2, <6>1 DEF TypeOK
        <5> QED
          BY <3>3, <5>1, <5>2 DEF waitUntilReady
      <4> QED
        BY <1>0, <3>0, <3>3, <4>1, GotoAt DEF waitUntilReady, FirstInv
    <3>4. CASE setConnected(Main)
      BY <1>0, <3>0, <3>4, GotoAt DEF setConnected, FirstInv
    <3> QED
      BY <2>1, <3>1, <3>2, <3>3, <3>4 DEF connect_to_cluster
  <2>2. CASE init_instances
    <3>1. child = "starting" /\ \A t \in Threads : pc[t] = "idle"
      BY <1>0, <2>2 DEF init_instances, ChildInv
    <3>2. pc'[Main] = "idle" /\ \A t \in Threads : pc'[t] = "idle"
      BY <1>0, <2>2, <3>1, GotoAt DEF init_instances
    <3>3. \A t \in Threads : db'[t] \in {connection, Null}
      BY <2>2 DEF init_instances
    <3> QED
      BY <1>0, <2>2, <3>1, <3>2, <3>3 DEF init_instances, FirstInv
  <2>3. CASE childExitBegins
    <3>1. pc'[Main] = "exit" /\ \A t \in Threads : pc'[t] = pc[t]
      BY <1>0, <2>3, GotoAt DEF childExitBegins
    <3>2. \A t \in Threads : db'[t] = Null
      BY <2>3 DEF childExitBegins, deletedFirst
    <3> QED
      BY <1>0, <2>3, <3>1, <3>2 DEF childExitBegins, deletedFirst, FirstInv
  <2>4. CASE childExitEnds
    BY <2>4, Gone DEF childExitEnds
  <2> QED
    BY <1>3, <2>1, <2>2, <2>3, <2>4 DEF MainStep
<1>4. CASE ParentStep
  <2>1. CASE Fork
    BY <1>0, <2>1, GotoAt DEF Fork, ChildInv, FirstInv
  <2>2. CASE mod_ndb_post_config \/ Graceful
    BY <1>0, <2>2 DEF mod_ndb_post_config, Graceful, FirstInv
  <2> QED
    BY <1>4, <2>1, <2>2 DEF ParentStep
<1>5. CASE ClusterReady
  <2>1. \A o \in Objects : object[o] = "ready" => object'[o] = "ready"
    BY <1>0, <1>5 DEF ClusterReady, TypeOK
  <2>2. object[connection] = "ready" /\ connection \in Objects => object'[connection] = "ready"
    BY <2>1
  <2>3. pc[Main] = "set" \/ init_ok \/ (child = "starting" /\ connected) =>
          connection \in Objects
    BY <1>0 DEF ConnInv, FirstInv, TypeOK
  <2> QED
    BY <1>0, <1>5, <2>2, <2>3 DEF ClusterReady, FirstInv
<1> QED
  BY <1>1, <1>2, <1>3, <1>4, <1>5 DEF Next

LEMMA LockNext == PInv /\ [Next]_vars => LockInv'
<1> SUFFICES ASSUME PInv, [Next]_vars PROVE LockInv'
  OBVIOUS
<1>0. TypeOK /\ LockInv /\ \A t \in Threads : t \in Actors /\ t # Main /\ t # NoOne
  BY ActorFacts DEF PInv
<1> USE DEF LockInv, conn, restart, Others, Thread, InChild
<1>1. CASE UNCHANGED vars
  BY <1>0, <1>1 DEF vars
<1>2. ASSUME NEW t \in Threads, Accept(t) \/ ThreadStep(t) PROVE LockInv'
  <2>0. t \in Actors
    BY <1>0
  <2>1. CASE ChildGone
    BY <2>1, Gone
  <2>2. ASSUME NEW l, Goto(t, l), l \notin {"test", "signal", "unlock"}, UNCHANGED restart
        PROVE  LockInv'
    BY <1>0, <2>0, <2>2, GotoAt
  <2>3. CASE connect_to_cluster(t)
    BY <1>0, <2>0, <2>3, ConnectMoves DEF Connecting
  <2>4. CASE Accept(t)
    BY <2>2, <2>4 DEF Accept
  <2>5. CASE my_instance(t)
    BY <2>2, <2>5 DEF my_instance, haveInstance
  <2>6. CASE my_instanceConnected(t)
    BY <2>2, <2>6 DEF my_instanceConnected, haveInstance
  <2>7. CASE useInstance(t)
    BY <2>1, <2>2, <2>7 DEF useInstance, Done
  <2>8. CASE lockRestart(t)
    BY <1>0, <2>0, <2>8, GotoAt DEF lockRestart, lockFree
  <2>9. CASE testRestart(t)
    BY <1>0, <2>0, <2>9, GotoAt DEF testRestart, firstToRestart
  <2>10. CASE signalParent(t)
    BY <1>0, <2>0, <2>10, GotoAt DEF signalParent
  <2>11. CASE unlockRestart(t)
    BY <1>0, <2>0, <2>11, GotoAt DEF unlockRestart, releaseLock, Done
  <2> QED
    BY <1>2, <2>3, <2>4, <2>5, <2>6, <2>7, <2>8, <2>9, <2>10, <2>11 DEF ThreadStep
<1>3. ASSUME NEW l, Goto(Main, l), UNCHANGED <<will_restart, restart_lock, signals>>
      PROVE  LockInv'
  BY <1>0, <1>3, GotoAt, ActorFacts
<1>4. CASE MainStep
  <2>1. CASE connect_to_cluster(Main)
    BY <1>0, <2>1, ConnectMoves, ActorFacts
  <2>2. CASE init_instances
    BY <1>3, <2>2 DEF init_instances
  <2>3. CASE childExitBegins
    BY <1>3, <2>3 DEF childExitBegins
  <2>4. CASE childExitEnds
    BY <2>4, Gone DEF childExitEnds
  <2> QED
    BY <1>4, <2>1, <2>2, <2>3, <2>4 DEF MainStep
<1>5. CASE ParentStep
  BY <1>0, <1>3, <1>5 DEF ParentStep, Fork, mod_ndb_post_config, Graceful
<1>6. CASE ClusterReady
  BY <1>0, <1>6 DEF ClusterReady
<1> QED
  BY <1>1, <1>2, <1>4, <1>5, <1>6 DEF Next


-----------------------------------------------------------------------------
(* The theorems. *)

LEMMA InitPInv == Init => PInv
<1> SUFFICES ASSUME Init PROVE PInv
  OBVIOUS
<1>0. /\ Main \in Actors /\ \A t \in Threads : t \in Actors
      /\ 0 \in 0 .. ConnectTries
  BY ActorFacts, ProcessAssumption, SMT
<1>1. TypeOK
  BY <1>0 DEF Init, TypeOK, Labels
<1>2. ChildInv /\ ConnInv /\ FirstInv
  BY <1>0 DEF Init, ChildInv, ConnInv, FirstInv, Connecting
<1>3. InstInv /\ LockInv
  BY <1>0 DEF Init, InstInv, LockInv, UsingInstance
<1> QED
  BY <1>1, <1>2, <1>3 DEF PInv

LEMMA ProcessInvariant == Spec => []PInv
<1>1. PInv /\ [Next]_vars => PInv'
  BY TypeNext, ChildNext, ConnNext, FirstNext, InstNext, LockNext DEF PInv
<1> QED
  BY <1>1, InitPInv, PTL DEF Spec

\* The variables of the processes and threads have their types, for any number
\* of threads, tries and connection objects (mod_ndb_ap20.cc).
THEOREM ProcessTypes == Spec => []TypeOK
<1>1. PInv => TypeOK
  BY DEF PInv
<1> QED
  BY <1>1, ProcessInvariant, PTL

\* A child whose mod_ndb_child_init() found the cluster keeps that connection,
\* which stays ready, and all its Ndb objects belong to it (mod_ndb_ap20.cc:275).
THEOREM FirstConnection == Spec => []FirstConnectionLasts
<1>1. PInv => FirstConnectionLasts
  BY DEF PInv, FirstInv, FirstConnectionLasts
<1> QED
  BY <1>1, ProcessInvariant, PTL

\* my_instance() never gives two threads one instance, whatever numbers Apache
\* gives its connections (mod_ndb_ap20.cc:271): the remainder of the connection's
\* number is the number of the thread.
THEOREM PrivateInstances == Spec => []InstancesArePrivate
<1>1. PInv => InstancesArePrivate
  <2> SUFFICES ASSUME PInv, NEW t \in Threads, pc[t] \in UsingInstance
               PROVE  /\ child = "running" /\ inst[t] \in Threads
                      /\ \A u \in Threads \ {t} : inst[u] # inst[t]
    BY DEF InstancesArePrivate
  <2>1. child = "running"
    BY DEF PInv, ChildInv, UsingInstance
  <2>2. inst[t] = t
    BY DEF PInv, InstInv
  <2>3. \A u \in Threads \ {t} : inst[u] \in {u, NoOne}
    BY DEF PInv, InstInv
  <2> QED
    BY <2>1, <2>2, <2>3, ActorFacts
<1> QED
  BY <1>1, ProcessInvariant, PTL

\* No Ndb object outlives its cluster connection, in mod_ndb_child_exit() and in a
\* reconnection (mod_ndb_ap20.cc:177).
THEOREM NdbHasConnection == Spec => []ConnectionOutlivesNdb
<1>1. PInv => ConnectionOutlivesNdb
  BY DEF PInv, ConnInv, ConnectionOutlivesNdb
<1> QED
  BY <1>1, ProcessInvariant, PTL

\* module_must_restart() signals the parent once in the life of a child, however
\* many threads call it at once (mod_ndb_ap20.cc:290).
THEOREM OneRestart == Spec => []OneRestartPerChild
<1>1. PInv => OneRestartPerChild
  BY DEF PInv, LockInv, OneRestartPerChild
<1> QED
  BY <1>1, ProcessInvariant, PTL
=============================================================================
