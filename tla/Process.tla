------------------------------ MODULE Process ------------------------------
(***************************************************************************)
(* The processes of a multi-threaded Apache and their cluster connections  *)
(* (mod_ndb_ap20.cc): the parent, which tests the connection in            *)
(* mod_ndb_post_config(), and one child, which connects and makes an       *)
(* ndb_instance per thread in mod_ndb_child_init(); whose threads get      *)
(* their instance from my_instance(), which connects again if need be, and *)
(* ask for a restart in module_must_restart(); and which cleans up in      *)
(* mod_ndb_child_exit().  Children share nothing, so one is enough.        *)
(*                                                                         *)
(* process.conn is shared by the threads of a process without a lock: the  *)
(* steps of connect_to_cluster() are atomic reads and writes of it.  What  *)
(* a thread does with its instance is module Instance; here it is one      *)
(* step, "use".                                                            *)
(***************************************************************************)
EXTENDS Integers, FiniteSets

CONSTANTS
  NThreads,      \* process.n_threads
  ThreadLimit,   \* process.thread_limit
  ChildNum,      \* the child's number, of which Apache makes connection ids
  ConnectTries,  \* connect_to_cluster() gives up after 5
  Objects        \* names for Ndb_cluster_connection objects of a process

Null == 0                      \* a null Ndb or connection pointer

ASSUME ProcessAssumption ==
  /\ NThreads \in Nat \ {0} /\ ThreadLimit \in Nat /\ NThreads <= ThreadLimit
  /\ ChildNum \in Nat
  /\ ConnectTries \in Nat \ {0}
  \* One each for process.conn, the Ndb objects and a new connection.
  /\ IsFiniteSet(Objects) /\ Cardinality(Objects) >= 3
  /\ Null \notin Objects

Threads == 0 .. NThreads - 1
Main == -1                     \* child_init and child_exit
Actors == Threads \cup {Main}

NoOne == -1                    \* nobody holds restart_lock; no instance

VARIABLES
  parent,          \* what the parent does
  child,           \* the child process: it is not there, or starts, or runs
  stopping,        \* the child has been told to finish its requests and exit
  connected, connection,  \* process.conn of the child
  object,          \* External: the state of each Ndb_cluster_connection
  db,              \* instances[n]->db: the connection of the Ndb, or Null
  will_restart,    \* will_restart # 0
  restart_lock,    \* its holder
  sigusr1,         \* a SIGUSR1 is pending at the parent
  signals,         \* how many this child has sent
  pc, conn_retries, \* of each actor
  inst,            \* the instance a thread is using
  init_ok          \* did mod_ndb_child_init() find the cluster

conn == <<connected, connection>>
restart == <<will_restart, restart_lock, sigusr1, signals>>
vars == <<parent, child, stopping, conn, object, db, restart, pc, conn_retries,
          inst, init_ok>>

Labels == {"idle", "check", "new", "connect", "ready", "set", "return",
           "instances", "use", "lock", "test", "signal", "unlock", "exit"}
UsingInstance == {"use", "lock", "test", "signal", "unlock"}

TypeOK ==
  /\ parent \in {"post_config", "up", "exited"}
  /\ child \in {"none", "starting", "running"}
  /\ stopping \in BOOLEAN
  /\ connected \in BOOLEAN /\ connection \in Objects \cup {Null}
  /\ object \in [Objects -> {"none", "new", "connected", "ready"}]
  /\ db \in [Threads -> Objects \cup {Null}]
  /\ will_restart \in BOOLEAN /\ sigusr1 \in BOOLEAN
  /\ restart_lock \in Threads \cup {NoOne}
  /\ signals \in Nat
  /\ pc \in [Actors -> Labels]
  /\ conn_retries \in [Actors -> 0 .. ConnectTries]
  /\ inst \in [Threads -> Threads \cup {NoOne}]
  /\ init_ok \in BOOLEAN

-----------------------------------------------------------------------------
(* The memory of a child that is gone, or has not run yet. *)

Init ==
  /\ parent = "post_config" /\ sigusr1 = FALSE
  /\ child = "none" /\ stopping = FALSE
  /\ connected = FALSE /\ connection = Null
  /\ object = [o \in Objects |-> "none"]
  /\ db = [t \in Threads |-> Null]
  /\ will_restart = FALSE /\ restart_lock = NoOne /\ signals = 0
  /\ pc = [a \in Actors |-> "idle"]
  /\ conn_retries = [a \in Actors |-> 0]
  /\ inst = [t \in Threads |-> NoOne]
  /\ init_ok = FALSE

ChildGone ==
  /\ child' = "none" /\ stopping' = FALSE
  /\ connected' = FALSE /\ connection' = Null
  /\ object' = [o \in Objects |-> "none"]
  /\ db' = [t \in Threads |-> Null]
  /\ will_restart' = FALSE /\ restart_lock' = NoOne /\ signals' = 0
  /\ pc' = [a \in Actors |-> "idle"]
  /\ conn_retries' = [a \in Actors |-> 0]
  /\ inst' = [t \in Threads |-> NoOne]
  /\ init_ok' = FALSE
  /\ UNCHANGED <<parent, sigusr1>>

Goto(a, l) == pc' = [pc EXCEPT ![a] = l]

-----------------------------------------------------------------------------
(* connect_to_cluster(), called by actor a in the child.  It works on       *)
(* c->connection throughout, which another thread may replace meanwhile.   *)

Others == <<parent, child, stopping, db, restart, inst, init_ok>>

\* An object that neither process.conn nor an Ndb refers to is leaked; its name
\* is free for another.
OfNdbs == {db[t] : t \in Threads}
FreshName == CHOOSE o \in Objects : o \notin OfNdbs \cup {connection}

newConnection(a) ==
  /\ pc[a] = "new"
  /\ connection' = FreshName
  /\ object' = [o \in Objects |-> IF o = connection' THEN "new"
                                  ELSE IF o \in OfNdbs THEN object[o] ELSE "none"]
  /\ conn_retries' = [conn_retries EXCEPT ![a] = 0]
  /\ Goto(a, "connect")
  /\ UNCHANGED <<connected, Others>>

\* One turn of while(1): 0 is success, -1 is fatal, 1 is worth another try.
retryAgain_OneMore(n) == n # ConnectTries + 1     \* mutant
retryAgain(n) == n # ConnectTries

connect(a) ==
  /\ pc[a] = "connect"
  /\ conn_retries' = [conn_retries EXCEPT ![a] = @ + 1]
  /\ \/ /\ object' = [object EXCEPT ![connection] =
                        IF @ = "new" THEN "connected" ELSE @]
        /\ Goto(a, "ready")
     \/ Goto(a, "return") /\ UNCHANGED object
     \/ /\ Goto(a, IF retryAgain(conn_retries[a] + 1) THEN "connect" ELSE "return")
        /\ UNCHANGED object
  /\ UNCHANGED <<conn, Others>>

waitUntilReady(a) ==
  /\ pc[a] = "ready"
  /\ \/ Goto(a, "return") /\ UNCHANGED object
     \/ /\ object[connection] \in {"connected", "ready"}
        /\ object' = [object EXCEPT ![connection] = "ready"]
        /\ Goto(a, "set")
  /\ UNCHANGED <<conn, conn_retries, Others>>

setConnected(a) ==
  /\ pc[a] = "set"
  /\ connected' = TRUE
  /\ Goto(a, "return")
  /\ UNCHANGED <<connection, object, conn_retries, Others>>

connect_to_cluster(a) ==
  newConnection(a) \/ connect(a) \/ waitUntilReady(a) \/ setConnected(a)

\* External: data nodes that were late come up.
ClusterReady ==
  /\ \E o \in Objects :
       object[o] = "connected" /\ object' = [object EXCEPT ![o] = "ready"]
  /\ UNCHANGED <<conn, pc, conn_retries, Others>>

-----------------------------------------------------------------------------
(* The parent. *)

InChild == <<connected, connection, object, db, will_restart, restart_lock,
             signals, conn_retries, inst, init_ok>>

\* The parent, in memory of its own, tries connect_to_cluster(in_parent) and
\* deletes the connection; if it cannot connect, Apache exits.
mod_ndb_post_config ==
  /\ parent = "post_config"
  /\ parent' \in {"up", "exited"}
  /\ UNCHANGED <<child, stopping, sigusr1, pc, InChild>>

\* External: the parent forks a child.
Fork ==
  /\ parent = "up" /\ child = "none"
  /\ child' = "starting"
  /\ Goto(Main, "new")
  /\ UNCHANGED <<parent, stopping, sigusr1, InChild>>

\* External: a graceful restart of Apache.  Children are told to stop, then the
\* configuration is read, and tested, anew.
Graceful ==
  /\ parent = "up" /\ sigusr1
  /\ sigusr1' = FALSE
  /\ parent' = "post_config"
  /\ stopping' = (child # "none")
  /\ UNCHANGED <<child, pc, InChild>>

-----------------------------------------------------------------------------
(* mod_ndb_child_init() after connect_to_cluster(), mod_ndb_child_exit().   *)

\* init_instance() for every thread.  Ndb::init() may fail, which leaves
\* i->db null.
init_instances ==
  /\ pc[Main] = "return"
  /\ \E ok \in SUBSET Threads :
       db' = [t \in Threads |-> IF t \in ok THEN connection ELSE Null]
  /\ init_ok' = connected
  /\ child' = "running"
  /\ Goto(Main, "idle")
  /\ conn_retries' = [conn_retries EXCEPT ![Main] = 0]
  /\ UNCHANGED <<parent, stopping, conn, object, restart, inst>>

\* The threads have finished; the Ndb objects go first, then the connection.
deletedFirst_Connection ==                        \* mutant
  object' = [object EXCEPT ![connection] = "none"] /\ UNCHANGED db
deletedFirst == db' = [t \in Threads |-> Null] /\ UNCHANGED object

childExitBegins ==
  /\ child = "running" /\ stopping /\ pc[Main] = "idle"
  /\ \A t \in Threads : pc[t] = "idle"
  /\ deletedFirst
  /\ Goto(Main, "exit")
  /\ UNCHANGED <<parent, child, stopping, conn, restart, conn_retries, inst, init_ok>>

childExitEnds ==
  /\ pc[Main] = "exit"
  /\ ChildGone

-----------------------------------------------------------------------------
(* A thread and its requests. *)

\* External: a request arrives at a thread of a child that is not to stop.
Accept(t) ==
  /\ child = "running" /\ ~stopping /\ pc[t] = "idle"
  /\ Goto(t, "check")
  /\ UNCHANGED <<conn, object, conn_retries, Others>>

\* Apache numbers the connection of thread t ChildNum * ThreadLimit + t.
thread_id_Unthreaded(t) == 0                      \* mutant
thread_id(t) == (ChildNum * ThreadLimit + t) % ThreadLimit

mustConnect_Always == TRUE                        \* mutant
mustConnect == ~connected

haveInstance(t) ==
  /\ Goto(t, "use")
  /\ inst' = [inst EXCEPT ![t] = thread_id(t)]

Thread == <<parent, child, stopping, conn, object, db, init_ok>>

my_instance(t) ==
  /\ pc[t] = "check"
  /\ IF mustConnect THEN Goto(t, "new") /\ UNCHANGED inst ELSE haveInstance(t)
  /\ UNCHANGED <<Thread, restart, conn_retries>>

\* if(! c->connected) return 0: the request is answered 503.
my_instanceConnected(t) ==
  /\ pc[t] = "return"
  /\ IF connected THEN haveInstance(t)
                                ELSE Goto(t, "idle") /\ UNCHANGED inst
  /\ conn_retries' = [conn_retries EXCEPT ![t] = 0]
  /\ UNCHANGED <<Thread, restart>>

Done(t) == Goto(t, "idle") /\ inst' = [inst EXCEPT ![t] = NoOne]

\* Query() or ExecuteAll().  Query dereferences i->db, and the child dies if it
\* is null; ExecuteAll finds a stale dictionary only with a cluster to ask.
useInstance(t) ==
  /\ pc[t] = "use"
  /\ \/ Done(t) /\ UNCHANGED <<Thread, restart, conn_retries>>
     \/ /\ db[inst[t]] # Null /\ object[db[inst[t]]] = "ready"
        /\ Goto(t, "lock")
        /\ UNCHANGED <<inst, Thread, restart, conn_retries>>
     \/ /\ db[inst[t]] = Null
        /\ ChildGone

\* module_must_restart()
lockFree_Ignored == TRUE                          \* mutant
lockFree == restart_lock = NoOne

lockRestart(t) ==
  /\ pc[t] = "lock" /\ lockFree
  /\ restart_lock' = t
  /\ Goto(t, "test")
  /\ UNCHANGED <<Thread, will_restart, sigusr1, signals, conn_retries, inst>>

firstToRestart_Negated == will_restart            \* mutant
firstToRestart == ~will_restart

testRestart(t) ==
  /\ pc[t] = "test"
  /\ Goto(t, IF firstToRestart THEN "signal" ELSE "unlock")
  /\ UNCHANGED <<Thread, restart, conn_retries, inst>>

signalParent(t) ==
  /\ pc[t] = "signal"
  /\ will_restart' = TRUE
  /\ sigusr1' = TRUE /\ signals' = signals + 1
  /\ Goto(t, "unlock")
  /\ UNCHANGED <<Thread, restart_lock, conn_retries, inst>>

releaseLock_Forgotten == UNCHANGED restart_lock    \* mutant
releaseLock == restart_lock' = NoOne

unlockRestart(t) ==
  /\ pc[t] = "unlock"
  /\ releaseLock
  /\ Done(t)
  /\ UNCHANGED <<Thread, will_restart, sigusr1, signals, conn_retries>>

-----------------------------------------------------------------------------
(* The specification. *)

ThreadStep(t) ==
  \/ my_instance(t) \/ connect_to_cluster(t) \/ my_instanceConnected(t)
  \/ useInstance(t)
  \/ lockRestart(t) \/ testRestart(t) \/ signalParent(t) \/ unlockRestart(t)

MainStep ==
  connect_to_cluster(Main) \/ init_instances \/ childExitBegins \/ childExitEnds

ParentStep == mod_ndb_post_config \/ Fork \/ Graceful

Next ==
  \/ \E t \in Threads : Accept(t) \/ ThreadStep(t)
  \/ MainStep \/ ParentStep \/ ClusterReady

\* The processes and threads run, calls of the NDB API return (they take
\* timeouts), and a signal is delivered; nobody has to send a request.
Fairness ==
  /\ \A t \in Threads : WF_vars(ThreadStep(t))
  /\ WF_vars(MainStep) /\ WF_vars(ParentStep)

Spec == Init /\ [][Next]_vars /\ Fairness

-----------------------------------------------------------------------------
(* Properties. *)

\* A child that found the cluster when it started keeps that connection for
\* all its life: no request makes it connect again (mod_ndb_ap20.cc:275), its
\* connection stays ready, and its Ndb objects belong to it.
FirstConnectionLasts ==
  init_ok /\ child = "running" /\ pc[Main] = "idle" =>
    /\ connected
    /\ object[connection] = "ready"
    /\ \A t \in Threads : db[t] \in {connection, Null}

\* mod_ndb.h:126: an instance is "a private per-thread data structure".
\* Nothing locks it: two threads never get the same one, nor one that
\* mod_ndb_child_init() did not make.
InstancesArePrivate ==
  \A t \in Threads : pc[t] \in UsingInstance =>
    /\ child = "running" /\ inst[t] \in Threads
    /\ \A u \in Threads \ {t} : inst[u] # inst[t]

\* mod_ndb_child_exit(), a reconnection and the death of a child leave no Ndb
\* whose connection has been deleted (~Ndb uses it).
ConnectionOutlivesNdb ==
  \A t \in Threads : db[t] # Null => object[db[t]] # "none"

\* However many threads meet a stale dictionary at once, a child asks for one
\* restart of Apache (mod_ndb_ap20.cc:290-295).
OneRestartPerChild == signals <= 1

\* connect_to_cluster() gives up, module_must_restart() waits for its lock
\* only a while: every request is answered, or its child is gone.
EveryRequestEnds ==
  \A t \in Threads : pc[t] = "check" ~> pc[t] = "idle"

\* A thread that meets a stale dictionary gets the child replaced.
StaleChildIsReplaced ==
  (\E t \in Threads : pc[t] = "lock") ~> child = "none"

-----------------------------------------------------------------------------
(* What comments say that the code does not do. *)

\* mod_ndb_ap20.cc:168-169: connect_to_cluster() is called from my_instance()
\* "if initialization failed the first time".  Here: an instance got from
\* my_instance() can then reach the cluster.
InstanceIsConnected ==
  \A t \in Threads : pc[t] = "use" /\ db[inst[t]] # Null =>
    object[db[inst[t]]] \in {"connected", "ready"}

=============================================================================
