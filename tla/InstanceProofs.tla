--------------------------- MODULE InstanceProofs ---------------------------
(***************************************************************************)
(* Proofs about Instance.                                                  *)
(***************************************************************************)
EXTENDS Instance, TLAPS

-----------------------------------------------------------------------------
(* The inductive invariant. *)

\* Where i->tx is what: the steps that use it have it, and it is stale only
\* between close() and i->tx = 0.
HandleInv ==
  /\ tx # NoTx /\ pc \notin {"abort2", "commit", "results", "cleanup1", "crashed"}
       => ndb[tx].state = "started"
  /\ pc = "commit" /\ ndb[tx].state # "started" => answer = "temporary"
  /\ pc = "results" => ndb[tx].state = "committed"
  /\ pc \in {"index", "setup", "parts", "action", "commit", "results",
             "cleanup1"} => tx # NoTx
  /\ pc \in {"commit", "results", "cleanup1"} =>
       ndb[tx].state \in {"started", "committed"}
  /\ pc = "cleanup2" => tx = NoTx
  /\ \A h \in Handles :
       ndb[h].state = "committed" =>
         h = tx /\ pc \in {"commit", "results", "cleanup1", "crashed"}

ReadsHeld == IF tx = NoTx THEN 0 ELSE ndb[tx].ops.reads

InQuery == {"getTable", "method", "plan", "open", "index", "setup", "parts",
            "action", "abort1", "abort2"}

Read == [cols |-> "live", objs |-> "made"]
Taken == [cols |-> "live", objs |-> "none"]

\* The slots below n_read_ops, of which Query's own (slot) has no result
\* objects yet, and the reads of the transaction, which a GET joins between
\* "setup" and "parts".
SlotInv ==
  /\ n_read_ops <= MaxReadOps
  /\ \A s \in Slots : s >= n_read_ops => data[s] = Zeroed
  /\ pc \in {"getTable", "method"} => slot = LocalOp
  /\ pc \in InQuery => slot < n_read_ops
  /\ pc \in {"plan", "open", "index", "setup", "parts", "action"} =>
       (req.method = "GET" <=> slot # LocalOp)
  /\ ~aborted =>
       /\ pc \in {"idle", "getTable", "method", "execute", "commit", "results"} =>
            /\ n_read_ops = ReadsHeld
            /\ \A s \in Slots : s < n_read_ops => data[s] = Read
       /\ pc \in {"plan", "open", "index", "setup"} =>
            n_read_ops = ReadsHeld + (IF slot = LocalOp THEN 0 ELSE 1)
       /\ pc \in {"parts", "action"} => n_read_ops = ReadsHeld
       /\ pc \in {"plan", "open", "index", "setup", "parts", "action"} =>
            /\ \A s \in Slots : s < n_read_ops /\ s # slot => data[s] = Read
            /\ slot # LocalOp => slot = n_read_ops - 1 /\ data[slot] = Taken

Clean ==
  /\ tx = NoTx /\ n_read_ops = 0
  /\ ~aborted /\ ~use_etag /\ ~jsonrequest
  /\ data = [s \in Slots |-> Zeroed]

CleanInv ==
  /\ ~batch /\ pc \in {"idle", "getTable", "method"} => Clean
  /\ ~batch /\ pc \in InQuery => ~req.sub

IInv == TypeOK /\ HandleInv /\ AbortedBatchHasNoTx /\ SlotInv /\ CleanInv

-----------------------------------------------------------------------------
(* Arithmetic of the retry loop. *)

\* The time a retry waits (Execute.cc:124) is a number.
LEMMA SleepType == ASSUME retries \in Nat PROVE sleep_ms \in Nat
<1>1. retries * retries \in Nat
  OBVIOUS
<1>2. 5 + 2 * retries * retries = 5 + 2 * (retries * retries)
  OBVIOUS
<1> QED
  BY <1>1, <1>2 DEF sleep_ms

\* So is the time milliSleep() really takes (Execute.cc:32).
LEMMA MilliSleepType == ASSUME NEW ms \in Nat PROVE milliSleep(ms) \subseteq Nat
  BY DEF milliSleep

-----------------------------------------------------------------------------
(* Type correctness. *)

\* The values the actions build belong where they are put.
LEMMA DataTypes ==
  /\ Zeroed \in Operations
  /\ Empty \in Contents
  /\ Free \in NdbTransactions
  /\ 0 \in Slots
BY InstanceAssumption DEF Zeroed, Operations, Empty, Contents, Free,
                          NdbTransactions, Slots

\* A call of the NDB API leaves transaction objects.
LEMMA NdbSetType ==
  ASSUME TypeOK, NEW h, NEW o \in Contents,
         NEW st \in {"free", "started", "committed"}, NdbSet(h, st, o)
  PROVE  ndb' \in [Handles -> NdbTransactions]
BY DEF TypeOK, TypeOfInstance, NdbSet, NdbTransactions

\* What i->tx holds is a number of reads and a flag.
LEMMA GatheredType == TypeOK => Gathered \in Contents
BY DataTypes DEF TypeOK, TypeOfInstance, Gathered, NdbTransactions

\* execute() leaves transaction objects, what was applied, and an answer.
LEMMA ExecuteType ==
  ASSUME TypeOK, NEW a \in Answers, execute(a)
  PROVE  /\ ndb' \in [Handles -> NdbTransactions]
         /\ applied' \in Contents
         /\ answer' \in Answers
<1>1. Gathered \in Contents
  BY GatheredType
<1>2. CASE NdbSet(tx, "committed", Gathered) /\ applied' = Gathered
  BY <1>1, <1>2, NdbSetType DEF execute
<1>3. CASE UNCHANGED <<ndb, applied>>
  BY <1>3 DEF execute, TypeOK, TypeOfInstance, TypeOfOutcome
<1> QED
  BY <1>2, <1>3 DEF execute

\* cleanup() keeps the types of the instance (mod_ndb.h:150).
LEMMA CleanupType ==
  ASSUME TypeOK, cleanup
  PROVE  /\ data' \in [Slots -> Operations] /\ n_read_ops' \in 0 .. MaxReadOps
         /\ aborted' \in BOOLEAN /\ use_etag' \in BOOLEAN
         /\ jsonrequest' \in BOOLEAN /\ batch' \in BOOLEAN
         /\ orphans' \in BOOLEAN
<1>1. data' \in [Slots -> Operations]
  BY DataTypes DEF TypeOK, TypeOfInstance, cleanup
<1>2. n_read_ops' \in 0 .. MaxReadOps
  BY InstanceAssumption DEF cleanup
<1>3. /\ aborted' \in BOOLEAN /\ use_etag' \in BOOLEAN
      /\ jsonrequest' \in BOOLEAN /\ batch' \in BOOLEAN
  BY DEF cleanup, clearFlags
<1>4. orphans' \in BOOLEAN
  BY Zenon DEF cleanup
<1> QED
  BY <1>1, <1>2, <1>3, <1>4

\* So does a store into data[s].
LEMMA DataSetType ==
  ASSUME TypeOK, NEW s, NEW c \in {"null", "live", "freed"}, NEW o \in {"none", "made"},
         DataSet(s, c, o)
  PROVE  data' \in [Slots -> Operations]
<1>1. [cols |-> c, objs |-> o] \in Operations
  BY DEF Operations
<1> QED
  BY <1>1 DEF TypeOK, TypeOfInstance, DataSet

\* An instance starts in its types.
LEMMA InitType == Init => TypeOK
<1> SUFFICES ASSUME Init PROVE TypeOK
  OBVIOUS
<1>1. TypeOfInstance
  <2>1. /\ tx \in Handles \cup {NoTx} /\ data \in [Slots -> Operations]
        /\ ndb \in [Handles -> NdbTransactions]
    BY DataTypes DEF Init, init_instance
  <2>2. n_read_ops \in 0 .. MaxReadOps
    BY InstanceAssumption DEF Init, init_instance
  <2>3. aborted \in BOOLEAN /\ use_etag \in BOOLEAN /\ jsonrequest \in BOOLEAN
    BY DEF Init, init_instance
  <2> QED
    BY <2>1, <2>2, <2>3 DEF TypeOfInstance
<1>2. TypeOfRequest
  BY DEF Init, TypeOfRequest, Labels, Codes, Methods, OK
<1>3. TypeOfExecuteAll
  <2>1. retries \in Nat /\ total_wait_time \in Nat /\ asleep \in Nat /\ opn \in Nat
    BY DEF Init
  <2>2. my_results \in Slots \cup {NoBuf} /\ must_restart \in BOOLEAN /\ apache_notes \in BOOLEAN
    BY DEF Init
  <2> QED
    BY <2>1, <2>2 DEF TypeOfExecuteAll
<1>4. TypeOfOutcome
  BY DataTypes DEF Init, TypeOfOutcome, Answers
<1> QED
  BY <1>1, <1>2, <1>3, <1>4 DEF TypeOK

\* Every step of the thread keeps the types, action by action.
LEMMA NextType == TypeOK /\ [Next]_vars => TypeOK'
<1> SUFFICES ASSUME TypeOK, [Next]_vars PROVE TypeOK'
  OBVIOUS
<1> USE DEF OK, NoAnswer, Labels, Codes, TypeOfInstance, TypeOfRequest,
        TypeOfExecuteAll, TypeOfOutcome
<1>0. /\ data \in [Slots -> Operations]
      /\ slot # LocalOp => /\ data[slot].cols \in {"null", "live", "freed"}
                           /\ data[slot].objs \in {"none", "made"}
  BY DEF TypeOK, Operations
<1>1. CASE UNCHANGED vars
  BY <1>1 DEF vars, inst, exec, host, trace, TypeOK
<1>2. CASE Arrival
  <2> USE DEF inst, exec, host, trace, GotoWith, Return
  <2>1. CASE ScriptStart
    BY <2>1 DEF ScriptStart, TypeOK
  <2>2. CASE ScriptEnd
    <3>1. TypeOfInstance'
      BY <2>2 DEF ScriptEnd, TypeOK
    <3>2. TypeOfRequest' /\ TypeOfExecuteAll'
      BY <2>2 DEF ScriptEnd, TypeOK
    <3>3. TypeOfOutcome'
      BY <2>2 DEF ScriptEnd, TypeOK
    <3> QED
      BY <3>1, <3>2, <3>3 DEF TypeOK
  <2>3. ASSUME NEW sub, NEW method \in Methods, NEW isBatch \in BOOLEAN,
               NewRequest(sub, method, isBatch),
               response_code' \in Codes, pc' \in Labels, batch' \in BOOLEAN
        PROVE  TypeOK'
    <3>1. req' \in [sub: BOOLEAN, method: Methods, batch: BOOLEAN, alone: BOOLEAN]
      BY <2>3 DEF NewRequest, TypeOK
    <3>2. applied' \in Contents /\ orphans' \in BOOLEAN /\ answer' \in Answers
      BY <2>3, DataTypes DEF NewRequest, Answers
    <3> QED
      BY <2>3, <3>1, <3>2 DEF NewRequest, TypeOK
  <2>4. CASE \E method \in Methods : ndb_handler(method)
    <3>1. PICK method \in Methods : ndb_handler(method)
      BY <2>4
    <3>2. batch' \in BOOLEAN /\ response_code' \in Codes /\ pc' \in Labels
      BY <3>1 DEF ndb_handler, TypeOK
    <3>3. NewRequest(script, method, FALSE)
      BY <3>1 DEF ndb_handler, NewRequest
    <3> QED
      BY <2>3, <3>2, <3>3
  <2>5. CASE ndb_exec_batch_handler
    <3>1. batch' \in BOOLEAN /\ response_code' \in Codes /\ pc' \in Labels
      BY <2>5 DEF ndb_exec_batch_handler, TypeOK
    <3>2. NewRequest(script, "GET", TRUE) /\ "GET" \in Methods
      BY <2>5 DEF ndb_exec_batch_handler, Methods
    <3> QED
      BY <2>3, <3>1, <3>2
  <2>6. CASE \E code \in {500, 503} : Unavailable(code)
    <3>1. PICK code \in {500, 503} : Unavailable(code)
      BY <2>6
    <3>2. batch' \in BOOLEAN /\ response_code' \in Codes /\ pc' \in Labels
      BY <3>1 DEF Unavailable, TypeOK
    <3>3. NewRequest(script, "GET", FALSE)
      BY <3>1 DEF Unavailable, NewRequest
    <3> QED
      BY <2>3, <3>2, <3>3 DEF Methods
  <2> QED
    BY <1>2, <2>1, <2>2, <2>4, <2>5, <2>6 DEF Arrival
<1>3. CASE Query
  <2> USE DEF Untouched, Outside, inst, exec, host, trace, Goto, GotoWith, Return, Crash
  <2>1. CASE getTable
    BY <2>1 DEF getTable, TypeOK
  <2>2. CASE takeReadSlot
    <3>1. data' \in [Slots -> Operations]
      BY <1>0, <2>2, DataSetType DEF takeReadSlot
    <3>2. TypeOfInstance'
      <4>1. n_read_ops' \in 0 .. MaxReadOps
        BY <2>2, InstanceAssumption DEF takeReadSlot, ReadSlotLeft, TypeOK
      <4>2. use_etag' \in BOOLEAN
        BY <2>2 DEF takeReadSlot, TypeOK
      <4> QED
        BY <2>2, <3>1, <4>1, <4>2 DEF takeReadSlot, TypeOK
    <3>3. slot' \in Slots \cup {LocalOp}
      BY <2>2, InstanceAssumption DEF takeReadSlot, ReadSlotLeft, TypeOK, Slots
    <3> QED
      BY <2>2, <3>2, <3>3 DEF takeReadSlot, TypeOK
  <2>3. CASE readFormData
    BY <2>3 DEF readFormData,
       readRequestBody, readRequestNote, TypeOK
  <2>4. CASE checkMethod
    BY <2>4 DEF checkMethod, TypeOK
  <2>5. CASE choosePlan
    BY <2>5 DEF choosePlan, TypeOK
  <2>6. CASE openTransaction
    <3>1. ndb' \in [Handles -> NdbTransactions] /\ tx' \in Handles \cup {NoTx}
      BY <2>6, NdbSetType, DataTypes DEF openTransaction, TypeOK
    <3> QED
      BY <2>6, <3>1 DEF openTransaction, TypeOK
  <2>7. CASE findIndex
    BY <2>7 DEF findIndex, TypeOK
  <2>8. CASE setupOperation
    <3>1. /\ [reads |-> Gathered.reads + 1, wrote |-> Gathered.wrote] \in Contents
          /\ [reads |-> Gathered.reads, wrote |-> TRUE] \in Contents
      BY GatheredType DEF Contents
    <3>2. ndb' \in [Handles -> NdbTransactions]
      BY <2>8, <3>1, NdbSetType DEF setupOperation, WithOperation, TypeOK
    <3> QED
      BY <2>8, <3>2 DEF setupOperation, WithOperation, TypeOK
  <2>9. CASE setKeyParts
    BY <2>9 DEF setKeyParts, TypeOK
  <2>10. CASE opAction
    <3>1. data' \in [Slots -> Operations]
      BY <1>0, <2>10, DataSetType DEF opAction
    <3> QED
      BY <2>10, <3>1 DEF opAction, TypeOK
  <2>11. CASE abort1
    <3>1. ndb' \in [Handles -> NdbTransactions]
      BY <2>11, NdbSetType, DataTypes DEF abort1, TypeOK
    <3> QED
      BY <2>11, <3>1 DEF abort1, TypeOK
  <2>12. CASE abort2
    <3>1. /\ data' \in [Slots -> Operations] /\ n_read_ops' \in 0 .. MaxReadOps
          /\ aborted' \in BOOLEAN /\ use_etag' \in BOOLEAN
          /\ jsonrequest' \in BOOLEAN /\ batch' \in BOOLEAN
          /\ orphans' \in BOOLEAN
      <4>1. CASE keep_tx_open
        <5>1. data' \in [Slots -> Operations]
          BY <1>0, <2>12, <4>1, DataSetType DEF abort2
        <5> QED
          BY <2>12, <4>1, <5>1 DEF abort2, TypeOK
      <4>2. CASE ~keep_tx_open
        BY <2>12, <4>2, CleanupType DEF abort2
      <4> QED
        BY <4>1, <4>2
    <3>2. response_code' \in Codes /\ pc' \in Labels
      BY <2>12 DEF abort2, TypeOK
    <3> QED
      BY <2>12, <3>1, <3>2 DEF abort2, forgetHandle, TypeOK
  <2> QED
    BY <1>3, <2>1, <2>2, <2>3, <2>4, <2>5, <2>6, <2>7, <2>8, <2>9, <2>10,
       <2>11, <2>12 DEF Query
<1>4. CASE ExecuteAll
  <2> USE DEF Rest, inst, exec, host, trace, Goto, GotoWith, Crash
  <2>1. CASE checkTransaction
    <3>1. apache_notes' \in BOOLEAN
      BY <2>1 DEF checkTransaction, TypeOK
    <3> QED
      BY <2>1, <3>1 DEF checkTransaction, TypeOK
  <2>2. CASE commitOK
    <3>1. execute("ok") /\ "ok" \in Answers
      BY <2>2 DEF commitOK, Answers
    <3> QED
      BY <2>2, <3>1, ExecuteType DEF commitOK, TypeOK
  <2>3. CASE commitTemporaryError
    <3>1. sleep_ms \in Nat /\ milliSleep(sleep_ms) \subseteq Nat
      BY SleepType, MilliSleepType DEF TypeOK
    <3>2. execute("temporary") /\ "temporary" \in Answers
      BY <2>3 DEF commitTemporaryError, Answers, Errors
    <3>3. TypeOfExecuteAll'
      BY <2>3, <3>1 DEF commitTemporaryError, accountRetry, TypeOK
    <3> QED
      BY <2>3, <3>2, <3>3, ExecuteType DEF commitTemporaryError, TypeOK
  <2>4. CASE handle_exec_error
    <3>1. execute("permanent") /\ "permanent" \in Answers
      BY <2>4 DEF handle_exec_error, Answers, Errors
    <3> QED
      BY <2>4, <3>1, ExecuteType DEF handle_exec_error, ErrorCodes, TypeOK
  <2>5. CASE buildResult
    <3>1. my_results' \in Slots \cup {NoBuf}
      BY <2>5, InstanceAssumption DEF buildResult, build_results, TypeOK, Slots
    <3>2. notes' \in [Slots -> Slots \cup {NoBuf, NoNote}]
      BY <2>5, <3>1 DEF buildResult, build_results, TypeOK
    <3>3. pc' \in Labels /\ response_code' \in Codes
      BY <2>5 DEF buildResult, build_results, TypeOK
    <3> QED
      BY <2>5, <3>1, <3>2, <3>3 DEF buildResult, build_results, TypeOK
  <2>6. CASE sendPage
    BY <2>6 DEF sendPage, TypeOK
  <2>7. CASE cleanup1
    <3>1. ndb' \in [Handles -> NdbTransactions]
      BY <2>7, NdbSetType, DataTypes DEF cleanup1
    <3> QED
      BY <2>7, <3>1 DEF cleanup1, TypeOK
  <2>8. CASE cleanup2
    <3>1. cleanup /\ UNCHANGED <<tx, ndb, req, slot, script, notes, page, applied, answer>>
      BY <2>8 DEF cleanup2
    <3>2. pc' \in Labels /\ response_code' \in Codes
      BY <2>8 DEF cleanup2, TypeOK
    <3>3. /\ retries' \in Nat /\ total_wait_time' \in Nat /\ asleep' \in Nat
          /\ opn' \in Nat /\ my_results' \in Slots \cup {NoBuf}
          /\ must_restart' \in BOOLEAN /\ apache_notes' \in BOOLEAN
      BY <2>8 DEF cleanup2, ReturnFrame
    <3> QED
      BY <3>1, <3>2, <3>3, CleanupType DEF TypeOK
  <2> QED
    BY <1>4, <2>1, <2>2, <2>3, <2>4, <2>5, <2>6, <2>7, <2>8 DEF ExecuteAll
<1>5. CASE Restart
  <2>1. TypeOfInstance'
    <3>1. /\ tx' \in Handles \cup {NoTx} /\ data' \in [Slots -> Operations]
          /\ ndb' \in [Handles -> NdbTransactions]
      BY <1>5, DataTypes DEF Restart
    <3>2. n_read_ops' \in 0 .. MaxReadOps
      BY <1>5, InstanceAssumption DEF Restart
    <3>3. aborted' \in BOOLEAN /\ use_etag' \in BOOLEAN /\ jsonrequest' \in BOOLEAN
      BY <1>5 DEF Restart
    <3> QED
      BY <3>1, <3>2, <3>3
  <2>2. TypeOfRequest'
    BY <1>5 DEF Restart, Goto, TypeOK
  <2>3. TypeOfExecuteAll'
    <3>1. retries' \in Nat /\ total_wait_time' \in Nat /\ asleep' \in Nat /\ opn' \in Nat
      BY <1>5 DEF Restart, ReturnFrame
    <3>2. /\ my_results' \in Slots \cup {NoBuf}
          /\ must_restart' \in BOOLEAN /\ apache_notes' \in BOOLEAN
      BY <1>5 DEF Restart, ReturnFrame
    <3> QED
      BY <3>1, <3>2
  <2>4. TypeOfOutcome'
    BY <1>5, DataTypes DEF Restart, TypeOK
  <2> QED
    BY <2>1, <2>2, <2>3, <2>4 DEF TypeOK
<1> QED
  BY <1>1, <1>2, <1>3, <1>4, <1>5 DEF Next

\* Every variable of the instance, of Query and of ExecuteAll stays in the
\* range the code gives it; n_read_ops never passes the end of data[].
THEOREM TypeCorrect == Spec => []TypeOK
<1>1. Init => TypeOK
  BY InitType
<1>2. TypeOK /\ [Next]_vars => TypeOK'
  BY NextType
<1> QED
  BY <1>1, <1>2, PTL DEF Spec
-----------------------------------------------------------------------------
(* The handle of the open transaction. *)

\* The effect of a call of the NDB API on the transaction objects.
LEMMA NdbSetAt ==
  ASSUME TypeOK, NEW h \in Handles, NEW st, NEW o, NdbSet(h, st, o)
  PROVE  /\ ndb'[h].state = st /\ ndb'[h].ops = o
         /\ \A g \in Handles : g # h => ndb'[g] = ndb[g]
BY DEF TypeOK, TypeOfInstance, NdbSet

\* What execute() makes of i->tx.
LEMMA ExecuteAt ==
  ASSUME TypeOK, tx \in Handles, ndb[tx].state \in {"started", "committed"},
         NEW a, execute(a), UNCHANGED tx
  PROVE  /\ ndb'[tx].state \in {"started", "committed"}
         /\ a \notin Errors => ndb'[tx].state = "committed"
         /\ Gathered' = Gathered /\ ndb'[tx].ops = ndb[tx].ops
         /\ \A g \in Handles : g # tx => ndb'[g] = ndb[g]
<1>1. tx # NoTx
  BY DEF Handles, NoTx
<1>2. CASE NdbSet(tx, "committed", Gathered)
  BY <1>1, <1>2, NdbSetAt DEF Gathered
<1>3. CASE UNCHANGED ndb /\ (ndb[tx].state = "committed" \/ a \in Errors)
  BY <1>1, <1>3 DEF Gathered
<1> QED
  BY <1>2, <1>3 DEF execute

\* No step makes i->tx a handle that cannot be used: what opens, executes and
\* closes the transaction also sets i->tx (Query.cc:346-364, 526-538;
\* Execute.cc:119-121, 205-206).
LEMMA HandleNext == TypeOK /\ HandleInv /\ [Next]_vars => HandleInv'
<1> SUFFICES ASSUME TypeOK, HandleInv, [Next]_vars PROVE HandleInv'
  OBVIOUS
<1>0. tx \in Handles \cup {NoTx} /\ NoTx \notin Handles
  BY DEF TypeOK, TypeOfInstance, Handles, NoTx
<1>1. CASE UNCHANGED vars
  BY <1>1 DEF vars, inst, trace, HandleInv
<1>2. CASE Arrival
  <2>1. /\ UNCHANGED <<tx, ndb>>
        /\ pc = "idle" /\ pc' \in {"idle", "getTable", "execute"}
    BY <1>2 DEF Arrival, ScriptStart, ScriptEnd, ndb_handler,
                ndb_exec_batch_handler, Unavailable, NewRequest, inst,
                GotoWith, Return
  <2> QED
    BY <2>1 DEF HandleInv
<1>3. CASE Query
  <2> USE DEF Untouched, Outside, inst, exec, host, trace, Goto, GotoWith, Return, Crash
  <2>1. CASE getTable
    BY <1>0, <2>1 DEF getTable, HandleInv
  <2>2. CASE takeReadSlot
    BY <1>0, <2>2 DEF takeReadSlot, HandleInv
  <2>3. CASE readFormData
    BY <1>0, <2>3 DEF readFormData,
       readRequestBody, readRequestNote, HandleInv
  <2>4. CASE checkMethod
    BY <1>0, <2>4 DEF checkMethod, HandleInv
  <2>5. CASE choosePlan
    BY <1>0, <2>5 DEF choosePlan, HandleInv
  <2>6. CASE openTransaction
    BY <1>0, <2>6, NdbSetAt DEF openTransaction, HandleInv
  <2>7. CASE findIndex
    BY <1>0, <2>7 DEF findIndex, HandleInv
  <2>8. CASE setupOperation
    BY <1>0, <2>8, NdbSetAt DEF setupOperation, WithOperation, HandleInv
  <2>9. CASE setKeyParts
    BY <1>0, <2>9 DEF setKeyParts, HandleInv
  <2>10. CASE opAction
    BY <1>0, <2>10 DEF opAction, HandleInv
  <2>11. CASE abort1
    BY <1>0, <2>11, NdbSetAt DEF abort1, HandleInv
  <2>12. CASE abort2
    BY <1>0, <2>12 DEF abort2, HandleInv, forgetHandle
  <2> QED
    BY <1>3, <2>1, <2>2, <2>3, <2>4, <2>5, <2>6, <2>7, <2>8, <2>9, <2>10, <2>11, <2>12 DEF Query
<1>4. CASE ExecuteAll
  <2> USE DEF Rest, inst, exec, host, trace, Goto, GotoWith, Crash
  <2>1. CASE checkTransaction
    BY <1>0, <2>1 DEF checkTransaction, HandleInv
  <2>2. ASSUME NEW a, execute(a), UNCHANGED tx, pc = "commit",
               pc' \in {"commit", "results", "cleanup1"},
               pc' = "commit" => a = "temporary", pc' = "results" => a = "ok"
        PROVE  HandleInv'
    <3>1. tx \in Handles /\ ndb[tx].state \in {"started", "committed"}
      BY <1>0, <2>2 DEF HandleInv
    <3>2. /\ ndb'[tx].state \in {"started", "committed"}
          /\ a \notin Errors => ndb'[tx].state = "committed"
          /\ \A g \in Handles : g # tx => ndb'[g] = ndb[g]
      BY <2>2, <3>1, ExecuteAt
    <3>3. answer' = a
      BY <2>2 DEF execute
    <3> QED
      BY <1>0, <2>2, <3>1, <3>2, <3>3 DEF HandleInv, Errors
  <2>3. CASE commitOK
    BY <2>2, <2>3 DEF commitOK
  <2>4. CASE commitTemporaryError \/ handle_exec_error
    BY <2>2, <2>4 DEF commitTemporaryError, handle_exec_error
  <2>5. CASE buildResult
    BY <1>0, <2>5 DEF buildResult, build_results, HandleInv
  <2>6. CASE sendPage
    BY <1>0, <2>6 DEF sendPage, HandleInv
  <2>7. CASE cleanup1
    BY <1>0, <2>7, NdbSetAt DEF cleanup1, HandleInv
  <2>8. CASE cleanup2
    BY <1>0, <2>8 DEF cleanup2, HandleInv
  <2> QED
    BY <1>4, <2>1, <2>2, <2>3, <2>4, <2>5, <2>6, <2>7, <2>8 DEF ExecuteAll
<1>5. CASE Restart
  BY <1>0, <1>5 DEF Restart, Goto, HandleInv, Free
<1> QED
  BY <1>1, <1>2, <1>3, <1>4, <1>5 DEF Next
-----------------------------------------------------------------------------
(* An aborted batch. *)

\* Only abort2 sets flag.aborted, and openTransaction tests it.
LEMMA AbortedNext == AbortedBatchHasNoTx /\ [Next]_vars => AbortedBatchHasNoTx'
<1> SUFFICES ASSUME AbortedBatchHasNoTx, [Next]_vars PROVE AbortedBatchHasNoTx'
  OBVIOUS
<1> USE DEF AbortedBatchHasNoTx, inst
<1>1. CASE UNCHANGED vars
  BY <1>1 DEF vars
<1>2. CASE Arrival
  BY <1>2 DEF Arrival, ScriptStart, ScriptEnd, ndb_handler,
              ndb_exec_batch_handler, Unavailable, NewRequest
<1>3. CASE Query
  <2>1. CASE openTransaction
    BY <2>1 DEF openTransaction, AlreadyAborted
  <2>2. CASE abort2
    BY <2>2 DEF abort2, forgetHandle
  <2> QED
    BY <1>3, <2>1, <2>2 DEF Query, getTable, takeReadSlot, readFormData,
       readRequestBody, readRequestNote,
       checkMethod, choosePlan, findIndex, setupOperation, WithOperation,
       setKeyParts,
       opAction, abort1
<1>4. CASE ExecuteAll
  BY <1>4 DEF ExecuteAll, checkTransaction, commitOK, commitTemporaryError,
     handle_exec_error, buildResult, build_results, sendPage, cleanup1,
     cleanup2, cleanup, clearFlags
<1>5. CASE Restart
  BY <1>5 DEF Restart
<1> QED
  BY <1>1, <1>2, <1>3, <1>4, <1>5 DEF Next

-----------------------------------------------------------------------------
(* The data_operations and the reads of the transaction. *)

\* What a store into data[s] changes.
LEMMA DataSetAt ==
  ASSUME TypeOK, NEW s \in Slots, NEW c, NEW o, DataSet(s, c, o)
  PROVE  /\ data'[s] = [cols |-> c, objs |-> o]
         /\ \A r \in Slots : r # s => data'[r] = data[r]
BY DEF TypeOK, TypeOfInstance, DataSet

\* cleanup() zeroes the operations in use; the others are zero already.
LEMMA CleanupZeroes ==
  ASSUME TypeOK, SlotInv, cleanup
  PROVE  data' = [s \in Slots |-> Zeroed] /\ n_read_ops' = 0
<1>1. n_read_ops \in Nat /\ Slots \subseteq Int
  BY InstanceAssumption DEF TypeOK, TypeOfInstance, Slots
<1>2. \A s \in Slots : (IF InUse(s) THEN Zeroed ELSE data[s]) = Zeroed
  BY <1>1 DEF SlotInv, InUse
<1> QED
  BY <1>2 DEF cleanup

\* Reads are defined and slots taken in step: one operation of the transaction
\* for each slot below n_read_ops, but for the one being defined.
LEMMA SlotNext ==
  TypeOK /\ HandleInv /\ AbortedBatchHasNoTx /\ SlotInv /\ [Next]_vars => SlotInv'
<1> SUFFICES ASSUME TypeOK, HandleInv, AbortedBatchHasNoTx, SlotInv, [Next]_vars
             PROVE  SlotInv'
  OBVIOUS
<1>0. /\ tx \in Handles \cup {NoTx} /\ NoTx \notin Handles
      /\ n_read_ops \in Nat /\ MaxReadOps \in Nat /\ Slots = 0 .. MaxReadOps - 1
      /\ slot \in Slots \cup {LocalOp} /\ LocalOp = -1
      /\ data \in [Slots -> Operations]
  BY InstanceAssumption DEF TypeOK, TypeOfInstance, TypeOfRequest, Handles,
                            NoTx, Slots, LocalOp
<1> USE DEF ReadsHeld, InQuery
<1>1. CASE UNCHANGED vars
  BY <1>1 DEF vars, inst, SlotInv
<1>2. CASE Arrival
  <2>1. /\ UNCHANGED <<inst, ndb>>
        /\ pc = "idle"
        /\ \/ UNCHANGED <<pc, slot, req>>
           \/ pc' \in {"idle", "getTable", "execute"} /\ slot' = LocalOp
    BY <1>2 DEF Arrival, ScriptStart, ScriptEnd, ndb_handler,
                ndb_exec_batch_handler, Unavailable, NewRequest,
                GotoWith, Return
  <2> QED
    BY <1>0, <2>1 DEF SlotInv, inst
<1>3. CASE Query
  <2> USE DEF Untouched, Outside, inst, exec, host, trace, Goto, GotoWith, Return, Crash
  <2>1. CASE getTable
    BY <1>0, <2>1 DEF getTable, HandleInv, SlotInv
  <2>2. CASE takeReadSlot
    <3>1. CASE ReadSlotLeft
      <4>1. /\ slot' = n_read_ops /\ n_read_ops' = n_read_ops + 1 /\ pc' = "plan"
            /\ DataSet(n_read_ops, "live", "none")
            /\ n_read_ops \in Slots
        BY <1>0, <2>2, <3>1 DEF takeReadSlot, ReadSlotLeft
      <4>2. data'[n_read_ops] = Taken
        BY <4>1, DataSetAt DEF Taken
      <4>3. \A r \in Slots : r # n_read_ops => data'[r] = data[r]
        BY <4>1, DataSetAt
      <4>4. UNCHANGED <<tx, aborted, ndb, req>> /\ req.method = "GET" /\ pc = "method"
        BY <2>2 DEF takeReadSlot
      <4> QED
        BY <1>0, <3>1, <4>1, <4>2, <4>3, <4>4 DEF SlotInv, ReadSlotLeft
    <3>2. CASE ~ReadSlotLeft
      BY <1>0, <2>2, <3>2 DEF takeReadSlot, SlotInv
    <3> QED
      BY <3>1, <3>2
  <2>3. CASE readFormData
    BY <1>0, <2>3 DEF readFormData,
       readRequestBody, readRequestNote, HandleInv, SlotInv
  <2>4. CASE checkMethod
    BY <1>0, <2>4 DEF checkMethod, HandleInv, SlotInv
  <2>5. CASE choosePlan
    BY <1>0, <2>5 DEF choosePlan, HandleInv, SlotInv
  <2>6. CASE openTransaction
    <3>1. CASE UNCHANGED <<tx, ndb>>
      BY <1>0, <2>6, <3>1 DEF openTransaction, SlotInv
    <3>2. CASE ~UNCHANGED <<tx, ndb>>
      <4>1. /\ tx = NoTx /\ tx' \in Handles /\ pc' = "index"
            /\ NdbSet(tx', "started", Empty)
        BY <2>6, <3>2 DEF openTransaction
      <4>2. ReadsHeld' = 0
        BY <1>0, <4>1, NdbSetAt DEF Empty
      <4> QED
        BY <1>0, <2>6, <4>1, <4>2 DEF openTransaction, SlotInv
    <3> QED
      BY <3>1, <3>2
  <2>7. CASE findIndex
    BY <1>0, <2>7 DEF findIndex, HandleInv, SlotInv
  <2>8. CASE setupOperation
    <3>1. tx \in Handles /\ tx' = tx /\ Gathered = ndb[tx].ops /\ ReadsHeld \in Nat
      BY <1>0, <2>8 DEF setupOperation, WithOperation, HandleInv, Gathered, TypeOK,
                        TypeOfInstance, NdbTransactions, Contents
    <3>2. CASE pc' = "crashed"
      BY <1>0, <2>8, <3>2 DEF setupOperation, WithOperation, SlotInv
    <3>3. CASE pc' # "crashed"
      <4>1. PICK o : /\ NdbSet(tx, "started", o)
                     /\ o.reads = IF req.method = "GET" THEN ReadsHeld + 1
                                                        ELSE ReadsHeld
        BY <1>0, <2>8, <3>1, <3>3 DEF setupOperation, WithOperation
      <4>2. ReadsHeld' = IF req.method = "GET" THEN ReadsHeld + 1 ELSE ReadsHeld
        BY <1>0, <3>1, <4>1, NdbSetAt
      <4> QED
        BY <1>0, <2>8, <3>1, <4>2 DEF setupOperation, WithOperation, SlotInv
    <3> QED
      BY <3>2, <3>3
  <2>9. CASE setKeyParts
    BY <1>0, <2>9 DEF setKeyParts, HandleInv, SlotInv
  <2>10. CASE opAction
    <3>1. CASE slot = LocalOp \/ pc' \in {"abort1", "crashed"}
      <4>1. UNCHANGED data
        BY <2>10, <3>1 DEF opAction, keep_tx_open
      <4> QED
        BY <1>0, <2>10, <3>1, <4>1 DEF opAction, SlotInv
    <3>2. CASE ~(slot = LocalOp \/ pc' \in {"abort1", "crashed"})
      <4>1. slot \in Slots /\ DataSet(slot, data[slot].cols, "made")
        BY <1>0, <2>10, <3>2 DEF opAction
      <4>2. /\ data'[slot] = [cols |-> data[slot].cols, objs |-> "made"]
            /\ \A r \in Slots : r # slot => data'[r] = data[r]
        BY <4>1, DataSetAt
      <4>3. data[slot] = Taken => data'[slot] = Read
        BY <4>2 DEF Taken, Read
      <4> QED
        BY <1>0, <2>10, <4>1, <4>2, <4>3 DEF opAction, SlotInv
    <3> QED
      BY <3>1, <3>2
  <2>11. CASE abort1
    BY <1>0, <2>11, NdbSetAt DEF abort1, HandleInv, SlotInv
  <2>12. CASE abort2
    <3>1. CASE keep_tx_open
      <4>1. /\ aborted' = TRUE /\ pc' \in {"idle", "crashed"}
            /\ UNCHANGED n_read_ops
            /\ \/ UNCHANGED data
               \/ slot \in Slots /\ DataSet(slot, "freed", data[slot].objs)
        BY <1>0, <2>12, <3>1 DEF abort2
      <4>2. \A r \in Slots : r >= n_read_ops => data'[r] = data[r]
        <5>1. slot < n_read_ops
          BY <2>12 DEF abort2, SlotInv
        <5>2. CASE UNCHANGED data
          BY <5>2
        <5>3. CASE slot \in Slots /\ DataSet(slot, "freed", data[slot].objs)
          <6>1. \A r \in Slots : r # slot => data'[r] = data[r]
            BY <5>3, DataSetAt
          <6> QED
            BY <1>0, <5>1, <6>1
        <5> QED
          BY <4>1, <5>2, <5>3
      <4> QED
        BY <1>0, <4>1, <4>2 DEF SlotInv
    <3>2. CASE ~keep_tx_open
      <4>1. tx' = NoTx /\ pc' \in {"idle", "crashed"} /\ UNCHANGED ndb /\ cleanup
        BY <2>12, <3>2 DEF abort2, forgetHandle
      <4>2. data' = [s \in Slots |-> Zeroed] /\ n_read_ops' = 0
        BY <4>1, CleanupZeroes
      <4> QED
        BY <1>0, <4>1, <4>2 DEF SlotInv
    <3> QED
      BY <3>1, <3>2
  <2> QED
    BY <1>3, <2>1, <2>2, <2>3, <2>4, <2>5, <2>6, <2>7, <2>8, <2>9, <2>10, <2>11, <2>12 DEF Query
<1>4. CASE ExecuteAll
  <2> USE DEF Rest, inst, exec, host, trace, Goto, GotoWith, Crash
  <2>1. CASE checkTransaction
    BY <1>0, <2>1 DEF checkTransaction, HandleInv, SlotInv
  <2>2. ASSUME NEW a, execute(a), pc = "commit", UNCHANGED tx
        PROVE  ReadsHeld' = ReadsHeld
    <3>1. tx \in Handles /\ ndb[tx].state \in {"started", "committed"}
      BY <1>0, <2>2 DEF HandleInv
    <3> QED
      BY <1>0, <2>2, <3>1, ExecuteAt
  <2>3. CASE commitOK
    BY <1>0, <2>2, <2>3 DEF commitOK, SlotInv
  <2>4. CASE commitTemporaryError \/ handle_exec_error
    BY <1>0, <2>2, <2>4 DEF commitTemporaryError, handle_exec_error, SlotInv
  <2>5. CASE buildResult
    BY <1>0, <2>5 DEF buildResult, build_results, HandleInv, SlotInv
  <2>6. CASE sendPage
    BY <1>0, <2>6 DEF sendPage, HandleInv, SlotInv
  <2>7. CASE cleanup1
    BY <1>0, <2>7, NdbSetAt DEF cleanup1, HandleInv, SlotInv
  <2>8. CASE cleanup2
    <3>1. /\ tx = NoTx /\ UNCHANGED <<tx, ndb>> /\ pc' \in {"idle", "crashed"}
          /\ cleanup
      BY <2>8 DEF cleanup2, HandleInv
    <3>2. data' = [s \in Slots |-> Zeroed] /\ n_read_ops' = 0
      BY <3>1, CleanupZeroes
    <3> QED
      BY <1>0, <3>1, <3>2 DEF SlotInv
  <2> QED
    BY <1>4, <2>1, <2>2, <2>3, <2>4, <2>5, <2>6, <2>7, <2>8 DEF ExecuteAll
<1>5. CASE Restart
  BY <1>0, <1>5 DEF Restart, Goto, SlotInv
<1> QED
  BY <1>1, <1>2, <1>3, <1>4, <1>5 DEF Next
-----------------------------------------------------------------------------
(* What a request leaves behind. *)

\* cleanup() makes the instance as new, if i->tx is already 0.
LEMMA CleanupCleans ==
  ASSUME TypeOK, SlotInv, cleanup, tx' = NoTx
  PROVE  Clean'
BY CleanupZeroes DEF cleanup, clearFlags, Clean

\* Outside a batch every way out of a request goes through cleanup(), or has not
\* touched the instance.
LEMMA CleanNext ==
  TypeOK /\ HandleInv /\ SlotInv /\ CleanInv /\ [Next]_vars => CleanInv'
<1> SUFFICES ASSUME TypeOK, HandleInv, SlotInv, CleanInv, [Next]_vars
             PROVE  CleanInv'
  OBVIOUS
<1> USE DEF InQuery
<1>1. CASE UNCHANGED vars
  BY <1>1 DEF vars, inst, host, CleanInv, Clean
<1>2. CASE Arrival
  <2>1. CASE ScriptStart \/ ScriptEnd \/ \E code \in {500, 503} : Unavailable(code)
    BY <2>1 DEF ScriptStart, ScriptEnd, Unavailable, NewRequest, Return, inst,
                CleanInv, Clean
  <2>2. CASE \E method \in Methods : ndb_handler(method)
    <3>1. PICK method \in Methods : ndb_handler(method)
      BY <2>2
    <3>2. UNCHANGED inst /\ pc = "idle" /\ pc' = "getTable"
      BY <3>1 DEF ndb_handler, NewRequest, GotoWith
    <3>3. ~batch' => ~batch /\ req'.sub = FALSE
      BY <3>1 DEF ndb_handler, NewRequest, TypeOK, TypeOfOutcome
    <3> QED
      BY <3>2, <3>3 DEF inst, CleanInv, Clean
  <2>3. CASE ndb_exec_batch_handler
    BY <2>3 DEF ndb_exec_batch_handler, GotoWith, CleanInv
  <2> QED
    BY <1>2, <2>1, <2>2, <2>3 DEF Arrival
<1>3. CASE Query
  <2> USE DEF Untouched, Outside, inst, exec, host, trace, Goto, GotoWith, Return, Crash
  <2>1. CASE getTable \/ readFormData \/ checkMethod
    BY <2>1 DEF getTable, readFormData,
       readRequestBody, readRequestNote, checkMethod, CleanInv, Clean
  <2>2. CASE takeReadSlot
    BY <2>2 DEF takeReadSlot, CleanInv, Clean
  <2>3. CASE \/ choosePlan \/ openTransaction \/ findIndex \/ setupOperation
             \/ setKeyParts \/ abort1
    BY <2>3 DEF choosePlan, openTransaction, findIndex, setupOperation, WithOperation,
                setKeyParts, abort1, CleanInv
  <2>4. CASE opAction
    BY <2>4 DEF opAction, keep_tx_open, CleanInv
  <2>5. CASE abort2
    <3>1. CASE keep_tx_open
      BY <2>5, <3>1 DEF abort2, keep_tx_open, CleanInv
    <3>2. CASE ~keep_tx_open
      <4>1. cleanup /\ tx' = NoTx /\ pc' \in {"idle", "crashed"}
        BY <2>5, <3>2 DEF abort2, forgetHandle
      <4> QED
        BY <4>1, CleanupCleans DEF CleanInv
    <3> QED
      BY <3>1, <3>2
  <2> QED
    BY <1>3, <2>1, <2>2, <2>3, <2>4, <2>5 DEF Query
<1>4. CASE ExecuteAll
  <2>1. CASE cleanup2
    <3>1. cleanup /\ tx' = NoTx /\ pc' \in {"idle", "crashed"}
      BY <2>1 DEF cleanup2, HandleInv, Goto, GotoWith, Crash
    <3> QED
      BY <3>1, CleanupCleans DEF CleanInv
  <2>2. CASE ~cleanup2
    <3>1. pc' \notin InQuery \cup {"idle"}
      BY <1>4, <2>2 DEF ExecuteAll, checkTransaction, commitOK,
         commitTemporaryError, handle_exec_error, buildResult, build_results, sendPage,
         cleanup1, Goto, GotoWith, Crash
    <3> QED
      BY <3>1 DEF CleanInv
  <2> QED
    BY <2>1, <2>2
<1>5. CASE Restart
  BY <1>5 DEF Restart, Goto, CleanInv, Clean
<1> QED
  BY <1>1, <1>2, <1>3, <1>4, <1>5 DEF Next

-----------------------------------------------------------------------------
(* The theorems. *)

\* The inductive invariant holds in a new instance,
LEMMA InitInv == Init => IInv
<1> SUFFICES ASSUME Init PROVE IInv
  OBVIOUS
<1>1. TypeOK
  BY InitType
<1>2. HandleInv /\ AbortedBatchHasNoTx
  BY DEF Init, init_instance, HandleInv, AbortedBatchHasNoTx, Free
<1>3. SlotInv
  BY InstanceAssumption DEF Init, init_instance, SlotInv, InQuery, ReadsHeld, Slots
<1>4. CleanInv
  BY DEF Init, init_instance, CleanInv, Clean, InQuery
<1> QED
  BY <1>1, <1>2, <1>3, <1>4 DEF IInv

\* is kept by every step,
LEMMA NextInv == IInv /\ [Next]_vars => IInv'
BY NextType, HandleNext, AbortedNext, SlotNext, CleanNext DEF IInv

\* and so always holds.
LEMMA Invariant == Spec => []IInv
<1>1. Init => IInv
  BY InitInv
<1>2. IInv /\ [Next]_vars => IInv'
  BY NextInv
<1> QED
  BY <1>1, <1>2, PTL DEF Spec

\* No request, in whatever order requests, failures and aborts come, uses a
\* handle of a transaction that was closed or committed (Query.cc:346-364,
\* 526-538; Execute.cc:119-206).
THEOREM HandleSafety == Spec => []HandleIsUsable
<1>1. IInv => HandleIsUsable
  BY DEF IInv, HandleInv, HandleIsUsable
<1> QED
  BY <1>1, Invariant, PTL

\* A batch in which an operation failed has no transaction left that could be
\* committed (Query.cc:349-355, 529-538).
THEOREM AbortSafety == Spec => []AbortedBatchHasNoTx
<1>1. IInv => AbortedBatchHasNoTx
  BY DEF IInv
<1> QED
  BY <1>1, Invariant, PTL

\* data[0 .. n_read_ops - 1] are the reads of the transaction the loop of
\* Execute.cc:148 fetches results for, and the slots above are zero.
THEOREM SlotSafety == Spec => []SlotsAreTheReads
<1>1. IInv => SlotsAreTheReads
  <2> SUFFICES ASSUME IInv PROVE SlotsAreTheReads
    OBVIOUS
  <2>1. tx # NoTx => ~aborted
    BY DEF IInv, AbortedBatchHasNoTx
  <2> QED
    BY <2>1 DEF IInv, SlotInv, ReadsHeld, Read, SlotsAreTheReads
<1> QED
  BY <1>1, Invariant, PTL

\* A request that is not part of a batch hands the instance on as
\* init_instance() made it (mod_ndb.h:150-158, Query.cc:540-549,
\* Execute.cc:206-213).
THEOREM CleanSafety == Spec => []CleanBetweenRequests
<1>1. IInv => CleanBetweenRequests
  BY DEF IInv, CleanInv, Clean, CleanBetweenRequests
<1> QED
  BY <1>1, Invariant, PTL

-----------------------------------------------------------------------------
(* The batches of an instance implement Batch.                               *)

\* What the steps of Batch speak of.
LEMMA PhaseValue ==
  ASSUME TypeOK
  PROVE  /\ tx = NoTx => /\ Gathered = Empty
                         /\ Phase = IF aborted THEN "aborted" ELSE "none"
         /\ tx # NoTx => /\ Gathered = ndb[tx].ops
                         /\ ndb[tx].state = "started" => Phase = "open"
                         /\ ndb[tx].state = "committed" => Phase = "done"
                         /\ ndb[tx].state = "free" => Phase = "closing"
BY DEF Phase, Gathered

\* A step that leaves i->tx and the transactions alone is no step of Batch.
LEMMA Stutter ==
  ASSUME UNCHANGED <<tx, ndb, aborted, applied>>
  PROVE  UNCHANGED B!vars
BY DEF B!vars, Phase, Gathered

\* A new instance has no batch.
LEMMA InitBatch == Init => B!Init
BY DEF Init, init_instance, B!Init, B!Pending, B!Nothing, Phase, Gathered, Empty

\* i->tx = 0 with the operations of the batch dropped.
LEMMA Dropped ==
  ASSUME IInv, tx' = NoTx, UNCHANGED applied, aborted' \in BOOLEAN,
         ~(tx = NoTx /\ ~aborted /\ ~aborted'),
         ~(tx = NoTx /\ aborted /\ aborted'),
         tx # NoTx /\ ndb[tx].state = "committed" => aborted' = FALSE
  PROVE  B!Drop
<1>1. TypeOK /\ (aborted => tx = NoTx) /\ aborted \in BOOLEAN
  BY DEF IInv, AbortedBatchHasNoTx, TypeOK, TypeOfInstance
<1>2. tx # NoTx => ndb[tx].state \in {"free", "started", "committed"}
  BY <1>1 DEF TypeOK, TypeOfInstance, NdbTransactions
<1>3. Gathered' = Empty /\ Phase' = IF aborted' THEN "aborted" ELSE "none"
  BY DEF Gathered, Phase
<1>4. B!Pending' = B!Nothing
  BY <1>3 DEF B!Pending, B!Nothing, Empty
<1>5. tx = NoTx => Phase = IF aborted THEN "aborted" ELSE "none"
  BY <1>1, PhaseValue
<1>6. tx # NoTx => Phase \in {"open", "done", "closing"} /\ ~aborted
  BY <1>1, <1>2, PhaseValue
<1>7. Phase = "done" => aborted' = FALSE
  BY <1>2, <1>5, PhaseValue, <1>1
<1> QED
  BY <1>1, <1>3, <1>4, <1>5, <1>6, <1>7 DEF B!Drop

\* Every step of Query and ExecuteAll is a step of Batch or none.
LEMMA NextBatch == IInv /\ [Next]_vars => [B!Next]_(B!vars)
<1> SUFFICES ASSUME IInv, [Next]_vars PROVE [B!Next]_(B!vars)
  OBVIOUS
<1>0. /\ TypeOK /\ HandleInv /\ (aborted => tx = NoTx)
      /\ tx \in Handles \cup {NoTx} /\ NoTx \notin Handles
  BY DEF IInv, AbortedBatchHasNoTx, TypeOK, TypeOfInstance, Handles, NoTx
<1>1. CASE UNCHANGED vars
  BY <1>1, Stutter DEF vars, inst, trace
<1>2. CASE Arrival
  <2>1. UNCHANGED <<tx, ndb, aborted>> /\ pc = "idle"
    BY <1>2 DEF Arrival, ScriptStart, ScriptEnd, ndb_handler,
                ndb_exec_batch_handler, Unavailable, NewRequest, inst
  <2>2. UNCHANGED applied \/ applied' = Empty
    BY <1>2 DEF Arrival, ScriptStart, ScriptEnd, ndb_handler,
                ndb_exec_batch_handler, Unavailable, NewRequest, trace
  <2>3. Phase # "done"
    BY <1>0, <2>1, PhaseValue DEF HandleInv
  <2>4. UNCHANGED <<Phase, Gathered>>
    BY <2>1 DEF Phase, Gathered
  <2> QED
    BY <2>2, <2>3, <2>4 DEF B!Next, B!NewReport, B!Nothing, B!vars, Empty
<1>3. CASE Query
  <2> USE DEF Untouched, Outside, trace, Goto, GotoWith, Return, Crash
  <2>1. CASE \/ getTable \/ takeReadSlot \/ readFormData \/ checkMethod
             \/ choosePlan \/ findIndex \/ setKeyParts \/ opAction
    BY <2>1, Stutter DEF getTable, takeReadSlot, readFormData,
       readRequestBody, readRequestNote, checkMethod,
       choosePlan, findIndex, setKeyParts, opAction, inst
  <2>2. CASE openTransaction
    <3>1. CASE UNCHANGED <<tx, ndb>>
      BY <2>2, <3>1, Stutter DEF openTransaction
    <3>2. CASE ~UNCHANGED <<tx, ndb>>
      <4>1. /\ tx = NoTx /\ ~aborted /\ tx' \in Handles /\ UNCHANGED <<aborted, applied>>
            /\ NdbSet(tx', "started", Empty)
        BY <2>2, <3>2 DEF openTransaction, AlreadyAborted
      <4>2. ndb'[tx'].state = "started" /\ ndb'[tx'].ops = Empty
        BY <1>0, <4>1, NdbSetAt
      <4>3. Phase = "none" /\ Gathered = Empty
        BY <1>0, <4>1, PhaseValue
      <4>4. Phase' = "open" /\ Gathered' = Empty
        BY <1>0, <4>1, <4>2 DEF Phase, Gathered
      <4> QED
        BY <4>1, <4>3, <4>4 DEF B!Next, B!Open
    <3> QED
      BY <3>1, <3>2
  <2>3. CASE setupOperation
    <3>1. /\ tx \in Handles /\ tx' = tx /\ Phase = "open" /\ Gathered = ndb[tx].ops
          /\ UNCHANGED <<aborted, applied>>
      BY <1>0, <2>3, PhaseValue DEF setupOperation, WithOperation, HandleInv, inst
    <3>2. CASE UNCHANGED ndb
      BY <3>1, <3>2, Stutter
    <3>3. CASE ~UNCHANGED ndb
      <4>1. PICK o : /\ NdbSet(tx, "started", o)
                     /\ \/ o.reads = Gathered.reads + 1 /\ o.wrote = Gathered.wrote
                        \/ o.reads = Gathered.reads /\ o.wrote = TRUE
        BY <2>3, <3>3 DEF setupOperation, WithOperation
      <4>2. ndb'[tx].state = "started" /\ ndb'[tx].ops = o
        BY <1>0, <3>1, <4>1, NdbSetAt
      <4>3. Phase' = "open" /\ Gathered' = o
        BY <1>0, <3>1, <4>2 DEF Phase, Gathered
      <4> QED
        BY <3>1, <4>1, <4>3 DEF B!Next, B!Define
    <3> QED
      BY <3>2, <3>3
  <2>4. CASE abort1
    <3>1. CASE UNCHANGED ndb
      BY <2>4, <3>1, Stutter DEF abort1, inst
    <3>2. CASE ~UNCHANGED ndb
      <4>1. /\ tx \in Handles /\ tx' = tx /\ UNCHANGED <<aborted, applied>>
            /\ NdbSet(tx, "free", Empty)
        BY <1>0, <2>4, <3>2 DEF abort1, inst
      <4>2. ndb'[tx].state = "free" /\ ndb'[tx].ops = Empty
        BY <1>0, <4>1, NdbSetAt
      <4>3. Phase' = "closing" /\ Gathered' = Empty
        BY <1>0, <4>1, <4>2 DEF Phase, Gathered
      <4>4. Phase = "open"
        BY <1>0, <2>4, <4>1, PhaseValue DEF HandleInv, abort1
      <4> QED
        BY <4>1, <4>3, <4>4 DEF B!Next, B!Drop, B!Pending, B!Nothing, Empty
    <3> QED
      BY <3>1, <3>2
  <2>5. CASE abort2
    <3>1. tx' = NoTx /\ UNCHANGED <<ndb, applied>> /\ aborted' \in BOOLEAN
      BY <2>5 DEF abort2, forgetHandle, cleanup, clearFlags
    <3>2. CASE tx = NoTx /\ (aborted <=> aborted')
      BY <3>1, <3>2 DEF B!vars, Phase, Gathered
    <3>3. CASE ~(tx = NoTx /\ (aborted <=> aborted'))
      <4>1. tx # NoTx => ndb[tx].state # "committed"
        BY <1>0, <2>5 DEF HandleInv, abort2
      <4> QED
        BY <3>1, <3>3, <4>1, Dropped DEF B!Next
    <3> QED
      BY <3>2, <3>3
  <2> QED
    BY <1>3, <2>1, <2>2, <2>3, <2>4, <2>5 DEF Query
<1>4. CASE ExecuteAll
  <2> USE DEF Rest, trace, Goto, GotoWith, Crash
  <2>1. CASE checkTransaction \/ buildResult \/ sendPage
    BY <2>1, Stutter DEF checkTransaction, buildResult, build_results, sendPage,
                         inst
  <2>2. CASE /\ commitOK \/ commitTemporaryError \/ handle_exec_error
             /\ UNCHANGED <<ndb, applied>>
    BY <2>2, Stutter DEF commitOK, commitTemporaryError, handle_exec_error, inst
  <2>5. CASE /\ commitOK \/ commitTemporaryError \/ handle_exec_error
             /\ ~UNCHANGED <<ndb, applied>>
    <3>1. /\ tx \in Handles /\ tx' = tx /\ Phase = "open" /\ Gathered = ndb[tx].ops
          /\ NdbSet(tx, "committed", Gathered) /\ applied' = Gathered
      <4>1. pc = "commit" /\ tx' = tx /\ \E a \in Answers : execute(a)
        BY <2>5 DEF commitOK, commitTemporaryError, handle_exec_error, inst,
                    Answers, Errors
      <4>2. /\ ndb[tx].state = "started" /\ NdbSet(tx, "committed", Gathered)
            /\ applied' = Gathered
        BY <2>5, <4>1 DEF execute
      <4> QED
        BY <1>0, <4>1, <4>2, PhaseValue DEF HandleInv
    <3>2. ndb'[tx].state = "committed" /\ ndb'[tx].ops = Gathered
      BY <1>0, <3>1, NdbSetAt
    <3>3. Phase' = "done" /\ Gathered' = Gathered
      BY <1>0, <3>1, <3>2 DEF Phase, Gathered
    <3>4. Gathered = B!Pending
      BY <1>0, GatheredType DEF Contents, B!Pending
    <3> QED
      BY <3>1, <3>3, <3>4 DEF B!Next, B!Commit
  <2>3. CASE cleanup1
    <3>1. /\ tx' = NoTx /\ tx # NoTx /\ UNCHANGED <<aborted, applied>>
          /\ aborted' \in BOOLEAN
      BY <1>0, <2>3 DEF cleanup1, HandleInv, TypeOK, TypeOfInstance
    <3>2. aborted' = FALSE
      BY <1>0, <2>3 DEF cleanup1, HandleInv
    <3> QED
      BY <3>1, <3>2, Dropped DEF B!Next
  <2>4. CASE cleanup2
    <3>1. tx = NoTx /\ tx' = NoTx /\ UNCHANGED applied /\ aborted' = FALSE
      BY <1>0, <2>4 DEF cleanup2, HandleInv, cleanup, clearFlags
    <3>2. CASE ~aborted
      BY <1>0, <3>1, <3>2 DEF B!vars, Phase, Gathered
    <3>3. CASE aborted
      BY <3>1, <3>3, Dropped DEF B!Next
    <3> QED
      BY <3>2, <3>3
  <2> QED
    BY <1>4, <2>1, <2>2, <2>3, <2>4, <2>5 DEF ExecuteAll
<1>5. CASE Restart
  <2>1. tx' = NoTx /\ UNCHANGED applied /\ aborted' = FALSE
    BY <1>5 DEF Restart
  <2>2. CASE tx = NoTx /\ ~aborted
    BY <1>0, <2>1, <2>2 DEF B!vars, Phase, Gathered
  <2>3. CASE ~(tx = NoTx /\ ~aborted)
    BY <2>1, <2>3, Dropped DEF B!Next
  <2> QED
    BY <2>2, <2>3
<1> QED
  BY <1>1, <1>2, <1>3, <1>4, <1>5 DEF Next

\* The batches of an instance are those of the abstract specification: all of
\* the operations gathered in i->tx are applied, once, or none is, and a batch
\* that was aborted takes no more (Query.cc:346-364, 526-538; Execute.cc:119-206).
THEOREM Refinement == Spec => ImplementsBatch
<1>1. Init => B!Init
  BY InitBatch
<1>2. IInv /\ [Next]_vars => [B!Next]_(B!vars)
  BY NextBatch
<1> QED
  BY <1>1, <1>2, Invariant, PTL DEF Spec, ImplementsBatch, B!Spec

-----------------------------------------------------------------------------
(* What a request has done when it ends: the outcomes of a plain request and *)
(* of a batch.                                                               *)

(* The inductive invariant, beside IInv. *)

\* ExecuteAll's locals before it starts and after it has returned.
FrameInv ==
  /\ pc \notin {"commit", "results", "cleanup1", "cleanup2", "crashed"} =>
       opn = 0 /\ my_results = NoBuf /\ ~apache_notes
  /\ pc = "commit" => opn = 0 /\ my_results = NoBuf /\ response_code = OK
  /\ pc \notin {"cleanup1", "cleanup2"} => ~must_restart
  /\ pc \notin {"commit", "results", "cleanup1", "cleanup2", "idle", "crashed"} =>
       applied = Empty /\ page = NoBuf /\ answer = "none"
  /\ pc = "commit" =>
       /\ page = NoBuf /\ answer \in {"none", "temporary"}
       /\ applied = IF ndb[tx].state = "committed" THEN ndb[tx].ops ELSE Empty
  /\ pc = "results" => applied = ndb[tx].ops /\ page = NoBuf /\ answer = "ok"

\* The notes of the first n reads: none of a later read, and after a success
\* the last one is its own.
Delivered(n) ==
  \A s \in Slots : s < n =>
    /\ notes[s] \in (0 .. s) \cup {NoBuf}
    /\ s = n - 1 /\ Succeeded => notes[s] = s

NotesInv ==
  /\ pc = "results" =>
       /\ opn <= n_read_ops
       /\ my_results = NoBuf \/ my_results < opn
       /\ response_code \in {OK, 404, 406, 500}
       /\ apache_notes => Delivered(opn)
  /\ pc \in {"cleanup1", "cleanup2"} /\ apache_notes /\ answer = "ok" =>
       Delivered(applied.reads)

\* A plain request on an instance without a batch.
Plain == ~req.sub /\ ~req.batch /\ req.alone

\* What PlainRequestIsAtomic says of such a request.
Atomic ==
  /\ Succeeded /\ slot # LocalOp => applied = OwnOperation /\ page \in {slot, NoBuf}
  /\ applied # Empty => applied = OwnOperation
  /\ req.method # "GET" /\ response_code >= 400 /\ applied # Empty =>
       answer \in Errors
  /\ IsWrite /\ Succeeded => applied = OwnOperation
  /\ IsWrite /\ answer = "ok" => Succeeded

\* It has the only slot, if it is a GET, and its operation is the only one in
\* the transaction, from setupOperation on.
PlainInv ==
  Plain =>
    /\ pc \in {"getTable", "method"} => ~batch
    /\ pc \in {"plan", "open", "index", "setup", "parts", "action", "execute",
               "commit", "results", "cleanup1", "cleanup2"} =>
         /\ req.method # "OTHER"
         /\ IF req.method = "GET" THEN slot = 0 /\ n_read_ops = 1
                                  ELSE slot = LocalOp /\ n_read_ops = 0
    /\ pc \in {"plan", "open", "index", "setup"} => Gathered = Empty
    /\ pc \in {"parts", "action", "execute", "commit", "results"} =>
         tx # NoTx /\ Gathered = OwnOperation
    /\ pc = "results" /\ n_read_ops = 0 => response_code = OK
    /\ pc \in InQuery => response_code \in {OK, 1, 404, 500}
    /\ pc \in {"cleanup1", "cleanup2", "idle", "crashed"} => Atomic
    /\ pc = "cleanup1" /\ must_restart => answer = "permanent"

OInv == IInv /\ FrameInv /\ NotesInv /\ PlainInv

-----------------------------------------------------------------------------
(* ExecuteAll's locals. *)

\* Nothing is committed before ExecuteAll has committed it, and its locals are
\* its own (Execute.cc:62-96).
LEMMA FrameNext == IInv /\ FrameInv /\ [Next]_vars => FrameInv'
<1> SUFFICES ASSUME IInv, FrameInv, [Next]_vars PROVE FrameInv'
  OBVIOUS
<1>1. CASE UNCHANGED vars
  BY <1>1 DEF vars, inst, exec, trace, FrameInv
<1>2. CASE Arrival
  <2>1. CASE ScriptStart \/ ScriptEnd
    BY <2>1 DEF ScriptStart, ScriptEnd, exec, trace, FrameInv
  <2>2. CASE \/ \E method \in Methods : ndb_handler(method)
             \/ ndb_exec_batch_handler
             \/ \E code \in {500, 503} : Unavailable(code)
    <3>1. /\ UNCHANGED exec /\ pc = "idle" /\ page' = NoBuf /\ applied' = Empty
          /\ answer' = "none"
          /\ pc' \in {"idle", "getTable", "execute"}
      BY <2>2 DEF ndb_handler, ndb_exec_batch_handler, Unavailable, NewRequest,
                  GotoWith, Return
    <3> QED
      BY <3>1 DEF exec, FrameInv
  <2> QED
    BY <1>2, <2>1, <2>2 DEF Arrival
<1>3. CASE Query
  <2>1. /\ UNCHANGED <<exec, page, applied, answer>> /\ pc \in InQuery
        /\ pc' \in InQuery \cup {"idle", "execute", "crashed"}
    BY <1>3 DEF Query, getTable, takeReadSlot, readFormData, readRequestBody,
       readRequestNote, checkMethod, choosePlan, openTransaction, findIndex,
       setupOperation, setKeyParts, opAction, abort1, abort2, InQuery,
       Untouched, Outside, Goto, GotoWith, Return, Crash
  <2> QED
    BY <2>1 DEF exec, FrameInv, InQuery
<1>4. CASE ExecuteAll
  <2> USE DEF Rest, exec, host, trace, Goto, GotoWith, Crash, FrameInv
  <2>1. CASE checkTransaction
    <3>1. tx # NoTx => ndb[tx].state = "started"
      BY <2>1 DEF checkTransaction, IInv, HandleInv
    <3> QED
      BY <2>1, <3>1 DEF checkTransaction, inst
  <2>2. CASE commitOK \/ commitTemporaryError \/ handle_exec_error
    <3>1. /\ pc = "commit" /\ tx' = tx /\ tx \in Handles
          /\ ndb[tx].state \in {"started", "committed"}
      BY <2>2 DEF commitOK, commitTemporaryError, handle_exec_error, inst, IInv,
                  HandleInv, TypeOK, TypeOfInstance
    <3>2. PICK a \in Answers : execute(a) /\ (pc' = "results" => a = "ok")
                              /\ (pc' = "commit" => a = "temporary")
      BY <2>2 DEF commitOK, commitTemporaryError, handle_exec_error, Answers, Errors
    <3>3. applied' = IF ndb'[tx].state = "committed" THEN ndb'[tx].ops ELSE Empty
      <4>1. tx # NoTx /\ Gathered = ndb[tx].ops
        BY <3>1 DEF Handles, NoTx, Gathered
      <4>2. CASE NdbSet(tx, "committed", Gathered) /\ applied' = Gathered
        BY <3>1, <4>1, <4>2, NdbSetAt DEF IInv
      <4>3. CASE UNCHANGED <<ndb, applied>>
        BY <3>1, <4>3
      <4> QED
        BY <3>2, <4>2, <4>3 DEF execute
    <3>4. pc' = "results" => ndb'[tx].state = "committed"
      BY <3>1, <3>2, ExecuteAt DEF IInv, Errors
    <3>5. answer' = a /\ page' = page /\ page = NoBuf
      BY <2>2, <3>1, <3>2 DEF execute, commitOK, commitTemporaryError,
                              handle_exec_error
    <3>6. /\ opn' = 0 /\ my_results' = NoBuf
          /\ pc' # "cleanup1" => ~must_restart'
          /\ pc' = "commit" => response_code' = OK
          /\ pc' \in {"commit", "results", "cleanup1"}
      BY <2>2, <3>1 DEF commitOK, commitTemporaryError, handle_exec_error
    <3> QED
      BY <3>1, <3>2, <3>3, <3>4, <3>5, <3>6
  <2>3. CASE buildResult \/ sendPage \/ cleanup1
    BY <2>3 DEF buildResult, build_results, sendPage, cleanup1, inst
  <2>4. CASE cleanup2
    BY <2>4 DEF cleanup2, ReturnFrame
  <2> QED
    BY <1>4, <2>1, <2>2, <2>3, <2>4 DEF ExecuteAll
<1>5. CASE Restart
  BY <1>5 DEF Restart, Goto, ReturnFrame, FrameInv
<1> QED
  BY <1>1, <1>2, <1>3, <1>4, <1>5 DEF Next

-----------------------------------------------------------------------------
(* The notes. *)

\* One turn of the loop of Execute.cc:148-194 delivers one more note.
LEMMA BuildDelivers ==
  ASSUME IInv, NotesInv, buildResult, pc' = "results"
  PROVE  /\ my_results' = NoBuf \/ my_results' < opn'
         /\ response_code' \in {OK, 404, 406, 500}
         /\ apache_notes => Delivered(opn)'
<1>0. /\ pc = "results" /\ opn < n_read_ops /\ opn' = opn + 1
      /\ opn \in Nat /\ n_read_ops \in Nat /\ Slots = 0 .. MaxReadOps - 1
      /\ n_read_ops <= MaxReadOps /\ MaxReadOps \in Nat /\ opn \in Slots
      /\ my_results \in Slots \cup {NoBuf} /\ NoBuf = -1
      /\ notes \in [Slots -> Slots \cup {NoBuf, NoNote}]
  BY InstanceAssumption DEF buildResult, IInv, TypeOK, TypeOfInstance,
     TypeOfExecuteAll, TypeOfOutcome, SlotInv, Slots, NoBuf
<1>1. data[opn].cols = "live"
  <2>1. ~aborted
    BY <1>0 DEF IInv, HandleInv, AbortedBatchHasNoTx
  <2> QED
    BY <1>0, <2>1 DEF IInv, SlotInv, Read
<1>2. /\ my_results' \in {my_results, opn}
      /\ response_code' \in {OK, 404, 406, 500}
      /\ response_code' = OK => my_results' = opn
      /\ notes' = IF apache_notes THEN [notes EXCEPT ![opn] = my_results'] ELSE notes
  BY <1>0, <1>1 DEF buildResult, build_results, GotoWith, Crash, noteNumber, OK
<1>3. my_results' = NoBuf \/ my_results' < opn'
  BY <1>0, <1>2 DEF NotesInv
<1>4. ASSUME apache_notes PROVE Delivered(opn)'
  <2>1. /\ notes'[opn] = my_results'
        /\ \A s \in Slots : s # opn => notes'[s] = notes[s]
    BY <1>0, <1>2, <1>4
  <2>2. Succeeded' <=> response_code' = OK
    BY <1>2 DEF Succeeded, OK
  <2>3. \A s \in Slots : s < opn => notes[s] \in (0 .. s) \cup {NoBuf}
    BY <1>0, <1>4 DEF NotesInv, Delivered
  <2> SUFFICES ASSUME NEW s \in Slots, s < opn'
               PROVE  /\ notes'[s] \in (0 .. s) \cup {NoBuf}
                      /\ s = opn' - 1 /\ Succeeded' => notes'[s] = s
    BY DEF Delivered
  <2>4. CASE s = opn
    BY <1>0, <1>2, <1>3, <2>1, <2>2, <2>4
  <2>5. CASE s # opn
    BY <1>0, <2>1, <2>3, <2>5
  <2> QED
    BY <2>4, <2>5
<1> QED
  BY <1>2, <1>3, <1>4

\* From the commit to cleanup2 the notes are those of the reads so far.
LEMMA NotesNext == IInv /\ FrameInv /\ NotesInv /\ [Next]_vars => NotesInv'
<1> SUFFICES ASSUME IInv, FrameInv, NotesInv, [Next]_vars PROVE NotesInv'
  OBVIOUS
<1>0. /\ n_read_ops \in Nat /\ opn \in Nat /\ applied \in Contents
      /\ my_results \in Slots \cup {NoBuf}
  BY DEF IInv, TypeOK, TypeOfInstance, TypeOfExecuteAll, TypeOfOutcome
<1>1. CASE UNCHANGED vars
  BY <1>1 DEF vars, inst, exec, host, trace, NotesInv, Delivered, Succeeded
<1>2. CASE Arrival \/ Query \/ Restart
  <2>1. pc' \notin {"results", "cleanup1", "cleanup2"}
    BY <1>2 DEF Arrival, ScriptStart, ScriptEnd, ndb_handler,
       ndb_exec_batch_handler, Unavailable, NewRequest, Query, getTable,
       takeReadSlot, readFormData, readRequestBody, readRequestNote, checkMethod,
       choosePlan, openTransaction, findIndex, setupOperation, setKeyParts,
       opAction, abort1, abort2, Restart, Goto, GotoWith, Return, Crash
  <2> QED
    BY <2>1 DEF NotesInv
<1>3. CASE ExecuteAll
  <2> USE DEF Rest, inst, exec, host, trace, Goto, GotoWith, Crash
  <2>1. CASE checkTransaction
    BY <2>1 DEF checkTransaction, NotesInv, FrameInv
  <2>2. CASE commitOK
    <3>1. /\ pc' = "results" /\ opn' = 0 /\ n_read_ops' = n_read_ops
          /\ my_results' = NoBuf /\ response_code' = OK
      BY <2>2 DEF commitOK, FrameInv
    <3>2. Delivered(0)'
      BY InstanceAssumption DEF Delivered, Slots
    <3> QED
      BY <1>0, <3>1, <3>2 DEF NotesInv
  <2>3. CASE commitTemporaryError \/ handle_exec_error
    <3>1. answer' # "ok" /\ pc' \in {"commit", "cleanup1"}
      BY <2>3 DEF commitTemporaryError, handle_exec_error, execute
    <3> QED
      BY <3>1 DEF NotesInv
  <2>4. CASE buildResult
    <3>1. CASE pc' = "crashed"
      BY <3>1 DEF NotesInv
    <3>2. CASE pc' # "crashed"
      <4>1. /\ pc = "results" /\ pc' = "results" /\ opn' = opn + 1 /\ opn < n_read_ops
            /\ UNCHANGED <<n_read_ops, apache_notes>>
        BY <2>4, <3>2 DEF buildResult, build_results
      <4> QED
        BY <1>0, <2>4, <4>1, BuildDelivers DEF NotesInv
    <3> QED
      BY <3>1, <3>2
  <2>5. CASE sendPage
    <3>1. /\ pc = "results" /\ pc' = "cleanup1" /\ opn >= n_read_ops
          /\ UNCHANGED <<notes, apache_notes, applied>>
          /\ apache_notes => response_code' = response_code
      BY <2>5 DEF sendPage
    <3>2. applied.reads = opn
      <4>1. ~aborted /\ applied = ndb[tx].ops /\ n_read_ops = ReadsHeld /\ tx # NoTx
        BY <3>1 DEF IInv, HandleInv, AbortedBatchHasNoTx, SlotInv, FrameInv
      <4> QED
        BY <1>0, <3>1, <4>1 DEF ReadsHeld, NotesInv
    <3> QED
      BY <1>0, <3>1, <3>2 DEF NotesInv, Delivered, Succeeded
  <2>6. CASE cleanup1
    BY <2>6 DEF cleanup1, NotesInv, Delivered, Succeeded, OK
  <2>7. CASE cleanup2
    BY <2>7 DEF cleanup2, NotesInv
  <2> QED
    BY <1>3, <2>1, <2>2, <2>3, <2>4, <2>5, <2>6, <2>7 DEF ExecuteAll
<1> QED
  BY <1>1, <1>2, <1>3 DEF Next

-----------------------------------------------------------------------------
(* Plain requests. *)

\* A request that reports no success and has committed nothing, or its own
\* operation in spite of an error.
LEMMA FailedIsAtomic ==
  ASSUME applied' \in {Empty, OwnOperation'}, response_code' \notin {OK, 204, 304},
         answer' # "ok", applied' # Empty => answer' \in Errors
  PROVE  Atomic'
BY DEF Atomic, Succeeded

\* A request arrives: the instance is clean, if it is plain.
LEMMA PlainArrival == IInv /\ FrameInv /\ PlainInv /\ Arrival => PlainInv'
<1> SUFFICES ASSUME IInv, FrameInv, PlainInv, Arrival PROVE PlainInv'
  OBVIOUS
<1> USE DEF NewRequest, GotoWith, Return, OK, InQuery
<1>1. CASE ScriptStart \/ ScriptEnd
  BY <1>1 DEF ScriptStart, ScriptEnd, trace, inst, exec, PlainInv, Plain,
              Atomic, Succeeded, OwnOperation, IsWrite
<1>2. CASE \E method \in Methods : ndb_handler(method)
  <2>1. PICK method \in Methods : ndb_handler(method)
    BY <1>2
  <2>2. /\ pc' = "getTable" /\ batch' = (batch \/ script) /\ response_code' = OK
        /\ req'.sub = script /\ req'.alone = ~batch
    BY <2>1 DEF ndb_handler
  <2> QED
    BY <2>2 DEF PlainInv, Plain
<1>3. CASE ndb_exec_batch_handler
  <2>1. req'.batch = TRUE
    BY <1>3 DEF ndb_exec_batch_handler
  <2> QED
    BY <2>1 DEF PlainInv, Plain
<1>4. CASE \E code \in {500, 503} : Unavailable(code)
  <2>1. /\ pc' = "idle" /\ applied' = Empty /\ answer' = "none"
        /\ response_code' \notin {OK, 204, 304}
    BY <1>4 DEF Unavailable
  <2> QED
    BY <2>1, FailedIsAtomic DEF PlainInv
<1> QED
  BY <1>1, <1>2, <1>3, <1>4 DEF Arrival

\* Query() gives a plain request the first slot, if it reads, and a
\* transaction of its own (Query.cc:225-551).
LEMMA PlainQuery == IInv /\ FrameInv /\ PlainInv /\ Query => PlainInv'
<1> SUFFICES ASSUME IInv, FrameInv, PlainInv, Query, Plain PROVE PlainInv'
  <2>1. Query => UNCHANGED req
    BY DEF Query, getTable, takeReadSlot, readFormData, readRequestBody,
       readRequestNote, checkMethod, choosePlan, openTransaction, findIndex,
       setupOperation, setKeyParts, opAction, abort1, abort2, Untouched, Outside
  <2> QED
    BY <2>1 DEF PlainInv, Plain
<1>0. /\ tx \in Handles \cup {NoTx} /\ NoTx \notin Handles /\ ~req.sub
      /\ (applied = Empty /\ page = NoBuf /\ answer = "none") \/ pc \notin InQuery
      /\ ndb \in [Handles -> NdbTransactions]
  BY DEF IInv, TypeOK, TypeOfInstance, Handles, NoTx, FrameInv, InQuery, Plain
<1> USE DEF Untouched, Outside, inst, exec, host, trace, Goto, GotoWith, Return,
            Crash, OK, NoAnswer, InQuery
<1>1. CASE getTable
  BY <1>0, <1>1, FailedIsAtomic DEF getTable, PlainInv, Plain
<1>2. CASE takeReadSlot
  <2>1. Clean
    BY <1>2 DEF takeReadSlot, PlainInv, IInv, CleanInv
  <2>2. CASE pc' = "plan"
    BY <1>2, <2>1, <2>2 DEF takeReadSlot, ReadSlotLeft, Clean, PlainInv, Gathered
  <2>3. CASE pc' # "plan"
    BY <1>0, <1>2, <2>3, FailedIsAtomic DEF takeReadSlot, PlainInv
  <2> QED
    BY <2>2, <2>3
<1>3. CASE readFormData \/ checkMethod
  <2>1. Clean /\ slot = LocalOp /\ UNCHANGED <<slot, n_read_ops, tx, ndb, req>>
    BY <1>3 DEF readFormData, readRequestBody, readRequestNote, checkMethod,
                PlainInv, IInv, CleanInv, SlotInv
  <2>2. CASE pc' = "plan"
    BY <1>3, <2>1, <2>2 DEF readFormData, readRequestBody, readRequestNote,
       checkMethod, Clean, PlainInv, Gathered
  <2>3. CASE pc' # "plan"
    BY <1>0, <1>3, <2>3, FailedIsAtomic DEF readFormData, readRequestBody,
       readRequestNote, checkMethod, PlainInv
  <2> QED
    BY <2>2, <2>3
<1>4. CASE choosePlan
  BY <1>4 DEF choosePlan, PlainInv, Gathered
<1>5. CASE openTransaction
  <2>1. CASE UNCHANGED <<tx, ndb>>
    BY <1>5, <2>1 DEF openTransaction, PlainInv, Gathered
  <2>2. CASE ~UNCHANGED <<tx, ndb>>
    <3>1. /\ tx' \in Handles /\ pc' = "index" /\ NdbSet(tx', "started", Empty)
      BY <1>5, <2>2 DEF openTransaction
    <3>2. Gathered' = Empty
      BY <1>0, <3>1, NdbSetAt DEF Gathered, IInv
    <3> QED
      BY <1>5, <3>1, <3>2 DEF openTransaction, PlainInv
  <2> QED
    BY <2>1, <2>2
<1>6. CASE findIndex
  <2>1. tx # NoTx
    BY <1>6 DEF findIndex, IInv, HandleInv
  <2> QED
    BY <1>6 DEF findIndex, PlainInv, Gathered
<1>7. CASE setupOperation
  <2>1. tx \in Handles
    BY <1>0, <1>7 DEF setupOperation, IInv, HandleInv
  <2>2. CASE pc' = "crashed"
    BY <1>0, <1>7, <2>2, FailedIsAtomic DEF setupOperation, PlainInv
  <2>3. CASE pc' # "crashed"
    <3>1. NdbSet(tx, "started", WithOperation(Gathered))
      BY <1>7, <2>3 DEF setupOperation
    <3>2. Gathered' = WithOperation(Gathered)
      BY <1>0, <1>7, <2>1, <3>1, NdbSetAt DEF setupOperation, Gathered, IInv
    <3>3. WithOperation(Gathered) = OwnOperation
      <4>1. Gathered = [reads |-> 0, wrote |-> FALSE]
        BY <1>7 DEF setupOperation, PlainInv, Empty
      <4> QED
        BY <4>1 DEF WithOperation, OwnOperation
    <3>4. OwnOperation' = OwnOperation
      BY <1>7 DEF setupOperation, OwnOperation
    <3>5. /\ UNCHANGED <<req, slot, n_read_ops, tx>> /\ pc = "setup"
          /\ \/ pc' = "parts" /\ response_code' = response_code
             \/ pc' = "abort1" /\ response_code' = 404
      BY <1>7, <2>3 DEF setupOperation
    <3> QED
      BY <1>0, <2>1, <3>2, <3>3, <3>4, <3>5 DEF PlainInv
  <2> QED
    BY <2>2, <2>3
<1>8. CASE setKeyParts
  <2>1. CASE pc' = "crashed"
    BY <1>0, <1>8, <2>1, FailedIsAtomic DEF setKeyParts, PlainInv
  <2>2. CASE pc' # "crashed"
    BY <1>8, <2>2 DEF setKeyParts, PlainInv, Gathered, OwnOperation
  <2> QED
    BY <2>1, <2>2
<1>9. CASE opAction
  <2>1. CASE pc' = "crashed"
    BY <1>0, <1>9, <2>1, FailedIsAtomic DEF opAction, PlainInv
  <2>2. CASE pc' # "crashed"
    <3>1. UNCHANGED <<tx, ndb, req, slot, n_read_ops>> /\ pc = "action"
          /\ \/ pc' = "execute"
             \/ pc' = "abort1" /\ response_code' \in {1, 500}
      BY <1>0, <1>9, <2>2 DEF opAction, keep_tx_open
    <3> QED
      BY <3>1 DEF PlainInv, Gathered, OwnOperation
  <2> QED
    BY <2>1, <2>2
<1>10. CASE abort1
  BY <1>0, <1>10, FailedIsAtomic DEF abort1, PlainInv
<1>11. CASE abort2
  <2>1. /\ pc' \in {"idle", "crashed"} /\ applied' = Empty /\ answer' = "none"
        /\ response_code' \notin {OK, 204, 304}
    BY <1>0, <1>11 DEF abort2, PlainInv
  <2> QED
    BY <2>1, FailedIsAtomic DEF PlainInv
<1> QED
  BY <1>1, <1>2, <1>3, <1>4, <1>5, <1>6, <1>7, <1>8, <1>9, <1>10, <1>11 DEF Query

\* ExecuteAll() commits that transaction at most once and answers for it
\* (Execute.cc:98-213).
LEMMA PlainExecute ==
  IInv /\ FrameInv /\ NotesInv /\ PlainInv /\ ExecuteAll => PlainInv'
<1> SUFFICES ASSUME IInv, FrameInv, NotesInv, PlainInv, ExecuteAll, Plain
             PROVE  PlainInv'
  <2>1. ExecuteAll => UNCHANGED req
    BY DEF ExecuteAll, checkTransaction, commitOK, commitTemporaryError,
       handle_exec_error, buildResult, sendPage, cleanup1, cleanup2, Rest
  <2> QED
    BY <2>1 DEF PlainInv, Plain
<1>0. /\ tx \in Handles \cup {NoTx} /\ NoTx \notin Handles
      /\ ndb \in [Handles -> NdbTransactions]
      /\ opn \in Nat /\ n_read_ops \in Nat /\ req.method \in Methods
  BY DEF IInv, TypeOK, TypeOfInstance, TypeOfRequest, TypeOfExecuteAll, Handles, NoTx
<1> USE DEF Rest, inst, exec, host, trace, Goto, GotoWith, Crash, OK, NoAnswer,
            InQuery
<1>1. CASE checkTransaction
  BY <1>1 DEF checkTransaction, PlainInv, Gathered, OwnOperation
<1>2. ASSUME NEW a \in Answers, execute(a), pc = "commit",
             UNCHANGED <<tx, req, slot, n_read_ops>>
      PROVE  /\ Gathered' = Gathered /\ tx' # NoTx /\ OwnOperation' = OwnOperation
             /\ applied' \in {Empty, OwnOperation'} /\ answer' = a
  <2>1. /\ tx \in Handles /\ ndb[tx].state \in {"started", "committed"}
        /\ Gathered = ndb[tx].ops
    BY <1>0, <1>2 DEF IInv, HandleInv, Gathered
  <2>2. Gathered' = Gathered
    BY <1>2, <2>1, ExecuteAt DEF IInv
  <2>3. Gathered = OwnOperation /\ OwnOperation' = OwnOperation
    BY <1>2 DEF PlainInv, OwnOperation
  <2>4. applied \in {Empty, Gathered}
    BY <1>2, <2>1 DEF FrameInv
  <2> QED
    BY <1>0, <1>2, <2>1, <2>2, <2>3, <2>4 DEF execute
<1>3. CASE commitOK
  <2>1. execute("ok") /\ pc = "commit" /\ pc' = "results"
        /\ UNCHANGED <<tx, req, slot, n_read_ops>> /\ response_code' = OK
        /\ "ok" \in Answers
    BY <1>3 DEF commitOK, FrameInv, Answers
  <2> QED
    BY <1>2, <2>1 DEF PlainInv
<1>4. CASE commitTemporaryError \/ handle_exec_error
  <2>1. PICK a \in Errors : execute(a) /\ (pc' = "cleanup1" /\ must_restart' => a = "permanent")
    BY <1>4 DEF commitTemporaryError, handle_exec_error, FrameInv, Errors
  <2>2. /\ pc = "commit" /\ pc' \in {"commit", "cleanup1"}
        /\ UNCHANGED <<tx, req, slot, n_read_ops>>
        /\ pc' = "cleanup1" => response_code' \notin {OK, 204, 304}
    BY <1>4 DEF commitTemporaryError, handle_exec_error, ErrorCodes
  <2>3. a \in Answers /\ a # "ok"
    BY <2>1 DEF Answers, Errors
  <2>4. /\ Gathered' = Gathered /\ tx' # NoTx /\ OwnOperation' = OwnOperation
        /\ applied' \in {Empty, OwnOperation'} /\ answer' = a
    BY <1>2, <2>1, <2>2, <2>3
  <2>5. pc' = "cleanup1" => Atomic'
    BY <2>1, <2>2, <2>3, <2>4, FailedIsAtomic
  <2> QED
    BY <2>1, <2>2, <2>4, <2>5 DEF PlainInv
<1>5. CASE buildResult
  <2>1. /\ pc = "results" /\ n_read_ops # 0 /\ pc' \in {"results", "crashed"}
        /\ UNCHANGED <<req, slot, n_read_ops, tx, ndb, applied, answer>>
    BY <1>0, <1>5 DEF buildResult, build_results
  <2>2. CASE pc' = "results"
    BY <1>0, <2>1, <2>2 DEF PlainInv, Gathered, OwnOperation
  <2>3. CASE pc' = "crashed"
    <3>1. response_code' = NoAnswer
      BY <1>5, <2>3 DEF buildResult, build_results
    <3>2. applied' = OwnOperation' /\ req'.method = "GET"
      BY <2>1 DEF PlainInv, FrameInv, Gathered, OwnOperation
    <3>3. Atomic'
      BY <3>1, <3>2 DEF Atomic, Succeeded, IsWrite
    <3> QED
      BY <2>3, <3>3 DEF PlainInv
  <2> QED
    BY <2>1, <2>2, <2>3
<1>6. CASE sendPage
  <2>1. /\ pc = "results" /\ pc' = "cleanup1"
        /\ UNCHANGED <<req, slot, n_read_ops, applied, answer, my_results, must_restart>>
        /\ ~must_restart /\ page = NoBuf
    BY <1>6 DEF sendPage, FrameInv
  <2>2. applied = OwnOperation /\ OwnOperation' = OwnOperation
    BY <1>0, <2>1 DEF PlainInv, FrameInv, Gathered, OwnOperation
  <2>3. page' \in {NoBuf, my_results}
    BY <1>6, <2>1 DEF sendPage
  <2>4. ASSUME req.method = "GET" PROVE page' \in {slot, NoBuf}
    <3>1. slot = 0 /\ n_read_ops = 1 /\ opn <= 1 /\ my_results \in Slots \cup {NoBuf}
          /\ (my_results = NoBuf \/ my_results < opn)
      BY <2>1, <2>4 DEF PlainInv, NotesInv, IInv, TypeOK, TypeOfExecuteAll
    <3>2. my_results \in {0, NoBuf}
      BY <1>0, <3>1, InstanceAssumption DEF Slots
    <3> QED
      BY <2>3, <3>1, <3>2
  <2>5. ASSUME req.method # "GET"
        PROVE  slot = LocalOp /\ response_code' \in {OK, 204}
    <3>1. slot = LocalOp /\ n_read_ops = 0 /\ response_code = OK /\ opn = 0
      BY <1>0, <2>1, <2>5 DEF PlainInv, NotesInv
    <3>2. my_results = NoBuf
      BY <2>1, <3>1, InstanceAssumption DEF NotesInv, IInv, TypeOK, TypeOfExecuteAll, Slots,
         NoBuf
    <3> QED
      BY <1>6, <3>1, <3>2 DEF sendPage
  <2>6. Atomic'
    BY <2>1, <2>2, <2>4, <2>5 DEF Atomic, Succeeded, IsWrite
  <2> QED
    BY <2>1, <2>6 DEF PlainInv
<1>7. CASE cleanup1
  <2>1. /\ pc = "cleanup1" /\ pc' = "cleanup2"
        /\ UNCHANGED <<req, slot, n_read_ops, page, applied, answer>>
    BY <1>7 DEF cleanup1
  <2>2. CASE must_restart /\ ForceRestart
    <3>1. response_code' = 503 /\ answer = "permanent"
      BY <1>7, <2>2 DEF cleanup1, PlainInv
    <3>2. applied' \in {Empty, OwnOperation'}
      BY <2>1 DEF PlainInv, Atomic, OwnOperation
    <3>3. Atomic'
      BY <2>1, <3>1, <3>2, FailedIsAtomic DEF Errors
    <3> QED
      BY <2>1, <3>3 DEF PlainInv
  <2>3. CASE ~(must_restart /\ ForceRestart)
    BY <1>7, <2>1, <2>3 DEF cleanup1, PlainInv, Atomic, Succeeded, OwnOperation, IsWrite
  <2> QED
    BY <2>2, <2>3
<1>8. CASE cleanup2
  <2>1. /\ pc = "cleanup2" /\ pc' \in {"idle", "crashed"}
        /\ UNCHANGED <<req, slot, page, applied, answer>>
        /\ response_code' \in {response_code, NoAnswer}
        /\ response_code' # response_code => cleanupReadsFreed
    BY <1>8 DEF cleanup2
  <2>2. IsWrite => response_code' = response_code
    <3>1. IsWrite => n_read_ops = 0
      BY <2>1 DEF PlainInv, IsWrite
    <3>2. n_read_ops = 0 => data[0] = Zeroed
      BY InstanceAssumption DEF IInv, SlotInv, Slots
    <3> QED
      BY <2>1, <3>1, <3>2 DEF cleanupReadsFreed, Zeroed
  <2> QED
    BY <2>1, <2>2 DEF PlainInv, Atomic, Succeeded, OwnOperation, IsWrite
<1> QED
  BY <1>1, <1>3, <1>4, <1>5, <1>6, <1>7, <1>8 DEF ExecuteAll

\* A plain request is alone with its operation, all the way.
LEMMA PlainNext ==
  IInv /\ FrameInv /\ NotesInv /\ PlainInv /\ [Next]_vars => PlainInv'
<1> SUFFICES ASSUME IInv, FrameInv, NotesInv, PlainInv, [Next]_vars PROVE PlainInv'
  OBVIOUS
<1> USE DEF InQuery
<1>1. CASE UNCHANGED vars
  BY <1>1 DEF vars, inst, exec, host, trace, PlainInv, Plain, Gathered, Atomic,
              Succeeded, OwnOperation, IsWrite
<1>2. CASE Restart
  <2>1. /\ pc = "crashed" /\ pc' = "idle"
        /\ UNCHANGED <<req, slot, page, applied, answer, response_code>>
    BY <1>2 DEF Restart, Goto
  <2> QED
    BY <2>1 DEF PlainInv, Plain, Atomic, Succeeded, OwnOperation, IsWrite
<1> QED
  BY <1>1, <1>2, PlainArrival, PlainQuery, PlainExecute DEF Next

-----------------------------------------------------------------------------
(* The theorems. *)

\* A new instance has served nobody, and every step keeps the invariant.
LEMMA OutcomeInvariant == Spec => []OInv
<1>1. Init => OInv
  <2> SUFFICES ASSUME Init PROVE OInv
    OBVIOUS
  <2>1. FrameInv /\ NotesInv
    BY DEF Init, FrameInv, NotesInv
  <2>2. PlainInv
    BY DEF Init, PlainInv, Atomic, Succeeded, OwnOperation, InQuery, OK, IsWrite
  <2> QED
    BY <2>1, <2>2, InitInv DEF OInv
<1>2. OInv /\ [Next]_vars => OInv'
  BY NextInv, FrameNext, NotesNext, PlainNext DEF OInv
<1> QED
  BY <1>1, <1>2, PTL DEF Spec

\* A plain request that reports success has committed exactly its own
\* operation, and shows only its own rows; a write that it reports as failed is
\* committed only if NDB has answered it with an error, and one that NDB has
\* confirmed is reported, however often it was retried (Query.cc:204-551,
\* Execute.cc:98-213).
THEOREM PlainSafety == Spec => []PlainRequestIsAtomic
<1>1. OInv => PlainRequestIsAtomic
  BY DEF OInv, PlainInv, Plain, Atomic, PlainRequestIsAtomic
<1> QED
  BY <1>1, OutcomeInvariant, PTL

\* A batch that NDB confirms leaves a note for each of its reads, never with
\* the result of a later read (Execute.cc:148-194).
THEOREM NotesSafety == Spec => []BatchDeliversNotes
<1>1. OInv => BatchDeliversNotes
  BY DEF OInv, NotesInv, Delivered, BatchDeliversNotes
<1> QED
  BY <1>1, OutcomeInvariant, PTL
=============================================================================
