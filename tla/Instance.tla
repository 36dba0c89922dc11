------------------------------ MODULE Instance ------------------------------
(***************************************************************************)
(* One ndb_instance (mod_ndb.h) and the thread that serves requests with   *)
(* it: ndb_handler and ndb_exec_batch_handler (handlers.cc), Query         *)
(* (Query.cc) and ExecuteAll (Execute.cc).                                 *)
(*                                                                         *)
(* A thread serves one main request at a time.  A main request is either a *)
(* plain HTTP request for an ndb-cluster or an ndb-exec-batch location, or *)
(* a script (PHP, SSI ...) that issues any number of subrequests for them. *)
(* The operations of the subrequests gather in the one open transaction of *)
(* the instance until a subrequest for the ndb-exec-batch location         *)
(* executes it.                                                            *)
(*                                                                         *)
(* The steps of Query and ExecuteAll are the program's, in its order; pc   *)
(* names the next one.  What the cluster answers (NDB API), what the       *)
(* configuration of the endpoint says (config::dir) and what the script    *)
(* does next is chosen by \E.                                              *)
(***************************************************************************)
EXTENDS Integers, FiniteSets

CONSTANTS
  MaxReadOps,    \* server_config->max_read_operations
  MaxRetryMs,    \* server_config->max_retry_ms
  ForceRestart,  \* server_config->force_restart
  MaxActiveTx    \* n of Ndb::init(n): transactions one Ndb object can hold

ASSUME InstanceAssumption ==
  /\ MaxReadOps \in Nat \ {0}
  /\ MaxRetryMs \in Nat
  /\ MaxActiveTx \in Nat \ {0}
  /\ ForceRestart \in BOOLEAN

OK == 0
NoAnswer == -1                 \* the client sees its connection closed

NoTx == 0                      \* the NULL NdbTransaction pointer
Handles == 1 .. MaxActiveTx

Slots == 0 .. MaxReadOps - 1   \* i->data[0 .. max_read_operations - 1]
LocalOp == -1                  \* Query's own local_data_op
NoBuf == -1                    \* my_results.buff == 0
NoNote == -2

Methods == {"GET", "POST", "DELETE", "OTHER"}

\* A data_operation: its result_cols array, and the MySQL::result objects
\* the array holds.  Zeroed is the bzero'ed structure.
Operations == [cols: {"null", "live", "freed"}, objs: {"none", "made"}]
Zeroed == [cols |-> "null", objs |-> "none"]

\* What an NdbTransaction holds: the number of reads defined in it, and
\* whether a write or delete is.
Contents == [reads: Nat, wrote: BOOLEAN]
Empty == [reads |-> 0, wrote |-> FALSE]

\* External: the NdbTransaction objects of one Ndb object.
NdbTransactions == [state: {"free", "started", "committed"}, ops: Contents]
Free == [state |-> "free", ops |-> Empty]

VARIABLES
  \* The ndb_instance.
  tx, n_read_ops, data, aborted, use_etag, jsonrequest,
  \* The Ndb object of the instance: its transactions.
  ndb,
  \* The request being served, the step it is at, Query's locals.
  pc, req, slot, response_code,
  \* ExecuteAll's locals; asleep is the time its last milliSleep() took.
  retries, total_wait_time, asleep, opn, my_results, must_restart, apache_notes,
  \* The script of the main request: is one running, are there subrequests
  \* since the last cleanup(), its Apache notes ndb_result_<n>.
  script, batch, notes,
  \* What the last request did: the page it sent, the contents it committed
  \* (Empty if none), whether its cleanup() dropped objects without deleting;
  \* and what NDB answered to the last execute() of the request.
  page, applied, orphans, answer

inst  == <<tx, n_read_ops, data, aborted, use_etag, jsonrequest>>
exec  == <<retries, total_wait_time, asleep, opn, my_results, must_restart,
           apache_notes>>
host  == <<script, batch, notes>>
trace == <<page, applied, orphans, answer>>
vars  == <<inst, ndb, pc, req, slot, response_code, exec, host, trace>>

Labels == {"idle", "getTable", "method", "plan", "open", "index", "setup",
           "parts", "action", "abort1", "abort2",
           "execute", "commit", "results", "cleanup1", "cleanup2",
           "crashed"}

\* getNdbError() after execute(Commit): none, or one of either status.
Errors == {"temporary", "permanent"}
Answers == {"none", "ok"} \cup Errors

Codes == {NoAnswer, OK, 1, 204, 304, 400, 403, 404, 405, 406, 409, 412, 500, 503}

TypeOfInstance ==
  /\ tx \in Handles \cup {NoTx}
  /\ n_read_ops \in 0 .. MaxReadOps
  /\ data \in [Slots -> Operations]
  /\ aborted \in BOOLEAN /\ use_etag \in BOOLEAN /\ jsonrequest \in BOOLEAN
  /\ ndb \in [Handles -> NdbTransactions]

TypeOfRequest ==
  /\ pc \in Labels
  /\ req \in [sub: BOOLEAN, method: Methods, batch: BOOLEAN, alone: BOOLEAN]
  /\ slot \in Slots \cup {LocalOp}
  /\ response_code \in Codes

TypeOfExecuteAll ==
  /\ retries \in Nat /\ total_wait_time \in Nat /\ asleep \in Nat
  /\ opn \in Nat
  /\ my_results \in Slots \cup {NoBuf}
  /\ must_restart \in BOOLEAN /\ apache_notes \in BOOLEAN

TypeOfOutcome ==
  /\ script \in BOOLEAN /\ batch \in BOOLEAN
  /\ notes \in [Slots -> Slots \cup {NoBuf, NoNote}]
  /\ page \in Slots \cup {NoBuf}
  /\ applied \in Contents
  /\ orphans \in BOOLEAN
  /\ answer \in Answers

TypeOK == TypeOfInstance /\ TypeOfRequest /\ TypeOfExecuteAll /\ TypeOfOutcome

-----------------------------------------------------------------------------
(* init_instance, and the thread before its first request. *)

init_instance ==
  /\ tx = NoTx
  /\ n_read_ops = 0
  /\ data = [s \in Slots |-> Zeroed]
  /\ aborted = FALSE /\ use_etag = FALSE /\ jsonrequest = FALSE
  /\ ndb = [h \in Handles |-> Free]

Init ==
  /\ init_instance
  /\ pc = "idle"
  /\ req = [sub |-> FALSE, method |-> "GET", batch |-> FALSE, alone |-> TRUE]
  /\ slot = LocalOp
  /\ response_code = OK
  /\ retries = 0 /\ total_wait_time = 0 /\ asleep = 0
  /\ opn = 0 /\ my_results = NoBuf
  /\ must_restart = FALSE /\ apache_notes = FALSE
  /\ script = FALSE /\ batch = FALSE
  /\ notes = [s \in Slots |-> NoNote]
  /\ page = NoBuf /\ applied = Empty /\ orphans = FALSE /\ answer = "none"

-----------------------------------------------------------------------------
(* External: what a call of the NDB API does to a transaction object. *)

NdbSet(h, state, ops) == ndb' = [ndb EXCEPT ![h] = [state |-> state, ops |-> ops]]

\* What i->tx holds.
Gathered == IF tx = NoTx THEN Empty ELSE ndb[tx].ops

\* execute(Commit) of i->tx, and its getNdbError().  NDB commits a transaction
\* at most once, and answers that it has only if it has.  An error leaves it
\* open: besides those of a transaction that was aborted there are an unknown
\* result, a committed transaction whose reads did not all arrive, and a read
\* that found no row beside writes that were committed.
execute(reported) ==
  /\ answer' = reported
  /\ \/ ndb[tx].state = "started" /\ NdbSet(tx, "committed", Gathered)
        /\ applied' = Gathered
     \/ /\ ndb[tx].state = "committed" \/ reported \in Errors
        /\ UNCHANGED <<ndb, applied>>

-----------------------------------------------------------------------------
(* Control. *)

Goto(l) == pc' = l /\ UNCHANGED response_code

Return(code) == pc' = "idle" /\ response_code' = code

GotoWith(code, l) == pc' = l /\ response_code' = code

\* The child process dies; Restart is Apache starting another one.
Crash == GotoWith(NoAnswer, "crashed")

\* qsource.keep_tx_open
keep_tx_open == req.sub

\* A subrequest's r->method_number is always M_GET; qsource.req_method is
\* what the script asked for.
method_number == IF req.sub THEN "GET" ELSE req.method

-----------------------------------------------------------------------------
(* Requests arriving at the thread. *)

\* External: Apache starts and ends a main request that runs a script.
ScriptStart ==
  /\ pc = "idle" /\ ~script
  /\ script' = TRUE
  /\ UNCHANGED <<inst, ndb, pc, req, slot, response_code, exec, batch, notes,
                 trace>>

ScriptEnd ==
  /\ pc = "idle" /\ script
  /\ script' = FALSE
  /\ notes' = [s \in Slots |-> NoNote]
  /\ UNCHANGED <<inst, ndb, pc, req, slot, response_code, exec, batch, trace>>

\* alone: no earlier subrequest has left an operation in the instance.
NewRequest(sub, method, isBatch) ==
  /\ pc = "idle"
  /\ sub = script
  /\ req' = [sub |-> sub, method |-> method, batch |-> isBatch,
              alone |-> ~batch]
  /\ slot' = LocalOp
  /\ page' = NoBuf /\ applied' = Empty /\ orphans' = FALSE /\ answer' = "none"
  /\ UNCHANGED <<inst, ndb, exec, script, notes>>

\* An Apache_subrequest_query_source knows GET, POST and DELETE only.
ndb_handler(method) ==
  /\ script => method # "OTHER"
  /\ NewRequest(script, method, FALSE)
  /\ batch' = (batch \/ script)
  /\ GotoWith(OK, "getTable")

ndb_exec_batch_handler ==
  /\ NewRequest(script, "GET", TRUE)
  /\ UNCHANGED batch
  /\ GotoWith(OK, "execute")

\* A request answered before it reaches the instance: no database or table
\* is configured (500), or my_instance() finds no connection (503).
Unavailable(code) ==
  /\ NewRequest(script, "GET", FALSE)
  /\ UNCHANGED batch
  /\ Return(code)

-----------------------------------------------------------------------------
(* ndb_instance::cleanup().  It deletes the result objects of data[0] only *)
(* and zeroes the structures in use.                                       *)

\* bzero(data, n_read_ops * sizeof(struct data_operation))
InUse_OneShort(s) == s < n_read_ops - 1          \* mutant
InUse(s) == s < n_read_ops

clearFlags_NotJson ==                             \* mutant
  aborted' = FALSE /\ use_etag' = FALSE /\ UNCHANGED jsonrequest
clearFlags == aborted' = FALSE /\ use_etag' = FALSE /\ jsonrequest' = FALSE

cleanup ==
  /\ orphans' = \E s \in 1 .. n_read_ops - 1 : data[s].objs = "made"
  /\ data' = [s \in Slots |-> IF InUse(s) THEN Zeroed ELSE data[s]]
  /\ n_read_ops' = 0
  /\ clearFlags
  /\ batch' = FALSE

\* cleanup() walks data[0].result_cols: undefined if it has been freed.
cleanupReadsFreed == data[0].cols = "freed"

DataSet(s, cols, objs) == data' = [data EXCEPT ![s] = [cols |-> cols, objs |-> objs]]

-----------------------------------------------------------------------------
(* Query().  What a step leaves alone, in most of its disjuncts: *)

Outside == <<req, exec, script, notes, page, applied, answer>>
Untouched == <<Outside, batch, orphans>>

getTable ==
  /\ pc = "getTable"
  /\ \/ Goto("method")
     \/ Return(500)                       \* "Cannot find table": stats.errors++
  /\ UNCHANGED <<inst, ndb, slot, Untouched>>

\* switch(qsource.req_method), case M_GET: take the next data_operation.
ReadSlotLeft_OneMore == n_read_ops <= MaxReadOps  \* mutant
ReadSlotLeft == n_read_ops < MaxReadOps

takeReadSlot ==
  /\ pc = "method" /\ req.method = "GET"
  /\ \/ /\ ReadSlotLeft
        /\ slot' = n_read_ops
        /\ n_read_ops' = n_read_ops + 1
        /\ \E dir_use_etags \in BOOLEAN : use_etag' = (use_etag \/ dir_use_etags)
        /\ DataSet(n_read_ops, "live", "none")
        /\ Goto("plan")
     \/ /\ ~ReadSlotLeft                  \* "Too many read operations"
        /\ Return(500)
        /\ UNCHANGED <<slot, n_read_ops, use_etag, data>>
  /\ UNCHANGED <<tx, aborted, jsonrequest, ndb, Untouched>>

\* case M_POST: get_form_data().  An HTTP request's body may be refused (400
\* stands for all the codes); a multipart body is an assertion's failure, and
\* an empty one leaves no buffer to read.
readRequestBody ==
  /\ ~req.sub
  /\ Goto("plan") \/ Return(400) \/ Crash

\* A subrequest's data is in a note of the main request.  It is dereferenced
\* when it is missing, too.
readRequestNote ==
  /\ req.sub
  /\ Goto("plan") \/ Crash

readFormData ==
  /\ pc = "method" /\ req.method = "POST"
  /\ readRequestBody \/ readRequestNote
  /\ UNCHANGED <<inst, ndb, slot, Untouched>>

\* case M_DELETE and default.
checkMethod ==
  /\ pc = "method" /\ req.method \in {"DELETE", "OTHER"}
  /\ \/ req.method = "DELETE" /\ Goto("plan")
     \/ Return(405)
  /\ UNCHANGED <<inst, ndb, slot, Untouched>>

\* The access plan: planned is dir->flag.table_scan || active_index >= 0.
choosePlan ==
  /\ pc = "plan"
  /\ \E planned \in BOOLEAN :
       IF method_number = "GET" /\ ~planned THEN GotoWith(404, "abort2")
                                            ELSE Goto("open")
  /\ UNCHANGED <<inst, ndb, slot, Untouched>>

\* Open a transaction, if one is not already open.  startTransaction() may
\* fail at any time, and does when the Ndb object has no transaction left.
AlreadyAborted_NotChecked == FALSE                \* mutant
AlreadyAborted == aborted

openTransaction ==
  /\ pc = "open"
  /\ \/ tx # NoTx /\ Goto("index") /\ UNCHANGED <<tx, ndb>>
     \/ tx = NoTx /\ AlreadyAborted /\ GotoWith(500, "abort2") /\ UNCHANGED <<tx, ndb>>
     \/ /\ tx = NoTx /\ ~AlreadyAborted
        /\ \/ \E h \in Handles :
                /\ ndb[h].state = "free"
                /\ tx' = h
                /\ NdbSet(h, "started", Empty)
                /\ Goto("index")
           \/ GotoWith(500, "abort1") /\ UNCHANGED <<tx, ndb>>
  /\ UNCHANGED <<n_read_ops, data, aborted, use_etag, jsonrequest, slot,
                 Untouched>>

\* The index of the plan, looked up in the dictionary.
findIndex ==
  /\ pc = "index"
  /\ \/ Goto("setup")
     \/ GotoWith(500, "abort1")           \* bad_index, or no driving index
     \/ Goto("abort1")                    \* an index of the wrong type
  /\ UNCHANGED <<inst, ndb, slot, Untouched>>

\* get_ndb_operation() of the plan's index_object.
WithOperation(ops) ==
  IF req.method = "GET" THEN [reads |-> ops.reads + 1, wrote |-> ops.wrote]
                        ELSE [reads |-> ops.reads, wrote |-> TRUE]

\* get_ndb_operation() defines the operation in i->tx (a NULL answer is not
\* checked for), then op_setup().
setupOperation ==
  /\ pc = "setup"
  /\ \/ /\ NdbSet(tx, "started", WithOperation(Gathered))
        /\ \/ Goto("parts")
           \/ GotoWith(404, "abort1")
     \/ Crash /\ UNCHANGED ndb
  /\ UNCHANGED <<inst, slot, Untouched>>

\* Key parts, constants and filters, of which a column that the table does not
\* have is dereferenced; then the JSONRequest flag.
setKeyParts ==
  /\ pc = "parts"
  /\ \/ Goto("action") /\ \E json \in BOOLEAN :
                            /\ json => ~req.sub
                            /\ jsonrequest' = (jsonrequest \/ json)
     \/ GotoWith(500, "abort1") /\ UNCHANGED jsonrequest
     \/ Crash /\ UNCHANGED jsonrequest
  /\ UNCHANGED <<tx, n_read_ops, data, aborted, use_etag, ndb, slot, Untouched>>

\* op_action: Plan::Read creates the result objects, Plan::Write may fail
\* (its initial value 1 is returned when there is no column to set),
\* Plan::Delete does nothing.  Read dereferences a column that the table does
\* not have, Write a BLOB handle that it did not get.
opAction ==
  /\ pc = "action"
  /\ \/ /\ IF slot = LocalOp THEN UNCHANGED data
                             ELSE DataSet(slot, data[slot].cols, "made")
        /\ IF keep_tx_open THEN Return(OK) ELSE GotoWith(OK, "execute")
     \/ /\ req.method = "POST"
        /\ \E code \in {1, 500} : GotoWith(code, "abort1")
        /\ UNCHANGED data
     \/ req.method \in {"GET", "POST"} /\ Crash /\ UNCHANGED data
  /\ UNCHANGED <<tx, n_read_ops, aborted, use_etag, jsonrequest, ndb, slot,
                 Untouched>>

\* abort1: i->tx->close().
abort1 ==
  /\ pc = "abort1"
  /\ \/ tx = NoTx /\ Crash /\ UNCHANGED ndb
     \/ tx # NoTx /\ NdbSet(tx, "free", Empty) /\ Goto("abort2")
  /\ UNCHANGED <<inst, slot, Untouched>>

\* abort2: a subrequest marks the batch as aborted and delete[]s the pool
\* memory of its result_cols, which data[slot] still points to; a plain
\* request cleans the instance up, after which there is nothing to delete.
forgetHandle_Kept == UNCHANGED tx                 \* mutant
forgetHandle == tx' = NoTx

abort2 ==
  /\ pc = "abort2"
  /\ LET code == IF response_code = OK THEN 500 ELSE response_code IN
       \/ Return(code)
       \/ Crash /\ IF keep_tx_open THEN slot # LocalOp ELSE cleanupReadsFreed
  /\ forgetHandle
  /\ IF keep_tx_open
     THEN /\ aborted' = TRUE
          /\ IF slot = LocalOp THEN UNCHANGED data
                               ELSE DataSet(slot, "freed", data[slot].objs)
          /\ UNCHANGED <<n_read_ops, use_etag, jsonrequest, batch, orphans>>
     ELSE cleanup
  /\ UNCHANGED <<ndb, slot, Outside>>

-----------------------------------------------------------------------------
(* ExecuteAll().  A subrequest writes its results to the notes of the main *)
(* request, unless the script has set the note ndb_send_result.            *)

Rest == <<req, slot, host>>

checkTransaction ==
  /\ pc = "execute"
  /\ IF tx = NoTx
     THEN GotoWith(400, "cleanup2") /\ UNCHANGED apache_notes
     ELSE /\ GotoWith(OK, "commit")
          /\ \E send_result \in BOOLEAN :
               apache_notes' = (req.sub /\ ~send_result)
  /\ UNCHANGED <<inst, ndb, retries, total_wait_time, asleep, opn, my_results,
                 must_restart, trace, Rest>>

sleep_ms == 5 + 2 * retries * retries

\* milliSleep(): tv_usec is given (ms % 1000) * 1000000.  select() either
\* takes that for ms % 1000 seconds or refuses it.
milliSleep(ms) == {(ms \div 1000) * 1000 + (ms % 1000) * 1000, 0}

accountRetry_Global ==                            \* mutant: i->stats only
  UNCHANGED <<total_wait_time, retries>>
accountRetry ==
  /\ total_wait_time' = total_wait_time + sleep_ms
  /\ retries' = retries + 1

\* exec_commit: the transaction is executed and committed.
commitOK ==
  /\ pc = "commit"
  /\ execute("ok")
  /\ Goto("results")
  /\ UNCHANGED <<inst, exec, page, orphans, Rest>>

\* A temporary error is tried again with the same transaction, whether or not
\* it was committed.
commitTemporaryError ==
  /\ pc = "commit"
  /\ execute("temporary")
  /\ \/ /\ total_wait_time + sleep_ms < MaxRetryMs
        /\ accountRetry
        /\ asleep' \in milliSleep(sleep_ms)
        /\ Goto("commit")
     \/ /\ total_wait_time + sleep_ms >= MaxRetryMs
        /\ GotoWith(503, "cleanup1")
        /\ UNCHANGED <<total_wait_time, retries, asleep>>
  /\ UNCHANGED <<inst, opn, my_results, must_restart, apache_notes, page,
                 orphans, Rest>>

\* handle_exec_error(): the code for each class of error; must_restart for
\* the schema errors of a stale dictionary.
ErrorCodes_SchemaPasses == {OK, 403, 404, 409}    \* mutant
ErrorCodes == {403, 404, 409, 500}

handle_exec_error ==
  /\ pc = "commit"
  /\ execute("permanent")
  /\ \E code \in ErrorCodes, stale \in BOOLEAN :
       /\ stale => code = 500
       /\ must_restart' = stale
       /\ GotoWith(code, "cleanup1")
  /\ UNCHANGED <<inst, retries, total_wait_time, asleep, opn, my_results,
                 apache_notes, page, orphans, Rest>>

\* set_note(): the number in the name of the note.
noteNumber_Reversed == n_read_ops - 1 - opn       \* mutant
noteNumber == opn

\* build_results(): the page of an operation has rows, or a scan found none.
build_results == {OK, 404}

\* One turn of the loop over the operations.  A page that asks for a result
\* object or contents that are not there ends the child.
buildResult ==
  /\ pc = "results" /\ opn < n_read_ops
  /\ IF data[opn].cols = "null"
     THEN Goto("results") /\ UNCHANGED <<my_results, notes>>
     ELSE \/ Crash /\ UNCHANGED <<my_results, notes>>
          \/ /\ \/ /\ jsonrequest                \* a format that is not JSON
                   /\ GotoWith(406, "results")
                   /\ UNCHANGED my_results
                \/ /\ my_results' = opn
                   /\ \E code \in build_results : GotoWith(code, "results")
                \/ /\ GotoWith(500, "results")   \* Results_raw(): no contents
                   /\ UNCHANGED my_results
             /\ notes' = IF apache_notes
                         THEN [notes EXCEPT ![noteNumber] = my_results'] ELSE notes
  /\ opn' = opn + 1
  /\ UNCHANGED <<inst, ndb, retries, total_wait_time, asleep, must_restart,
                 apache_notes, script, batch, req, slot, trace>>

\* The result page of a request that does not use notes.
sendPage ==
  /\ pc = "results" /\ opn >= n_read_ops
  /\ \/ /\ response_code # OK \/ apache_notes
        /\ Goto("cleanup1") /\ UNCHANGED page
     \/ /\ response_code = OK /\ ~apache_notes
        /\ \/ my_results = NoBuf /\ ~jsonrequest /\ GotoWith(204, "cleanup1")
           \/ my_results = NoBuf /\ jsonrequest /\ GotoWith(OK, "cleanup1")
           \/ my_results # NoBuf /\ GotoWith(OK, "cleanup1")
           \/ /\ my_results # NoBuf /\ use_etag
              /\ \E code \in {304, 412} : GotoWith(code, "cleanup1")
        /\ page' = IF response_code' = OK THEN my_results ELSE page
  /\ UNCHANGED <<inst, ndb, exec, applied, orphans, answer, Rest>>

\* cleanup1: the error page, a restart of Apache for a stale dictionary,
\* i->tx->close().
cleanup1 ==
  /\ pc = "cleanup1"
  /\ IF must_restart /\ ForceRestart THEN GotoWith(503, "cleanup2")
                                     ELSE Goto("cleanup2")
  /\ NdbSet(tx, "free", Empty)
  /\ tx' = NoTx
  /\ UNCHANGED <<n_read_ops, data, aborted, use_etag, jsonrequest, exec, trace,
                 Rest>>

\* ExecuteAll's locals go with its frame; here they take their initial value.
ReturnFrame ==
  /\ retries' = 0 /\ total_wait_time' = 0 /\ asleep' = 0
  /\ opn' = 0 /\ my_results' = NoBuf
  /\ must_restart' = FALSE /\ apache_notes' = FALSE

cleanup2 ==
  /\ pc = "cleanup2"
  /\ \/ Goto("idle")
     \/ cleanupReadsFreed /\ Crash
  /\ cleanup
  /\ ReturnFrame
  /\ UNCHANGED <<tx, ndb, req, slot, script, notes, page, applied, answer>>

\* External: Apache replaces a child that died.
Restart ==
  /\ pc = "crashed"
  /\ Goto("idle")
  /\ tx' = NoTx /\ n_read_ops' = 0 /\ data' = [s \in Slots |-> Zeroed]
  /\ aborted' = FALSE /\ use_etag' = FALSE /\ jsonrequest' = FALSE
  /\ ndb' = [h \in Handles |-> Free]
  /\ script' = FALSE /\ batch' = FALSE
  /\ notes' = [s \in Slots |-> NoNote]
  /\ orphans' = FALSE
  /\ UNCHANGED <<req, slot, page, applied, answer>>
  /\ ReturnFrame

-----------------------------------------------------------------------------
(* The specification. *)

Arrival ==
  \/ ScriptStart
  \/ ScriptEnd
  \/ \E method \in Methods : ndb_handler(method)
  \/ ndb_exec_batch_handler
  \/ \E code \in {500, 503} : Unavailable(code)

Query ==
  \/ getTable \/ takeReadSlot \/ readFormData \/ checkMethod
  \/ choosePlan \/ openTransaction \/ findIndex \/ setupOperation
  \/ setKeyParts \/ opAction \/ abort1 \/ abort2

ExecuteAll ==
  \/ checkTransaction \/ commitOK \/ commitTemporaryError
  \/ handle_exec_error \/ buildResult \/ sendPage \/ cleanup1 \/ cleanup2

Next == Arrival \/ Query \/ ExecuteAll \/ Restart

\* The thread runs, the cluster answers every call of the NDB API, and
\* Apache replaces a dead child; nobody has to send a request.
Spec == Init /\ [][Next]_vars /\ WF_vars(Query \/ ExecuteAll \/ Restart)

-----------------------------------------------------------------------------
(* Properties. *)

\* Query (Query.cc:349-364, 526-538) and ExecuteAll use i->tx long after it
\* was opened, by another request.  Whatever the order of requests and
\* failures, the handle they use is that of a transaction that is open and has
\* not been executed, except by the retry loop itself (Execute.cc:120-135);
\* only between close() and i->tx = 0 is it stale.  And no transaction other
\* than i->tx is ever committed.
HandleIsUsable ==
  /\ tx # NoTx /\ pc \notin {"abort2", "commit", "results", "cleanup1", "crashed"}
       => ndb[tx].state = "started"
  /\ pc = "commit" /\ ndb[tx].state # "started" => answer = "temporary"
  /\ pc = "results" => ndb[tx].state = "committed"
  /\ pc \in {"setup", "parts", "action", "commit", "cleanup1"} => tx # NoTx
  /\ \A h \in Handles : ndb[h].state = "committed" => h = tx

\* Query.cc:534: "every other op in the tx will see this and fail".  A batch
\* in which an operation failed has no transaction until it is cleaned up,
\* so that none of its operations, earlier or later, can be committed.
AbortedBatchHasNoTx == aborted => tx = NoTx

\* The loop of Execute.cc:148 takes data[0 .. n_read_ops - 1] for the reads of
\* the transaction it has just committed: they are exactly these, each with
\* its result objects, and the structures above are zero, as takeReadSlot and
\* cleanup() (which always reads data[0]) rely on.
SlotsAreTheReads ==
  /\ tx # NoTx /\ pc \in {"idle", "execute", "commit", "results"} =>
       /\ n_read_ops = ndb[tx].ops.reads
       /\ \A s \in Slots : s < n_read_ops =>
            data[s] = [cols |-> "live", objs |-> "made"]
  /\ \A s \in Slots : s >= n_read_ops => data[s] = Zeroed
  /\ pc = "idle" /\ tx = NoTx /\ ~aborted => n_read_ops = 0

\* A request leaves nothing behind in the instance, which the next client's
\* request is going to use: unless subrequests have gathered operations that
\* were not executed yet, the instance is as init_instance() made it.
CleanBetweenRequests ==
  pc = "idle" /\ ~batch =>
    /\ tx = NoTx /\ n_read_ops = 0
    /\ ~aborted /\ ~use_etag /\ ~jsonrequest
    /\ data = [s \in Slots |-> Zeroed]

\* A plain request on a clean instance has its own operation committed or
\* nothing, however often it was retried.  When it reports success it is its
\* operation (and a page it sends holds the rows of its own read).  When it
\* reports that a write failed, the write may have been committed all the same
\* only if execute() has answered an error (Execute.cc:123-145); whatever failed
\* before has applied nothing.  A write that NDB has confirmed is reported.
Succeeded == response_code \in {OK, 204, 304}
IsWrite == req.method \in {"POST", "DELETE"}
OwnOperation == IF req.method = "GET" THEN [reads |-> 1, wrote |-> FALSE]
                                      ELSE [reads |-> 0, wrote |-> TRUE]

PlainRequestIsAtomic ==
  pc = "idle" /\ ~req.sub /\ ~req.batch /\ req.alone =>
    /\ Succeeded /\ slot # LocalOp => applied = OwnOperation /\ page \in {slot, NoBuf}
    /\ applied # Empty => applied = OwnOperation
    /\ req.method # "GET" /\ response_code >= 400 /\ applied # Empty =>
         answer \in Errors
    /\ IsWrite /\ Succeeded => applied = OwnOperation
    /\ IsWrite /\ answer = "ok" => Succeeded

\* A batch executed by a script hands every read of its transaction a note
\* (Execute.cc:148-156), if NDB has confirmed it.  A note never holds the result
\* of a later read or of another batch, and after a success the last read's note
\* is its own.
BatchDeliversNotes ==
  pc = "cleanup2" /\ apache_notes /\ answer = "ok" =>
    \A s \in Slots : s < applied.reads =>
      /\ notes[s] \in (0 .. s) \cup {NoBuf}
      /\ s = applied.reads - 1 /\ Succeeded => notes[s] = s

\* The batches of the instance are those Batch describes: all or nothing,
\* whatever order of requests, subrequests and failures fills them, and however
\* often the retry loop executes one.
Phase ==
  CASE tx = NoTx /\ aborted -> "aborted"
    [] tx = NoTx /\ ~aborted -> "none"
    [] tx # NoTx /\ ndb[tx].state = "started"   -> "open"
    [] tx # NoTx /\ ndb[tx].state = "committed" -> "done"
    [] tx # NoTx /\ ndb[tx].state = "free"      -> "closing"

B == INSTANCE Batch WITH phase <- Phase, reads <- Gathered.reads,
                         wrote <- Gathered.wrote
ImplementsBatch == B!Spec

\* Every request is answered, whatever the cluster reports and however often
\* (the loop of Execute.cc:120-139), or the child dies with it.
EveryRequestIsAnswered == pc # "idle" ~> pc \in {"idle", "crashed"}

-----------------------------------------------------------------------------
(* What comments and documents say that the code does not do. *)

\* Query.cc:346-347: opening a transaction "creates an obligation to close it
\* later, using tx->close()".  Here: every open transaction is the one i->tx
\* refers to, so that cleanup1 or abort1 will close it.
OpenTransactionIsHeld ==
  \A h \in Handles : ndb[h].state # "free" => h = tx

\* config.cc:878 on ndb-retry-ms: "Milliseconds to spend re-trying a
\* transaction before returning 503 error."
RetriesWithinLimit == asleep <= MaxRetryMs

\* Execute.cc:211: cleanup() will "Clear all used operations".
NoOrphanedResults == ~orphans

\* Architecture.graffle:9825: the execute handler iterates "over the all the
\* operations (from 0 to n_read_ops), storing the results in the Apache notes
\* table".  Here: a note that holds a result holds that of its own operation.
NotesAreOwnResults ==
  \A s \in Slots : notes[s] \in {s, NoBuf, NoNote}

=============================================================================
