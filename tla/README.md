# Verification of mod_ndb

mod_ndb is an Apache module that turns HTTP requests into operations on a MySQL
Cluster through the NDB API: a `<Location>` of `httpd.conf` names a table, its
indexes and its columns, and a GET, POST or DELETE on it reads, writes or deletes
rows. This directory holds TLA+ models of the module, TLC configurations that
check them on small instances, and TLAPS proofs of the properties of its core.
Paths below are relative to the source tree `src/`.

1. [Inventory of the system](#1-inventory-of-the-system)
2. [The modules and what they model](#2-the-modules-and-what-they-model)
3. [Runs, properties and bounds](#3-runs-properties-and-bounds)
4. [Fairness and deadlock](#4-fairness-and-deadlock)
5. [Proofs](#5-proofs)
6. [Where the code departs from its comments](#6-where-the-code-departs-from-its-comments)
7. [What is not modelled](#7-what-is-not-modelled)
8. [Plan](#8-plan)

## 1. Inventory of the system

| Component | State | Operations | What makes it correct |
|---|---|---|---|
| `ndb_instance` (`mod_ndb.h`) | one `Ndb` object, the open transaction `tx`, the array `data` of read operations with `n_read_ops`, the flags `aborted`, `use_etag`, `jsonrequest` | `cleanup()` | used by one thread only; nothing survives from one client's request to the next, except the batch a script is filling |
| Handlers (`handlers.cc`) | none | `ndb_handler`, `ndb_exec_batch_handler`; status, dump and configuration check | a request gets an instance or an error |
| `Query()` (`Query.cc`, `index_object.h`) | its locals: the query source, the operation's slot, the response code | method, form data, access plan, transaction, index, key parts, action; `abort1`, `abort2` | the handle it uses is alive; a failed operation takes its whole batch with it; the index and the values of the key are those the section declares |
| `ExecuteAll()` (`Execute.cc`) | its locals: retries, waiting time, result buffer, loop counter | commit with retries, results, notes or page, cleanup | one commit, results from the reads of that commit, an end to the retries |
| Query sources, request bodies (`query_source.cc`, `request_body.cc`) | the table of form items | `get_form_data()`, parsing of a URL-encoded or JSON body | an item is the text that was sent |
| Processes and threads (`mod_ndb_ap20.cc`; `mod_ndb_ap13.cc` without threads) | `process.conn`, `instance[]`, `will_restart`, `restart_lock` | `post_config`, `child_init`, `child_exit`, `connect_to_cluster()`, `my_instance()`, `module_must_restart()` | instances private to threads; a connection outlives its `Ndb` objects; one restart for a stale dictionary, and it comes |
| Configuration of key columns (`config.cc`, `mod_ndb_config.h`) | per section: sorted `key_columns`, `indexes`, `pathinfo` | `add_key_column()`, `named_index()`, `named_idx()`, `filter()`, `pathinfo()` | references by place survive insertions into the sorted array |
| Merging of configuration (`config.cc`) | `config::dir`, `config::srv` | `init_dir`, `merge_dir`, `merge_srv`, plain settings | a section inherits what it should |
| N-SQL (`N-SQL/`) | | a parser for the SQL of `httpd.conf`, which calls the configuration | |
| Output formats (`format_compiler.cc`, `output_format.cc`, `format_dumper.cc`) | per format a table of nodes, each a chain of cells or a loop; the table of formats | `AddLine`, `compile()`, `register_format()`, `Run()` of each node | what compiles can be run, and the page is the one the text means, however the rows arrive |
| Result buffer (`result_buffer.cc`) | a block, its size, the length used | `init`, `prepare`, `out`, `putc`, `read_blob`, `overlay`, destructor | a write stays in the block; a block is freed once |
| Conversions (`MySQL_value.cc`, `MySQL_result.cc`, `JSON_encoding.cc`, `JSON/`) | the BLOB of a result | encode and decode columns, escape strings | a value that is written can be read again |

**How they interact.** Apache calls `post_config` in the parent, `child_init` in
every child and a handler per request. The handler calls `my_instance()`, which
may reconnect, then `Query()` on the thread's instance. `Query()` searches the
key columns that the configuration has built, defines one NDB operation in
`i->tx`, and for a plain request calls `ExecuteAll()` at once. A script (PHP,
SSI) issues *subrequests* instead: their operations gather in `i->tx` and
`i->data[]`, request after request, until a subrequest for an `ndb-exec-batch`
location calls `ExecuteAll()`, which leaves the results in the Apache notes of
the main request. `ExecuteAll()` calls `module_must_restart()` when the cluster
reports a stale dictionary; that signals the parent for a graceful restart.

**What is hard.**

- *Sequences of requests over one instance.* Any subrequest may fail, at any of
  a dozen exits, with the transaction of its predecessors open, a slot taken and
  flags set. The batch must be dropped as a whole and the slots must stay the
  reads of the transaction.
- *Answers of the cluster.* Every NDB call may fail; temporary errors are
  retried with growing waits, on the same transaction, and an error of the
  commit does not say that nothing was committed.
- *Threads.* `process.conn` is shared without a lock, so that two threads may
  reconnect at once; `will_restart` is behind a lock; a restart interleaves with
  requests in progress and with the exit of the child.
- *References into a sorted array.* `httpd.conf` names columns in any order;
  every insertion moves the columns that indexes, chains and PathInfo refer to.

- *A small language.* Formats are compiled by a parser that reads ahead and puts
  back, over nodes that refer to each other by name, with a null object that all
  formats share; what the compiler lets through runs in every child.
- *Buffers under failure.* Blocks change hands, grow in the middle of a write, and
  any allocation may fail.
- *Widths.* A value passes through `long`, `int`, narrow integers, packed fields
  and length bytes, one way in `MySQL_value.cc` and back in `MySQL_result.cc`.

`PROJECT.json` lists each hazard at its line with the properties that cover it.

## 2. The modules and what they model

```
Instance ── refines ──> Batch             KeyColumns
   │                                          │ EXTENDS
   ├─ InstanceProofs                        Lookup ── refines ──> Declarations
   └─ MCInstance                              │ │ └─ MCLookup
                                              │ └─ SectionProofs ── LookupProofs
Process ─┬ ProcessProofs                      │         └─ Recurrence     │
         └ MCProcess                          │ EXTENDS                   │
                                            AccessPlan ─── AccessProofs ──┘
                                              └─ MCAccess

Format                                    ResultBuffer
   │ EXTENDS                                  │ EXTENDS
Formats ─┬ MCFormats                        Values ─┬ MCValues
         └ FormatsProofs ── Recurrence              └ ValuesProofs ── Recurrence
```

### Instance

One thread with its instance, from request to request. `pc` is `"idle"` between
requests and otherwise names the next step of `Query()` or `ExecuteAll()`.

| Action | Code |
|---|---|
| `ScriptStart`, `ScriptEnd` | external: Apache runs a script in a main request |
| `ndb_handler(method)`, `ndb_exec_batch_handler`, `Unavailable` | `handlers.cc:41-91` |
| `getTable` | `Query.cc:204-213` |
| `takeReadSlot`, `readFormData`, `checkMethod` | the switch on the method, `Query.cc:225-280` |
| `choosePlan` | `Query.cc:283-344`: whether a plan was found (which one: `Lookup`) |
| `openTransaction`, `findIndex`, `setupOperation`, `setKeyParts`, `opAction` | `Query.cc:346-684` |
| `abort1`, `abort2` | the labels, `Query.cc:526-551` |
| `checkTransaction` | `Execute.cc:98-117` |
| `commitOK`, `commitTemporaryError`, `handle_exec_error` | the loop over `tx->execute()`, `Execute.cc:41-145`, each with an `execute(reported)` |
| `buildResult`, `sendPage`, `cleanup1`, `cleanup2` | `Execute.cc:147-213` |
| `Restart` | external: Apache replaces a child that died |

State: `tx` is a handle of one of the `MaxActiveTx` transactions of the `Ndb`
object, `ndb` what each of them is and holds (a number of reads, whether a write
is among them); `data[s]` says whether the `result_cols` of a slot are null, live
or freed and whether result objects hang on them. `my_results` and the notes hold
the number of the operation whose page they are. `batch` (subrequests were made
since the last cleanup) and `req.alone` are history that the properties use, as
are `page`, `applied`, `orphans` and `answer`: the page, the committed contents and
the lost result objects of the last request, and what NDB answered to its last
`execute()`.

`execute(reported)` is the cluster's side of the commit. NDB commits a transaction at
most once and answers success only if it has; with an error the transaction may
have been committed or not (an unknown result; reads of a committed
transaction that did not arrive; a read that found no row beside writes that were
committed). The code does not tell these errors from others: a temporary one is tried
again with the same transaction, any other is reported.

Abstracted: the plan is a Boolean; the type of an index and of a value, by the
failures they can lead to; the text of a page. Where the code dereferences a null
pointer (a failed `startTransaction()`, an operation, a column of a filter or a result, a
BLOB handle, contents that are not there) the child dies, and where it reads
freed memory it may die or not: pc is then `"crashed"`, and `Restart` gives the thread of
the next child.

### Batch

What an instance promises, without slots, handles, retries or an order of steps:
a batch opens, takes operations, is committed once with all of them, or dropped;
after a failure it is `"aborted"` and takes nothing until it is reset. `Instance`
implements it with `phase` read off `tx`, `aborted` and the state of the
transaction (`Phase`), `reads` and `wrote` off the transaction's contents.

### Process

The parent, one child and its `NThreads` threads. Children share no memory and
the parent treats them alike, so that one child, replaced by another, shows
what a child can do. An actor is a thread or the child's main thread, each with
a `pc`.

| Action | Code |
|---|---|
| `mod_ndb_post_config` | `mod_ndb_ap20.cc:37-63` |
| `newConnection`, `connect`, `waitUntilReady`, `setConnected` | `connect_to_cluster()`, 166-227, one atomic access to `process.conn` each |
| `init_instances` | the rest of `mod_ndb_child_init()`, 66-130 and `init_instance()` |
| `childExitBegins`, `childExitEnds` | `mod_ndb_child_exit()`, 136-164, in two steps since the order of the deletions matters |
| `my_instance`, `my_instanceConnected` | 263-287 |
| `useInstance` | what happens in the handler: nothing, a stale dictionary, or death by a null `i->db` |
| `lockRestart`, `testRestart`, `signalParent`, `unlockRestart` | `module_must_restart()`, 290-295 |
| `Fork`, `Graceful`, `Accept`, `ClusterReady` | external: Apache and the cluster |

`object[o]` is what has become of an `Ndb_cluster_connection`; objects that
nothing refers to are leaked by the code, and their names used again.

### KeyColumns, Lookup, Declarations

`KeyColumns` builds a section. `keys` is the sorted array, from 0; each column
has its name, its serial number, its index, its plan and two links to the next
column of the index, by place and by serial number. The actions are directives:
`named_index(i, c)` (one column of `PrimaryKey`, `UniqueIndex` or `OrderedIndex`),
`filter(c)` and `PathInfo(spec)`. Each contains the whole of `add_key_column()`,
with the loops that repair chains (`FixKeys`), indexes (`FixIndexes`) and PathInfo
(`FixPath`) after an insertion that was not at the end. `hung` records that such
a loop would not end. `twice` is history: an index has named a column of its own
again, which the code accepts (`config.cc:407-433`); it cuts the column's link and then
appends the column to the end of the chain, which may be the column itself.

`Lookup` adds no state. Its operators are the part of `Query()` that reads these
structures: the binary search, `set_key()`, the arguments, the path from its right
end, the choice of plan and index, the key parts in the order of the chain.

`Declarations` is what a section means to its author: for each index the list of
its columns in the order given, the set of filters, the path. It has no array,
no place and no link. `ImplementsDeclarations` says that each directive changes
the section in its own way only; the mapping reads `parts` off the chains as a
request follows them. An index is given a column once: after a repetition (`Repeat`,
`repeated`, which is `twice`) it says nothing of the section.

### AccessPlan

What `Query()` does with the items that `Lookup` computes, in its order: first the
section is configured, by the directives of `KeyColumns` and by those that give a
plan of their own, then it serves one request. `idxobj` is the `index_object`
with its counters, `bound` the bounds that NDB was given, `answer` how it ended, and
`fault` what ended the child if it died.

| Action | Code |
|---|---|
| `keyDirective`, `table`, `index_constant` | the directives, `config.cc:441-452`, `518-598` |
| `Query(r)` | the method, the default key, the arguments and the path, `Query.cc:203-335` |
| `noPlan`, `index_object` | the check of the plan and the choice of the index object, 337-416 |
| `get_ndb_operation` | 418-427, and the methods in `index_object.h` |
| `set_key_part`, `set_constants` | a turn of the loop over the index parts, and the constants, 429-469 |
| `op_action` | filters and action, 471-513 |

NDB says how many parts an index has, and may refuse an index, an operation, a bound, a
BLOB handle or a column; where the code looks at the refusal, what it does to the
transaction is in `Instance`. Where it does not, the child dies: of an operation
(`Query.cc:419`), of the column of a filter (481) or of a result (561, by
`MySQL_result.cc:97`), of a BLOB handle (649, `MySQL_result.cc:101`), of a column of the key
(`index_object.h:64`), or of the `assert(0)` of `mval_is_usable()` (145) for a key
column of bytes. `DeathHasACause` is about which of these the code must exclude.

### Format, Formats

`Format` is the parser of `format_compiler.cc` as operators on a text, the
sequence of the tokens `Parser::scan()` finds: `get_cell_chain` with the token it
puts back and the cells it may hang on the shared null cell (`spill`), and
`MainCompile`, `LoopCompile`, `RecordCompile` for the four classes of nodes.

`Formats` goes from `httpd.conf` to the page. `formats` and `names` are
`global_output_formats` and `global_format_names`; `endpoint` is the format of the
one section that is followed, a copy of the compiled nodes.

| Action | Code |
|---|---|
| `init_srv`, `init_dir`, `result_format` | `config.cc:77-117`, `196-207` |
| `openContainer`, `readLine`, `closeContainer` | `result_fmt_container()`, `output_format::compile()`, `register_format()` |
| `build_results` | `output_format.cc:178-215` |
| `mainCore`, `mainEnd` | `MainLoop::Run()` |
| `singleCore`, `singleEnd` | `ScanLoop::Run()` for a single row |
| `fetchRow`, `cachedRow`, `cacheEmpty`, `scanEnd`, `scanFails` | its loops, an answer of `nextResult()` at a time |
| `startServing`, `sendPage` | external |

`Run()` of a Row and of a Record write without calling the cluster, and are part of
the action that calls them (`RowLoopRun`, `CoreOut`). `req.stack` holds the loops that
have been called; a null pointer reached on the way kills the child, as do calls
without end. A page is a sequence of pieces: a text, or the name or value of a
column of a row. A text is one of `Words`, a set of names: the texts of the built-in
formats are named there (`lbracket` for `[`), not spelt.

### ResultBuffer, Values

`ResultBuffer` has any number of `result_buffer` objects over a heap of blocks,
`malloc()` and `realloc()` that fail when they like, and one operation per
method. `out(fmt, ...)` is a loop, and `outf` and `retry` are its passes. `fault`
is set where the code writes or frees a block that is not there.

`Values` follows one column, of any type, through a POST (`Post`: `Item`, then
`number_value`, `char_value` and the other branches of `MySQL::value()` and
`binary_value()`, then the row that NDB stores) and through a GET, with the two
buffers that `ExecuteAll()` uses: `page` for `my_results`, `contents` for the BLOB
of a result.

| Action | Code |
|---|---|
| `Post` | `MySQL_value.cc`, `JSON_encoding.cc:64-`, `Plan::Write` in `Query.cc` |
| `NewContents`, `InitContents` | `MySQL_result.cc:70-110` |
| `NewPage`, `Execute`, `Fail` | `Execute.cc`: `my_results`, `execute()` with `BlobHook()` |
| `Results_raw`, `build_results`, `nextResult` | `output_format.cc:178-215`, `281-290` |
| `OutNull`, `OutNumber`, `OutString`, `OutBlob`, `Again` | `MySQL::result::out()`, `escape_string()` and the passes of `out(fmt, ...)` |
| `Send`, `Sent`, `Cleanup`, `Return` | the end of `ExecuteAll()`, `cleanup()` and the destructors |
| `OtherClient` | external: a row written by another program |

`said` keeps, for each row, the text its value came from, and `shown` what the page
shows: the properties compare the two. Which texts are sent is a parameter: numbers,
strings, the values `@null`, `@++`, `@--`, `@time` and `@autoinc`, and dates with what they
say (`IsDate`); `TextsAssumption` states what is excluded, a string longer than its Char
above all. A date's first character may be a sign, which makes the number of a Date, a Time
or a Datetime negative; of the others the 62 that the code looks at count (`DigitsOf`).

## 3. Runs, properties and bounds

| Run | States | Shows |
|---|---|---|
| `instance` | 626,161 | `TypeOK`, `HandleIsUsable`, `AbortedBatchHasNoTx`, `SlotsAreTheReads`, `CleanBetweenRequests`, `PlainRequestIsAtomic`, `BatchDeliversNotes`, `ImplementsBatch`, `EveryRequestIsAnswered` |
| `process` | 106,373 | `TypeOK`, `FirstConnectionLasts`, `InstancesArePrivate`, `ConnectionOutlivesNdb`, `OneRestartPerChild`, `EveryRequestEnds`, `StaleChildIsReplaced` |
| `sections` | 138,562 | `SearchFindsColumns`, `LinksAgree`, `ImplementsDeclarations`; `CompleteKeyIsBound`, `BestIndexIsUsed` for 78 requests in each state |
| `access` | 433,099 | `AccessTypeOK` (with `TypeOK` of `Lookup`), `PrefixIsBound`, `DeathHasACause` |
| `pages` | 121,336 | `TypeOK`, `NamesResolve`, `FormatsAreClosed`, `TextsAreKept`, `TypedFormatsServe`, `PageIsRendered` |
| `values` | 264,383 | `TypeOK`, `BlocksAreOwned`, `FaultsFollowOom`, `NumbersAreClamped`, `DatesComeBack`, `StringsComeBack`, `JSONComesBack`, `PageIsWhole`, `NothingIsKept`, `RequestsEnd` |
| six more | | one each, violated: [section 6](#6-where-the-code-departs-from-its-comments) |

What the properties say is in the comment above each. In short:

- `HandleIsUsable`, `ImplementsBatch`: no order of requests and failures makes
  the code use a closed or executed transaction; batches are all or nothing.
- `AbortedBatchHasNoTx`: one failed subrequest and nothing of the batch, before
  or after, can be committed.
- `SlotsAreTheReads`: the result loop runs over exactly the committed reads.
- `CleanBetweenRequests`: nothing of one client's request is seen by another's, except
  of a script that made subrequests and never asked for `ndb-exec-batch`: what it
  gathered stays, with the aborted flag, until the next batch is executed or dropped.
- `PlainRequestIsAtomic`: a plain request commits its own operation or nothing, once,
  however often `execute()` was tried; one that reports success has committed it;
  one that reports a failed write may have committed it only if `execute()` answered an
  error, and not if it failed before; a write that NDB has confirmed is reported as done. (A
  failed GET may have committed its read.)
- `BatchDeliversNotes`: as much of "every read gets its note" as is true, for a batch
  that NDB has confirmed.
- `FirstConnectionLasts`, `InstancesArePrivate`, `ConnectionOutlivesNdb`: the
  order of life of connections and `Ndb` objects; threads keep apart.
- `OneRestartPerChild`, `StaleChildIsReplaced`: one signal, and it has its effect.
- `SearchFindsColumns`, `LinksAgree`, `ImplementsDeclarations`: insertion into
  the sorted array never loses or redirects a column, and no chain is endless
  until an index names a column of its own a second time.
- `CompleteKeyIsBound`, `BestIndexIsUsed`: the operation is on the index and the
  key that the URL and the section name together.
- `PrefixIsBound`: a request for the first parts of a key binds these and no other,
  although the loop counts the names in the URL and not the parts.
  (`CompleteKeyIsBound`, `BestIndexIsUsed` and this one say nothing of a section in which
  an index names a column twice.)
- `DeathHasACause`: of the null pointers that end a child, those that the plan must
  exclude are excluded. No order of directives and arguments reaches an operation
  without its index object; the loop over the key asks for a column that the table does not
  have only for a primary key declared with more columns than the table's, all of them
  bound; a filter's column is looked up in scans only. An operation or a BLOB handle that
  NDB refuses, and columns that the table does not have or has with another type, end the
  child whatever the section says: the property permits these.
- `NamesResolve`, `FormatsAreClosed`: the table of formats survives overrides and
  virtual hosts, and what is registered is complete.
- `TextsAreKept`: a text of the language is compiled without losing a token.
- `TypedFormatsServe`: a section whose format meets the conditions of `WellTyped`
  never kills the child. The compiler checks only some of these conditions:
  the property draws the line that it does not.
- `PageIsRendered`: the page is `Page`, a definition by recursion on the format's
  meaning that has no loop, cache or row counter.
- `BlocksAreOwned`, `FaultsFollowOom`, `NothingIsKept`: no double free, no leak, no
  write outside a block, unless an allocation failed before.
- `NumbersAreClamped`, `DatesComeBack`, `StringsComeBack`, `JSONComesBack`: what a
  client wrote is what a client reads, with the exceptions that each names.
- `PageIsWhole`, `RequestsEnd`: writes that begin again count once, and end.

**Bounds, and why they are enough.**

- `MaxReadOps = 2`: the first slot (which `cleanup()` treats in its own way), one
  more, and a refusal at the limit. A third slot is treated as the second.
- `MaxActiveTx = 2`, as `Ndb::init(2)` in the code: one transaction leaked and
  one in use, or both leaked.
- `MaxRetryMs = 25`: the waits are 5, 7, 13, ... ms, so that two retries fit and
  the third is refused.
- `ForceRestart = TRUE` has every outcome that `FALSE` has, as restarts are
  chosen.
- `NThreads = 2`: two threads race in every pair of steps. `ThreadLimit = 3` and
  `ChildNum = 1` make a thread's number differ from Apache's connection id and
  from 0.
- `ConnectTries = 3` for the 5 of the code: first, middle and last turn of the
  loop; nothing else depends on the number.
- `Objects`: three names, for `process.conn`, another one that `Ndb` objects still
  refer to, and a new one.
- `Columns = {1, 2, 3}` with two indexes: insertions at the start, in the middle
  and at the end, with other columns linked across the place; one index of each
  kind that matters (the better kind is the one with the higher number in the code's
  `enum AccessPlan`, `mod_ndb.h:87-94`: an ordered index, 5, wins over the primary key,
  2). `MaxPath = 2`, `MaxArgs = 2`: a
  repeated argument, an argument that the path replaces, a short path.
- In `KeyColumns`, a section has at most one PathInfo directive, and once an index has
  named a column of its own again, none does so a second time: the chain is endless then,
  or as it was. With `Reuse = FALSE` no column is in two indexes.
  `endless_chain` has the same columns and indexes, with `Reuse = TRUE`, and
  paths and arguments of one, which it does not need.

- `pages`: `MaxLines = 4` is the built-in number of lines (Format, Scan, Row,
  Record), so that every kind of node can be replaced or left out, in one container
  or spread over `MaxFormats = 2`; `FormatNames` has one that overrides a built-in
  format and one that does not. `MCLines` has the texts of `Tests/httpd.conf` and
  `demo.conf` reduced to their tokens, each optional part left out once, and texts
  that are not of the language. `MaxRows = 3` rows come in every division into
  batches; `Columns = 2` has one separator; one of the values is NULL.
- `values`: integers have 2, 3, 4 and 5 bits for 8, 16, 24 and 32, so that every
  limit is crossed by numbers on both sides of it (`MCTexts`); a `long` is an `int`
  on `i386` and twice as wide on `lp64`. `YearBase = 10` for 1900. Packed dates and
  `AsString` lengths keep their real widths. Dates have a sign, 62 characters and one
  more, and digits that a Time or a Datetime has no room for; `@null` and `@++` go to columns of
  bytes and BLOBs, too. `InitSize = 4` for 8192: a page grows
  once, twice or not at all, and a formatted write is retried. `MaxRows = 2` for
  Text and Blob, whose rows share a buffer, and 1 otherwise. A request begins only
  while no allocation has failed: what a failed one leaves is checked to the end
  of its request.

- `access`: three directives, so that a key of two parts meets a filter, a scan, a
  constant or a path, and two indexes of different kinds compete; `MaxArgs = 2`
  names the whole of such a key, or one part and another column; `MaxParts = 2`
  makes the table's index shorter than the section's, as long, or longer. Names
  appear in their order, since `sections` has every other.

No symmetry is used: column names are ordered, threads have numbers, and the
liveness properties forbid it.

## 4. Fairness and deadlock

`Instance`: weak fairness of `Query \/ ExecuteAll \/ Restart`. A thread inside a
handler runs, the NDB API answers or times out, and Apache replaces a dead child.
Nothing makes a client send a request or a script call the batch: an open
batch may wait for ever.

`Process`: weak fairness of the steps of each thread, of the child's main
thread and of the parent. `ThreadStep(t)` includes waiting for `restart_lock`;
weak fairness is enough there, although other threads may take the lock first: the
first holder signals the parent, the restart that follows stops new requests, and
a thread that has released the lock does not come back. Arrivals (`Accept`) and the
late start of data nodes (`ClusterReady`) are not fair. `StaleChildIsReplaced`
needs `Accept` to be refused while the child is stopping, which is how a graceful
restart works.

`Values`: weak fairness of `Read`, the steps of a request that has begun. `Post`, new
requests and failures are not fair. `RequestsEnd` excepts a child that has written
to a block that is not there.

Deadlock is checked for `Instance`. It is not for `Formats`, where a server that
refuses its configuration or whose child died stops, for `Values`, where a child that
wrote outside its block stops, for `Process`, where Apache exits if
`post_config` finds no cluster, nor for `Lookup` and
`AccessPlan`, where reading `httpd.conf`, or the one request, ends.

## 5. Proofs

`InstanceProofs` proves, for every `MaxReadOps > 0`, `MaxRetryMs`,
`MaxActiveTx > 0` and `ForceRestart` (`InstanceAssumption`, the only assumption):

| Theorem | Statement |
|---|---|
| `TypeCorrect` | `Spec => []TypeOK` |
| `HandleSafety` | `Spec => []HandleIsUsable` |
| `AbortSafety` | `Spec => []AbortedBatchHasNoTx` |
| `SlotSafety` | `Spec => []SlotsAreTheReads` |
| `CleanSafety` | `Spec => []CleanBetweenRequests` |
| `Refinement` | `Spec => ImplementsBatch` |
| `PlainSafety` | `Spec => []PlainRequestIsAtomic` |
| `NotesSafety` | `Spec => []BatchDeliversNotes` |

**The argument.** None of these but `TypeOK` and `AbortedBatchHasNoTx` is
inductive. The invariant is

    IInv == TypeOK /\ HandleInv /\ AbortedBatchHasNoTx /\ SlotInv /\ CleanInv

- `HandleInv` adds to `HandleIsUsable` at which steps there is a handle at all
  and that only the steps from `commit` to `cleanup1` see a committed
  transaction, `commit` only after a temporary error.
- `SlotInv` follows a GET through `Query()`: it takes its slot before it defines
  its read, so that in between there is one slot more than there are reads, and
  its slot, the last one, has no result objects yet. A failure in this window
  leaves the slot behind; that is harmless only because the batch is then
  aborted, which is why the invariant about reads is conditional on `~aborted`
  and needs `AbortedBatchHasNoTx`.
- `CleanInv` says that outside a batch a request starts from the instance as
  made, and that a request inside `Query()` outside a batch is a plain one, so
  that `abort2` takes its branch with `cleanup()`.

`InitInv` and `NextInv` prove `IInv` inductive, one lemma per conjunct
(`NextType`, `HandleNext`, `AbortedNext`, `SlotNext`, `CleanNext`), each with a
step per action. `Refinement` then shows that every step under `IInv` maps to a
step of `Batch` or leaves its variables unchanged; `Dropped` is the lemma for
all the ways of giving up a batch.

The last two theorems are about what a request reports when it has ended, and need what
the steps before have done: `OInv == IInv /\ FrameInv /\ NotesInv /\ PlainInv`.
`FrameInv` says which history variables a request has not touched before it commits,
and that in the retry loop `applied` is what the transaction, if it is committed, holds;
`NotesInv` that while the result loop runs there is a note for each read it has
passed and for no other, `PlainInv` that a plain request commits a transaction with
its own operation alone, and from `cleanup1` on what the property says of its answer.

`ProcessProofs` proves, for any number of threads, thread limit, child number and
tries, and at least three names of connection objects (`ProcessAssumption`):

| Theorem | Statement |
|---|---|
| `ProcessTypes` | `Spec => []TypeOK` |
| `FirstConnection` | `Spec => []FirstConnectionLasts` |
| `PrivateInstances` | `Spec => []InstancesArePrivate` |
| `NdbHasConnection` | `Spec => []ConnectionOutlivesNdb` |
| `OneRestart` | `Spec => []OneRestartPerChild` |

The invariant is `PInv == TypeOK /\ ChildInv /\ ConnInv /\ FirstInv /\ InstInv /\
LockInv`. `ChildInv` says when the main thread connects and when no thread runs, so
that no thread replaces `process.conn` while the child starts or exits; `ConnInv`, that
all `Ndb` objects are on one connection, which is why three names are enough
(`Fresh`); `FirstInv`, that a connection found ready is never made again; `InstInv`,
that a thread's instance is its own, by `(ChildNum * ThreadLimit + t) % ThreadLimit = t`
(`Remainder`); `LockInv`, that `restart_lock` is held wherever `will_restart` is read or
written. `ThreadMoves` reduces the steps of a thread to three kinds: the death of the
child, a step of `connect_to_cluster()`, and one that leaves the connection alone.

`SectionProofs` and `LookupProofs` are about `KeyColumns` and `Lookup`, for
any finite or infinite set of column names and of indexes, any `MaxPath` and `MaxArgs`
(`KeyColumnsAssumption`, `LookupAssumption`):

| Theorem | Statement |
|---|---|
| `SectionIsGood` | `Spec => []SectionInv` |
| `TypeCorrect` | `Spec => []TypeOK` (of `Lookup`) |
| `SearchIsRight` | `Spec => []SearchFindsColumns` |
| `SectionIsLinked` | `Reuse = FALSE => (Spec => []SectionLinks)` |
| `LinksAlwaysAgree` | `Reuse = FALSE => (Spec => []LinksAgree)` |
| `SectionsAreDeclared` | `Reuse = FALSE => (Spec => ImplementsDeclarations)` |
| `RequestUsesBestIndex` | `Reuse = FALSE => (Spec => []BestIndexIsUsed)` |
| `RequestBindsKey` | `Reuse = FALSE => (Spec => []CompleteKeyIsBound)` |

`Reuse = FALSE`, that no index names a column of another, is the value of the run
`sections`; with `Reuse = TRUE` the theorems are false, since the column a second index names
is cut out of the chain of the first (section 6). The properties
themselves say nothing after an index has named a column twice (`twice`): what becomes of
the chains then is the run `endless_chain`. `LinksAlwaysAgree` shows that there is no other
way to an endless chain.

*Loops.* The loops of this code follow links, halve an interval or go through a list,
and the model writes them as recursive functions (`Walk`, `key_col_bin_search`,
`setArguments`, `setPath`, `PathInfo`). To prove what they compute needs induction, and
the library's induction theorems take an operator, which the provers cannot instantiate.
`Recurrence` states it of sets instead: a set of naturals has a least element
(`LeastNatural`: the intervals below its elements are finite sets, and the library
proves strict inclusion of finite sets well-founded), so a set with 0 and the successors
of its elements has every natural (`Induction`), so a recurrence has a solution
(`RecurrenceExists`, `LoopExists`). A proof about a loop then has three parts: that the
recursive function is the solution, that a step keeps the loop's invariant, and that the
invariant at the end is the result (`SearchIsLoop`, `TurnCloses`, `SearchOK` are those
of the bisection). The folds of the community modules are such loops too (`FoldIsLoop`,
`FlattenIs`); two loops with the same steps have the same result (`LoopsAgree`).

*The array.* `SectionInv`: the array is sorted, its serial numbers are a permutation of its
places, its links lead to columns, and the indexes have different names. `InsertedOK`
shows that an insertion moves each column and its serial number together (`Moved`),
and the lemmas ending in `OK` that `add_key_column()`, and each directive after it, keeps
the rest. The bisection keeps `Closing`: a column with the name is between the bounds,
and the bounds are nearer by one each turn, so that as many turns as there are
columns are enough.

*The links.* A chain is a sequence, and `ChainOK(K, x, i, s)` says that `s` is that of index `x`:
it meets no column twice, both kinds of links lead from each element to the next, both end
at the last one, and its columns name the index `i` and its plan. `LinkInv` adds to `SectionInv`
that there is such a sequence for each index and that a column with a plan is on one, and
`SectionLinks` says that it holds until an index names a column twice. It is
inductive where `LinksAgree` is not: an insertion rebuilds the places from the serial
numbers only along the chains, and shows nothing of a column on none. `PlaceChainFound`
says that `Walk` computes `s`; `AddedLinks` that the sequences of moved columns are chains of
the array after an insertion; `JoinedLinks`, `StartedChain` and `FollowedChain` that
`named_idx()` makes one of them longer by one. The refinement of `Declarations` follows:
the names along a chain are the parts that were declared (`PartsAreNames`), an insertion keeps
them (`SameParts`) and each directive changes those it says.

*The requests.* `QueryOK` holds for the items after every `set_key()`: the plan is the best
of those of the columns that have a value, the index is that of a column with this plan,
and as many columns as have values were counted. `ArgumentsTaken` and `PathIsTaken` prove, by
induction over the arguments and over the path, which value a column has in the end;
`ItemsAreGiven` that it is the one `Given` states without a loop. That a complete key is
bound as a whole needs one thing more: its columns are different and all have a value, so
that by the pigeonhole principle at least as many were counted as the key has parts
(`KeyIsBound`), and the loop that stops when the count is used up does not stop early.

`AccessProofs` is about `AccessPlan`, for any `MaxDirectives` and `MaxParts > 0` beside the
constants above (`AccessPlanAssumption`):

| Theorem | Statement |
|---|---|
| `AccessInvariant` | `Reuse = FALSE => (AccessSpec => []AccessInv)` |
| `AccessTypeCorrect` | `Reuse = FALSE => (AccessSpec => [](~ twice => AccessTypeOK))` |
| `DeathIsExplained` | `Reuse = FALSE => (AccessSpec => [](~ twice => DeathHasACause))` |
| `PrefixIsLookedUp` | `Reuse = FALSE => (AccessSpec => []PrefixIsBound)` |

`AccessInv` is, until an index names a column twice, `LinkInv`, which every directive keeps
(`LinkNext`), with `ConfigInv`, that the default
key is an index with a constant, and `AccessState`, one disjunct for each stretch of
`Query()`. While the key is bound, `KeyTaken(k, b)` says that `b` has the values of the
first `k` columns on the chain, that the loop is at the next column, and that `k` names
of the request are used; it is what the counters `key_part` and `parts_used` and the link
`next_in_key` have to agree on in every turn (`PartIsBound`), and the loop ends with the chain, the
names or the index (`LoopIsOver`). That no plan lacks its index (`PlanUsable`) comes from `PlanOK`
and from the start: only an index constant sets an index before the URL is read, and it sets
a plan with it (`FirstPlanOK`). For `PrefixIsLookedUp` the names of the URL are counted: those of
a prefix are all columns, so each counted once (`PrefixUsed`), which makes the three ways to
leave the loop the same one; the values are those of `Given` by `TakenAreGiven`.

`FormatsProofs` is about `Formats`, for any set of `Lines` made of `Tokens` over any `Words`
that include those of the built-in formats, and any bounds (`FormatsAssumption`):

| Theorem | Statement |
|---|---|
| `NamesAreResolved` | `Spec => []NamesResolve` |
| `ServedFormatsAreClosed` | `Spec => []FormatsAreClosed` |
| `ParserKeepsTexts` | `Spec => []TextsAreKept` |
| `FormatTypes` | `Spec => []TypeOK` |
| `TypedFormatsAreServed` | `Spec => []TypedFormatsServe` |
| `PagesAreRendered` | `Spec => []PageIsRendered` |

*The parser.* A text is any sequence of tokens. `ScanIs`, `CellsEndIs` and `ChainIs` say how
far the parser reads: a chain of cells ends at the first token that is not one, at the end of
the text at the latest. `LoopIs`, `MainIs` and `RecordIs` give from them the type of what
`compile()` of each class returns, and `LoopKept`, `MainKept` and `RecordKept` that its parts, put
together, are the text if it is one of the language (`ProperLoop`, `ProperMain`): the
token at which the grammar turns is where a chain ends, so that the parser's one token of
lookahead decides the way the grammar means.

*The table.* `ConfigOK` says of the formats, those registered and the one being built, that
they are compiled (`FormatOK`), and of the names that each leads to the last format
registered under it (`TableOK`). `AddLineOK` shows that a line keeps the first, `CompiledFormat` that a
format whose `compile()` reports nothing is closed, `BuiltInsOK` that JSON and XML, which
the program compiles from texts of its own, are such formats, and `RegisterOK` that an overridden
name leads to the new format and all others where they led.

*The page.* While a page is built, `ReqOK` says that every loop on the stack is a node of the endpoint
and that the rows seen, cached and left add up to at most those of the scan
(`Counted`). One lemma for each helper of `Run()` (`CallOK`, `WriteOK`, `ReturnOK`, `BodyOK`)
shows that it is kept, `ReqNext` that every step keeps it.

`PageIsRendered` speaks of the finished page, and is not inductive. `PageOK` says where the
loops of a well-typed format are and what they have written until then: nothing but the opening
text (`AtOpening`); that and the rows so far, as many as the scan has taken from its cache
(`AtScan`); the whole core (`AtClosing`); the page (`AtEnd`). There is one lemma for each kind of
step (`MainCoreOK`, `RowOK`, `CacheEmptyOK`, `ScanReturnOK`, ...). No null pointer is
among the pieces that nodes of the right types write (`RowRunIs`, `PageIsSafe`), and the loops are
too few to be without end (`StackIsShort`), so that the child lives on (`StepServes`). `Join` and
`Each` put the texts of all rows together, of a number that has no bound: `FlattenIs` and
`FlattenMore` give their sequences as the sums of a recurrence, `JoinMore` adds
a row to them, and the rest is that `\o` is associative. TLC checked `PageOK` on the instance of
`pages` before.

`ValuesProofs` begins with `ResultBuffer` and proves `BuffersAreSound`:

    BufferSpec => [](BufferTypeOK /\ BlocksAreOwned /\ FaultsFollowOom)

for any set of buffers and blocks, any sizes and any order of operations, from
`BufferAssumption` (no block is the null pointer, `alloc_sz` starts as a number).
The invariant `BufferInv` adds to the property which buffers may refer to a block
that they do not own: a buffer overlaid by another (`"taken"`) keeps its pointer
with `alloc_sz = 0`, one whose allocation failed has a size and no block, and a write
under way (`todo > 0`) has an `alloc_sz` that its block has. One lemma per operation
shows that it is kept. `BufferSpec` lets callers do anything. `FaultsNeedFailures`
states the last part of the theorem by itself.

Then it is about `Values`, for any widths of the integers, any columns, any texts of
any length that are sent to them, any table, and any two words that `time()` and NDB
give (`ValuesAssumption`, `ColumnsAssumption`, `TextsAssumption`):

| Theorem | Statement |
|---|---|
| `ValuesInvariant` | `Spec => []ValuesInv` |
| `ValuesUseBuffers` | `Spec => BufferSpec` |
| `ValuesHaveTypes` | `Spec => []TypeOK` |
| `NumbersAreShown` | `Spec => []NumbersAreClamped` |
| `DatesAreShown` | `Spec => []DatesComeBack` |
| `StringsAreShown` | `Spec => []StringsComeBack` |
| `JSONIsInverse` | `Spec => []JSONComesBack` |
| `PagesAreWhole` | `Spec => []PageIsWhole` |
| `NothingStays` | `Spec => []NothingIsKept` |

*The invariant.* `ValuesInv == BufferInv /\ TableInv /\ RequestInv /\ StateInv /\
SizeInv /\ ShownInv`, which TLC checked on the instance of `values` before. None of the
properties is inductive, as each speaks of the page and the text it came from, with the
table, the buffers and the steps of a request between them. `TableInv` says that each
row has what its column can hold and is what `MySQL::value()` makes of its text;
`RequestInv` how far the rows have been read; `StateInv` which of the states of
`result_buffer` each of the two buffers is in at each step (`PageStates`,
`ContentsStates`), so that no operation meets a buffer it was not made for; `SizeInv`
that without a failed allocation the page and what is still to be written again have
the length of all that was shown; `ShownInv` that every entry of the page shows its row
(`EntryOK`), except of a Text that a scan reads after another, for which the contents
have been added up. `StepInv` gathers what a step of a request has to show, and there is one
lemma for each action (`NewPageInv`, `ExecuteInv`, `OutStringInv`, `AgainInv`, ...) over
one for each operation of a buffer (`FillDoes`, `PassDoes`, ...). `ValuesStepInv` shows
with the invariant that every step is one of `ResultBuffer` or leaves the buffers alone:
that is `ValuesUseBuffers`.

*Numbers.* `2^n` grows (`PowerIs`, `PowerGrows`, from the number of the subsets of a
set, as the library has no theorem about powers) and so the ranges of the types lie in one
another (`RangesAre`). `NumberValueIs` gives the branch of `MySQL::value()` for each type,
`FitsIs` what `strtol()`, `strtoul()` and the `int` they are assigned to leave of a number,
`NumberShown` that clamping at both ends is then the only thing that happens to it.

*Strings.* `PadIs`, `CutIs`, `AsStringIs` and `StrippedIs` describe the copies that are
filled up, cut and ended at a zero byte; `StrippedPad` says that the zero bytes that
fill up a column do not count, `NoZeros` that there is none in a C string. `JSONIsRead` is a
recurrence along the characters: each of those that `leaning_toothpicks` escapes is in
`JSON_unescape_table` or comes back from its code (`UnescapeOne`, `AsJSONIs`).

*Dates.* Of a text of at most 62 characters all digits are read (`DigitsOfIs`), and a number
that is not negative is taken apart without a sign (`FactorDateIs`). `Or` of numbers that have no bit in common is their sum (`OrIsSum`, by
induction over the 30 bits, with `NoBitsBelow` and `NoBitsAbove`), so that a packed date is
`512 * year + 32 * month + day` (`PackDateIs`) and quotients and rests take it apart
(`PackedIs`). The digits of a date make its number two at a time (`DecimalTwo`,
`DecimalSix`, `EightDigits`), however many digits the hours have, and a Datetime is cut
where its time begins (`PartsOfConcat`).

**The prover.** `tlapm` 1.4.5 gives its SMT backend an axiom about `Len` that is too strong
for values that are not sequences (`DOMAIN s = 1..n <=> Len(s) = n` for every `s`), and expands
nested `@` wrongly. No module has a nested `@` in a definition a proof expands, and every
proof of this project was also checked with that axiom restricted to sequences.

**Model-checked only.** Every safety property of the passing runs is stated by a theorem,
those of `KeyColumns` that speak of chains for `Reuse = FALSE` only: `Walk` with
`Reuse = TRUE`, where chains may be endless, stays with TLC, and so do `AccessTypeOK` and
`DeathHasACause` after an index has named a column twice. So do the liveness properties
(`EveryRequestIsAnswered`, `EveryRequestEnds`, `StaleChildIsReplaced`, `RequestsEnd`),
which are out of the prover's reach, as reasoning about fairness needs `ENABLED`, and
the properties of section 6, which are false.

## 6. Where the code departs from its comments

Each is a run whose property TLC finds violated; `PROJECT.json` quotes the lines.

| Run | Property | What happens |
|---|---|---|
| `open_transaction` | `OpenTransactionIsHeld` | a subrequest without a plan jumps to `abort2`, past `tx->close()`: the transaction of its predecessors stays open and nothing refers to it |
| `retry_limit` | `RetriesWithinLimit` | `milliSleep()` puts milliseconds times 1,000,000 in `tv_usec`, where times 1,000 is meant: seconds for milliseconds |
| `orphaned_results` | `NoOrphanedResults` | `cleanup()` deletes the results of `data[0]` only |
| `own_notes` | `NotesAreOwnResults` | the note of a read that built no page holds the page of the one before |
| `instance_connected` | `InstanceIsConnected` | after a late connection `Ndb` objects stay bound to the connection that failed |
| `endless_chain` | `DirectivesReturn` | `PrimaryKey id id x` links `id` to itself; the loop for `x` never leaves the chain, and httpd.conf is never read to its end |

The passing properties are stated so as to hold beside these: `HandleIsUsable`
speaks of the handle in use, not of those leaked; `FirstConnectionLasts` is about
a child that found the cluster when it started.

Differences that the models show, or that were met while they were written, and that
no run of their own states:

- *Connecting.* Two threads that connect at once share `c->connection`: one may set
  `connected` (`mod_ndb_ap20.cc:213`, "Succesfully connected") for an object that the
  other has put in its place and failed to connect.
- *Commits.* An error of `execute()` that comes after the commit is retried or reported
  like any other (`Execute.cc:123-145`): a client may be told 409, 500 or 503 for a write
  that was done.
- *Null pointers.* Of what NDB and the schema may refuse, an operation, a column of a
  filter or of a result and a BLOB handle are used unchecked (the last with a log entry
  first, `Query.cc:650-654`), and a key column of bytes ends in an `assert(0)`.
- *Plans.* `Query.cc:265` says that "an insert has a primary key plan"; in a section
  with a table scan or an index constant lines 283-291 replace it. The plan is checked
  against `r->method_number` (line 339), which is GET for a subrequest, so that a
  script's insert is refused with 404. A filter, a repeated argument or a column of
  another index is counted among the key columns (line 172): the loop then binds one
  part more of a partly given key, to a null value. A name from the second part of a
  key alone binds the first part, also to null.
- *Sections.* There is one record per name: naming a column in a second index
  ("Reassociating", `config.cc:410`) resets its link, which cuts the chain of the first, and a
  later column of one may be appended to the other's, while `n_columns` counts what was
  declared. `merge_dir()` means a section to inherit `Format` (`config.cc:132-135`),
  but `init_dir()` has set it to JSON. `all_endpoints[]` has 500 places and no check.
  The formats of the main server are made anew, and its own lost, for each virtual host.
- *Formats.* `format_compiler.cc:23-24` promises to "catch all errors at compile time": a
  Scan around a Record, a Row around a Row or a Scan, and `$name$` in a Row compile
  and end the child. The core of a text that begins with `$node$` is lost, with its
  cells on the null cell that all formats share. Of two `Format` lines in a container the
  second is never compiled, and the page is empty. The raw format of a scan is
  empty. `m.over`, which says that a row was too long, is read nowhere.
- *Values.* "be like mysql" (`MySQL_value.cc:279`) holds where `long` is 32 bits wide:
  with 64, 4294967296 becomes 0 in an Int. "Allow it to be signed" (`MySQL_value.cc:154`):
  the sign makes the parts of a Date and the 64 bits of a Datetime negative, which come back
  as another date. Negative numbers wrap in unsigned columns;
  "010" is 10 in an Int and 8 elsewhere; Bit columns read as 0 except on i386; a date
  without a time in a Datetime, a date without leading zeros and a Time past 838:59:59
  come back as something else; a Varchar of more than 255 bytes is cut at its length
  modulo 256; a Longvarbinary with a zero byte leaves bytes of its buffer unset.
- *Pages.* The Text of a later row of a scan still contains the rows before it; a page
  begun again after a failed allocation may have unset bytes, or be answered 204.
- *JSON bodies.* `null` dereferences a null pointer, and the members of a nested object
  overwrite the item of the outer key.

## 7. What is not modelled

- Apache 1.3 (`mod_ndb_ap13.cc`): the functions of `mod_ndb_ap20.cc` with one
  instance and no threads.
- `merge_dir`, `merge_srv` and the settings that are stored as they are read. A
  section is followed from its own directives only.
- The grammars of N-SQL and of JSON bodies: generated parsers. What they call in the
  configuration is in `KeyColumns` and `AccessPlan`, what a body yields in `Values`.
- The division of a URL-encoded body into items, and reading it from the client:
  `Instance` has its outcomes.
- In `Values`: Float, Double and Decimal (the C library's conversions), a Char text
  longer than its column, bytes above 127 in escaped text, dates that overflow an `int`
  (of more than 9 digits, or 15 in a Datetime), `@autoinc` into a Bit column, `@time` and
  `@autoinc` into a column of bytes.
- In `AccessPlan`: sort flags, the operators of bounds, and columns bound by name (the
  conditions of N-SQL), which differ only in what NDB is told.
- Statistics, logging, the status, dump and configuration check handlers, and the build.

## 8. Plan

Done: `Batch`, `Instance` and its proofs (`InstanceProofs`);
`Process` and `ProcessProofs`; `Declarations`, `KeyColumns`, `Lookup` and their proofs
(`SectionProofs`, `LookupProofs`), `AccessPlan` and `AccessProofs`; `Format`, `Formats`
and `FormatsProofs`; `ResultBuffer`, `Values` and their proofs (`ValuesProofs`).
The order was that of importance: the transaction and the slots are where a fault
would corrupt data, the threads where it would bring a server down, the key columns
where it would read the wrong row, formats and values where it would show one wrongly.

Next, extending the model:

1. `Merge`: `init_dir`, `merge_dir`, `merge_srv` over a tree of nested sections.
   Abstract specification: each setting is that of the nearest section that gives it,
   which `Format` contradicts.
2. `QuerySource`: form items of URL-encoded and JSON bodies, and the branches of
   `readRequestBody` that are one outcome now.
3. Composition of `Process` with the handlers, so that a stale dictionary found
   by `ExecuteAll` is the one that `module_must_restart()` is called for.

Each would come with a type invariant and the proofs that the modules here have.
