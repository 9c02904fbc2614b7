# Nae-backend: models, checks and proofs

This directory is a TLA+ development beside the Nae-backend sources: what the
warehouse back end does, written as state machines translated from the Rust
code, model-checked with TLC on small instances and, for the checkpoint update,
the stock ledger with its lists, documents, memories, cameras and the server,
proved with TLAPS for every instance.

Paths below are relative to the repository root.

## 1. The system

Nae-backend serves a small company: it keeps its documents (receipts,
dispatches, transfers, inventories, production), derives the stock of its
warehouses from them, and records who passed which camera.

| component | state it keeps | operations | talks to |
|---|---|---|---|
| **stock ledger** `store/src/ordered_topology.rs`, `db.rs`, `operations.rs`, `balance.rs`, `topologies/` | RocksDB: one column family with every operation and the balance after it, three more with the same operations in other orders | `mutate_op`: put or delete an operation and carry the change through everything that follows | called by *documents to operations*; calls *checkpoints* |
| **checkpoints** `store/src/checkpoints/` | RocksDB: per month the balances of every store, goods and batch; the date of the latest checkpoint | `checkpoint_update` after every stored operation; readers | called by the ledger; read by the ledger's FIFO split and the reports |
| **stock reports** `store/src/aggregations.rs`, `process_records.rs`, readers of the topologies | none | a checkpoint plus the operations after it | read ledger and checkpoints |
| **documents to operations** `store/src/elements.rs` | none | `receive_data`: the operations of a document before and after an edit, and the mutations between them | called by *memories* while it holds its lock; reads other documents through *memories*; calls the ledger |
| **memories** `src/storage/memories.rs`, `src/memories/` | files: every version of every document, `latest.json` a symbolic link to one; a global mutex | create, update, patch, get, find | calls *documents to operations* and the text search |
| **cameras** `src/hik/camera.rs`, `src/hik/services/cameras.rs` | a list of cameras in memory and in files; per camera an atomic state and a background task that reads the device's event stream | patch (switch on, switch off, new settings), status, events | the task writes events to files, services change the state |
| **camera actions** `src/hik/services/actions.rs`, `src/hik/actions/` | a map of tasks | create, patch (by processes and by clients), clean-up by age | asynchronous requests to devices |
| **commutator** `src/commutator/mod.rs`, `src/websocket.rs` | registry of services, web socket sessions, a channel of one | requests, `emit`, dispatcher thread, greeting and time-out of sessions | every service |
| **text search** `src/text_search/` | two indexes of the names of drugs, one in memory, one on disk | create, change, delete a name; search by pages | called by *memories* and at start-up |
| **inventory service** `src/inventory/` | none | find | stock reports |
| **persistent services** `src/services/`, **hr** `src/hr/` | a file per record | create, update, patch; attendance report over the camera events | organizations, commutator |
| **legacy topologies** `src/animo/`, `src/warehouse/` | RocksDB: documents in a core, the former ledger derived from it | modify, balance, turnover | opened at start-up; the routes that reach it are there (`src/api.rs:18-41`), but `src/main.rs:154` does not hand them the database |
| organizations, device data, HTTP, import scripts, helper crates | files and formats | I/O | - |

### How they interact

A document is created or changed through the *memories* service.  Its
`save_data` takes the global lock, reads the document as it was, and hands both
versions to `receive_data`, which turns each into operations (reading the
document's header through *memories* again, without the lock) and calls
`WHStorage::mutate` with deletions and puts.  Each mutation runs the ledger's
`mutate_op` until its front is empty; each operation stored or deleted there
updates the secondary topologies and then the checkpoints, by single writes.
Only after that is the new version saved to a file and the link `latest.json`
set to it.  Readers take no lock.

A document has an id, the time of its creation and the name of its folder, and a
uuid, which a directory of links leads to that folder.  `get` takes either.  What
is saved goes to a folder built of the string the request came with
(`src/storage/memories.rs:141-161, 219-236`): an update or patch by uuid, as
clients may send it and `tests/check_edit_document.rs:70` does, writes into a
folder of its own, finds no version before, and leaves the document as it was.
Here that folder is called the document's copy.

A client's request comes over a web socket, an actor on a thread of its own, to
the commutator, an actor on the main thread.  The commutator calls the service;
what the service changes it emits as an event, into a channel with room for one,
waiting on the main thread while there is no room; then the request is answered.
A third thread takes events from the channel and sends each to all sessions.
Actions on cameras are processes on the main thread as well.

### What is hard here

* Everything that follows a backdated change has to be recalculated: balances,
  automatic costs, splits of issues that name no batch (first in, first out),
  the receives that transfers cause in other stores, in a chain across stores.
* Checkpoints are maintained by differences, never recomputed.
* One change is many separate writes, to files and to RocksDB, without a
  transaction.
* Part of each request runs under the lock of *memories* and part does not. As
  `src/main.rs` starts it, every request comes through the commutator, on one
  thread; the handlers that call services from a pool of threads
  (`src/api.rs:59, 91`) are there and not routed. The lock is made for them, so
  `Memories` has any number of threads, one included.
* Cameras have a state shared by the service and by a task, with
  delays and network errors in between.
* A document means what its headers say, and those may change under it.
* The former ledger works from snapshots without a lock.
* All requests by web socket are served on one thread, which waits for a channel
  that another empties.

`PROJECT.json` lists each hazard at its line.

### What makes each component correct

* *checkpoints*: consecutive checkpoints differ by what was posted in the month
  between them; the past is never changed; but for the months
  of a running posting, which readers may find half done, they see an update at once.
* *stock ledger*: when an edit is recorded, balances and automatic costs are
  current, issues are split first in first out, transfers arrive, the ledger
  holds exactly what the documents say, stock is conserved; and the recording
  ends.
* *memories*: the ledger agrees with the latest version of each document, or of
  its copy; identities stay; a creation reserves its id; what is acknowledged is not lost.
* *cameras*: at most one task per camera; a camera switched on ends up
  connected, one switched off ends up idle.
* *stock reports*: the list of the stock and every report say what the operations
  add up to; the balance beside each goods, too, says the code, which does not do it.
* *documents to operations*: the ledger holds what a line meant when it was saved.
* *text search*: a drug is found by its name, and pages show every result.
* *camera actions*: an answer that came in time can be fetched.
* *commutator*: a session hears of every change once and in order; every request
  is answered once; nobody waits for ever.
* *legacy topologies*: memos and checkpoints agree with the documents.

## 2. Modules

| module | what it is |
|---|---|
| `StockBook` | what the checkpoint store promises: one balance per month and key, posted to in one step |
| `Checkpoints` | the checkpoint update write by write, with crashes; refines `StockBook` |
| `CheckpointsProofs` | the theorems about it |
| `Money` | the price and cost arithmetic of a balance |
| `StockLedger` | entering, changing and withdrawing documents, inventories among them, and the propagation that follows; the checkpoint update is one step here |
| `StockLedgerProofs` | the theorems about `StockLedger` and the lists of `StockReports` in every state, and the lemmas about folds they need |
| `StockBalancesProofs` | the theorem about the balances of `StockLedger` between edits |
| `StockFlowProofs` | the theorems about what is stored between edits: splits and parts of issues, receives of transfers |
| `StockView` | the view of the stock by place |
| `StockReports` | `StockLedger` and what its readers answer in any of its states, `StockView` on top |
| `TextSearch` | the two indexes of names, and the pages of an answer |
| `Documents` | what documents mean to the ledger, composed with `TextSearch` |
| `DocumentsProofs` | the theorems about it |
| `Memories` | requests on threads, the lock, the link to the latest version, the uuid index, the ledger as a set; readers as operators |
| `MemoriesProofs` | the theorems about it |
| `ActionTasks` | camera actions: tasks, their processes, clean-up |
| `Server` | web sockets, commutator, channel, dispatcher, composed with `ActionTasks` |
| `ServerProofs` | the theorems about both |
| `LegacyLedger` | the former ledger: core, operations, memos, checkpoints, turnovers |
| `CameraLifecycle` | one camera: service, task and file |
| `CameraProofs` | the theorems about it |
| `MC*` | small instances for TLC |

The modules meet at interfaces. `StockLedger` calls the checkpoint update as the
single step that `Checkpoints` shows it to be but for what is half posted
(`ReadsAsOneBook`);
`Memories` hands mutations to a ledger that applies each at once, as
`StockLedger` records an edit before the lock is released.  `Documents` makes a
save one step, which `Memories` takes apart, and works out the operations that
`Memories` takes as given.  `Server` takes services as what they answer and emit.

A comment `(* Mutant: ... *)` marks a definition that no specification uses: a
plausible mistake in the code, which makes one of the properties fail when it
takes the place of the definition after it.

### Checkpoints and StockBook

| model | code |
|---|---|
| `chk[m][k]` | column family `check_date_store_batch` (a second one, `check_batch_store_date`, is no longer opened, `wh_storage.rs:36, 53`); a record with a zero balance is deleted, so 0 is also "no record" |
| `latest` | the record of the latest checkpoint date |
| `busy`, `op`, `last`, `at`, `todo` | the local variables of `checkpoint_update` |
| `Begin`, `CopyForward`, `Bump`, `SetLatest` | `store/src/checkpoints/mod.rs:65-125`, one action per write |
| `Crash` | the process ends; nothing looks for the rest of the update afterwards |
| `turnover`, `suspect`, `posts` | history |

`StockBook` may forget keys (`Forget`): what a crash costs, the keys whose records
the interrupted update had written. Dates are months, as the code compares only first days of months. A balance is
one integer, as the code only adds to it and compares it with zero.

### StockLedger and Money

| model | code |
|---|---|
| `db.main` | the first ordered topology (`store_batch_date_type_id`), operations with the balance after each |
| `db.index` | the three other topologies, written together |
| `db.chk`, `db.latest` | checkpoints, updated in one step |
| `db.front` | the propagation front of `mutate_op` |
| `uniq` | its guard against repeated processing |
| `docs`, `queue` | documents and the mutations `receive_data` makes of an edit |
| `Enter`, `Change`, `Withdraw` | `receive_data` |
| `Record`, `Turn` | the start of `mutate_op` and one turn of its loop |
| `Refile` | an edit of the header an operation belongs to, which no mutation tells the ledger |
| `AssertionHolds`, `Panics`, `Stopped` | the assertion of `balance.rs:168`, in the thread that records: it panics with the lock of all writers, and nothing is recorded any more |

Batches of one date come out of a hash map in the code; `Split` takes every
order. One goods is modelled, as operations of two share only the latest
checkpoint date. An inventory (`Counted`) compares what it counted with what is
on hand, takes what is missing from the batches (`Corrections`) or receives what
is too much (`Surplus`); without a difference, or with a surplus, it is not
itself stored.

### StockReports and StockView

| model | code |
|---|---|
| `ReadMonth`, `Checkpoint...` | readers of `checkpoints/check_date_store_batch.rs` |
| `OpsOf...` | readers of `topologies/`, a range of days each |
| `StockList`, `GoodsInStore`, `GoodsList` | `db.rs`: `get_balance_for_all` and its kin |
| `Row`, `StorageReport`, `BatchReport` | `aggregations.rs` |
| `InventoryFind` | `src/inventory/service.rs` |
| `TopAndBefore`, `View` | `src/memories/stock.rs` |

Readers take no lock, so what holds of them is required in every state of the
ledger, a change under way included, unless the property says `Idle`.

### Documents and TextSearch

| model | code |
|---|---|
| `docs`, `Catalog` | latest versions of documents; those that do not change |
| `copies`, `Save`, `SaveByUuid` | what was saved under the uuid; a save by id, and one by uuid, which takes the copy for the version before |
| `HeaderOf`, `StoreOf`, `GoodsOf`, `BatchOf`, `Operation` | `json_to_ops` in `store/src/elements.rs` |
| `ReceiveData`, `Mutated` | `receive_data` |
| `meant`, `last`, `astray` | history: what the ledger was given last for a line by id and by uuid; which of them was last; lines whose earlier operations could not be told any more |
| `sim`, `pending`, `committed` | the index in memory; tantivy's, before and after a commit |
| `Plain`, `Plainly` | small letters and no ё: done to names that change and to queries (`processing.rs:65`), not to those a start loads (`:57`) |
| `NameChanged`, `Load`, `Page` | `src/text_search/processing.rs` |

### Memories

| model | code |
|---|---|
| `lock` | the global `LOCK`; a thread that panics with it poisons it |
| `pc[t]`, `req[t]` | where a request is, and what it brought |
| `folders`, `link`, `index` | folders there are, the content `latest.json` of each leads to, the links by uuid |
| `Shadow(d)` | the folder built of the uuid of `d`; `req[t].at` is the folder a request leads to |
| `ledger` | the operations, as `StockLedger` leaves them |
| `Reserve` | `Memories::create` up to the release of the lock |
| `Enter`, `Post`, `Save`, `Unlink`, `Relink`, `Finish` | `save_data`; any error of reading the version before counts as none (`:71-83`) |
| `ReadForPatch` | the unlocked read of `patch` |
| `Fail`, `FailReserve`, `Panic`, `Refused`, `Crash` | early returns of `save_data` and of the reservation, panics, and the end of the process between two steps |
| `known`, `damaged`, `asked` | what clients know (`known`) and history |

A time stamp that two requests share would make them write one version file;
the model leaves this out, as nothing reads the history of versions. `List`,
`FindAll`, `FindWhere` are what `find` answers, page by page; `ResolveId` and
`ResolveUuid` the two ways to a document.

### CameraLifecycle

| model | code |
|---|---|
| `known`, `file` | the list of `Cameras`, the json file of the camera |
| `phase` | the atomic of `State`, moved by compare-and-exchange |
| `patch` | the patch that holds the write lock of all cameras |
| `task[t]` | where the background task is |
| `Begin`, `Truncate`, `Write`, `SaveFails`, `Connect` | `Cameras::patch` |
| `Start`, `Report`, `Dial`, `Read`, `Wait`, `Record`, `End` | `connection` and `processing` |
| `Restart` | the process ends and `Cameras::new` loads the files |
| `unsaved`, `late`, `patches`, `restarts` | history |
| `orphaned` | history: the camera was switched on and has no task, as its save failed or its task met an event that is refused; until the next restart |

### Server and ActionTasks

| model | code |
|---|---|
| `conn[c]`, `Start`, `Send`, `Close`, `TimeOut` | the actor `WsConn` |
| `inbox` | the mailbox of the commutator |
| `main`, `Emit` | `Application::emit`, which waits on the main thread |
| `channel`, `hand`, `Receive`, `EventToAll` | the channel and the dispatcher thread |
| `Connect`, `Disconnect`, `Mutate`, `Act`, `MutateTask`, `Refuse`, `Panic` | the handlers of the commutator |
| `people` | a service that keeps records; companies, departments and shifts save theirs the same way |
| `tasks`, `CreateTask`, `Cleaned` | `src/hik/services/actions.rs` |
| `Ask`, `Complete` | `HttpClient::process` before and after the request |
| `PatchTask`, `meddled` | a client's own patch of a task (`actions.rs:203-243`); history: the tasks so patched |
| `log`, `joined`, `sent` | history: all events, how many there were when a session joined, who sent what |

The removal of a person (`people.rs:126-131`) asks the shifts service to remove a
shift, which it does not implement: a request of `Refuse`. A text frame whose data is not
in brackets (`websocket.rs:103-104`) is dropped there and never becomes a request;
it has no answer and is not in the model.

### LegacyLedger

| model | code |
|---|---|
| `core` | the documents in the core column family |
| `db` | operations, memos (balances of a store at the end of a day), checkpoints with totals; a function of the keys present |
| `Look`, `Modify`, `Commit` | a client reads; `AnimoDB::modify` writes the core and works from a snapshot; `Txn::commit` |
| `OpAndMemos`, `PointAndSums` | `ops_manager.rs` `write_ops`; `store_aggregation_topology.rs` `on_operation` |
| `Balance`, `Turnover` | `balance_tx`; `stores_turnover_tx` |
| `astray` | history: keys the code leaves wrong, with the reason at each definition |

## 3. What the runs check

| run | shows | size |
|---|---|---|
| `checkpoints` | with a crash between any two writes: both loops of an update end, an update never changes the past, keys no interrupted update wrote add up, and for these it is one posting in `StockBook`, the months the running update has bumped set aside; the inductive invariant of the proof | 35,292 states |
| `ledger_forward` | receipts, transfers, issues and inventories in any order of dates, changed and withdrawn: balances, first-in-first-out splits, arrivals, documents, stock and short counts agree after each edit, and the list of the stock, the reports and the view by place say the same | 18,855 |
| `ledger_to_and_fro` | goods to and fro, on one day and fed from two batches of one date too: checkpoints and secondary topologies agree with the operations in every intermediate state, and recording ends | 83,250 |
| `documents` | lines, orders and headers saved in any order, by id and by uuid, with batches that cannot be read; drugs named and renamed, with restarts: the ledger is of the last save, drugs are found and pages show all | 56,011 |
| `memories_faults` | three threads, requests by id and by uuid, failing steps, panics, crashes: the ledger follows the documents and their copies, documents stay readable, are found by pages and keep their ids, every request ends | 133,574 |
| `camera_faults` | one task, one late event, faithful restarts; the phase tells what the task does and switching ends, unless a failed save or a refused event left the camera without its task | 12,662 |
| `legacy` | two requests at a time, outdated, moved and shared documents, skipped months, crashes: memos, checkpoints and turnovers follow the documents | 258,036 |
| `server` | two clients that come and go and patch tasks themselves, a commutator that may panic, a full channel, actions that finish at any time or never: clients follow, requests are answered once and at last, answers are kept | 996,531 |

Four more runs, `ledger_orphans`, `ledger_goods`, `camera_refused` and
`documents_header`, end in a violation each; they are the findings of section 5.

Several properties leave a case out that the code gets wrong. Each names it, by
a condition (`ReaderPanics`, `Enclosed`, `Overlooked`, `Copies`) or a history
variable (`astray`, `damaged`, `suspect`, `orphaned`, `meddled`), as narrowly as it
can, and section 5 lists them.

### Bounds, and why they are enough

* *checkpoints*: two keys, months 0 to 3, deltas of one unit either way, three
  updates, any of which may be cut short: a second update meets a latest date before, in and after its month,
  and an interrupted one is followed by two others. The theorems need no bound.
* *ledger*: two stores, three days of which two are in one month and a later one
  that readers may ask for, up to three
  documents and four edits (three in `ledger_orphans`). Three documents are the
  least with which a receipt feeds a transfer that feeds an issue, four edits the
  least with which such a chain is changed after it is complete. Quantities
  are chosen so that an issue uses a batch up exactly, partly, or takes more than
  there is. `ledger_to_and_fro` has a fourth document, a second batch of one
  date. A chain through three stores
  is not covered, nor are two transfers of one day that meet in a third store, and `ledger_forward` has no
  two issues without batch on one day from one store, see section 5. Inventories
  stand between a backdated receipt and a transfer, and in the store it goes to.
  Ten layouts of three storages: flat, nested, circles of one to three, lost
  places at either depth.
* *documents*: four saves, each by id or by uuid: a line may be saved, its header
  changed, the line saved the other way, and one of the two again. A document of
  each kind. Two drugs and three words, two of which differ in a letter that is
  normalised, let names overlap, and a page of two hold half a page of each index.
* *memories*: three threads, two documents, three requests, two places and the
  quantities 0, which stands for deleted, and 1; one of the documents has a uuid
  that passes for a year, so that its copy is listed. Three requests let a
  creation, an update and a patch of one document overlap, or two creations and
  what follows one of them; no more than three threads can be busy then.
* *cameras*: two task names, as a second task is what must not exist; five
  patches are enough to switch on, off, on and off again with a change of
  settings in between; two restarts, as the second may meet what the first left.
* *legacy*: two threads, two documents with three versions each, three
  changes, nine days in months of three: a month may be skipped, a change
  dated back before a checkpoint, and an operation on the first day of a month end
  an interval that a turnover is asked for, or come the day after it. Balances of one store are asked for at two days.
* *server*: two connections, so that one can leave while the other stays; two
  requests, so that the channel, the dispatcher's hand and the main thread may
  each hold an event, as an action emits two more; two tasks, so that a creation
  may forget another; one unit of time, as a task is kept for none or one. A client's patch takes a task to completed at time 0. Three
  requests exceed what can be checked in minutes.

The configurations switch deadlock checking off because all the bounded systems
stop when their bound is reached. That nobody waits for ever is a liveness
property instead.

### Fairness, and why the code justifies it

* `Checkpoints`, `StockLedger`: weak fairness of the steps of the running
  update or edit. They run in one thread, in straight-line code and loops, with
  nothing to wait for. The one other end of an edit is the panic of its thread
  (`Stopped`), after which the ledger rests.
* `Memories`: strong fairness of each thread's next step. A thread that holds
  the lock runs straight on; one that waits for it gets it when it is free
  again and again. Rust's mutex makes no formal promise, but requests are finite
  in number in any stretch of time and operating systems wake a waiter.
* `CameraLifecycle`: weak fairness of the steps of a patch and of each task. A
  request to a device ends with an answer, an error, or the loss of the
  connection noticed by keep-alive. No fairness of users or restarts.
* `Server`: weak fairness of the main thread's messages and emissions and of the
  dispatcher, two loops on threads of their own that wait for nothing but each
  other. None of clients, and none of devices: a request to a device has no
  timeout and may be silent for ever.

## 4. What is proved

`CheckpointsProofs` (from `CheckpointsAssumption`: there is a month to post to,
deltas are integers):

* `InvariantHolds`: the invariant `IInv`, for any keys, months and deltas, with
  a crash possible before every write.
* `SumsAreKept`: from it, `CrashDamageContained`.
* `PastStaysClosed`: an update changes no checkpoint of its own month or before.
* `UpdateImplementsBook`: the update, crashes included, implements `StockBook`,
  which posts at once and may forget what a crash damaged; what the running update
  has bumped is set aside.

The argument. The code never recomputes a checkpoint, so the invariant compares
neighbours: the checkpoint of month m + 1 less that of month m is what was
posted in month m (`KeyOK`). Comparing differences needs no sum over history, and so no
induction over data. In the middle of an update months up to
`at` have the new delta and later ones have not; `Settled` takes the delta of
the running update out again, and the settled balances satisfy `KeyOK` at all
times, until `SetLatest` turns the delta into turnover at once. Copies written
ahead of the latest date equal the latest checkpoint as soon as they are not on
the list `todo`. Both parts are needed: without the second, `SetLatest` could
publish a month that was never copied. A crash can leave wrong only the key it
posted and the keys with copies beyond the latest date; those are `suspect`, and
every other key keeps `KeyOK`. For the refinement, a step that changes `latest`
maps to `Post`, a crash to `Forget`,
every other to a stutter: a key leaves the book with the crash that damages it.

`StockLedgerProofs` (from `LedgerAssumption`: stores are numbers, the entries
finitely many operations of the kinds documents can stand for, their months
before the horizon and not earlier for a later day):

* `LedgerTypes`: the kinds of everything stored, and that no two operations of
  the first topology or of the front share a key.
* `IndexFollowsMain`, the property `IndexMirrorsMain`: in every step, whatever is deleted.
* `CheckpointsSumUp`, the property `CheckpointsAreSums`: in every step, from
  `Careful`: nobody deletes or moves an issue that names no batch. Without it the
  property is false, see section 5.

Every operator of the ledger, from `Push` to `Counted`, is shown to make a sound
database of a sound one; `Sound` is the invariant, its parts are:

* The sets are finite and keys apart in each (`IsKeyed`): so what a save replaces
  is one operation, the one whose difference it posts.
* `Mirrors`: an operation without parts is in the index if and only if it is in
  the first topology; the posted difference is taken from one and the checkpoints
  are compared with the other. Inventories are left out in both directions: one
  that took from batches and then finds nothing to take stays in the index as it is,
  and one that takes again later is in the first topology alone.
* `HasTaken`: a stored issue without batch has parts. It was never posted, so a
  save of it must not post either, and that is decided by the parts alone.
* `Dated`: nothing is dated in the latest checkpoint's month or after it.
* `Sums`: the checkpoints add up the index; this needs all of the above.

The models fold over finite sets. A fold takes elements in an order that
`CHOOSE` picks, so its first part shows that a recursion over the subsets of a
finite set exists and follows its step, and that a property of subsets which passes
on from the smaller ones holds of all. It states them of sets and functions, as an
operator cannot be a parameter of a lemma here. `SumOf` is then shown to be one
such recursion, and not to depend on the element taken first (`SumWith`). The
deletions of `Dropped` are a recursion over the positions of a sequence.

It also proves of the lists (from `ReportsAssumption`, `PlacesAssumption` besides:
days are numbers, a later one is not in an earlier month, places are finitely many):

* `ListsStayCurrent`, the property `StockListIsCurrent`, from `Careful`: in every state,
  the middle of a change included, the list of the stock, unless its reader panics,
  and that of one goods in one store, unless an inventory is among what it adds,
  are the sum of all operations up to the day.

The argument: a list starts from the checkpoint of the day's month, or from the
latest if that is earlier (`ReadMonthFacts`), which is the sum of what is dated
before it. What it adds is exactly the rest, because months grow with days
(`Calendar`) and nothing lies beyond the latest checkpoint (`Dated`); two sums
of operations that are apart make the sum of all (`SumUnion`, `OnTopOf`), and
adding up by batch and store makes the sum too (`SumByKeys`).

`StockBalancesProofs` (from the same):

* `BalancesStayCurrent`, the property `BalancesAreCurrent`, from `Orderly`: once an
  edit is recorded, every stored balance is the one before it in its store and
  batch changed by its operation, at the cost of that balance.

`Orderly` says of what the documents may stand for: no issue without batch is
deleted (`Careful`), there are no inventories and no operations whose header
changes under them, and, of two documents of one day only, an issue without batch is
the only one to issue from its store, a transfer into a store from which another
document issues comes from a lower store, and what arrives in a store is of a
batch that nothing else brings there that day. Nothing is asked of documents of
different days, of how often or how late they are changed, or of the order of
edits. Each of the last three conditions leaves out a case of one day of section 5;
inventories are left out because one keeps its old balance when it finds nothing
missing.
`ForwardEntries` without its inventories is orderly, so the run `ledger_forward` checks the
conclusion for some of what the theorem is about.

The argument. The code looks at the front in the order of dates, kinds, stores
and batches, skips what equals something it has looked at in this recording, and
pushes only what is next: nothing in it says that this suffices. The invariant
`OnTheWay` has three parts:

* `Pending`: a stored record is current, or its key is on the front and nothing
  of that key has been looked at. The second half makes sure that what is pushed
  for it will not be skipped. A save or a deletion changes the balance before one
  other record at most, the next in its chain (`Exchange`), and it is just that one
  which is pushed (`BothPush`).
* `Ordered`: what has been looked at stands to whatever is on the front as `Passed`
  says: before it, in the order of the front, except that the receive a transfer
  causes may come after issues of the same day. Whatever an operation puts on the
  front is `New` to it, hence also passed by everything before (`PassedNew`); and what is
  next in a chain is `Sooner`, so it was never looked at (`SoonerUnseen`). The proofs of these
  are where the conditions on one day are used (`ReceivesMeet`, `BehindSooner`).
* `Placed`: every stored or waiting operation is that of a document, a part of it,
  or what arrives of them (`Belongs`). A deletion takes out all that belongs
  to what is deleted (`BelongsKeys`), as `Careful` leaves only operations without parts.

An issue without batch is not evaluated from the record before it: its balance
is what the checkpoint and the operations since add up to (`OnHand`), which is
the balance before it only because balances are sums when all before them are
current (`BalanceIsSum`, `OnHandIsSum`). When it is split, all before it is, as the
least on the front has nothing pending before it.

`StockFlowProofs` (from the same, and `Orderly`):

* `LedgerMatches`, the property `LedgerMatchesDocuments`: once a recording ends, every
  document is in the ledger, with its quantity, and whatever else is there a
  stored virtual issue takes or a stored transfer brings.
* `TransfersGetThere`, the property `TransfersArrive`, one part of `StockIsConserved`:
  every stored transfer has its receive, of the quantity and the cost of its last
  evaluation.
* `StockIsKept`, the property `StockIsConserved`: besides, the stock of all stores
  together is what the documents received less what they issued.
* `SplitsStayFifo`, the property `SplitsAreFifo`: every stored issue without batch is
  split as the stock before it demands, and its parts are stored with those quantities.

The argument. What is derived from an operation is written onto the front when it
is evaluated, and may be evaluated again before it gets stored, or shed when the
issue is split again. `Flowing` says, at every step of a recording, how what is
stored and what waits belong together:

* `AllTaken`, `AllCame`: whatever looks derived has its origin among the stored.
  Both look at the front too, as what is there will be stored.
* `AllSent`: the receive of a stored transfer is stored as it is meant, or waits
  unseen. Here it matters that a transfer whose evaluation changed puts its
  receive on the front again, and that nothing equal was looked at before.
* `AllLookedAt`: a receive that was looked at is stored, unless its transfer was
  looked at since, or the issue it was a part of; so a skip loses nothing.
* `SameParts`: what waits under the key of a stored issue took from the same batches,
  so that what is shed when it is split again is all that it took before.
* `AllFull`: nothing is empty, as a part of quantity 0 would be dropped.

`Heard` says of each document whose mutations were handed over (`Told`) that the
ledger has it, or that it waits unseen. `AllShared` says the same of the parts of
each stored virtual issue, and that they make its quantity. So once all is
recorded the stock is summed up document by document (`EachAddsUp`): a transfer's
operations cancel in pairs (`PairsCancel`), whatever was taken from which batch,
an issue without batch moves what its parts add up to (`PartsAddUp`), and every
other document has one operation.

For splits the invariant `FifoOK` adds `AllReady`: every stored issue without batch

* is `Waiting`: an operation without batch, of its store and not after it, is on the
  front and was not looked at, and when it is recorded it will send for the next
  (`NextWaits`); or
* is `Chained` and `Suits`: every record of its store before it follows from the one
  before (`Continues`), and its parts are those of a split of what is on hand, each
  stored with its quantity or waiting unseen.

What is on hand is a sum of operations, whatever checkpoint the code starts from
(`OnHandIsThrough`), so the same operations before an issue make the same splits
(`SamePast`). A record evaluated anew with its operation unchanged keeps what later
issues find (`SwappedPast`); one that is deleted or changed alters the balance without
batch, and the code sends for the next issue (`TakeOutWaits`). When an issue is split
nothing of its store before it is left to do (`HeadIsChained`), because it is the
only one to issue from its store that day and receives come first
(`StampThenKey`). The receives it sheds are in other stores, where they leave what
is before an issue as it was, or make it wait (`DistributedBeside`).

`CameraProofs` (from `CameraAssumption`: the names of tasks, user and nobody
differ, and the switches are Boolean):

* `NeverTwoTasks`, `NoSecondLateEvent`, `CameraTypes`: for any tasks, patches
  and restarts, and with all faults. The invariant `CInv` adds to the property
  that a camera which is off has no task (`NoTaskWhenOff`), that a patch which is
  to connect found none (`NoTaskToConnect`: between its look at the phase and its
  decision the task of before may have ended, but cannot have been started),
  that a reporting task waits for its report (`ReporterWaits`), and that after a
  late event the task touches no other (`LastEvent`).
* `RestartIsFaithful`: a restart keeps the camera on or off, from the invariant
  `FileTellsSwitch`: `Start` and `End` change the phase without saving it, but
  not the side it is on.
* `PhaseIsTrue`, the property `PhaseMayTellTask`: between patches the phase tells
  what the task does, unless the camera is `orphaned`, from `PhaseOK`. Both ways to
  be so are needed: a refused event is what the run `camera_refused` shows, a
  failed save the variant of it in section 5; and a restart ends either.

`DocumentsProofs` (from `DocumentsAssumption`: the catalog has no line, drugs
are documents, the sizes of pages are even):

* `LedgerOfLastSave`, `DocumentsTypes`: whatever is saved in any order, by id or by
  uuid. An operation and its place in the ledger carry the id of their line
  (`OneOperation`), so that what a save deletes and puts are entries of that line
  alone (`OthersStay`); an edit in place meets its own place (`OwnReplaced`).
  A save knows only what was saved the same way before, so a line may have two
  entries, what its last save by id meant and what its last by uuid did; the later
  is always there, and there is only the first as long as nothing was saved by
  uuid. The invariant adds to the two properties that what was meant last, either
  way, is one operation of the line at most (`MeantInv`), which the step needs when
  an edit in place keeps its old operation off the list of deletions.

`MemoriesProofs` (from `MemoriesAssumption`: the marks of the lock are no
threads, places and quantities are numbers, the switches are Boolean):

* `LedgerFollows`, `IdentityHolds`, `DocumentsFound`, `MemoriesTypes`: for any
  threads, documents and requests, by id and by uuid, with failing steps, panics and
  crashes between any two writes. `LedgerFollows`: the ledger has the operation of
  a document or of its copy, and nothing but these two. `DocumentsFound` is the part of `DocumentsReadable`
  about a document by its id or uuid.

The invariant `MInv`. Only who holds the lock saves (`OneSaves`), but an id is
reserved and released before its document is saved: so no two creations are of
one id (`OneCreates`), and an id that is reserved is that of a document, of a
creation under way or of a damage (`Reserved`). In the middle of a save the
ledger is not that of any version; `Owes` says what the rest of the mutations
makes of it: whatever the folder that is saved to has in the ledger now is where
the next mutation puts or deletes, and what is put last is the new version's; what
the other folder of the document has there (`Elsewhere`) may stay beside it, or be
replaced where it is in the same place. A link is
missing only while it is moved, and a version carries its uuid unless a save was
cut short (`Versions`). The three parts need each other: a patch that reads the
version without the lock is to bring the uuid of a document that somebody else
may be saving.

`ServerProofs` (from `TasksAssumption` and `ServerAssumption`: times to keep are
numbers, there are as many names of tasks as requests):

* `ClientsFollowAlways`: what a session has heard and what is on its way to it,
  in the channel, in the dispatcher's hand and with the main thread, is all that
  was emitted since it joined, in that order, and its last event of a record
  tells how the record is.
* `RequestsAnsweredOnce`, `AnswersKept`, `ServerTypes`: for any number of
  connections, requests, tasks and moments, and with a commutator that may panic.
  `AnswersKept` is of tasks that no client has patched itself.

The invariant `SInv` has a part for each actor. `TasksAsk` and `TasksAnswer`: a
device that is asked or answers in time finds its task, as a clean-up forgets by
the same times. `FirstTasks`: the tasks created so far are the first of their
names, hence the id of a forgotten one never comes back. `MailOK` and
`SessionsOK`: which messages of a connection may still wait in the mailbox, by
its state, so that nobody becomes a session after it left. `OrderOK`: requests
are handled in the order they were sent, each creates a task at most, which
bounds the tasks by the requests. `AnswersOK`: a request that was sent waits, is
in the main thread's hands, or was answered, and only one of these. `HeardOK`:
heard and coming events are a suffix of the log. `LogTells`: the last event of
a record tells how it is.

### What is only model-checked

* All liveness (`UpdateTerminates`, `EditsAreRecorded`, `RequestsEnd`, `RequestsAreAnswered`,
  `SwitchingEnds`): proofs under fairness need ENABLED, which the prover does not
  reason about.
* The part of `DocumentsReadable` about lists and pages, and `DrugsAreFound`:
  what selecting from, sorting and cutting a sequence of any length returns.
* Of the ledger between edits `ShortCountsAreMet`, and all of it with
  inventories. They are false of some constants, by the cases of section 5 that
  the entries of the runs avoid.
* `ReportsAddUp`, which allows for rounding that grows with the number of issues
  folded, and sorts them first.
* `LegacyLedger`: see section 7. `View` and
  `Outward` of `StockView` walk by a recursive function, and what such a walk
  computes for any number of storages is an induction too.

## 5. What was found

Four runs TLC ends with a violation; `PROJECT.json` quotes the lines.

* `ledger_orphans`: deleting an issue without batch leaves its parts in the
  ledger, because the operation rebuilt from the document has no list of parts.
* `ledger_goods`: the balance beside each goods is that of the beginning of the
  month, or of the latest checkpoint. The goods to look for are collected by an
  iterator that nobody runs (`topologies/store_date_type_batch_id.rs:248-250`), so no
  operation is found, where the comment has "operations between checkpoint date and
  requested date" (`ordered_topology.rs:526`).
* `documents_header`: a header saved with another storage moves nothing of what was
  received under it: a header has no operation of its own (`elements.rs:260`) and
  its lines are not saved again. `tests/check_edit_document.rs:67-81` saves one, by its
  uuid, and expects the goods in the new storage.
* `camera_refused`: one event that the events service refuses ends the task by a
  panic; the camera shows as on and nothing starts a new task.

More was met while modelling. The models do what the code does, and the
properties leave these cases out by name. The repository says something else of
some of them: where it does, it is quoted here; a run of each would repeat what
reading the lines shows.

*Ledger.*

* Circular transfers of one day: the guard against repeated processing skips a
  recalculation that is needed, and goods appear out of nothing. They need not be
  circular: when the cost of a batch is changed, of two transfers of it from two
  stores, on one day into one third store, the later one's arrival may leave the
  balance of the earlier one's, which was processed before, as it was. Two issues
  without batch from one store on one day (`SameDayEntries` as the `Entries` of
  `ledger_forward`): the second is split before the parts of the first are
  stored, and not again.
* Withdrawing or changing an inventory leaves its old corrections, for the reason
  of `ledger_orphans`. One that was stored keeps its old balance when it finds
  nothing missing any more, and the balances of no batch after it start from that.
  An inventory with no difference or a surplus is not
  stored, so later changes before its day do not recalculate it
  (`store/src/ordered_topology.rs:712`). One that names a batch corrects nothing.
* Deleting an issue without batch credits its quantity to the stock of no batch
  in the checkpoints, to which it was never posted: `remove_op` takes the stored
  issue for what it added, because the deletion comes without parts
  (`store/src/ordered_topology.rs:293`). The parts that `ledger_orphans` finds
  left behind stay debited to their batches. Hence `Careful` in the theorems.
* Stock of no batch is counted by an inventory but never taken, and then the
  assertion at `store/src/balance.rs:168` panics: in a reader, and in the thread that
  records, when it adds up the stock for that inventory again, or for a split or
  another inventory after it. It holds the lock of all writers, so nobody saves
  anything until the process is started again.

*Readers.*

* The report of one batch reads its checkpoint from the default column family
  (`check_date_store_batch.rs:197`), which has none, and so adds up all
  operations since the beginning.

*Documents and search.*

* After a header is changed, a line saved again leaves the operation it put
  before: the deletion is of what the line means now.
* A line saved by its uuid leaves in the ledger what it put by its id, and the
  other way round: neither save knows the version of the other. The document that
  `get` finds is the one saved by id (`LedgerIsOfLastSave`, `LedgerFollowsDocuments`).
* A line with an unreadable batch is saved and the ledger left
  (`store/src/elements.rs:163-182`).
* Deleting from tantivy's index deletes nothing: the term is the whole uuid, the
  field is tokenised (`engine_tantivy.rs:99`). Old names are still found there.
* A page of odd size loses results, one of size 1 divides by zero
  (`processing.rs:111-113`). A drug without a name stops the next start
  (`processing.rs:53`). Names are loaded as they are (`:57`) while queries are
  put into small letters without ё: after a start a name with a capital is not found
  in memory until it is changed.

*Memories and cameras.*

* A process that ends between the removal of `latest.json` and its new creation
  leaves a document without a version; the next update stores whatever uuid the
  client sent. So does one that cannot read the version before, for whatever reason;
  and it posts the new operation without taking back the old one.
* A reservation that fails may leave a folder without a version, which makes an
  unfiltered search of its context fail.
* A patch that switches a camera on and cannot save it returns before it
  connects; the camera stays switching on without a task. `camera_refused` with
  `SavesFail = TRUE` and `Unexpected = FALSE` shows it. Switching off a camera
  that is still switching is lost (`cameras.rs:243`); a status of the same second
  as the one before is dropped (`cameras.rs:253`).

*Server.*

* A panic in a service ends the commutator for good: sessions stay open and no
  request is answered.
* All services, processes and cameras share the main thread, so an `emit` that
  waits makes all of them wait; the dispatcher never does, hence
  `RequestsAreAnswered`.
* A session may get an event before it is greeted (`commutator/mod.rs:344-350`).
  A silent client runs into `todo!()` (`websocket.rs:39`). An action whose device
  is silent stays requested until another creation forgets it.
* `startup` registers neither actions, cameras, attendance, departments, shifts
  nor events (`src/main.rs:202-209`); `Server` models actions as if it did.
* A text frame whose data is not in brackets is never answered (`websocket.rs:103-104`). The
  removal of a person always fails.

*Former ledger.*

* `into_before` is never compared with what is stored (`animo/db.rs:171`), there
  is no lock between snapshot and commit (`:184`), and the core is written first
  (`:165`) and never repaired.
* The key that opens a month loses its totals (`store_aggregation_topology.rs:192`):
  what was carried is in the batch, and the read is of the snapshot.
* A document that moves leaves its operation where it was and brings only the
  difference; two documents of one kind, store, goods and day share one operation.
* Operations cannot be read back (`balance_operation.rs:53`, `todo!()`): a balance
  or turnover that needs one panics. `test_warehouse_store_turnover`
  (`store_aggregation_topology.rs:806-893`) and `test_store_operations`
  (`store_topology.rs:615`) ask for such and expect the numbers.
* The turnover means to subtract "operations between (till, checkpoint_till]" (`:317,
  320`), and that test expects the stock at `till`. Operations of the day after are kept
  at its beginning and the search starts behind it: of an interval that does not end
  with its month they stay in the closing balance. At a month's end they are in the
  next checkpoint, and the closing balance is right.
* `delta_between` (`balance_operation.rs:90`) adds the costs of two issues it
  should subtract; nothing calls it.

## 6. What is not modelled, and why

* *attendance*: a report that is a function of files of events, without state.
* *users*, *authentication*: they emit nothing and answer from a key-value file;
  `in_files`, `in_kv`: started by nobody.
* *organizations* beyond `resolve_id` and `resolve_uuid`, *device data*, *HTTP and
  start-up*, *import scripts*, *helper crates*: file layouts, parsers, routing
  and configuration, without state or protocol of their own.
* *text search*: ranking and similarity of words, which are libraries'; a query
  matches by words. Odd pages.
* *legacy*: byte layout of keys; quantity and cost are one amount, as neither
  changes without the other; `write_aggregation_delta`, which nothing calls.
* In the other models: names, addresses and passwords of cameras and the status
  they show; rounding of prices beyond what small quantities reach; the two checkpoint
  tables' second, which is not opened; two changes
  of one document in one millisecond (`storage/memories.rs:225`), which write one
  version file; enriching of documents in answers; in `Server` the `Mutation`
  channel, to which nothing is sent.

## 7. Plan

In order of importance:

1. *Done*: `Checkpoints`, `StockBook`, `CameraLifecycle` and their proofs;
   `Money`, `StockLedger` with inventories, `StockReports`, `StockView`;
   `Documents`, `TextSearch`; `Memories`; `ActionTasks`, `Server`; `LegacyLedger`.
2. *Done*: the proofs for `Memories`, `Server` with `ActionTasks`, `Documents`,
   the checkpoints and topologies of `StockLedger`, the lists of `StockReports`.
3. *Done*: `BalancesAreCurrent`, `LedgerMatchesDocuments`, `StockIsConserved` and
   `SplitsAreFifo` of orderly documents.
4. `StorageReport` and `ViewCountsOnce`; which keys a batch of `LegacyLedger` writes.

## 8. Running it

    tlc -config MCCheckpoints.cfg MCCheckpoints
    tlapm CheckpointsProofs.tla

and so on with the pairs of `PROJECT.json`. `server` and `legacy` take about two
minutes, `ledger_forward`, `ledger_to_and_fro` and `memories_faults` about one each,
the others less than half a minute, the proofs of `StockFlowProofs` about a quarter of
an hour, the others some minutes each.
