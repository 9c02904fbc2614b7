----------------------------- MODULE Checkpoints -----------------------------
(***************************************************************************)
(* The checkpoint column family of the stock ledger and the procedure that *)
(* keeps it, CheckpointTopology::checkpoint_update.  A checkpoint is the   *)
(* balance of a (store, goods, batch) key on the first day of a month.     *)
(*                                                                         *)
(* Every record is one RocksDB write and nothing groups the writes of an   *)
(* update into a transaction, so each write is an action here and a crash  *)
(* may come between any two of them.                                       *)
(*                                                                         *)
(* A date matters to this code through its month alone: a checkpoint date  *)
(* is a first day of month, so `last <= op.date` compares month numbers,   *)
(* and first_day_next_month adds one.  Month 0 is 1970-01, the date read   *)
(* when no latest checkpoint was ever stored.  A balance, which the code   *)
(* only adds to and compares with zero, is one integer; a record whose     *)
(* balance reaches zero is deleted, so 0 also stands for "no record".      *)
(***************************************************************************)
EXTENDS Integers

CONSTANTS
  Keys,      \* the (store, goods, batch) triples
  Horizon,   \* the last month a checkpoint may have
  Deltas,    \* what an operation may add to a balance
  MaxPosts   \* bound on the number of updates started

ASSUME CheckpointsAssumption ==
  /\ Horizon \in Nat \ {0}
  /\ Deltas \subseteq Int
  /\ MaxPosts \in Nat

VARIABLES
  chk,       \* chk[m][k]: the stored checkpoint of key k for month m
  latest,    \* the stored latest checkpoint date
  busy,      \* an update is running
  op,        \* its operation: month, key and delta
  last,      \* its last_checkpoint_date
  at,        \* its check_point_date: the month bumped last
  todo,      \* checkpoints it has still to copy forward
  turnover,  \* history: net delta per month and key of the finished updates
  suspect,   \* history: keys whose records an interrupted update had written
  posts      \* history: number of updates started, for the bound

vars == <<chk, latest, busy, op, last, at, todo, turnover, suspect, posts>>

Months == 0 .. Horizon
Zero   == [m \in Months |-> [k \in Keys |-> 0]]
Ops    == [month : 0 .. Horizon - 1, key : Keys, delta : Deltas]
Copies == [key : Keys, month : Months]

Init ==
  /\ chk = Zero
  /\ latest = 0
  /\ busy = FALSE
  /\ op \in Ops
  /\ last = 0
  /\ at = 0
  /\ todo = {}
  /\ turnover = Zero
  /\ suspect = {}
  /\ posts = 0

(***************************************************************************)
(* The update.                                                             *)
(***************************************************************************)

(* Mutant: the copies stop one month short. *)
ToCopy_OneShort(o) ==
  IF latest <= o.month
  THEN {c \in Copies : /\ chk[latest][c.key] # 0
                       /\ latest < c.month
                       /\ c.month <= o.month}
  ELSE {}

(* The checkpoints stored at the latest date, for every month up to and    *)
(* including the one that follows the operation.                           *)
ToCopy(o) ==
  IF latest <= o.month
  THEN {c \in Copies : /\ chk[latest][c.key] # 0
                       /\ latest < c.month
                       /\ c.month <= o.month + 1}
  ELSE {}

(* Mutant: the new latest date is stored before the checkpoints are. *)
Begin_Publishes(o) ==
  /\ ~busy
  /\ posts < MaxPosts
  /\ busy' = TRUE
  /\ op' = o
  /\ last' = IF latest <= o.month THEN o.month + 1 ELSE latest
  /\ at' = o.month
  /\ todo' = ToCopy(o)
  /\ latest' = last'
  /\ posts' = posts + 1
  /\ UNCHANGED <<chk, turnover, suspect>>

(* Entry of checkpoint_update: read the latest date, decide what to copy. *)
Begin(o) ==
  /\ ~busy
  /\ posts < MaxPosts
  /\ busy' = TRUE
  /\ op' = o
  /\ last' = IF latest <= o.month THEN o.month + 1 ELSE latest
  /\ at' = o.month
  /\ todo' = ToCopy(o)
  /\ posts' = posts + 1
  /\ UNCHANGED <<chk, latest, turnover, suspect>>

(* One write of the copy loop; a key's months are written in order. *)
CopyForward(c) ==
  /\ busy
  /\ c \in todo
  /\ \A other \in todo : other.key = c.key => c.month <= other.month
  /\ chk' = [chk EXCEPT ![c.month][c.key] = chk[latest][c.key]]
  /\ todo' = todo \ {c}
  /\ UNCHANGED <<latest, busy, op, last, at, turnover, suspect, posts>>

(* Mutant: the loop starts with the month of the operation itself. *)
Bump_FromOwnMonth ==
  /\ busy
  /\ todo = {}
  /\ at < last
  /\ at' = at + 1
  /\ chk' = [chk EXCEPT ![at][op.key] = @ + op.delta]
  /\ UNCHANGED <<latest, busy, op, last, todo, turnover, suspect, posts>>

(* Mutant: tmp_date is not moved on. *)
Bump_StandsStill ==
  /\ busy
  /\ todo = {}
  /\ at < last
  /\ chk' = [chk EXCEPT ![at + 1][op.key] = op.delta]
  /\ UNCHANGED <<latest, busy, op, last, at, todo, turnover, suspect, posts>>

(* One turn of the loop over the months after the operation. *)
Bump ==
  /\ busy
  /\ todo = {}
  /\ at < last
  /\ at' = at + 1
  /\ chk' = [chk EXCEPT ![at + 1][op.key] = @ + op.delta]
  /\ UNCHANGED <<latest, busy, op, last, todo, turnover, suspect, posts>>

(* The loop broke: store the latest date and return. *)
SetLatest ==
  /\ busy
  /\ todo = {}
  /\ at = last
  /\ latest' = at
  /\ busy' = FALSE
  /\ turnover' = [turnover EXCEPT ![op.month][op.key] = @ + op.delta]
  /\ UNCHANGED <<chk, op, last, at, todo, suspect, posts>>

Step ==
  \/ \E c \in todo : CopyForward(c)
  \/ Bump
  \/ SetLatest

(***************************************************************************)
(* Crashes.                                                                *)
(***************************************************************************)

(* Keys with records beyond the latest date, which no reader looks at. *)
Residue == {k \in Keys : \E m \in Months : m > latest /\ chk[m][k] # 0}

(* The process dies: what was written stays, the rest of the update is     *)
(* lost, and nothing at the next start looks for it.                       *)
Crash ==
  /\ busy
  /\ busy' = FALSE
  /\ todo' = {}
  /\ suspect' = suspect \cup {op.key} \cup Residue
  /\ UNCHANGED <<chk, latest, op, last, at, turnover, posts>>

Next == (\E o \in Ops : Begin(o)) \/ Step \/ Crash

Spec == Init /\ [][Next]_vars

(* An update that runs goes on: nothing in it waits for anybody. *)
FairSpec == Spec /\ WF_vars(Step)

(***************************************************************************)
(* What the readers see.                                                   *)
(***************************************************************************)

(* Every reader takes the checkpoint of the month asked for, or the latest *)
(* one when that is earlier.                                               *)
ActualMonth(m) == IF m > latest THEN latest ELSE m

(* What the running update has already added to a checkpoint. *)
Bumped(m, k) ==
  IF busy /\ k = op.key /\ op.month < m /\ m <= at THEN op.delta ELSE 0

Settled(m, k) == chk[m][k] - Bumped(m, k)

(* The book as the readers see it, without keys a crash may have damaged. *)
View == [m \in Months |-> [k \in Keys |->
           IF k \in suspect THEN 0 ELSE Settled(ActualMonth(m), k)]]

Book == INSTANCE StockBook WITH book <- View, lost <- suspect

(***************************************************************************)
(* Properties.                                                             *)
(***************************************************************************)

TypeOK ==
  /\ chk \in [Months -> [Keys -> Int]]
  /\ turnover \in [Months -> [Keys -> Int]]
  /\ latest \in Months
  /\ last \in Months
  /\ at \in Months
  /\ busy \in BOOLEAN
  /\ op \in Ops
  /\ todo \subseteq Copies
  /\ suspect \subseteq Keys
  /\ posts \in Nat

(* The control state of an update agrees with its operation. *)
UpdateOK ==
  /\ busy =>
       /\ last = IF latest <= op.month THEN op.month + 1 ELSE latest
       /\ op.month <= at
       /\ at <= last
       /\ todo # {} => at = op.month
       /\ \A c \in todo : latest < c.month /\ c.month <= last
                          /\ latest <= op.month
  /\ ~busy => todo = {}

(* The checkpoints of key k up to the latest are its turnover summed, and  *)
(* beyond it there is nothing but what the running update has copied.      *)
KeyOK(k) ==
  /\ chk[0][k] = 0
  /\ \A m \in Months : m < latest =>
       Settled(m + 1, k) = Settled(m, k) + turnover[m][k]
  /\ \A m \in Months : m >= latest => turnover[m][k] = 0
  /\ \A m \in Months : m > latest =>
       IF busy /\ m <= last
       THEN [key |-> k, month |-> m] \notin todo =>
              Settled(m, k) = Settled(latest, k)
       ELSE chk[m][k] = 0

(* Between updates every checkpoint differs from the one before by exactly *)
(* what was posted in the month between, and none lies beyond the latest   *)
(* date: the month-by-month bumps and the copies forward, in whatever      *)
(* order of dates operations arrive, neither lose nor double an operation. *)
(* After crashes it still holds for every key no interrupted update wrote. *)
CrashDamageContained ==
  ~busy => \A k \in Keys \ suspect : \A m \in Months :
    IF m < latest THEN chk[m + 1][k] - chk[m][k] = turnover[m][k]
                  ELSE turnover[m][k] = 0 /\ (m > latest => chk[m][k] = 0)

(* The invariant behind it, which also holds while an update runs. *)
IInv == TypeOK /\ UpdateOK /\ \A k \in Keys \ suspect : KeyOK(k)

(* An update never touches a checkpoint dated on or before its operation's *)
(* own month: a closed past stays closed.                                  *)
PastIsImmutable ==
  [][busy => \A m \in Months : m <= op.month /\ m <= latest =>
                                 chk'[m] = chk[m]]_vars

(* With what the running update has bumped so far set aside, the readers'  *)
(* rule shows the book from before the update until the latest date is     *)
(* stored, and the whole posting from then on: no copy forward shows early, *)
(* no month of the posting is missing at the end, and a crash costs no more *)
(* than the keys of CrashDamageContained.  Set aside means that a reader    *)
(* who takes no lock may find some months of the running posting already   *)
(* bumped and others not.                                                  *)
ReadsAsOneBook == Book!Spec

(* The copy loop and the month loop end. *)
UpdateTerminates == busy ~> ~busy
=============================================================================
