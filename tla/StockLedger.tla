----------------------------- MODULE StockLedger -----------------------------
(***************************************************************************)
(* The stock ledger: how one warehouse document, entered, changed or       *)
(* withdrawn at any date, is carried through the stored operations         *)
(* (OrderedTopology::mutate_op and what it calls).                         *)
(*                                                                         *)
(* The first ordered topology holds every operation with the balance after *)
(* it, sorted per (store, batch) by (date, order, id, dependent); `main`   *)
(* here.  The other three hold the same operations, virtual ones excepted, *)
(* sorted otherwise; they are written together and are one set here,       *)
(* `index`.  An issue that names no batch is virtual: it takes batches     *)
(* first in, first out, as dependent issues, and moves no stock itself.    *)
(* An issue with a store to go into is a transfer and has a dependent      *)
(* receive there.  After every change the operation that follows it in the *)
(* same (store, batch) is put on the propagation front and looked at       *)
(* again, earliest first, until the front is empty.                        *)
(*                                                                         *)
(* An inventory states how much there is.  It is virtual too: what is      *)
(* missing is taken from the batches by dependent issues, what is too much *)
(* becomes a batch of its own by a dependent receive.  Only an inventory   *)
(* that finds less than expected is stored.                                *)
(*                                                                         *)
(* One goods is modelled: operations of two goods share nothing but the    *)
(* latest checkpoint date.  Issues and inventories have automatic costs.   *)
(* A thread that panics stops the ledger; what a restart makes of the rest *)
(* of its edit is not modelled.                                            *)
(* A run of the checkpoint update is one step; module Checkpoints takes it *)
(* apart.                                                                  *)
(***************************************************************************)
EXTENDS Money, FiniteSets, FiniteSetsExt, SequencesExt

CONSTANTS
  Stores,     \* numbers: a store's place in the order of their ids
  Entries,    \* the operations that documents may stand for
  Removable,  \* those of them that users delete, or edit so that they move
  Refiled,    \* those that come about when the document around one is edited
  MonthOf,    \* MonthOf[d]: the month of day d, counted from month 1
  Horizon,    \* the last month that may have a checkpoint
  MaxEdits    \* bound on the number of document edits

NoStore == 0
NoBatch == [date |-> 0, id |-> 0]

Ids     == {o.id : o \in Entries}
Batches == {NoBatch} \cup {o.batch : o \in Entries}
             \cup {[date |-> o.date, id |-> o.id] :
                      o \in {i \in Entries : i.kind = "inventory"}}
Months  == 0 .. Horizon

Kinds == {"inventory", "receive", "issue"}

(* What documents may say. *)
DocumentOps ==
  [id : Nat, date : Nat, store : Stores, into : Stores \cup {NoStore},
   batch : [date : Nat, id : Nat], kind : Kinds, qty : Nat, cost : Int,
   auto : BOOLEAN, dep : {FALSE}, parts : {<<>>}]

ASSUME LedgerAssumption ==
  /\ Stores \subseteq Nat \ {NoStore} /\ Horizon \in Nat
  /\ IsFiniteSet(Entries) /\ Entries \subseteq DocumentOps
  /\ Removable \subseteq Entries
  /\ Refiled \subseteq Entries
  /\ \A o \in Entries : /\ o.into # o.store
                        /\ o.kind # "issue" => o.into = NoStore
                        /\ o.kind = "receive" => o.batch # NoBatch
                        /\ o.kind # "inventory" => o.qty > 0
                        /\ MonthOf[o.date] \in 1 .. Horizon - 1
  /\ \A o, p \in Entries : o.date <= p.date => MonthOf[o.date] <= MonthOf[p.date]

VARIABLES
  docs,   \* docs[i]: the set of the operation document i stands for, if any
  queue,  \* mutations of the current edit still to be recorded
  db,     \* the database and the propagation front, see Empty
  uniq,   \* operations the current mutation has already processed
  edits   \* history: number of edits, for the bound

vars == <<docs, queue, db, uniq, edits>>

(***************************************************************************)
(* Operations and their keys.                                              *)
(***************************************************************************)

Order(o)   == [inventory |-> 1, receive |-> 2, issue |-> 4][o.kind]
Flag(o)    == IF o.dep THEN 1 ELSE 0
Virtual(o) == o.kind # "receive" /\ o.batch = NoBatch /\ ~o.dep
IsZero(o)  == o.kind # "inventory" /\ o.qty = 0 /\ o.cost = 0

(* Where an operation stands among those of its store and batch. *)
Stamp(o) == <<o.date, Order(o), o.id, Flag(o)>>

(* The key of the front; the stored keys have the same fields. *)
Key(o) == <<o.date, Order(o), o.store, o.batch.date, o.batch.id, o.id, Flag(o)>>

Less(s, t) ==
  \E i \in DOMAIN s : s[i] < t[i] /\ \A j \in 1 .. i - 1 : s[j] = t[j]

(* What an operation adds to the balance of its store and batch; what an   *)
(* inventory corrects is left to its dependants.                           *)
Delta(o) ==
  LET sign == IF o.kind = "receive" THEN 1 ELSE -1
  IN  IF o.kind = "inventory" THEN Nothing
      ELSE [qty |-> sign * o.qty, cost |-> sign * o.cost]

(* OrderedTopology::evaluate: the operation with its cost, and the balance *)
(* after it.                                                               *)
Costed(b, o) == IF o.kind = "issue" /\ o.auto
                THEN [o EXCEPT !.cost = IssueCost(b, o.qty)] ELSE o

Evaluated(b, o) ==
  LET c == Costed(b, o) IN [op |-> c, bal |-> Plus(b, Delta(c))]

(* The receive a transfer causes in the store it goes into. *)
Arrival(o) ==
  [o EXCEPT !.store = o.into, !.into = o.store, !.kind = "receive",
            !.auto = FALSE, !.dep = TRUE, !.parts = <<>>]

IsTransfer(o) == o.kind = "issue" /\ o.into # NoStore

(* A dependent issue of the virtual operation o. *)
Part(o, b, q, c) ==
  [o EXCEPT !.batch = b, !.kind = "issue", !.qty = q, !.cost = c,
            !.auto = TRUE, !.dep = TRUE, !.parts = <<>>]

(* What the inventory o found too much, a batch of its own. *)
Surplus(o, x) ==
  [o EXCEPT !.batch = [date |-> o.date, id |-> o.id], !.kind = "receive",
            !.qty = x.qty, !.cost = x.cost, !.auto = FALSE, !.dep = TRUE,
            !.parts = <<>>]

(***************************************************************************)
(* The database.                                                           *)
(***************************************************************************)

Empty == [ main   |-> {},  \* records [op, bal]
           index  |-> {},  \* operations
           chk    |-> [m \in Months |-> [k \in Stores \X Batches |-> Nothing]],
           latest |-> 0,   \* month of the latest checkpoint
           front  |-> {} ] \* operations to be looked at again

Chain(d, o)   == {r \in d.main : r.op.store = o.store /\ r.op.batch = o.batch}
Earlier(d, o) == {r \in Chain(d, o) : Less(Stamp(r.op), Stamp(o))}
Later(d, o)   == {r \in Chain(d, o) : Less(Stamp(o), Stamp(r.op))}
Stored(d, o)  == {r \in Chain(d, o) : Stamp(r.op) = Stamp(o)}

Earliest(S) == CHOOSE r \in S : \A s \in S : s = r \/ Less(Stamp(r.op), Stamp(s.op))
Latest(S)  == CHOOSE r \in S : \A s \in S : s = r \/ Less(Stamp(s.op), Stamp(r.op))

BalanceBefore(d, o) ==
  IF Earlier(d, o) = {} THEN Nothing ELSE Latest(Earlier(d, o)).bal

StoredBalance(d, o) ==
  IF Stored(d, o) = {} THEN Nothing ELSE (CHOOSE r \in Stored(d, o) : TRUE).bal

(* Mutant: a recalculated operation is posted again in full. *)
StoredDelta_Forgotten(d, o) == Nothing

(* What the stored operation added; nothing when there is none. *)
StoredDelta(d, o) ==
  IF Stored(d, o) = {} THEN Nothing
                       ELSE Delta((CHOOSE r \in Stored(d, o) : TRUE).op)

Without(S, o) == {p \in S : Key(p) # Key(o)}

(* Mutant: the front keeps an older version beside the newer one. *)
Insert_Beside(d, o) == [d EXCEPT !.front = @ \cup {o}]

(* The front: push keeps what is there, insert replaces it. *)
Push(d, o)   == IF \E p \in d.front : Key(p) = Key(o)
                THEN d ELSE [d EXCEPT !.front = @ \cup {o}]
Insert(d, o) == [d EXCEPT !.front = Without(@, o) \cup {o}]

(* CheckpointTopology::checkpoint_update for an operation that changes the *)
(* balance of its store and batch by x.                                    *)
Post(d, o, x) ==
  LET m     == MonthOf[o.date]
      until == IF d.latest <= m THEN m + 1 ELSE d.latest
      Carried(n, k) == IF d.latest < n /\ n <= until /\ d.chk[d.latest][k] # Nothing
                       THEN d.chk[d.latest][k] ELSE d.chk[n][k]
  IN  [d EXCEPT
         !.latest = until,
         !.chk = [n \in Months |-> [k \in Stores \X Batches |->
                    IF k = <<o.store, o.batch>> /\ m < n /\ n <= until
                    THEN Plus(Carried(n, k), x) ELSE Carried(n, k)]]]

(* save_op: a zero operation is deleted; a virtual one goes into main only. *)
Save(d, o, b) ==
  LET others == d.main \ Stored(d, o)
      gone   == IsZero(o) /\ o.parts = <<>>
      stored == [d EXCEPT
        !.main  = IF gone THEN others ELSE others \cup {[op |-> o, bal |-> b]},
        !.index = IF o.parts # <<>> \/ (gone /\ Stored(d, o) = {}) THEN @
                  ELSE Without(@, o) \cup (IF gone THEN {} ELSE {o})]
  IN  IF o.parts # <<>> THEN stored
      ELSE Post(stored, o, Minus(Delta(o), StoredDelta(d, o)))

(* propagate: the next operation of the same store and batch. *)
Propagate(d, o) ==
  IF Later(d, o) = {} THEN d ELSE Push(d, Earliest(Later(d, o)).op)

(* Mutant: the issues that name no batch are not looked at again. *)
PropagateBoth_OwnBatchOnly(d, o) == Propagate(d, o)

(* Mutant: only the issues that name no batch are looked at again. *)
PropagateBoth_NoBatchOnly(d, o) == Propagate(d, [o EXCEPT !.batch = NoBatch])

(* The same, then the next one among those that name no batch. *)
PropagateBoth(d, o) ==
  LET own == Propagate(d, o)
  IN  IF o.batch = NoBatch THEN own
      ELSE Propagate(own, [o EXCEPT !.batch = NoBatch])

(* Mutant: a deleted operation stays in the other topologies. *)
TakeOut_MainOnly(d, o) ==
  LET cut == [d EXCEPT !.main = @ \ Stored(d, o), !.front = Without(@, o)]
      posted == Post(cut, o, Minus(Nothing, StoredDelta(d, o)))
  IN  IF BalanceBefore(d, o) = StoredBalance(d, o) THEN posted
      ELSE PropagateBoth(posted, o)

(* remove_op and the propagation that follows it in delete_op. *)
TakeOut(d, o) ==
  LET cut == [d EXCEPT
        !.main  = @ \ Stored(d, o),
        !.index = IF Stored(d, o) = {} THEN @ ELSE Without(@, o),
        !.front = Without(@, o)]
      posted == Post(cut, o, Minus(Nothing, StoredDelta(d, o)))
  IN  IF BalanceBefore(d, o) = StoredBalance(d, o) THEN posted
      ELSE PropagateBoth(posted, o)

(* Mutant: the receive a transfer caused is left behind. *)
Delete_KeepsArrival(d, o) == TakeOut(d, o)

(* delete_op.  Its callers pass no dependants: the loop over them is dead. *)
Delete(d, o) ==
  LET gone == TakeOut(d, o)
  IN  IF IsTransfer(o) THEN TakeOut(gone, Arrival(o)) ELSE gone

(***************************************************************************)
(* First in, first out.                                                    *)
(***************************************************************************)

SumOf(ops) == FoldSet(LAMBDA o, acc : Plus(acc, Delta(o)), Nothing, ops)

(* The checkpoint to start from: that of the month, or the latest.         *)
Opening(d, o) == Min({MonthOf[o.date], d.latest})

(* The operations from there up to and including o, virtual ones left out. *)
Applied(d, o) ==
  {p \in d.index : /\ p.store = o.store
                   /\ Opening(d, o) <= MonthOf[p.date]
                   /\ ~Less(Stamp(o), Stamp(p))}

(* balances_for_store_goods_before_operation, of one batch.                *)
OnHand(d, o, b) ==
  Plus(d.chk[Opening(d, o)][<<o.store, b>>],
       SumOf({p \in Applied(d, o) : p.batch = b}))

(* BalanceForGoods::apply asserts, whoever adds the operations ops to the  *)
(* checkpoints chk, that an inventory among them finds what it counted.    *)
AssertionHolds(chk, ops) ==
  \A i \in {o \in ops : o.kind = "inventory"} :
    [qty |-> i.qty, cost |-> i.cost] =
      Plus(chk[<<i.store, i.batch>>],
           SumOf({o \in ops : /\ o.store = i.store /\ o.batch = i.batch
                              /\ Less(Stamp(o), Stamp(i))}))

(* The batches an issue can take from, oldest first.  Those of one day     *)
(* come in the order of a hash map, which may be any.                      *)
Queues(d, o) ==
  {s \in SetToSeqs({b \in Batches \ {NoBatch} : OnHand(d, o, b).qty > 0}) :
     \A i, j \in DOMAIN s : i < j => s[i].date <= s[j].date}

(* What q units for o take from the batches s: whole batches while they    *)
(* last, and a share of the next one.                                      *)
Taken(d, o, s, q) ==
  LET have   == [i \in DOMAIN s |-> OnHand(d, o, s[i])]
      needed == [i \in DOMAIN s |->
                   q - FoldLeft(Plus, Nothing, SubSeq(have, 1, i - 1)).qty]
      whole(i) == Part(o, s[i], have[i].qty, have[i].cost)
      share(i) == Part(o, s[i], needed[i], CostAt(Price(have[i]), needed[i]))
  IN  [i \in 1 .. Cardinality({j \in DOMAIN s : needed[j] > 0}) |->
         IF needed[i] >= have[i].qty THEN whole(i) ELSE share(i)]

Quantity(ps) == FoldLeft(Plus, Nothing, ps).qty

(* Mutant: the batches are used up and the rest of the issue is dropped. *)
Split_NoRemainder(d, o, s) == Taken(d, o, s, o.qty)

(* The dependent issues of the issue o; what the batches cannot give comes *)
(* from no batch, at no cost.                                              *)
Split(d, o, s) ==
  LET taken == Taken(d, o, s, o.qty)
      left  == o.qty - Quantity(taken)
  IN  taken \o (IF left > 0 THEN <<Part(o, NoBatch, left, 0)>> ELSE <<>>)

(* What the inventory o counted less what the store has of every batch it  *)
(* has any of, costed at the price of that stock.                          *)
Difference(d, o) ==
  LET stock == FoldSet(LAMBDA b, acc : Plus(acc, OnHand(d, o, b)), Nothing,
                       {b \in Batches : OnHand(d, o, b).qty > 0})
      qty   == o.qty - stock.qty
  IN  [qty |-> qty, cost |-> CostAt(Price(stock), qty)]

(* Mutant: a shortage is written off the first batch alone. *)
Corrections_FirstBatch(d, o, s) ==
  LET x == Difference(d, o)
  IN  IF x.qty > 0 THEN <<Surplus(o, x)>>
      ELSE Taken(d, o, SubSeq(s, 1, Min({1, Len(s)})), -x.qty)

(* The dependants of the inventory o.  What the batches cannot give is     *)
(* dropped: stock that belongs to no batch is counted but never taken.     *)
Corrections(d, o, s) ==
  LET x == Difference(d, o)
  IN  IF x.qty > 0 THEN <<Surplus(o, x)>> ELSE Taken(d, o, s, -x.qty)

(* A dependant as its operation remembers it. *)
Dependants(ps) ==
  [i \in DOMAIN ps |-> [kind |-> ps[i].kind, batch |-> ps[i].batch]]

(***************************************************************************)
(* One turn of the loop of mutate_op.                                      *)
(***************************************************************************)

(* What o depended on and no longer does is deleted. *)
Dropped(d, o, parts) ==
  LET zero(x) == [Part(o, x.batch, 0, 0) EXCEPT !.kind = x.kind]
      Drop(a, x) == IF Contains(Dependants(parts), x) THEN a ELSE Delete(a, zero(x))
  IN  FoldLeft(Drop, d, o.parts)

(* The dependants on the front, and those that are no longer such deleted. *)
Spread(d, o, parts) == Dropped(FoldLeft(Insert, d, parts), o, parts)

Remembered(d, o, parts) ==
  Save(Spread(d, o, parts), [o EXCEPT !.parts = Dependants(parts)],
       OnHand(d, o, NoBatch))

(* distribution_issue, then propagation. *)
Distributed(d, o, s) == Propagate(Remembered(d, o, Split(d, o, s)), o)

(* distribution_inventory, then propagation: without a difference nothing  *)
(* is done, with a surplus the inventory itself is not stored.             *)
Counted(d, o, s) ==
  LET x     == Difference(d, o).qty
      parts == Corrections(d, o, s)
  IN  Propagate(IF x = 0 THEN d
                ELSE IF x > 0 THEN Spread(d, o, parts)
                ELSE Remembered(d, o, parts), o)

(* Mutant: the transfer's receive gets the cost from before the recalculation. *)
Calculated_StaleArrival(d, o) ==
  LET before == BalanceBefore(d, o)
      now    == Evaluated(before, o)
      old    == IF Stored(d, o) = {} THEN before ELSE StoredBalance(d, o)
      saved  == Save(d, now.op, now.bal)
      done   == IF Stored(d, o) = {now} THEN d
                ELSE IF IsTransfer(o) THEN Insert(saved, Arrival(o))
                ELSE saved
  IN  IF o.batch = NoBatch \/ old # now.bal THEN PropagateBoth(done, o) ELSE done

(* calculate_op, then propagation when the balance changed. *)
Calculated(d, o) ==
  LET before == BalanceBefore(d, o)
      now    == Evaluated(before, o)
      old    == IF Stored(d, o) = {} THEN before ELSE StoredBalance(d, o)
      saved  == Save(d, now.op, now.bal)
      done   == IF Stored(d, o) = {now} THEN d
                ELSE IF IsTransfer(o) THEN Insert(saved, Arrival(now.op))
                ELSE saved
  IN  IF o.batch = NoBatch \/ old # now.bal THEN PropagateBoth(done, o) ELSE done

(* Mutant: without the memory of what was processed. *)
Leave_NoMemory(d, seen) == db' = d /\ uniq' = {}

Idle == queue = <<>> /\ db.front = {}

Leave(d, seen) ==
  /\ db' = d
  /\ uniq' = IF d.front = {} THEN {} ELSE seen

(* The operation to look at next. *)
Foremost == CHOOSE p \in db.front : \A q \in db.front : p = q \/ Less(Key(p), Key(q))

(* Adding up the stock for o makes the thread panic: it holds the lock of  *)
(* all writers, which is poisoned then, so nothing is recorded any more    *)
(* until the process starts again.                                         *)
Panics(o) == Virtual(o) /\ ~AssertionHolds(db.chk[Opening(db, o)], Applied(db, o))

(* The head of the front: skipped if an equal one was processed before. *)
Turn ==
  /\ db.front # {}
  /\ LET o    == Foremost
         rest == [db EXCEPT !.front = @ \ {o}]
     IN  \/ o \in uniq /\ Leave(rest, uniq)
         \/ /\ o \notin uniq
            /\ Virtual(o)
            /\ ~Panics(o)
            /\ \E s \in Queues(rest, o) :
                 Leave(IF o.kind = "issue" THEN Distributed(rest, o, s)
                                           ELSE Counted(rest, o, s), uniq \cup {o})
         \/ /\ o \notin uniq
            /\ ~Virtual(o)
            /\ Leave(Calculated(rest, o), uniq \cup {o})
  /\ UNCHANGED <<docs, queue, edits>>

(***************************************************************************)
(* The edits of a document, as receive_data turns them into mutations.     *)
(***************************************************************************)

Put(o) == [what |-> "put", op |-> o]
Del(o) == [what |-> "del", op |-> o]

SamePlace(a, b) ==
  /\ a.store = b.store
  /\ a.batch = b.batch
  /\ a.date = b.date
  /\ a.into = b.into

Edit(i, new, mutations) ==
  /\ Idle
  /\ edits < MaxEdits
  /\ docs' = [docs EXCEPT ![i] = new]
  /\ queue' = mutations
  /\ edits' = edits + 1
  /\ UNCHANGED <<db, uniq>>

Enter(o) ==
  /\ docs[o.id] = {}
  /\ Edit(o.id, {o}, <<Put(o)>>)

Change(old, o) ==
  /\ docs[o.id] = {old}
  /\ old # o /\ old.kind = o.kind /\ (old.into = NoStore <=> o.into = NoStore)
  /\ SamePlace(old, o) \/ old \in Removable
  /\ Edit(o.id, {o}, IF SamePlace(old, o) THEN <<Put(o)>> ELSE <<Del(old), Put(o)>>)

Withdraw(old) ==
  /\ docs[old.id] = {old}
  /\ old \in Removable
  /\ Edit(old.id, {}, <<Del(old)>>)

(* The document that an operation belongs to and that names its day and    *)
(* store is edited.  The operation now means old no longer but o, and no   *)
(* mutation tells the ledger so.                                           *)
Refile(old, o) ==
  /\ docs[o.id] = {old}
  /\ o \in Refiled
  /\ old.kind = o.kind /\ old.qty = o.qty /\ old.cost = o.cost
  /\ ~SamePlace(old, o)
  /\ Edit(o.id, {o}, <<>>)

(* The beginning of mutate_op.  What the new version depended on is taken  *)
(* from the database; a deletion comes with no dependants.                 *)
Record ==
  /\ queue # <<>>
  /\ db.front = {}
  /\ LET m == Head(queue)
         known == {r.op.parts : r \in Stored(db, m.op)}
     IN  \/ /\ m.what = "put"
            /\ db' = Push(db, [m.op EXCEPT !.parts =
                                 IF known = {} THEN <<>> ELSE CHOOSE p \in known : TRUE])
         \/ /\ m.what = "del"
            /\ db' = Delete(db, m.op)
  /\ queue' = Tail(queue)
  /\ UNCHANGED <<docs, uniq, edits>>

Init ==
  /\ docs = [i \in Ids |-> {}]
  /\ queue = <<>>
  /\ db = Empty
  /\ uniq = {}
  /\ edits = 0

Next ==
  \/ \E o \in Entries : Enter(o)
  \/ \E old, o \in Entries : old.id = o.id /\ Change(old, o)
  \/ \E old \in Entries : Withdraw(old)
  \/ \E old, o \in Entries : old.id = o.id /\ Refile(old, o)
  \/ Record
  \/ Turn

Spec == Init /\ [][Next]_vars

(* The thread has panicked, and nobody can record. *)
Stopped == db.front # {} /\ Foremost \notin uniq /\ Panics(Foremost)

(* The thread that records an edit runs until it is done or panics.  Else  *)
(* a ledger that is not idle can always take a step, and only Record and   *)
(* Turn are steps of it, so this is weak fairness of the two.              *)
FairSpec == Spec /\ ([]<>Idle \/ []<>Stopped \/ []<><<~Idle>>_vars)

Balance == [qty : Int, cost : Int]

(* The shape of the ledger, and of what waits on the front. *)
TypeOK ==
  /\ \A i \in Ids : \E o \in Entries : docs[i] \in {{}, {o}}
  /\ \A r \in db.main : r.op.store \in Stores /\ r.op.batch \in Batches
                        /\ r.bal \in Balance
  /\ \A k \in Stores \X Batches, m \in Months : db.chk[m][k] \in Balance
  /\ db.latest \in Months
  /\ \A a, b \in db.front : Key(a) = Key(b) => a = b
  /\ \A r, s \in db.main : Key(r.op) = Key(s.op) => r = s

(* All column families tell the same story: the three secondary ones hold  *)
(* the operations of the first, virtual ones excepted; and inventories,    *)
(* which stay there from when they found nothing to take.                  *)
IndexMirrorsMain ==
  {o \in db.index : o.kind # "inventory"} =
    {r.op : r \in {q \in db.main : q.op.parts = <<>> /\ q.op.kind # "inventory"}}

(* A checkpoint is the sum of all operations dated before its month, also  *)
(* while a change is still being propagated.                               *)
CheckpointsAreSums ==
  \A m \in Months, k \in Stores \X Batches :
    db.chk[m][k] =
      IF m > db.latest THEN Nothing
      ELSE SumOf({o \in db.index : <<o.store, o.batch>> = k /\ MonthOf[o.date] < m})

(* Once an edit is recorded, every stored balance is the one before it in  *)
(* its store and batch changed by its operation, and every automatic cost  *)
(* is that of the balance before it: the front reached whatever it had to. *)
(* Inventories are excepted, which do not store what they find right.      *)
BalancesAreCurrent ==
  Idle => \A r \in {q \in db.main : q.op.kind # "inventory"} :
    LET before == BalanceBefore(db, r.op)
    IN  IF Virtual(r.op) THEN r.bal = before ELSE r = Evaluated(before, r.op)

(* Once an edit is recorded, every virtual issue is split as first in,     *)
(* first out demands of the stock before it, backdated changes included,   *)
(* and each of its parts is stored with the quantity of the split.         *)
SplitsAreFifo ==
  Idle => \A r \in db.main : Virtual(r.op) /\ r.op.kind = "issue" =>
    \E s \in Queues(db, r.op) :
      LET parts == Split(db, r.op, s)
      IN  /\ r.op.parts = Dependants(parts)
          /\ \A i \in DOMAIN parts :
               \E p \in Stored(db, parts[i]) : p.op.qty = parts[i].qty

(* Once an edit is recorded, what a transfer takes from one store arrives  *)
(* in the other, same batch, quantity and cost.                            *)
TransfersArrive ==
  Idle => \A r \in db.main : IsTransfer(r.op) /\ ~Virtual(r.op) =>
    Arrival(r.op) \in {q.op : q \in db.main}

(* What a stored dependent operation comes from: an issue or an inventory  *)
(* that took stock from batches, a transfer, or an inventory that found    *)
(* more than there should be.                                              *)
HasCause(o) ==
  \/ /\ o.kind = "issue"
     /\ \E v \in db.main :
          /\ Virtual(v.op)
          /\ Contains(v.op.parts, [kind |-> "issue", batch |-> o.batch])
          /\ o = Part(v.op, o.batch, o.qty, o.cost)
  \/ /\ o.kind = "receive"
     /\ \/ \E t \in db.main : ~Virtual(t.op) /\ IsTransfer(t.op) /\ Arrival(t.op) = o
        \/ \E i \in docs[o.id] :
             i.kind = "inventory" /\ o = Surplus(i, [qty |-> o.qty, cost |-> o.cost])

(* Once an edit is recorded, the ledger and the documents match: every     *)
(* document but an inventory is stored, and every stored operation is that *)
(* of a document or has its cause in one.                                  *)
LedgerMatchesDocuments ==
  Idle =>
    /\ \A i \in Ids : \A o \in docs[i] :
         o.kind # "inventory" => \E r \in Stored(db, o) : r.op.qty = o.qty
    /\ \A r \in db.main :
         IF r.op.dep THEN HasCause(r.op)
                     ELSE \E o \in docs[r.op.id] : Key(o) = Key(r.op)

(* Once an edit is recorded, an inventory that finds less than expected is *)
(* met, whatever was changed before its day since: its parts take as much  *)
(* as is missing now.  Not spoken of are an inventory that counts stock    *)
(* of no batch, and one of which the other topologies hold anything but    *)
(* issues: the surplus it found at another time, or itself, from when      *)
(* there was nothing to take.                                              *)
ShortCountsAreMet ==
  Idle => \A r \in {q \in db.main : q.op.kind = "inventory"} :
    LET x     == Difference(db, r.op).qty
        parts == {o \in db.index : o.id = r.op.id}
    IN  x < 0 /\ OnHand(db, r.op, NoBatch).qty <= 0 /\ (\A o \in parts : o.kind = "issue")
          => SumOf(parts).qty = x

(* Once an edit is recorded, the stock of all stores together is what the  *)
(* documents received less what they issued, and what inventories put      *)
(* right: parts, transfers to and fro and repeated recalculation neither   *)
(* make goods nor lose them, and what leaves one store for another arrives *)
(* there at its cost.                                                      *)
StockIsConserved ==
  /\ TransfersArrive
  /\ Idle =>
    LET current == UNION {docs[i] : i \in Ids}
        counted == {o \in db.index : \E i \in docs[o.id] : i.kind = "inventory"}
    IN  SumOf(db.index).qty =
          SumOf({o \in current : ~IsTransfer(o)}).qty + SumOf(counted).qty

(* Recording an edit comes to an end. *)
EditsAreRecorded == ~Idle ~> Idle
=============================================================================
