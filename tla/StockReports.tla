---------------------------- MODULE StockReports ----------------------------
(***************************************************************************)
(* What the stock ledger answers when it is read: the list of the stock,   *)
(* the list of the goods, the report of a storage, the report of a batch,  *)
(* and the view of the stock by place.  A reader takes the checkpoints of  *)
(* the month asked for, or the latest ones, and adds the operations from   *)
(* there on.  Readers take no lock; each is one step here, of any state of *)
(* the ledger, that of a change under way included.                        *)
(***************************************************************************)
EXTENDS StockLedger, StockView

CONSTANT Layouts  \* some of the ways storages are located in each other

Days == DOMAIN MonthOf

ASSUME ReportsAssumption ==
  /\ Stores \subseteq Places /\ Layouts \subseteq Locations
  /\ Days \subseteq Nat /\ \A o \in Entries : o.date \in Days
  /\ \A a, b \in Days : MonthOf[a] \in Nat /\ (a <= b => MonthOf[a] <= MonthOf[b])

(***************************************************************************)
(* The checkpoints read for a day.                                         *)
(***************************************************************************)

(* Mutant: the month asked for, whether or not it has checkpoints. *)
ReadMonth_Uncapped(d, day) == MonthOf[day]

ReadMonth(d, day) == Min({MonthOf[day], d.latest})

CheckpointsForAll(d, day) == d.chk[ReadMonth(d, day)]

CheckpointsOfStore(d, s, day) ==
  [b \in Batches |-> d.chk[ReadMonth(d, day)][<<s, b>>]]

Sum(f) == FoldSet(LAMBDA k, acc : Plus(acc, f[k]), Nothing, DOMAIN f)

CheckpointOfGoods(d, day)          == Sum(d.chk[ReadMonth(d, day)])
CheckpointOfGoodsInStore(d, s, day) == Sum(CheckpointsOfStore(d, s, day))

(* The reader of one batch looks into the default column family, which     *)
(* holds no checkpoints.                                                   *)
CheckpointOfBatch(d, s, b, day) == {}

(***************************************************************************)
(* The operations read from there on.                                      *)
(***************************************************************************)

OpsOfAll(d, m, till) == {o \in d.index : m <= MonthOf[o.date] /\ o.date <= till}

OpsOfStore(d, s, m, till)        == {o \in OpsOfAll(d, m, till) : o.store = s}
OpsOfGoodsInStore(d, s, m, till) == OpsOfStore(d, s, m, till)

(* The goods to look for are pushed by an iterator that nobody runs, and   *)
(* no operation is of one of them.                                         *)
OpsOfGoods(d, m, till) == {}

(* Mutant: the virtual ones too. *)
OpsOfBatch_Virtual(d, s, b, till) ==
  {o \in {r.op : r \in d.main} : o.store = s /\ o.batch = b /\ o.date <= till}

(* From the first topology, the operations that are not virtual. *)
OpsOfBatch(d, s, b, till) ==
  {o \in {r.op : r \in d.main} :
     o.store = s /\ o.batch = b /\ o.parts = <<>> /\ o.date <= till}

(***************************************************************************)
(* The lists.                                                              *)
(***************************************************************************)

Inventories(ops) == {o \in ops : o.kind = "inventory"}

(* BalanceForGoods::apply, as in the writer: the reader may panic. *)
ReaderPanics(d, day) ==
  ~AssertionHolds(CheckpointsForAll(d, day), OpsOfAll(d, ReadMonth(d, day), day))

(* get_balances_for_all: the checkpoints, and the operations on top. *)
OnTop(chk, ops) ==
  [k \in DOMAIN chk |-> Plus(chk[k], SumOf({o \in ops : <<o.store, o.batch>> = k}))]

(* get_balance_for_all: the stock at the end of a day. *)
StockList(d, day) ==
  OnTop(CheckpointsForAll(d, day), OpsOfAll(d, ReadMonth(d, day), day))

(* get_balances and its kin for one goods: the same for the balance of a   *)
(* goods, over all its batches.                                            *)
WithOps(balance, ops) == Plus(balance, SumOf(ops))

(* get_balance_for_one_goods_and_store. *)
GoodsInStore(d, s, day) ==
  WithOps(CheckpointOfGoodsInStore(d, s, day), OpsOfGoodsInStore(d, s, ReadMonth(d, day), day))

(* get_balance: the balance shown beside each goods. *)
GoodsList(d, day) ==
  WithOps(CheckpointOfGoods(d, day), OpsOfGoods(d, ReadMonth(d, day), day))

(***************************************************************************)
(* The reports.                                                            *)
(***************************************************************************)

Opened(b) == [open |-> b, receive |-> Nothing, issue |-> Nothing, close |-> b]

(* Mutant: an automatic issue is costed at the price of the opening. *)
TurnedOver_OpeningPrice(row, o) ==
  LET moved == CASE o.kind = "receive"   -> [row EXCEPT !.receive = Plus(@, Delta(o))]
                 [] o.kind = "inventory" -> row
                 [] o.kind = "issue"     ->
                      [row EXCEPT !.issue = Minus(@,
                         [qty |-> o.qty, cost |-> CostAt(Price(row.open), o.qty)])]
  IN  [moved EXCEPT !.close = Plus(Plus(moved.open, moved.receive), moved.issue)]

(* apply_operation: an automatic issue is costed anew, at the price of all *)
(* there was and all received so far.                                      *)
TurnedOver(row, o) ==
  LET had   == Plus(row.open, row.receive)
      moved == CASE o.kind = "receive"   -> [row EXCEPT !.receive = Plus(@, Delta(o))]
                 [] o.kind = "inventory" -> row
                 [] o.kind = "issue"     ->
                      [row EXCEPT !.issue = Minus(@,
                         [qty |-> o.qty, cost |-> CostAt(Price(had), o.qty)])]
  IN  [moved EXCEPT !.close = Plus(Plus(moved.open, moved.receive), moved.issue)]

(* add_to_open_balance. *)
Preceded(row, o) ==
  [row EXCEPT !.open = Plus(@, Delta(o)), !.close = Plus(@, Delta(o))]

InOrder(ops) == SetToSortSeq(ops, LAMBDA o, p : Less(Stamp(o), Stamp(p)))

(* Mutant: an operation of the first day of the period counts as before. *)
Row_FirstDayBefore(b, ops, from) ==
  FoldLeft(LAMBDA row, o : IF o.date <= from THEN Preceded(row, o) ELSE TurnedOver(row, o),
           Opened(b), InOrder(ops))

Row(b, ops, from) ==
  FoldLeft(LAMBDA row, o : IF o.date < from THEN Preceded(row, o) ELSE TurnedOver(row, o),
           Opened(b), InOrder(ops))

(* get_report_for_storage: a row per batch.  The operations are those from *)
(* the month of the period, the checkpoints may be older.                  *)
StorageReport(d, s, from, till) ==
  LET ops == OpsOfStore(d, s, MonthOf[from], till)
  IN  [b \in Batches |-> Row(CheckpointsOfStore(d, s, from)[b],
                             {o \in ops : o.batch = b}, from)]

(* get_report_for_goods.  What comes before the period is added to the     *)
(* opening line only: the closing line is the turnover.                    *)
BatchReport(d, s, b, from, till) ==
  LET ops  == OpsOfBatch(d, s, b, till)
      base == FoldSet(Plus, Nothing, CheckpointOfBatch(d, s, b, from))
  IN  [open  |-> Plus(base, SumOf({o \in ops : o.date < from})),
       close |-> Plus(base, SumOf({o \in ops : from <= o.date}))]

(* What the view of the stock by place is made from. *)
CostByStore(d, day) ==
  LET list == StockList(d, day)
  IN  [s \in Stores |-> Sum([b \in Batches |-> list[<<s, b>>]]).cost]

(* Inventory::find: a request that names a batch is for its report, one    *)
(* that does not for that of the storage; beyond the first page there is   *)
(* nothing.                                                                *)
InventoryFind(d, q) ==
  IF q.skip # 0 THEN <<>>
  ELSE IF q.batch = {} THEN StorageReport(d, q.store, q.from, q.till)
  ELSE BatchReport(d, q.store, CHOOSE b \in q.batch : TRUE, q.from, q.till)

(***************************************************************************)
(* Properties.                                                             *)
(***************************************************************************)

Until(k, day)  == SumOf({o \in db.index : <<o.store, o.batch>> = k /\ o.date <= day})
Before(k, day) == SumOf({o \in db.index : <<o.store, o.batch>> = k /\ o.date < day})

(* The list of the stock of any day, also one before or long after the     *)
(* latest checkpoint, is what all operations up to that day add up to; and *)
(* so is the list of one goods in one store.  Not so if an inventory that  *)
(* could take nothing is among them: the reader may panic.                 *)
StockListIsCurrent ==
  \A day \in Days :
    /\ ReaderPanics(db, day) \/ StockList(db, day) = [k \in Stores \X Batches |-> Until(k, day)]
    /\ \A s \in Stores :
         \/ Inventories(OpsOfGoodsInStore(db, s, ReadMonth(db, day), day)) # {}
         \/ GoodsInStore(db, s, day) = Sum([b \in Batches |-> Until(<<s, b>>, day)])

(* The list of the goods shows beside each of them its balance at the day: *)
(* get_balances is to add the operations between the checkpoint and the    *)
(* date requested, as its comment has it.                                  *)
GoodsListIsCurrent ==
  \A day \in Days : GoodsList(db, day) = SumOf({o \in db.index : o.date <= day})

(* The report of a storage opens with all that came before the period, and *)
(* closes with the quantities there are at the end of it.                  *)
StorageReportAddsUp ==
  \A s \in Stores, from, till \in Days : from <= till =>
    LET report == StorageReport(db, s, from, till)
    IN  \A b \in Batches :
          /\ report[b].open = Before(<<s, b>>, from)
          /\ report[b].close.qty = Until(<<s, b>>, till).qty

(* The report costs an automatic issue from the price of all it received,  *)
(* the ledger from what was left.  Once an edit is recorded, and unless    *)
(* more was issued than there was, they part by rounding alone, at most a  *)
(* cent for each issue.                                                    *)
CostsPartByCents ==
  Idle => \A s \in Stores, from, till \in Days : from <= till =>
    LET report == StorageReport(db, s, from, till)
    IN  \A b \in Batches :
          LET chain == {r \in db.main : r.op.store = s /\ r.op.batch = b /\ r.op.date <= till}
              apart == report[b].close.cost - Until(<<s, b>>, till).cost
          IN  (\A r \in chain : r.bal.qty >= 0) =>
                 /\ apart <= Cardinality({r \in chain : r.op.kind = "issue"})
                 /\ -apart <= Cardinality({r \in chain : r.op.kind = "issue"})

(* The report of a batch and that of its storage tell the same story: they *)
(* open alike, and the one closes with what the other moved.               *)
ReportsAgree ==
  \A s \in Stores, b \in Batches, from, till \in Days : from <= till =>
    LET Ask(bs) == [skip |-> 0, store |-> s, batch |-> bs, from |-> from, till |-> till]
        row     == InventoryFind(db, Ask({}))[b]
        report  == InventoryFind(db, Ask({b}))
    IN  /\ report.open = row.open
        /\ report.close.qty = row.receive.qty + row.issue.qty

(* The reports add up, agree with each other, and cost what the ledger     *)
(* costs.                                                                  *)
ReportsAddUp == StorageReportAddsUp /\ CostsPartByCents /\ ReportsAgree

(* The way out of place p does not lead to an outermost place. *)
Enclosed(loc, p) ==
  \A i \in 0 .. Cardinality(Places) :
    LET q == Outward(loc, p)[i] IN q \in Places => loc[q] # NoPlace

(* However storages are located in each other, the view of the stock       *)
(* counts every store once: the lines and what the filtered place has      *)
(* itself add up to all that is inside it; and each line but a store cut   *)
(* off from the outside is a place just inside the filtered one.           *)
ViewCountsOnce ==
  Idle => \A day \in Days :
    LET shown == CostByStore(db, day)
        has   == [s \in Stores |-> Sum([b \in Batches |-> Until(<<s, b>>, day)]).cost]
    IN  \A loc \in Layouts, filter \in Places \cup {NoPlace} :
          LET view   == View(loc, shown, filter)
              inside == {s \in Stores : filter \in {NoPlace} \cup
                            {Outward(loc, s)[i] : i \in 0 .. Cardinality(Places)}}
          IN  /\ view.goods = MapThenSumSet(LAMBDA s : has[s], inside)
              /\ view.own + MapThenSumSet(LAMBDA p : view.lines[p], DOMAIN view.lines)
                   = view.goods
              /\ \A p \in DOMAIN view.lines :
                   loc[p] = filter \/ (filter = NoPlace /\ p \in Stores /\ Enclosed(loc, p))
=============================================================================
