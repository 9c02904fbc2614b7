--------------------------- MODULE MCStockLedger ---------------------------
(* Small instances of the stock ledger: two stores, four days of which    *)
(* the first two are in one month, and up to three documents.              *)
EXTENDS StockReports, TLC

MCStores == {1, 2}
MCMonthOf == <<1, 1, 2, 3>>
MCHorizon == 3

Document(i, d, k, b, s, t, q, c) ==
  [id |-> i, date |-> d, store |-> s, into |-> t, batch |-> b, kind |-> k,
   qty |-> q, cost |-> c, auto |-> k # "receive", dep |-> FALSE, parts |-> <<>>]

Receive(i, d, s, q, c) == Document(i, d, "receive", [date |-> d, id |-> i], s, 0, q, c)
Issue(i, d, s, q)       == Document(i, d, "issue", NoBatch, s, 0, q, 0)
Transfer(i, d, s, t, q) == Document(i, d, "issue", NoBatch, s, t, q, 0)
Inventory(i, d, s, q)   == Document(i, d, "inventory", NoBatch, s, 0, q, 0)
BatchIssue(i, d, s, t, q, b) == Document(i, d, "issue", b, s, t, q, 0)

(* Receipts into store 1, transfers on to store 2, issues and inventories  *)
(* there, at most one issue a day and store.                               *)
ForwardEntries ==
  {Receive(i, d, 1, q, 100) : i \in {1, 2}, d \in {1, 2}, q \in {2, 3}}
  \cup {Transfer(2, 2, 1, 2, q) : q \in {2, 4}}
  \cup {Transfer(3, 3, 1, 2, q) : q \in {1, 3}}
  \cup {Issue(3, d, 2, 2) : d \in {2, 3}}
  \cup {BatchIssue(3, 3, 1, t, 1, [date |-> 1, id |-> 1]) : t \in {0, 2}}
  \cup {Inventory(3, 2, 1, 1), Inventory(3, 3, 2, 0), Inventory(3, 3, 2, 1)}

(* Goods sent to and fro, with a receipt to feed them. *)
CircularEntries ==
  {Transfer(1, d, 1, 2, q) : d \in {1, 2}, q \in {2, 3}}
  \cup {Transfer(2, d, 2, 1, q) : d \in {1, 2}, q \in {2, 3}}
  \cup {Receive(3, d, s, q, 100) : d \in {1, 2}, q \in {2, 3}, s \in {1, 2}}

(* The same on one day, fed from two batches of one day, which an issue    *)
(* may take in either order whenever it is looked at.                      *)
TwinEntries ==
  {Transfer(1, 2, 1, 2, q) : q \in {1, 2}} \cup {Transfer(2, 2, 2, 1, 2)}
  \cup {Receive(i, 1, 1, 2, 50 * i) : i \in {3, 4}}

ToAndFroEntries == CircularEntries \cup TwinEntries

(* Two issues on one day. *)
SameDayEntries ==
  {Receive(1, d, 1, 3, 100) : d \in {1, 2}}
  \cup {Transfer(2, 2, 1, 2, q) : q \in {2, 4}}
  \cup {Issue(3, 2, 1, q) : q \in {1, 2}}
  \cup {Issue(4, 2, 2, 2), Receive(4, 1, 1, 2, 100)}

(* Three storages, of which the third never has stock. *)
MCPlaces == 1 .. 3
MCLayouts ==
  {<<0, 0, 0>>, <<3, 3, 0>>, <<2, 3, 0>>, <<0, 1, 1>>, <<3, 0, 2>>,
   <<2, 1, 0>>, <<2, 3, 1>>, <<1, 3, 3>>, <<2, Lost, 0>>, <<3, 3, Lost>>}

Receipts(E) == {o \in E : o.kind = "receive"}
ForwardRemovable == Receipts(ForwardEntries)
CircularRemovable == Receipts(CircularEntries)
ToAndFroRefiled == {Receive(3, d, s, 2, 100) : d \in {1, 2}, s \in {1, 2}}
OrphanRemovable == SameDayEntries
=============================================================================
