------------------------------ MODULE StockBook ------------------------------
(***************************************************************************)
(* What the checkpoint store promises its readers: for every month and     *)
(* every (store, goods, batch) key, the balance with which that month      *)
(* opens.  Posting an operation is one indivisible step that changes the   *)
(* opening balance of every month after the operation's own.  A crash in   *)
(* the middle of a posting costs the promise for some keys, for good.      *)
(***************************************************************************)
EXTENDS Integers

CONSTANTS
  Keys,     \* the (store, goods, batch) triples balances are kept for
  Horizon,  \* the last month modelled
  Deltas    \* the signed quantities an operation may post

VARIABLES
  book,  \* book[m][k]: balance of k at the opening of month m
  lost   \* the keys nothing is promised of any more, which read as 0

Months == 0 .. Horizon

Init ==
  /\ book = [m \in Months |-> [k \in Keys |-> 0]]
  /\ lost = {}

(* An operation dated in month m adds d to every later opening balance. *)
Post(m, k, d) ==
  /\ book' = [n \in Months |-> [j \in Keys |->
               IF n > m /\ j = k /\ j \notin lost THEN book[n][j] + d ELSE book[n][j]]]
  /\ UNCHANGED lost

Forget(K) ==
  /\ lost' = lost \cup K
  /\ book' = [n \in Months |-> [j \in Keys |-> IF j \in K THEN 0 ELSE book[n][j]]]

Next ==
  \/ \E m \in Months \ {Horizon}, k \in Keys, d \in Deltas : Post(m, k, d)
  \/ \E K \in SUBSET Keys : Forget(K)

Spec == Init /\ [][Next]_<<book, lost>>
=============================================================================
