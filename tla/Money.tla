-------------------------------- MODULE Money --------------------------------
(***************************************************************************)
(* Quantities, costs and prices of the stock ledger.  The code computes    *)
(* with decimals; here a quantity is a whole number of units, a cost a     *)
(* whole number of cents and a price a whole number of 1/100000, which are *)
(* the precisions the code rounds to.                                      *)
(***************************************************************************)
EXTENDS Integers

CentsPerPrice == 1000  \* 1/100000s in a cent

(* Decimal::round_dp: the nearest whole number, a tie goes to the even one. *)
RoundDiv(a, b) ==
  LET n == IF b < 0 THEN -a ELSE a
      d == IF b < 0 THEN -b ELSE b
      down == n \div d
      twice == 2 * (n % d)
  IN  IF twice < d \/ (twice = d /\ down % 2 = 0) THEN down ELSE down + 1

(* A balance: how much of something there is and what it cost. *)
Nothing == [qty |-> 0, cost |-> 0]

Plus(b, d)  == [qty |-> b.qty + d.qty, cost |-> b.cost + d.cost]
Minus(b, d) == [qty |-> b.qty - d.qty, cost |-> b.cost - d.cost]

(* The price of one unit of a balance, zero when there is none. *)
Price(b) == IF b.qty = 0 THEN 0 ELSE RoundDiv(b.cost * CentsPerPrice, b.qty)

(* What q units cost at price p. *)
CostAt(p, q) == RoundDiv(q * p, CentsPerPrice)

(* The cost an automatic issue of q units takes from balance b: all of it  *)
(* when it takes every unit, so that no rounding remainder is left behind. *)
IssueCost(b, q) == IF b.qty = q THEN b.cost ELSE CostAt(Price(b), q)
=============================================================================
