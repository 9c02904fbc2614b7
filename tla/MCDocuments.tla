----------------------------- MODULE MCDocuments -----------------------------
(* A header of two storages and dates, an order, a transfer, an issue and  *)
(* a production of them, and two drugs.                                    *)
EXTENDS Documents, TLC

MCDrugs     == {"drug1", "drug2"}
MCWords     == {"a", "b", "B"}
MCPlain     == [w \in MCWords |-> IF w = "B" THEN "b" ELSE w]
MCPageSizes == {2, 4}

MCCatalog ==
  "s1" :> [ctx |-> "storage"] @@ "s2" :> [ctx |-> "storage"] @@
  "g1" :> [ctx |-> "goods"] @@
  "area1" :> [storage |-> "s1"] @@ "area2" :> [storage |-> "s2"] @@
  "product" :> [goods |-> "g1"]

Headers == {[ctx |-> "header", date |-> 1, from |-> "s1", into |-> "s2", storage |-> "s1"],
            [ctx |-> "header", date |-> 2, from |-> "s2", into |-> "s1", storage |-> "s2"]}

Batch == [id |-> "r", date |-> 1]

Transfer == [ctx |-> "transfer", document |-> "header", goods |-> "g1", qty |-> 1, batch |-> Batch]

MCVersions ==
  "header" :> Headers @@
  "order" :> {[ctx |-> "order", area |-> a, product |-> "product"] : a \in {"area1", "area2"}} @@
  "transfer" :>
    {Transfer, [Transfer EXCEPT !.batch = Malformed], Transfer @@ [status |-> "deleted"],
     Transfer @@ [into |-> "s1"]} @@
  "line" :>
    {[ctx |-> c, document |-> "header", goods |-> "g1", cost |-> 1] :
       c \in {"receive", "inventory"}} \cup
    {[ctx |-> "dispatch", document |-> "header", goods |-> "unknown", qty |-> 1]} @@
  "produce" :>
    {[ctx |-> "produce", document |-> "order", date |-> t, qty |-> 1] : t \in {1, 2}} @@
  "used" :> {[ctx |-> "used", document |-> "header", goods |-> "g1", into |-> "s1", qty |-> 1]} @@
  "drug1" :> {[ctx |-> "drugs", name |-> n] : n \in {{"a"}, {"a", "B"}}} \cup
             {[ctx |-> "drugs"]} @@
  "drug2" :> {[ctx |-> "drugs", name |-> n] : n \in {{"a"}, {"b"}}}
=============================================================================
