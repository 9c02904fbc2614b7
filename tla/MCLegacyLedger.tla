--------------------------- MODULE MCLegacyLedger ---------------------------
(* Two documents: one that changes its day, its store and its amount, and  *)
(* one of the same store, of the same goods or of others, on the first day *)
(* of the next month or two months later.                                  *)
EXTENDS LegacyLedger

Symmetry == Permutations(Threads)

MCDays == 0 .. 8

MCAsked == {<<"s1", 4>>, <<"s1", 8>>}

Doc(kind, store, goods, day, amount) ==
  [kind |-> kind, store |-> store, goods |-> goods, day |-> day, amount |-> amount]

MCVersions ==
  "a" :> {Doc("in", "s1", "g1", 0, 2), Doc("in", "s1", "g1", 4, 2), Doc("out", "s2", "g1", 0, 1)} @@
  "b" :> {Doc("in", "s1", "g1", 0, 1), Doc("in", "s1", "g2", 3, 1), Doc("out", "s1", "g2", 8, 1)}
=============================================================================
