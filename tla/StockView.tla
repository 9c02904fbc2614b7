------------------------------ MODULE StockView ------------------------------
(***************************************************************************)
(* The view of the stock by place (memories/stock.rs): what every store    *)
(* has is shown under the place it is in, from the outside in.  A storage  *)
(* may be located in another one; its document names that one's, and may   *)
(* name one that is gone, or one that is itself located further inside.    *)
(***************************************************************************)
EXTENDS Integers, FiniteSetsExt

CONSTANT Places  \* the storages

NoPlace == 0   \* in no other place; also: no filter
Lost    == -1  \* in a place whose document cannot be found

ASSUME PlacesAssumption == Places \subseteq Nat \ {NoPlace} /\ IsFiniteSet(Places)

Locations == [Places -> Places \cup {NoPlace, Lost}]

(* The places store s is in, from the inside out: the nth, or NoPlace. *)
Outward(loc, s) ==
  LET n[i \in 0 .. Cardinality(Places) + 1] ==
        IF i = 0 THEN s ELSE IF n[i - 1] \in Places THEN loc[n[i - 1]] ELSE NoPlace
  IN  n

(* How many of them are looked at: until there is none, or one was seen.   *)
Depth(up) ==
  Max({i \in DOMAIN up \ {Max(DOMAIN up)} :
         /\ \A j \in 1 .. i : up[j] # NoPlace
         /\ \A j, k \in 1 .. i : up[j] = up[k] => j = k})

(* Mutant: the walk outwards goes past the place that is asked for. *)
TopAndBefore_Through(loc, s, filter) ==
  LET up == Outward(loc, s)
      n  == Depth(up)
  IN  [found |-> \E i \in 0 .. n : up[i] = filter,
       place |-> IF up[n + 1] = NoPlace /\ up[n] # Lost THEN up[n] ELSE s]

(* top_and_before: the place to show store s under.  With a filter it is   *)
(* the one just inside the filtered place; without, the outermost one, or  *)
(* the store itself if the way out is broken or leads round in a circle.   *)
TopAndBefore(loc, s, filter) ==
  LET up == Outward(loc, s)
      n  == Depth(up)
      Shown(i) == IF up[i] = Lost THEN s ELSE up[i]
      hits == {i \in 1 .. n : Shown(i) = filter}
  IN  IF s = filter THEN [found |-> TRUE, place |-> s]
      ELSE IF hits # {} THEN [found |-> TRUE, place |-> Shown(Min(hits) - 1)]
      ELSE [found |-> FALSE,
            place |-> IF up[n + 1] = NoPlace THEN Shown(n) ELSE s]

(* process: the costs by place, those of the filtered place itself left    *)
(* out, and the total of what is shown.  cost[s]: what store s has.        *)
View(loc, cost, filter) ==
  LET line    == [s \in DOMAIN cost |-> TopAndBefore(loc, s, filter)]
      shown   == {s \in DOMAIN cost : cost[s] # 0 /\ (filter = NoPlace \/ line[s].found)}
      total(S) == MapThenSumSet(LAMBDA s : cost[s], S)
  IN  [lines |-> [p \in {line[s].place : s \in shown} \ {filter} |->
                    total({s \in shown : line[s].place = p})],
       own   |-> total({s \in shown : line[s].place = filter}),
       goods |-> total(shown)]
=============================================================================
