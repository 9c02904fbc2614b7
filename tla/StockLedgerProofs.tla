-------------------------- MODULE StockLedgerProofs --------------------------
(***************************************************************************)
(* Theorems about the stock ledger in every state, the middle of a change  *)
(* too, and about what it answers then, for any stores, documents and      *)
(* days.                                                                   *)
(***************************************************************************)
EXTENDS StockReports, FiniteSetTheorems, WellFoundedInduction, SequenceTheorems, TLAPS

Dates == {o.date : o \in Entries}
Deps  == [kind : Kinds \ {"inventory"}, batch : Batches]

(* The operations there may be, those that come about included. *)
Ops ==
  [id : Ids, date : Dates, store : Stores, into : Stores \cup {NoStore},
   batch : Batches, kind : Kinds, qty : Int, cost : Int,
   auto : BOOLEAN, dep : BOOLEAN, parts : Seq(Deps)]

(* Only what is virtual has dependants, a virtual issue is of something,   *)
(* and an inventory may have a batch of its own.                           *)
Sane == {o \in Ops :
           /\ o.parts # <<>> => Virtual(o)
           /\ o.kind = "issue" /\ Virtual(o) => o.qty > 0
           /\ o.kind = "inventory" => [date |-> o.date, id |-> o.id] \in Batches}

-----------------------------------------------------------------------------
(***************************************************************************)
(* Induction over the subsets of a finite set, and functions defined by    *)
(* recursion over them, which is how a fold is defined: it takes one       *)
(* element out, folds the rest, and adds that element to the result.       *)
(*                                                                         *)
(* Everything is stated of sets and functions: a property of subsets is    *)
(* the set of those that have it, a step is a function.  So the lemmas can *)
(* be used with any of them.                                               *)
(***************************************************************************)

(* A set of subsets that has a subset when it has all that are smaller has *)
(* them all.                                                               *)
LEMMA SubsetInduction ==
  ASSUME NEW S, IsFiniteSet(S), NEW P,
         \A T \in SUBSET S : (\A U \in (SUBSET T) \ {T} : U \in P) => T \in P
  PROVE  \A T \in SUBSET S : T \in P
<1> DEFINE Bad == (SUBSET S) \ P
<1>1. FiniteSubsetsOf(S) = SUBSET S
  BY FS_FiniteSubsetsOfFinite
<1>2. IsWellFoundedOn(StrictSubsetOrdering(S), SUBSET S)
  BY <1>1, FS_StrictSubsetOrderingWellFounded
<1>3. SUFFICES ASSUME Bad # {} PROVE FALSE
  OBVIOUS
<1>4. PICK T \in Bad : \A U \in Bad : ~ (<<U, T>> \in StrictSubsetOrdering(S))
  <2>1. Bad \subseteq SUBSET S
    OBVIOUS
  <2> HIDE DEF Bad
  <2> QED
    BY <1>2, <1>3, <2>1, WFMin
<1>5. ASSUME NEW U \in (SUBSET T) \ {T}
      PROVE  U \in P
  <2>1. U \in SUBSET S /\ T \in SUBSET S /\ U \subseteq T /\ U # T
    OBVIOUS
  <2>2. <<U, T>> \in StrictSubsetOrdering(S)
    BY <2>1 DEF StrictSubsetOrdering
  <2> QED
    BY <1>4, <2>1, <2>2
<1> QED
  BY <1>4, <1>5

(* g folds the subsets of S from base on by step; pick[s] is the element   *)
(* that is taken out of s.                                                 *)
Folds(g, S, base, step, pick) ==
  g = [s \in SUBSET S |->
         IF s = {} THEN base ELSE step[<<pick[s], g[s \ {pick[s]}]>>]]

(* What takes an element out of each subset, and what makes a value of an  *)
(* element and a value.                                                    *)
Picks(pick, S)    == \A s \in SUBSET S : s # {} => pick[s] \in s
Steps(step, S, V) == \A x \in S, v \in V : step[<<x, v>>] \in V

LEMMA FoldsType ==
  ASSUME NEW S, IsFiniteSet(S), NEW V, NEW base \in V, NEW step, NEW pick,
         Picks(pick, S), Steps(step, S, V), NEW g, Folds(g, S, base, step, pick)
  PROVE  g \in [SUBSET S -> V]
<1> DEFINE P == {s \in SUBSET S : g[s] \in V}
<1>1. ASSUME NEW T \in SUBSET S, \A U \in (SUBSET T) \ {T} : U \in P
      PROVE  T \in P
  <2>1. CASE T = {}
    BY <2>1 DEF Folds
  <2>2. CASE T # {}
    <3>1. pick[T] \in T /\ pick[T] \in S
      BY <2>2 DEF Picks
    <3>2. g[T \ {pick[T]}] \in V
      BY <1>1, <3>1
    <3>3. g[T] = step[<<pick[T], g[T \ {pick[T]}]>>]
      BY <2>2 DEF Folds
    <3> QED
      BY <3>1, <3>2, <3>3 DEF Steps
  <2> QED
    BY <2>1, <2>2
<1>2. \A T \in SUBSET S : T \in P
  <2> HIDE DEF P
  <2> QED
    BY <1>1, SubsetInduction
<1> QED
  BY <1>2 DEF Folds

(* Two folds agree on the subsets they have in common. *)
LEMMA FoldsAgree ==
  ASSUME NEW S, NEW T, NEW W, IsFiniteSet(W), W \subseteq S, W \subseteq T,
         NEW base, NEW step, NEW pick, Picks(pick, W),
         NEW g, Folds(g, S, base, step, pick),
         NEW h, Folds(h, T, base, step, pick)
  PROVE  g[W] = h[W]
<1> DEFINE P == {s \in SUBSET W : g[s] = h[s]}
<1>1. ASSUME NEW s \in SUBSET W, \A U \in (SUBSET s) \ {s} : U \in P
      PROVE  s \in P
  <2>1. CASE s = {}
    BY <2>1 DEF Folds
  <2>2. CASE s # {}
    <3>1. pick[s] \in s
      BY <2>2 DEF Picks
    <3>2. g[s \ {pick[s]}] = h[s \ {pick[s]}]
      BY <1>1, <3>1
    <3>3. s \in SUBSET S /\ s \in SUBSET T
      OBVIOUS
    <3>4. g[s] = step[<<pick[s], g[s \ {pick[s]}]>>] /\ h[s] = step[<<pick[s], h[s \ {pick[s]}]>>]
      BY <2>2, <3>3 DEF Folds
    <3> QED
      BY <3>2, <3>4
  <2> QED
    BY <2>1, <2>2
<1>2. \A s \in SUBSET W : s \in P
  <2> HIDE DEF P
  <2> QED
    BY <1>1, SubsetInduction
<1> QED
  BY <1>2

(* There is a fold. *)
LEMMA FoldsExist ==
  ASSUME NEW S, IsFiniteSet(S), NEW base, NEW step, NEW pick, Picks(pick, S)
  PROVE  \E g : Folds(g, S, base, step, pick)
<1> DEFINE Has(s) == \E g : Folds(g, s, base, step, pick)
           P == {s \in SUBSET S : Has(s)}
           Of(s) == CHOOSE g : Folds(g, s, base, step, pick)
<1>1. ASSUME NEW T \in SUBSET S, \A U \in (SUBSET T) \ {T} : U \in P
      PROVE  T \in P
  <2> DEFINE v == [s \in (SUBSET T) \ {T} |-> Of(s)[s]]
             g == [s \in SUBSET T |->
                     IF s = {} THEN base
                     ELSE step[<<pick[s], v[s \ {pick[s]}]>>]]
  <2>1. ASSUME NEW s \in (SUBSET T) \ {T}
        PROVE  /\ Folds(Of(s), s, base, step, pick)
               /\ IsFiniteSet(s) /\ Picks(pick, s)
    <3>1. Has(s)
      BY <1>1
    <3>2. IsFiniteSet(s)
      BY FS_Subset
    <3>3. Picks(pick, s)
      BY DEF Picks
    <3> QED
      BY <3>1, <3>2, <3>3
  <2> HIDE DEF Of
  <2>2. ASSUME NEW s \in (SUBSET T) \ {T}
        PROVE  v[s] = g[s]
    <3>1. CASE s = {}
      <4>1. v[s] = Of(s)[s]
        OBVIOUS
      <4>2. Of(s)[s] = base
        BY <2>1, <3>1 DEF Folds
      <4> QED
        BY <3>1, <4>1, <4>2
    <3>2. CASE s # {}
      <4>1. pick[s] \in s
        BY <3>2, <2>1 DEF Picks
      <4> DEFINE r == s \ {pick[s]}
      <4>2. r \in (SUBSET T) \ {T} /\ r \subseteq s
        OBVIOUS
      <4> HIDE DEF r
      <4>3. Of(s)[r] = Of(r)[r]
        BY <2>1, <4>2, FoldsAgree
      <4>4. Of(s)[s] = step[<<pick[s], Of(s)[r]>>]
        BY <2>1, <3>2 DEF Folds, r
      <4>5. v[s] = Of(s)[s] /\ v[r] = Of(r)[r]
        BY <4>2
      <4>6. g[s] = step[<<pick[s], v[r]>>]
        BY <3>2 DEF r
      <4> QED
        BY <4>3, <4>4, <4>5, <4>6
    <3> QED
      BY <3>1, <3>2
  <2>3. Folds(g, T, base, step, pick)
    <3>1. ASSUME NEW s \in SUBSET T, s # {}
          PROVE  v[s \ {pick[s]}] = g[s \ {pick[s]}]
      <4>1. pick[s] \in s
        BY <3>1 DEF Picks
      <4>2. s \ {pick[s]} \in (SUBSET T) \ {T}
        BY <4>1
      <4> HIDE DEF v, g
      <4> QED
        BY <2>2, <4>2
    <3>2. g = [s \in SUBSET T |->
                 IF s = {} THEN base ELSE step[<<pick[s], v[s \ {pick[s]}]>>]]
      OBVIOUS
    <3> HIDE DEF v, g
    <3>3. g = [s \in SUBSET T |->
                 IF s = {} THEN base ELSE step[<<pick[s], g[s \ {pick[s]}]>>]]
      BY ONLY <3>1, <3>2
    <3> QED
      BY <3>3 DEF Folds
  <2> QED
    BY <2>3
<1>2. \A T \in SUBSET S : T \in P
  <2> HIDE DEF P
  <2> QED
    BY <1>1, SubsetInduction
<1> QED
  BY <1>2

(* h follows the step as long as its values are what the step takes. *)
Follows(h, S, V, base, step, pick) ==
  /\ h = [s \in SUBSET S |-> h[s]]
  /\ h[{}] = base
  /\ \A s \in SUBSET S : s # {} /\ h[s \ {pick[s]}] \in V
                         => h[s] = step[<<pick[s], h[s \ {pick[s]}]>>]

(* Then it is the fold. *)
LEMMA FoldsFollow ==
  ASSUME NEW S, IsFiniteSet(S), NEW V, NEW base \in V, NEW step, NEW pick,
         Picks(pick, S), Steps(step, S, V), NEW h,
         Follows(h, S, V, base, step, pick)
  PROVE  /\ Folds(h, S, base, step, pick)
         /\ h \in [SUBSET S -> V]
<1> DEFINE P == {s \in SUBSET S : h[s] \in V}
<1>0. /\ h = [s \in SUBSET S |-> h[s]]
      /\ h[{}] = base
      /\ \A s \in SUBSET S : s # {} /\ h[s \ {pick[s]}] \in V
                             => h[s] = step[<<pick[s], h[s \ {pick[s]}]>>]
  BY DEF Follows
<1>1. ASSUME NEW T \in SUBSET S, \A U \in (SUBSET T) \ {T} : U \in P
      PROVE  T \in P
  <2>1. CASE T = {}
    BY <1>0, <2>1
  <2>2. CASE T # {}
    <3>1. pick[T] \in T /\ pick[T] \in S
      BY <2>2 DEF Picks
    <3>2. h[T \ {pick[T]}] \in V
      BY <1>1, <3>1
    <3>3. h[T] = step[<<pick[T], h[T \ {pick[T]}]>>]
      BY <1>0, <2>2, <3>2
    <3> QED
      BY <3>1, <3>2, <3>3 DEF Steps
  <2> QED
    BY <2>1, <2>2
<1>2. \A T \in SUBSET S : h[T] \in V
  <2> HIDE DEF P
  <2>1. \A T \in SUBSET S : T \in P
    BY <1>1, SubsetInduction
  <2> QED
    BY <2>1 DEF P
<1>3. \A s \in SUBSET S : s # {} => h[s] = step[<<pick[s], h[s \ {pick[s]}]>>]
  <2> TAKE s \in SUBSET S
  <2> HAVE s # {}
  <2>1. h[s \ {pick[s]}] \in V
    BY <1>2
  <2> QED
    BY <1>0, <2>1
<1>4. h = [s \in SUBSET S |->
             IF s = {} THEN base ELSE step[<<pick[s], h[s \ {pick[s]}]>>]]
  <2>1. \A s \in SUBSET S :
          h[s] = IF s = {} THEN base ELSE step[<<pick[s], h[s \ {pick[s]}]>>]
    BY <1>0, <1>3
  <2> QED
    BY ONLY <1>0, <2>1
<1> QED
  BY <1>0, <1>2, <1>4 DEF Folds

(* A finite set that R orders has a least element. *)
LEMMA LeastExists ==
  ASSUME NEW S, IsFiniteSet(S), S # {}, NEW R,
         \A x, y \in S : x = y \/ <<x, y>> \in R \/ <<y, x>> \in R,
         \A x, y, z \in S : <<x, y>> \in R /\ <<y, z>> \in R => <<x, z>> \in R
  PROVE  \E x \in S : \A y \in S : x = y \/ <<x, y>> \in R
<1> DEFINE Least(T, x) == \A y \in T : x = y \/ <<x, y>> \in R
           P == {T \in SUBSET S : T = {} \/ \E x \in T : Least(T, x)}
<1>1. ASSUME NEW T \in SUBSET S, \A U \in (SUBSET T) \ {T} : U \in P
      PROVE  T \in P
  <2>1. SUFFICES ASSUME T # {} PROVE \E x \in T : Least(T, x)
    OBVIOUS
  <2>2. PICK a \in T : TRUE
    BY <2>1
  <2> DEFINE U == T \ {a}
  <2>3. CASE U = {}
    BY <2>3
  <2>4. CASE U # {}
    <3>1. U \in P
      <4>1. U \in (SUBSET T) \ {T}
        OBVIOUS
      <4> HIDE DEF U, P
      <4> QED
        BY <1>1, <4>1
    <3>2. PICK m \in U : Least(U, m)
      BY <2>4, <3>1
    <3>3. a \in S /\ m \in S /\ m # a /\ T = U \cup {a} /\ U \subseteq S
      OBVIOUS
    <3> HIDE DEF U
    <3>4. CASE <<m, a>> \in R
      BY <3>2, <3>3, <3>4
    <3>5. CASE <<a, m>> \in R
      <4>1. ASSUME NEW y \in U
            PROVE  <<a, y>> \in R
        BY <3>2, <3>3, <3>5
      <4> QED
        BY <3>3, <4>1
    <3> QED
      BY <3>3, <3>4, <3>5
  <2> QED
    BY <2>3, <2>4
<1>2. \A T \in SUBSET S : T \in P
  <2> HIDE DEF P
  <2> QED
    BY <1>1, SubsetInduction
<1> QED
  BY <1>2

-----------------------------------------------------------------------------
(***************************************************************************)
(* Operations and keys.                                                    *)
(***************************************************************************)

LEMMA Images ==
  ASSUME NEW S, IsFiniteSet(S), NEW T, NEW f \in [S -> T],
         \A t \in T : \E x \in S : f[x] = t
  PROVE  IsFiniteSet(T)
<1>1. f \in Surjection(S, T)
  BY DEF Surjection
<1> QED
  BY <1>1, FS_Surjection

LEMMA BatchFacts ==
  /\ Batches \subseteq [date : Nat, id : Nat]
  /\ NoBatch \in Batches
  /\ IsFiniteSet(Batches)
<1> DEFINE I  == {o \in Entries : o.kind = "inventory"}
           B1 == {o.batch : o \in Entries}
           B2 == {[date |-> o.date, id |-> o.id] : o \in I}
           f1 == [o \in Entries |-> o.batch]
           f2 == [o \in I |-> [date |-> o.date, id |-> o.id]]
<1>1. Batches = {NoBatch} \cup B1 \cup B2
  BY DEF Batches
<1>2. B1 \subseteq [date : Nat, id : Nat] /\ B2 \subseteq [date : Nat, id : Nat]
      /\ NoBatch \in [date : Nat, id : Nat]
  <2>1. \A o \in Entries : o.batch \in [date : Nat, id : Nat] /\ o.date \in Nat /\ o.id \in Nat
    BY LedgerAssumption DEF DocumentOps
  <2> QED
    BY <2>1 DEF NoBatch
<1>3. IsFiniteSet(B1)
  <2>1. f1 \in [Entries -> B1] /\ \A t \in B1 : \E o \in Entries : f1[o] = t
    OBVIOUS
  <2> HIDE DEF B1, f1
  <2> QED
    BY <2>1, Images, LedgerAssumption
<1>4. IsFiniteSet(B2)
  <2>1. f2 \in [I -> B2] /\ \A t \in B2 : \E o \in I : f2[o] = t
    OBVIOUS
  <2>2. IsFiniteSet(I)
    BY LedgerAssumption, FS_Subset
  <2> HIDE DEF B2, I, f2
  <2> QED
    BY <2>1, <2>2, Images
<1>5. IsFiniteSet({NoBatch})
  BY FS_Singleton
<1>6. IsFiniteSet({NoBatch} \cup B1 \cup B2)
  <2> HIDE DEF B1, B2
  <2> QED
    BY <1>3, <1>4, <1>5, FS_Union
<1> HIDE DEF B1, B2
<1> QED
  BY <1>1, <1>2, <1>6

LEMMA OpFacts ==
  /\ Ids \subseteq Nat /\ Dates \subseteq Nat /\ Stores \subseteq Nat \ {0}
  /\ \A t \in Dates : MonthOf[t] \in 1 .. Horizon - 1
  /\ Entries \subseteq Sane
  /\ Horizon \in Nat
<1>1. Ids \subseteq Nat /\ Dates \subseteq Nat /\ Stores \subseteq Nat \ {0} /\ Horizon \in Nat
  BY LedgerAssumption DEF Ids, Dates, DocumentOps, NoStore
<1>2. \A t \in Dates : MonthOf[t] \in 1 .. Horizon - 1
  BY LedgerAssumption DEF Dates
<1>3. ASSUME NEW o \in Entries PROVE o \in Ops /\ o.parts = <<>>
  <2>1. o \in DocumentOps
    BY LedgerAssumption
  <2>4. /\ o.store \in Stores /\ o.into \in Stores \cup {NoStore} /\ o.kind \in Kinds
        /\ o.qty \in Nat /\ o.cost \in Int /\ o.auto \in BOOLEAN
    BY <2>1 DEF DocumentOps
  <2>6. o.dep = FALSE /\ o.parts = <<>>
    BY <2>1 DEF DocumentOps
  <2>5. o = [id |-> o.id, date |-> o.date, store |-> o.store, into |-> o.into,
             batch |-> o.batch, kind |-> o.kind, qty |-> o.qty, cost |-> o.cost,
             auto |-> o.auto, dep |-> o.dep, parts |-> o.parts]
    BY <2>1 DEF DocumentOps
  <2>2. o.id \in Ids /\ o.date \in Dates /\ o.batch \in Batches
    BY DEF Ids, Dates, Batches
  <2>3. <<>> \in Seq(Deps)
    OBVIOUS
  <2>7. o.parts \in Seq(Deps) /\ o.qty \in Int
    BY <2>3, <2>4, <2>6
  <2>9. o.dep \in BOOLEAN
    BY ONLY <2>6
  <2>8. [id |-> o.id, date |-> o.date, store |-> o.store, into |-> o.into,
         batch |-> o.batch, kind |-> o.kind, qty |-> o.qty, cost |-> o.cost,
         auto |-> o.auto, dep |-> o.dep, parts |-> o.parts] \in Ops
    BY ONLY <2>2, <2>4, <2>7, <2>9 DEF Ops
  <2> QED
    BY ONLY <2>5, <2>6, <2>8
<1>4. \A o \in Entries : o.kind = "issue" => o.qty > 0
  BY LedgerAssumption
<1>5. \A o \in Entries : o.kind = "inventory" => [date |-> o.date, id |-> o.id] \in Batches
  BY DEF Batches
<1> QED
  BY <1>1, <1>2, <1>3, <1>4, <1>5 DEF Sane

LEMMA OrderFacts ==
  ASSUME NEW o \in Ops
  PROVE  /\ o.kind = "inventory" => Order(o) = 1
         /\ o.kind = "receive" => Order(o) = 2
         /\ o.kind = "issue" => Order(o) = 4
         /\ o.kind \in Kinds
         /\ o.dep => Flag(o) = 1
         /\ ~o.dep => Flag(o) = 0
BY DEF Ops, Order, Flag, Kinds

(* What has the same key has the same place, kind and standing. *)
LEMMA KeyFacts ==
  ASSUME NEW o \in Ops, NEW p \in Ops
  PROVE  /\ Key(o) = Key(p) <=> /\ o.store = p.store /\ o.batch = p.batch
                                /\ Stamp(o) = Stamp(p)
         /\ Key(o) = Key(p) => /\ o.date = p.date /\ o.id = p.id /\ o.kind = p.kind
                               /\ o.dep = p.dep /\ Virtual(o) = Virtual(p)
<1>1. o.batch \in [date : Nat, id : Nat] /\ p.batch \in [date : Nat, id : Nat]
  BY BatchFacts DEF Ops
<1>2. o.batch = p.batch <=> o.batch.date = p.batch.date /\ o.batch.id = p.batch.id
  BY <1>1
<1>3. Order(o) = Order(p) => o.kind = p.kind
  BY OrderFacts DEF Kinds
<1>4. Flag(o) = Flag(p) => o.dep = p.dep
  BY DEF Flag, Ops
<1>5. Key(o) = Key(p) <=> /\ o.store = p.store /\ o.batch = p.batch
                          /\ Stamp(o) = Stamp(p)
  BY <1>2 DEF Key, Stamp
<1>6. Stamp(o) = Stamp(p) => o.date = p.date /\ o.id = p.id /\ o.kind = p.kind /\ o.dep = p.dep
  BY <1>3, <1>4 DEF Stamp
<1>7. o.kind = p.kind /\ o.dep = p.dep /\ o.batch = p.batch => Virtual(o) = Virtual(p)
  BY DEF Virtual
<1> QED
  BY <1>5, <1>6, <1>7

(* Operations are in a strict order by stamps, and by keys. *)
LEMMA StampLess ==
  ASSUME NEW o \in Ops, NEW p \in Ops
  PROVE  Less(Stamp(o), Stamp(p)) <=>
           \/ o.date < p.date
           \/ o.date = p.date /\ Order(o) < Order(p)
           \/ o.date = p.date /\ Order(o) = Order(p) /\ o.id < p.id
           \/ o.date = p.date /\ Order(o) = Order(p) /\ o.id = p.id /\ Flag(o) < Flag(p)
BY DEF Less, Stamp

LEMMA KeyLess ==
  ASSUME NEW o \in Ops, NEW p \in Ops
  PROVE  Less(Key(o), Key(p)) <=>
           \/ o.date < p.date
           \/ /\ o.date = p.date
              /\ \/ Order(o) < Order(p)
                 \/ /\ Order(o) = Order(p)
                    /\ \/ o.store < p.store
                       \/ /\ o.store = p.store
                          /\ \/ o.batch.date < p.batch.date
                             \/ /\ o.batch.date = p.batch.date
                                /\ \/ o.batch.id < p.batch.id
                                   \/ /\ o.batch.id = p.batch.id
                                      /\ \/ o.id < p.id
                                         \/ o.id = p.id /\ Flag(o) < Flag(p)
BY DEF Less, Key

LEMMA Numbers ==
  ASSUME NEW o \in Ops
  PROVE  /\ o.date \in Nat /\ o.id \in Nat /\ o.store \in Nat
         /\ o.batch.date \in Nat /\ o.batch.id \in Nat
         /\ Order(o) \in Nat /\ Flag(o) \in Nat
         /\ MonthOf[o.date] \in 1 .. Horizon - 1
<1>1. o.date \in Dates /\ o.id \in Ids /\ o.store \in Stores /\ o.batch \in Batches
  BY DEF Ops
<1>2. Order(o) \in Nat /\ Flag(o) \in Nat
  BY OrderFacts DEF Kinds, Flag
<1> QED
  BY <1>1, <1>2, OpFacts, BatchFacts

LEMMA StampOrder ==
  ASSUME NEW o \in Ops, NEW p \in Ops
  PROVE  /\ Stamp(o) = Stamp(p) \/ Less(Stamp(o), Stamp(p)) \/ Less(Stamp(p), Stamp(o))
         /\ \A q \in Ops : Less(Stamp(o), Stamp(p)) /\ Less(Stamp(p), Stamp(q))
                         => Less(Stamp(o), Stamp(q))
<1>1. Stamp(o) = Stamp(p) \/ Less(Stamp(o), Stamp(p)) \/ Less(Stamp(p), Stamp(o))
  BY StampLess, Numbers DEF Stamp
<1>2. ASSUME NEW q \in Ops, Less(Stamp(o), Stamp(p)), Less(Stamp(p), Stamp(q))
      PROVE  Less(Stamp(o), Stamp(q))
  BY <1>2, StampLess, Numbers
<1> QED
  BY <1>1, <1>2

LEMMA KeyOrder ==
  ASSUME NEW o \in Ops, NEW p \in Ops
  PROVE  /\ Key(o) = Key(p) \/ Less(Key(o), Key(p)) \/ Less(Key(p), Key(o))
         /\ \A q \in Ops : Less(Key(o), Key(p)) /\ Less(Key(p), Key(q))
                         => Less(Key(o), Key(q))
<1>1. Key(o) = Key(p) \/ Less(Key(o), Key(p)) \/ Less(Key(p), Key(o))
  BY KeyLess, Numbers DEF Key
<1>2. ASSUME NEW q \in Ops, Less(Key(o), Key(p)), Less(Key(p), Key(q))
      PROVE  Less(Key(o), Key(q))
  BY <1>2, KeyLess, Numbers
<1> QED
  BY <1>1, <1>2

(* The earliest of some records of one chain, and the latest. *)
LEMMA EarliestIsThere ==
  ASSUME NEW S, IsFiniteSet(S), S # {}, \A r \in S : r.op \in Ops,
         \A r, s \in S : Stamp(r.op) = Stamp(s.op) => r = s
  PROVE  /\ Earliest(S) \in S
         /\ \A s \in S : s = Earliest(S) \/ Less(Stamp(Earliest(S).op), Stamp(s.op))
         /\ Latest(S) \in S
         /\ \A s \in S : s = Latest(S) \/ Less(Stamp(s.op), Stamp(Latest(S).op))
<1> DEFINE R1 == {q \in S \X S : Less(Stamp(q[1].op), Stamp(q[2].op))}
           R2 == {q \in S \X S : Less(Stamp(q[2].op), Stamp(q[1].op))}
<1>1. /\ \A x, y \in S : <<x, y>> \in R1 <=> Less(Stamp(x.op), Stamp(y.op))
      /\ \A x, y \in S : <<x, y>> \in R2 <=> Less(Stamp(y.op), Stamp(x.op))
  OBVIOUS
<1> HIDE DEF R1, R2
<1>2. \A x, y \in S : x = y \/ Less(Stamp(x.op), Stamp(y.op)) \/ Less(Stamp(y.op), Stamp(x.op))
  BY StampOrder
<1>3. \A x, y, z \in S : Less(Stamp(x.op), Stamp(y.op)) /\ Less(Stamp(y.op), Stamp(z.op))
                         => Less(Stamp(x.op), Stamp(z.op))
  BY StampOrder
<1>4. \E x \in S : \A y \in S : x = y \/ <<x, y>> \in R1
  <2>1. /\ \A x, y \in S : x = y \/ <<x, y>> \in R1 \/ <<y, x>> \in R1
        /\ \A x, y, z \in S : <<x, y>> \in R1 /\ <<y, z>> \in R1 => <<x, z>> \in R1
    BY <1>1, <1>2, <1>3
  <2> QED
    BY <2>1, LeastExists
<1>5. \E x \in S : \A y \in S : x = y \/ <<x, y>> \in R2
  <2>1. /\ \A x, y \in S : x = y \/ <<x, y>> \in R2 \/ <<y, x>> \in R2
        /\ \A x, y, z \in S : <<x, y>> \in R2 /\ <<y, z>> \in R2 => <<x, z>> \in R2
    BY <1>1, <1>2, <1>3
  <2> QED
    BY <2>1, LeastExists
<1>6. /\ Earliest(S) \in S
      /\ \A s \in S : Earliest(S) = s \/ Less(Stamp(Earliest(S).op), Stamp(s.op))
  <2>1. \E x \in S : \A y \in S : x = y \/ Less(Stamp(x.op), Stamp(y.op))
    BY <1>1, <1>4
  <2> QED
    BY ONLY <2>1 DEF Earliest
<1>7. /\ Latest(S) \in S
      /\ \A s \in S : Latest(S) = s \/ Less(Stamp(s.op), Stamp(Latest(S).op))
  <2>1. \E x \in S : \A y \in S : x = y \/ Less(Stamp(y.op), Stamp(x.op))
    BY <1>1, <1>5
  <2> QED
    BY ONLY <2>1 DEF Latest
<1> QED
  BY <1>6, <1>7

(* The first of the front. *)
LEMMA FirstIsThere ==
  ASSUME NEW F, IsFiniteSet(F), F # {}, F \subseteq Ops,
         \A p, q \in F : Key(p) = Key(q) => p = q
  PROVE  (CHOOSE p \in F : \A q \in F : p = q \/ Less(Key(p), Key(q))) \in F
<1> DEFINE R == {q \in F \X F : Less(Key(q[1]), Key(q[2]))}
<1>1. \A x, y \in F : <<x, y>> \in R <=> Less(Key(x), Key(y))
  OBVIOUS
<1> HIDE DEF R
<1>2. \A x, y \in F : x = y \/ Less(Key(x), Key(y)) \/ Less(Key(y), Key(x))
  BY KeyOrder
<1>3. \A x, y, z \in F : Less(Key(x), Key(y)) /\ Less(Key(y), Key(z)) => Less(Key(x), Key(z))
  BY KeyOrder
<1>4. \E x \in F : \A y \in F : x = y \/ <<x, y>> \in R
  BY <1>1, <1>2, <1>3, LeastExists
<1>5. \E x \in F : \A y \in F : x = y \/ Less(Key(x), Key(y))
  BY <1>1, <1>4
<1> QED
  BY ONLY <1>5

-----------------------------------------------------------------------------
(***************************************************************************)
(* Balances, and the sum of what operations add to them.                   *)
(***************************************************************************)

LEMMA BalanceFacts ==
  /\ Nothing \in Balance
  /\ \A a, b \in Balance : Plus(a, b) \in Balance /\ Minus(a, b) \in Balance
  /\ \A a \in Balance : Plus(a, Nothing) = a /\ Plus(Nothing, a) = a /\ Minus(a, Nothing) = a
  /\ \A a, b \in Balance : Plus(a, b) = Plus(b, a)
  /\ \A a, b, c \in Balance : Plus(Plus(a, b), c) = Plus(Plus(a, c), b)
  /\ \A a, b, c \in Balance : Plus(Plus(a, b), Minus(c, b)) = Plus(a, c)
BY DEF Balance, Nothing, Plus, Minus

LEMMA DeltaFacts ==
  ASSUME NEW o, o.kind \in Kinds, o.qty \in Int, o.cost \in Int
  PROVE  /\ Delta(o) \in Balance
         /\ o.kind = "inventory" => Delta(o) = Nothing
         /\ o.qty = 0 /\ o.cost = 0 => Delta(o) = Nothing
BY DEF Delta, Balance, Nothing, Kinds

LEMMA OpDelta == \A o \in Ops : Delta(o) \in Balance
BY DeltaFacts DEF Ops

(* The function behind SumOf. *)
SumStep == [p \in Ops \X Balance |-> Plus(p[2], Delta(p[1]))]
SumPick == [s \in SUBSET Ops |-> CHOOSE x \in s : TRUE]

AddsUp(g, S) ==
  g = [s \in SUBSET S |->
         IF s = {} THEN Nothing
         ELSE Plus(g[s \ {CHOOSE x \in s : TRUE}], Delta(CHOOSE x \in s : TRUE))]

Adder(S) == CHOOSE g : AddsUp(g, S)

LEMMA SumIsAdder == ASSUME NEW S PROVE SumOf(S) = Adder(S)[S]
BY DEF SumOf, FoldSet, MapThenFoldSet, AddsUp, Adder

LEMMA SumPicks == ASSUME NEW S, S \subseteq Ops PROVE Picks(SumPick, S) /\ Steps(SumStep, S, Balance)
<1>1. ASSUME NEW s \in SUBSET S, s # {} PROVE SumPick[s] \in s
  BY <1>1 DEF SumPick
<1>2. ASSUME NEW x \in S, NEW v \in Balance PROVE SumStep[<<x, v>>] \in Balance
  BY OpDelta, BalanceFacts DEF SumStep
<1> QED
  BY <1>1, <1>2 DEF Picks, Steps

LEMMA SumStepIs ==
  ASSUME NEW S, S \subseteq Ops, NEW s \in SUBSET S, s # {}, NEW v \in Balance
  PROVE  SumStep[<<SumPick[s], v>>] = Plus(v, Delta(CHOOSE x \in s : TRUE))
<1>1. SumPick[s] = CHOOSE x \in s : TRUE
  BY DEF SumPick
<1>2. SumPick[s] \in Ops
  BY SumPicks DEF Picks
<1>3. \A x \in Ops, w \in Balance : SumStep[<<x, w>>] = Plus(w, Delta(x))
  BY DEF SumStep
<1> QED
  BY <1>1, <1>2, <1>3

LEMMA AdderFolds ==
  ASSUME NEW S, IsFiniteSet(S), S \subseteq Ops
  PROVE  /\ Folds(Adder(S), S, Nothing, SumStep, SumPick)
         /\ Adder(S) \in [SUBSET S -> Balance]
<1>1. PICK g : Folds(g, S, Nothing, SumStep, SumPick)
  BY SumPicks, FoldsExist
<1>2. g \in [SUBSET S -> Balance]
  BY <1>1, SumPicks, FoldsType, BalanceFacts
<1>3. \A s \in SUBSET S : s # {} =>
        SumStep[<<SumPick[s], g[s \ {SumPick[s]}]>>]
          = Plus(g[s \ {CHOOSE x \in s : TRUE}], Delta(CHOOSE x \in s : TRUE))
  <2> TAKE s \in SUBSET S
  <2> HAVE s # {}
  <2>1. SumPick[s] = CHOOSE x \in s : TRUE
    BY DEF SumPick
  <2>2. g[s \ {SumPick[s]}] \in Balance
    BY <1>2
  <2> QED
    BY <2>1, <2>2, SumStepIs
<1>4. AddsUp(g, S)
  <2>1. g = [s \in SUBSET S |-> IF s = {} THEN Nothing
                                ELSE SumStep[<<SumPick[s], g[s \ {SumPick[s]}]>>]]
    BY <1>1 DEF Folds
  <2> QED
    BY ONLY <1>3, <2>1 DEF AddsUp
<1>5. AddsUp(Adder(S), S)
  BY ONLY <1>4 DEF Adder
<1> DEFINE h == Adder(S)
<1>6. h = [s \in SUBSET S |-> IF s = {} THEN Nothing
             ELSE Plus(h[s \ {CHOOSE x \in s : TRUE}], Delta(CHOOSE x \in s : TRUE))]
  BY <1>5 DEF AddsUp
<1> HIDE DEF h
<1>7. /\ h = [s \in SUBSET S |-> h[s]]
      /\ h[{}] = Nothing
  BY ONLY <1>6
<1>8. \A s \in SUBSET S : s # {} /\ h[s \ {SumPick[s]}] \in Balance
        => h[s] = SumStep[<<SumPick[s], h[s \ {SumPick[s]}]>>]
  <2> TAKE s \in SUBSET S
  <2> HAVE s # {} /\ h[s \ {SumPick[s]}] \in Balance
  <2>1. SumPick[s] = CHOOSE x \in s : TRUE
    BY DEF SumPick
  <2>2. h[s] = Plus(h[s \ {CHOOSE x \in s : TRUE}], Delta(CHOOSE x \in s : TRUE))
    BY <1>6
  <2> QED
    BY <2>1, <2>2, SumStepIs
<1>9. Folds(h, S, Nothing, SumStep, SumPick) /\ h \in [SUBSET S -> Balance]
  <2>1. Picks(SumPick, S) /\ Steps(SumStep, S, Balance) /\ Nothing \in Balance
    BY SumPicks, BalanceFacts
  <2>2. Follows(h, S, Balance, Nothing, SumStep, SumPick)
    BY ONLY <1>7, <1>8 DEF Follows
  <2> QED
    BY ONLY <2>1, <2>2, IsFiniteSet(S), FoldsFollow
<1> QED
  BY <1>9 DEF h

LEMMA SumUnfolds ==
  ASSUME NEW S, IsFiniteSet(S), S \subseteq Ops
  PROVE  /\ SumOf(S) \in Balance
         /\ S = {} => SumOf(S) = Nothing
         /\ S # {} => \E x \in S : SumOf(S) = Plus(SumOf(S \ {x}), Delta(x))
<1>1. SumOf(S) = Adder(S)[S] /\ Adder(S) \in [SUBSET S -> Balance]
  BY SumIsAdder, AdderFolds
<1>2. Folds(Adder(S), S, Nothing, SumStep, SumPick)
  BY AdderFolds
<1>3. S = {} => SumOf(S) = Nothing
  <2>1. Adder(S) = [s \in SUBSET S |-> IF s = {} THEN Nothing
                    ELSE SumStep[<<SumPick[s], Adder(S)[s \ {SumPick[s]}]>>]]
    BY <1>2 DEF Folds
  <2> QED
    BY <1>1, <2>1
<1>4. ASSUME S # {}
      PROVE  \E x \in S : SumOf(S) = Plus(SumOf(S \ {x}), Delta(x))
  <2> DEFINE x == SumPick[S]
             T == S \ {x}
             g == Adder(S)
             h == Adder(T)
  <2>1. x \in S
    BY <1>4, SumPicks DEF Picks
  <2>2. IsFiniteSet(T) /\ T \subseteq S /\ T \subseteq Ops
    BY FS_Subset
  <2>3. g[S] = SumStep[<<x, g[T]>>]
    BY <1>2, <1>4 DEF Folds
  <2> HIDE DEF x, T
  <2>4. g[T] = h[T]
    <3>1. Folds(g, S, Nothing, SumStep, SumPick) /\ Folds(h, T, Nothing, SumStep, SumPick)
      BY <1>2, <2>2, AdderFolds
    <3>2. Picks(SumPick, T)
      BY <2>2, SumPicks
    <3> HIDE DEF g, h
    <3> QED
      BY ONLY <2>2, <3>1, <3>2, FoldsAgree
  <2>5. g[T] = SumOf(T) /\ g[T] \in Balance
    BY <1>1, <2>2, <2>4, SumIsAdder
  <2>6. SumStep[<<x, g[T]>>] = Plus(g[T], Delta(x))
    BY <2>1, <2>5 DEF SumStep
  <2>7. SumOf(S) = Plus(SumOf(T), Delta(x))
    BY <1>1, <2>3, <2>5, <2>6
  <2> QED
    BY <2>1, <2>7 DEF T
<1> QED
  BY <1>1, <1>3, <1>4

(* One operation more adds what it changes, wherever the fold takes it. *)
LEMMA SumWith ==
  ASSUME NEW S, IsFiniteSet(S), S \subseteq Ops, NEW o \in S
  PROVE  SumOf(S) = Plus(SumOf(S \ {o}), Delta(o))
<1> DEFINE P == {T \in SUBSET S : \A p \in T : SumOf(T) = Plus(SumOf(T \ {p}), Delta(p))}
<1>1. ASSUME NEW T \in SUBSET S, \A U \in (SUBSET T) \ {T} : U \in P, NEW p \in T
      PROVE  SumOf(T) = Plus(SumOf(T \ {p}), Delta(p))
  <2>1. T \subseteq Ops /\ IsFiniteSet(T)
    BY FS_Subset
  <2>2. PICK x \in T : SumOf(T) = Plus(SumOf(T \ {x}), Delta(x))
    BY <2>1, SumUnfolds
  <2>3. CASE x = p
    BY <2>2, <2>3
  <2>4. CASE x # p
    <3> DEFINE U == T \ {x}
               W == T \ {p}
               R == T \ {x, p}
    <3>1. /\ U \in (SUBSET T) \ {T} /\ p \in U /\ U \ {p} = R
          /\ W \in (SUBSET T) \ {T} /\ x \in W /\ W \ {x} = R
      BY <2>4
    <3>2. IsFiniteSet(R) /\ R \subseteq Ops
      BY <2>1, FS_Subset
    <3> HIDE DEF U, W, R
    <3>3. U \in P /\ W \in P
      BY <1>1, <3>1
    <3>4. SumOf(U) = Plus(SumOf(R), Delta(p)) /\ SumOf(W) = Plus(SumOf(R), Delta(x))
      BY <3>1, <3>3
    <3>5. SumOf(R) \in Balance /\ Delta(p) \in Balance /\ Delta(x) \in Balance
      BY <2>1, <3>2, OpDelta, SumUnfolds
    <3> QED
      BY <2>2, <3>4, <3>5, BalanceFacts DEF U, W
  <2> QED
    BY <2>3, <2>4
<1>2. \A T \in SUBSET S : T \in P
  <2>1. \A T \in SUBSET S : (\A U \in (SUBSET T) \ {T} : U \in P) => T \in P
    BY <1>1
  <2> HIDE DEF P
  <2> QED
    BY <2>1, SubsetInduction
<1>3. S \in P
  <2> HIDE DEF P
  <2> QED
    BY <1>2
<1> QED
  BY <1>3

(* Operations apart from each other are summed up apart. *)
LEMMA SumUnion ==
  ASSUME NEW S, IsFiniteSet(S), S \subseteq Ops, NEW R \in SUBSET S
  PROVE  SumOf(S) = Plus(SumOf(S \ R), SumOf(R))
<1> DEFINE P == {T \in SUBSET S : T \cap R = {} =>
                    SumOf(T \cup R) = Plus(SumOf(T), SumOf(R))}
<1>0. IsFiniteSet(R) /\ R \subseteq Ops /\ SumOf(R) \in Balance
  BY FS_Subset, SumUnfolds
<1>1. ASSUME NEW T \in SUBSET S, \A U \in (SUBSET T) \ {T} : U \in P
      PROVE  T \in P
  <2>1. SUFFICES ASSUME T \cap R = {} PROVE SumOf(T \cup R) = Plus(SumOf(T), SumOf(R))
    OBVIOUS
  <2>2. IsFiniteSet(T) /\ T \subseteq Ops
    BY FS_Subset
  <2>3. CASE T = {}
    <3>1. SumOf(T) = Nothing /\ T \cup R = R
      BY <2>2, <2>3, SumUnfolds
    <3> QED
      BY <1>0, <3>1, BalanceFacts
  <2>4. CASE T # {}
    <3>1. PICK x \in T : TRUE
      BY <2>4
    <3> DEFINE U == T \ {x}
    <3>2. U \in (SUBSET T) \ {T} /\ U \cap R = {} /\ (T \cup R) \ {x} = U \cup R
      BY <2>1, <3>1
    <3>3. SumOf(U \cup R) = Plus(SumOf(U), SumOf(R))
      BY <1>1, <3>2
    <3>4. SumOf(T) = Plus(SumOf(U), Delta(x))
      BY <2>2, SumWith
    <3>5. SumOf(T \cup R) = Plus(SumOf(U \cup R), Delta(x))
      <4>1. IsFiniteSet(T \cup R) /\ T \cup R \subseteq Ops /\ x \in T \cup R
        BY <1>0, <2>2, <3>1, FS_Union
      <4>2. SumOf(T \cup R) = Plus(SumOf((T \cup R) \ {x}), Delta(x))
        BY <4>1, SumWith
      <4> QED
        BY <3>2, <4>2
    <3>6. SumOf(U) \in Balance /\ Delta(x) \in Balance
      <4>1. IsFiniteSet(U) /\ U \subseteq Ops
        BY <2>2, FS_Subset
      <4> QED
        BY <2>2, <4>1, SumUnfolds, OpDelta
    <3> HIDE DEF U
    <3> QED
      BY <1>0, <3>3, <3>4, <3>5, <3>6, BalanceFacts
  <2> QED
    BY <2>3, <2>4
<1>2. \A T \in SUBSET S : T \in P
  <2> HIDE DEF P
  <2> QED
    BY <1>1, SubsetInduction
<1>3. S \ R \in P /\ (S \ R) \cup R = S
  <2>1. S \ R \in SUBSET S
    OBVIOUS
  <2> HIDE DEF P
  <2> QED
    BY <1>2, <2>1
<1> QED
  BY <1>3

(* The last of some positions of a sequence. *)
LastOf(n) == [s \in SUBSET (1 .. n) |-> Max(s)]

LEMMA LastPicks ==
  ASSUME NEW n \in Nat
  PROVE  Picks(LastOf(n), 1 .. n) /\ IsFiniteSet(1 .. n)
<1>1. IsFiniteSet(1 .. n)
  BY FS_Interval
<1>2. ASSUME NEW s \in SUBSET (1 .. n), s # {}
      PROVE  Max(s) \in s
  <2> DEFINE R == {q \in s \X s : q[1] > q[2]}
  <2>1. \A x, y \in s : <<x, y>> \in R <=> x > y
    OBVIOUS
  <2>2. IsFiniteSet(s)
    BY <1>1, FS_Subset
  <2> HIDE DEF R
  <2>3. /\ \A x, y \in s : x = y \/ <<x, y>> \in R \/ <<y, x>> \in R
        /\ \A x, y, z \in s : <<x, y>> \in R /\ <<y, z>> \in R => <<x, z>> \in R
    BY <2>1
  <2>4. PICK x \in s : \A y \in s : x = y \/ <<x, y>> \in R
    BY <1>2, <2>2, <2>3, LeastExists
  <2>5. \A y \in s : x >= y
    <3> TAKE y \in s
    <3>1. x = y \/ x > y
      BY <2>1, <2>4, Zenon
    <3>2. x \in Int
      OBVIOUS
    <3> QED
      BY <3>1, <3>2
  <2> QED
    BY ONLY <2>4, <2>5 DEF Max
<1> QED
  BY <1>1, <1>2 DEF Picks, LastOf

(* A fold over a sequence of length n, one position after another; h has   *)
(* what comes of the positions of each set.                                *)
Unwinds(h, n, V, base, step) ==
  /\ h \in [SUBSET (1 .. n) -> V]
  /\ h[{}] = base
  /\ \A s \in SUBSET (1 .. n) : s # {} =>
       Max(s) \in s /\ h[s] = step[<<Max(s), h[s \ {Max(s)}]>>]

(* What one position brings about and every other keeps is so in the end.  *)
LEMMA UnwindsTo ==
  ASSUME NEW n \in Nat, NEW V, NEW base, NEW step, NEW h, Unwinds(h, n, V, base, step),
         NEW H, NEW i \in 1 .. n,
         \A v \in V : step[<<i, v>>] \in H,
         \A v \in V, j \in 1 .. n : v \in H => step[<<j, v>>] \in H
  PROVE  h[1 .. n] \in H
<1> DEFINE S == 1 .. n
           P == {s \in SUBSET S : i \in s => h[s] \in H}
<1>1. IsFiniteSet(S)
  BY FS_Interval
<1>2. ASSUME NEW s \in SUBSET S, \A u \in (SUBSET s) \ {s} : u \in P
      PROVE  s \in P
  <2> SUFFICES ASSUME i \in s PROVE h[s] \in H
    OBVIOUS
  <2> DEFINE u == s \ {Max(s)}
  <2>1. Max(s) \in s /\ h[s] = step[<<Max(s), h[u]>>]
    BY DEF Unwinds
  <2>2. u \in SUBSET S /\ u \in (SUBSET s) \ {s}
    BY <2>1
  <2>3. h[u] \in V
    BY <2>2 DEF Unwinds
  <2>4. CASE Max(s) = i
    BY <2>1, <2>3, <2>4
  <2>5. CASE Max(s) # i
    <3>1. h[u] \in H
      BY <1>2, <2>2, <2>5
    <3> QED
      BY <2>1, <2>3, <3>1
  <2> QED
    BY <2>4, <2>5
<1>3. \A s \in SUBSET S : s \in P
  <2> HIDE DEF P, S
  <2> QED
    BY <1>1, <1>2, SubsetInduction
<1> QED
  BY <1>3

(* What has quantities and costs adds up to a balance. *)
PlusStep(ps) == [q \in (DOMAIN ps) \X Balance |-> Plus(q[2], ps[q[1]])]

LEMMA PlusUnwinds ==
  ASSUME NEW n \in Nat, NEW ps, DOMAIN ps = 1 .. n,
         \A i \in 1 .. n : ps[i].qty \in Int /\ ps[i].cost \in Int
  PROVE  \E h : /\ Unwinds(h, n, Balance, Nothing, PlusStep(ps))
                /\ FoldLeft(Plus, Nothing, ps) = h[1 .. n]
                /\ \A x \in 1 .. n, v \in Balance : PlusStep(ps)[<<x, v>>] = Plus(v, ps[x])
<1> DEFINE S == 1 .. n
           step == PlusStep(ps)
           Is(g) == g = [s \in SUBSET S |->
                           IF s = {} THEN Nothing
                           ELSE Plus(g[s \ {Max(s)}], ps[Max(s)])]
           h == CHOOSE g : Is(g)
<1>1. FoldLeft(Plus, Nothing, ps) = h[S]
  BY DEF FoldLeft, MapThenFoldSet
<1>2. Picks(LastOf(n), S) /\ IsFiniteSet(S) /\ Nothing \in Balance
  BY LastPicks, BalanceFacts
<1>3. \A x \in S, v \in Balance : /\ step[<<x, v>>] = Plus(v, ps[x])
                                  /\ step[<<x, v>>] \in Balance
  BY DEF Plus, Balance, PlusStep
<1>4. \A s \in SUBSET S, v \in Balance :
        s # {} => step[<<LastOf(n)[s], v>>] = Plus(v, ps[Max(s)])
  BY <1>2, <1>3 DEF Picks, LastOf
<1>5. Steps(step, S, Balance)
  BY <1>3 DEF Steps
<1>6. \A s \in SUBSET S : LastOf(n)[s] = Max(s)
  BY DEF LastOf
<1> HIDE DEF S, step
<1>7. Is(h)
  <2>1. PICK g : Folds(g, S, Nothing, step, LastOf(n))
    BY <1>2, FoldsExist
  <2>2. g \in [SUBSET S -> Balance]
    BY <1>2, <1>5, <2>1, FoldsType
  <2>3. \A s \in SUBSET S : s # {} =>
          step[<<LastOf(n)[s], g[s \ {LastOf(n)[s]}]>>] = Plus(g[s \ {Max(s)}], ps[Max(s)])
    BY <1>4, <1>6, <2>2
  <2>4. Is(g)
    BY ONLY <2>1, <2>3 DEF Folds
  <2> QED
    BY ONLY <2>4
<1> HIDE DEF h
<1>8. Follows(h, S, Balance, Nothing, step, LastOf(n))
  <2>1. h = [s \in SUBSET S |-> h[s]] /\ h[{}] = Nothing
    BY ONLY <1>7
  <2>2. \A s \in SUBSET S : s # {} /\ h[s \ {LastOf(n)[s]}] \in Balance
          => h[s] = step[<<LastOf(n)[s], h[s \ {LastOf(n)[s]}]>>]
    BY <1>4, <1>6, <1>7
  <2> QED
    BY ONLY <2>1, <2>2 DEF Follows
<1>9. h \in [SUBSET S -> Balance]
  BY ONLY <1>2, <1>5, <1>8, FoldsFollow
<1>10. \A s \in SUBSET S : s # {} => Max(s) \in s /\ h[s] = step[<<Max(s), h[s \ {Max(s)}]>>]
  <2> TAKE s \in SUBSET S
  <2> HAVE s # {}
  <2>1. Max(s) \in s
    BY <1>2, <1>6 DEF Picks
  <2>2. h[s] = Plus(h[s \ {Max(s)}], ps[Max(s)])
    BY ONLY <1>7, s \in SUBSET S, s # {}
  <2>3. h[s \ {Max(s)}] \in Balance /\ Max(s) \in S
    BY <1>9, <2>1
  <2> QED
    BY <1>3, <2>1, <2>2, <2>3
<1>11. Unwinds(h, n, Balance, Nothing, step)
  BY <1>8, <1>9, <1>10 DEF Unwinds, Follows, S
<1> QED
  BY <1>1, <1>3, <1>11 DEF S, step

LEMMA PlusAll ==
  ASSUME NEW n \in Nat, NEW ps, DOMAIN ps = 1 .. n,
         \A i \in 1 .. n : ps[i].qty \in Int /\ ps[i].cost \in Int
  PROVE  FoldLeft(Plus, Nothing, ps) \in Balance
<1>1. PICK h : /\ Unwinds(h, n, Balance, Nothing, PlusStep(ps))
               /\ FoldLeft(Plus, Nothing, ps) = h[1 .. n]
  BY PlusUnwinds
<1> QED
  BY <1>1 DEF Unwinds

LEMMA PlusNone == FoldLeft(Plus, Nothing, <<>>) = Nothing
<1> DEFINE Is(g) == g = [s \in SUBSET {} |->
                           IF s = {} THEN Nothing
                           ELSE Plus(g[s \ {Max(s)}], <<>>[Max(s)])]
           h == CHOOSE g : Is(g)
<1>1. DOMAIN <<>> = {}
  OBVIOUS
<1>2. FoldLeft(Plus, Nothing, <<>>) = h[{}]
  BY <1>1 DEF FoldLeft, MapThenFoldSet
<1>3. Is([s \in SUBSET {} |-> Nothing])
  OBVIOUS
<1>4. Is(h)
  BY ONLY <1>3
<1> QED
  BY <1>2, <1>4

-----------------------------------------------------------------------------
(***************************************************************************)
(* Databases.                                                              *)
(***************************************************************************)

Databases ==
  [main : SUBSET [op : Sane, bal : Balance], index : SUBSET Sane,
   chk : [Months -> [Stores \X Batches -> Balance]], latest : Months,
   front : SUBSET Sane]

(* No two operations have one key. *)
KeysApart(S) == \A a, b \in S : Key(a) = Key(b) => a = b

(* What there is of one store and batch before a month. *)
At(S, m, k) == {o \in S : <<o.store, o.batch>> = k /\ MonthOf[o.date] < m}

(* The checkpoints are sums of the operations of S. *)
Sums(d, S) ==
  \A m \in Months, k \in Stores \X Batches :
    d.chk[m][k] = IF m > d.latest THEN Nothing ELSE SumOf(At(S, m, k))

IsFinite(d) == IsFiniteSet(d.main) /\ IsFiniteSet(d.index) /\ IsFiniteSet(d.front)

IsKeyed(d) ==
  /\ KeysApart(d.front)
  /\ KeysApart(d.index)
  /\ \A r, s \in d.main : Key(r.op) = Key(s.op) => r = s

(* A stored issue that names no batch has taken from some, or from none.   *)
HasTaken(d) ==
  \A r \in d.main : Virtual(r.op) /\ r.op.kind = "issue" => r.op.parts # <<>>

Mirrors(d) ==
  \A o \in Sane : o.kind # "inventory" =>
    (o \in d.index <=> o.parts = <<>> /\ \E r \in d.main : r.op = o)

Dated(d) == \A o \in d.index : MonthOf[o.date] < d.latest

(* Nobody deletes, or moves, an issue that names no batch. *)
Careful == \A o \in Removable : ~ (Virtual(o) /\ o.kind = "issue")

(* What every operator of the ledger keeps. *)
Sound(d) ==
  /\ d \in Databases
  /\ IsFinite(d) /\ IsKeyed(d) /\ HasTaken(d) /\ Mirrors(d) /\ Dated(d)
  /\ Careful => Sums(d, d.index)

LEMMA SaneFacts ==
  /\ Sane \subseteq Ops
  /\ \A o \in Sane : o.parts \in Seq(Deps) /\ (o.parts # <<>> => Virtual(o))
BY DEF Sane, Ops

LEMMA DatabaseFacts ==
  ASSUME NEW d \in Databases
  PROVE  /\ \A r \in d.main : r.op \in Sane /\ r.op \in Ops /\ r.bal \in Balance
         /\ d.index \subseteq Sane /\ d.index \subseteq Ops
         /\ d.front \subseteq Sane /\ d.front \subseteq Ops
         /\ d.latest \in Months
         /\ d.chk \in [Months -> [Stores \X Batches -> Balance]]
BY SaneFacts DEF Databases

(* The front may change as long as it is finite and its keys are apart. *)
LEMMA FrontSound ==
  ASSUME NEW d, Sound(d), NEW F \in SUBSET Sane, IsFiniteSet(F), KeysApart(F)
  PROVE  /\ Sound([d EXCEPT !.front = F])
         /\ [d EXCEPT !.front = F].front = F
         /\ [d EXCEPT !.front = F].main = d.main
         /\ [d EXCEPT !.front = F].index = d.index
<1> DEFINE e == [d EXCEPT !.front = F]
<1>1. d \in Databases
  BY DEF Sound
<1>2. /\ e \in Databases /\ e.front = F /\ e.main = d.main /\ e.index = d.index
      /\ e.chk = d.chk /\ e.latest = d.latest
  BY <1>1 DEF Databases
<1> HIDE DEF e
<1>3. IsFinite(e) /\ IsKeyed(e) /\ HasTaken(e) /\ Mirrors(e) /\ Dated(e)
  BY <1>2 DEF Sound, IsFinite, IsKeyed, HasTaken, Mirrors, Dated
<1>4. Careful => Sums(e, e.index)
  BY <1>2 DEF Sound, Sums
<1>5. Sound(e)
  BY <1>2, <1>3, <1>4 DEF Sound
<1> QED
  BY <1>2, <1>5 DEF e

LEMMA WithoutFacts ==
  ASSUME NEW S, IsFiniteSet(S), S \subseteq Sane, KeysApart(S), NEW o \in Sane
  PROVE  /\ Without(S, o) \cup {o} \in SUBSET Sane /\ Without(S, o) \in SUBSET Sane
         /\ IsFiniteSet(Without(S, o) \cup {o}) /\ IsFiniteSet(Without(S, o))
         /\ KeysApart(Without(S, o) \cup {o}) /\ KeysApart(Without(S, o))
<1>1. Without(S, o) \subseteq S /\ \A p \in Without(S, o) : Key(p) # Key(o)
  BY DEF Without
<1>2. IsFiniteSet(Without(S, o) \cup {o}) /\ IsFiniteSet(Without(S, o))
  BY <1>1, FS_Subset, FS_Singleton, FS_Union
<1>3. KeysApart(Without(S, o) \cup {o}) /\ KeysApart(Without(S, o))
  BY <1>1 DEF KeysApart
<1> QED
  BY <1>1, <1>2, <1>3

LEMMA InsertSound ==
  ASSUME NEW d, Sound(d), NEW o \in Sane
  PROVE  Sound(Insert(d, o))
<1> DEFINE F == Without(d.front, o) \cup {o}
<1>1. Insert(d, o) = [d EXCEPT !.front = F]
  BY DEF Insert
<1>2. d.front \subseteq Sane /\ IsFiniteSet(d.front) /\ KeysApart(d.front)
  BY DatabaseFacts DEF Sound, IsFinite, IsKeyed
<1>3. F \in SUBSET Sane /\ IsFiniteSet(F) /\ KeysApart(F)
  BY <1>2, WithoutFacts
<1> HIDE DEF F
<1> QED
  BY <1>1, <1>3, FrontSound

LEMMA PushSound ==
  ASSUME NEW d, Sound(d), NEW o \in Sane
  PROVE  Sound(Push(d, o))
<1>1. CASE \E p \in d.front : Key(p) = Key(o)
  BY <1>1 DEF Push
<1>2. CASE ~ \E p \in d.front : Key(p) = Key(o)
  <2> DEFINE F == d.front \cup {o}
  <2>1. d.front \subseteq Sane /\ IsFiniteSet(d.front) /\ KeysApart(d.front)
    BY DatabaseFacts DEF Sound, IsFinite, IsKeyed
  <2>2. F \in SUBSET Sane /\ IsFiniteSet(F) /\ KeysApart(F)
    BY <1>2, <2>1, FS_Singleton, FS_Union DEF KeysApart
  <2>3. Push(d, o) = [d EXCEPT !.front = F]
    BY <1>2 DEF Push
  <2> HIDE DEF F
  <2> QED
    BY <2>2, <2>3, FrontSound
<1> QED
  BY <1>1, <1>2

LEMMA ChainFacts ==
  ASSUME NEW d, Sound(d), NEW o, NEW S, S \subseteq Chain(d, o), S # {}
  PROVE  /\ Earliest(S) \in S
         /\ \A s \in S : s = Earliest(S) \/ Less(Stamp(Earliest(S).op), Stamp(s.op))
         /\ Latest(S) \in S
         /\ \A s \in S : s = Latest(S) \/ Less(Stamp(s.op), Stamp(Latest(S).op))
<1>1. S \subseteq d.main /\ \A r \in S : r.op.store = o.store /\ r.op.batch = o.batch
  BY DEF Chain
<1>2. IsFiniteSet(S) /\ \A r \in S : r.op \in Ops
  BY <1>1, DatabaseFacts, FS_Subset DEF Sound, IsFinite
<1>3. \A r, s \in S : Stamp(r.op) = Stamp(s.op) => r = s
  BY <1>1, <1>2, KeyFacts DEF Sound, IsKeyed
<1> QED
  BY <1>2, <1>3, EarliestIsThere

LEMMA PropagateSound ==
  ASSUME NEW d, Sound(d), NEW o
  PROVE  Sound(Propagate(d, o)) /\ Sound(PropagateBoth(d, o))
<1>1. ASSUME NEW e, Sound(e), NEW p PROVE Sound(Propagate(e, p))
  <2>1. CASE Later(e, p) = {}
    BY <1>1, <2>1 DEF Propagate
  <2>2. CASE Later(e, p) # {}
    <3>1. Later(e, p) \subseteq Chain(e, p) /\ Chain(e, p) \subseteq e.main
      BY DEF Later, Chain
    <3>2. Earliest(Later(e, p)) \in Later(e, p)
      BY <1>1, <2>2, <3>1, ChainFacts
    <3>3. Earliest(Later(e, p)).op \in Sane
      BY <1>1, <3>1, <3>2, DatabaseFacts DEF Sound
    <3>4. Propagate(e, p) = Push(e, Earliest(Later(e, p)).op)
      BY <2>2 DEF Propagate
    <3> QED
      BY <1>1, <3>3, <3>4, PushSound
  <2> QED
    BY <2>1, <2>2
<1>2. Sound(PropagateBoth(d, o))
  <2>1. Sound(Propagate(d, o))
    BY <1>1
  <2>2. Sound(Propagate(Propagate(d, o), [o EXCEPT !.batch = NoBatch]))
    BY <1>1, <2>1
  <2> QED
    BY <2>1, <2>2 DEF PropagateBoth
<1> QED
  BY <1>1, <1>2

-----------------------------------------------------------------------------
(***************************************************************************)
(* What is posted to the checkpoints.                                      *)
(***************************************************************************)

LEMMA AtFacts ==
  ASSUME NEW S, IsFiniteSet(S), S \subseteq Ops, NEW m, NEW k
  PROVE  /\ At(S, m, k) \subseteq S /\ IsFiniteSet(At(S, m, k)) /\ At(S, m, k) \subseteq Ops
         /\ SumOf(At(S, m, k)) \in Balance
<1>1. At(S, m, k) \subseteq S
  BY DEF At
<1>2. IsFiniteSet(At(S, m, k)) /\ At(S, m, k) \subseteq Ops
  BY <1>1, FS_Subset
<1> QED
  BY <1>1, <1>2, SumUnfolds

LEMMA PostShape ==
  ASSUME NEW d \in Databases, NEW o \in Ops, NEW x \in Balance
  PROVE  LET e == Post(d, o, x)
             m == MonthOf[o.date]
             Carried(n, k) ==
               IF d.latest < n /\ n <= e.latest /\ d.chk[d.latest][k] # Nothing
               THEN d.chk[d.latest][k] ELSE d.chk[n][k]
         IN  /\ e \in Databases
             /\ e.main = d.main /\ e.index = d.index /\ e.front = d.front
             /\ e.latest = IF d.latest <= m THEN m + 1 ELSE d.latest
             /\ \A n \in Months, k \in Stores \X Batches :
                  e.chk[n][k] = IF k = <<o.store, o.batch>> /\ m < n /\ n <= e.latest
                                THEN Plus(Carried(n, k), x) ELSE Carried(n, k)
<1> DEFINE m == MonthOf[o.date]
           until == IF d.latest <= m THEN m + 1 ELSE d.latest
           Carried(n, k) == IF d.latest < n /\ n <= until /\ d.chk[d.latest][k] # Nothing
                            THEN d.chk[d.latest][k] ELSE d.chk[n][k]
           New(n, k) == IF k = <<o.store, o.batch>> /\ m < n /\ n <= until
                        THEN Plus(Carried(n, k), x) ELSE Carried(n, k)
           chk == [n \in Months |-> [k \in Stores \X Batches |-> New(n, k)]]
<1>1. Post(d, o, x) = [d EXCEPT !.latest = until, !.chk = chk]
  BY DEF Post
<1>2. d.latest \in Months /\ d.chk \in [Months -> [Stores \X Batches -> Balance]]
  BY DatabaseFacts
<1>3. m \in 1 .. Horizon - 1 /\ Horizon \in Nat
  BY Numbers, OpFacts
<1>4. until \in Months
  BY <1>2, <1>3 DEF Months
<1>5. \A n \in Months, k \in Stores \X Batches : Carried(n, k) \in Balance
  BY <1>2
<1> HIDE DEF m, until, Carried
<1>6. \A n \in Months, k \in Stores \X Batches : New(n, k) \in Balance
  BY <1>5, BalanceFacts
<1>7. /\ chk \in [Months -> [Stores \X Batches -> Balance]]
      /\ \A n \in Months, k \in Stores \X Batches : chk[n][k] = New(n, k)
  <2> HIDE DEF New
  <2> QED
    BY <1>6
<1> HIDE DEF chk, New
<1> DEFINE e == [d EXCEPT !.latest = until, !.chk = chk]
<1>8. /\ e \in Databases
      /\ e.main = d.main /\ e.index = d.index /\ e.front = d.front
      /\ e.latest = until /\ e.chk = chk
  BY <1>4, <1>7 DEF Databases
<1> HIDE DEF e
<1>9. Post(d, o, x) = e
  BY <1>1 DEF e
<1> QED
  BY <1>7, <1>8, <1>9 DEF New, Carried, m, until

(* The checkpoints were sums of I and are sums of J, when J is I with x    *)
(* more in the store and batch of o from its month on.                     *)
LEMMA PostSums ==
  ASSUME NEW d \in Databases, NEW o \in Ops, NEW x \in Balance,
         NEW I, IsFiniteSet(I), I \subseteq Ops, Sums(d, I),
         \A p \in I : MonthOf[p.date] < d.latest,
         NEW J,
         \A m \in Months, k \in Stores \X Batches :
           SumOf(At(J, m, k)) =
             IF k = <<o.store, o.batch>> /\ MonthOf[o.date] < m
             THEN Plus(SumOf(At(I, m, k)), x) ELSE SumOf(At(I, m, k))
  PROVE  Sums(Post(d, o, x), J)
<1> DEFINE e == Post(d, o, x)
           a == MonthOf[o.date]
           Carried(n, k) ==
             IF d.latest < n /\ n <= e.latest /\ d.chk[d.latest][k] # Nothing
             THEN d.chk[d.latest][k] ELSE d.chk[n][k]
<1>1. /\ e.latest = IF d.latest <= a THEN a + 1 ELSE d.latest
      /\ \A n \in Months, k \in Stores \X Batches :
           e.chk[n][k] = IF k = <<o.store, o.batch>> /\ a < n /\ n <= e.latest
                         THEN Plus(Carried(n, k), x) ELSE Carried(n, k)
  BY PostShape
<1>2. /\ d.latest \in Months /\ Months \subseteq Nat
      /\ a \in Nat
      /\ \A p \in I : MonthOf[p.date] \in Nat
  BY DatabaseFacts, Numbers, OpFacts DEF Months
<1>1a. e.latest = IF d.latest <= a THEN a + 1 ELSE d.latest
  BY <1>1
<1> HIDE DEF e, a
<1>1b. d.latest \in Nat /\ e.latest \in Nat /\ d.latest <= e.latest
  <2>1. d.latest \in Nat /\ a \in Nat
    BY ONLY <1>2
  <2> QED
    BY ONLY <1>1a, <2>1
<1>3. ASSUME NEW n \in Months, NEW k \in Stores \X Batches
      PROVE  Carried(n, k) = IF n > e.latest THEN Nothing ELSE SumOf(At(I, n, k))
  <2>1. /\ d.chk[n][k] = IF n > d.latest THEN Nothing ELSE SumOf(At(I, n, k))
        /\ d.chk[d.latest][k] = SumOf(At(I, d.latest, k))
    <3>1. ~ (d.latest > d.latest)
      BY <1>1b
    <3> QED
      BY <1>2, <3>1, Zenon DEF Sums
  <2>2. n > d.latest => At(I, n, k) = At(I, d.latest, k)
    <3> SUFFICES ASSUME n > d.latest PROVE At(I, n, k) = At(I, d.latest, k)
      OBVIOUS
    <3>1. n \in Nat
      BY <1>2
    <3>2. \A p \in I : MonthOf[p.date] < d.latest /\ MonthOf[p.date] < n
      BY <1>2, <1>1b, <3>1
    <3> QED
      BY ONLY <3>2 DEF At
  <2>3. n \in Nat
    BY <1>2
  <2> QED
    BY <1>1b, <2>1, <2>2, <2>3
<1>4. ASSUME NEW n \in Months, NEW k \in Stores \X Batches
      PROVE  e.chk[n][k] = IF n > e.latest THEN Nothing ELSE SumOf(At(J, n, k))
  <2>1. e.chk[n][k] = IF k = <<o.store, o.batch>> /\ a < n /\ n <= e.latest
                      THEN Plus(Carried(n, k), x) ELSE Carried(n, k)
    BY <1>1
  <2>2. Carried(n, k) = IF n > e.latest THEN Nothing ELSE SumOf(At(I, n, k))
    BY <1>3
  <2>3. SumOf(At(J, n, k)) = IF k = <<o.store, o.batch>> /\ a < n
                             THEN Plus(SumOf(At(I, n, k)), x) ELSE SumOf(At(I, n, k))
    BY DEF a
  <2>4. e.latest \in Nat /\ n \in Nat
    BY <1>2, <1>1b
  <2> HIDE DEF Carried
  <2> QED
    BY <2>1, <2>2, <2>3, <2>4
<1> QED
  BY <1>4 DEF Sums, e

LEMMA SumsWith ==
  ASSUME NEW S, IsFiniteSet(S), S \subseteq Ops, NEW o \in S
  PROVE  \A m, k : SumOf(At(S, m, k)) =
           IF k = <<o.store, o.batch>> /\ MonthOf[o.date] < m
           THEN Plus(SumOf(At(S \ {o}, m, k)), Delta(o)) ELSE SumOf(At(S \ {o}, m, k))
<1> TAKE m, k
<1>1. CASE k = <<o.store, o.batch>> /\ MonthOf[o.date] < m
  <2>1. o \in At(S, m, k) /\ At(S, m, k) \ {o} = At(S \ {o}, m, k)
    BY <1>1 DEF At
  <2>2. IsFiniteSet(At(S, m, k)) /\ At(S, m, k) \subseteq Ops
    BY AtFacts
  <2>3. SumOf(At(S, m, k)) = Plus(SumOf(At(S, m, k) \ {o}), Delta(o))
    BY <2>1, <2>2, SumWith
  <2> QED
    BY <1>1, <2>1, <2>3
<1>2. CASE ~ (k = <<o.store, o.batch>> /\ MonthOf[o.date] < m)
  <2>1. At(S, m, k) = At(S \ {o}, m, k)
    BY <1>2 DEF At
  <2> QED
    BY <1>2, <2>1
<1> QED
  BY <1>1, <1>2

(* One operation of a key in the place of another, or of none. *)
LEMMA SumsReplaced ==
  ASSUME NEW I, IsFiniteSet(I), I \subseteq Ops, KeysApart(I), NEW o \in Ops,
         NEW old \in Balance,
         \A p \in I : Key(p) = Key(o) => Delta(p) = old,
         (\A p \in I : Key(p) # Key(o)) => old = Nothing,
         NEW J, NEW new \in Balance,
         \/ J = Without(I, o) /\ new = Nothing
         \/ J = Without(I, o) \cup {o} /\ new = Delta(o)
  PROVE  \A m \in Months, k \in Stores \X Batches :
           SumOf(At(J, m, k)) =
             IF k = <<o.store, o.batch>> /\ MonthOf[o.date] < m
             THEN Plus(SumOf(At(I, m, k)), Minus(new, old)) ELSE SumOf(At(I, m, k))
<1> TAKE m \in Months, k \in Stores \X Batches
<1> DEFINE W == Without(I, o)
           w == SumOf(At(W, m, k))
           Here == k = <<o.store, o.batch>> /\ MonthOf[o.date] < m
<1>1. W \subseteq I /\ o \notin W /\ IsFiniteSet(W) /\ W \subseteq Ops
  <2>1. W \subseteq I /\ o \notin W
    BY DEF Without
  <2> HIDE DEF W
  <2> QED
    BY <2>1, FS_Subset
<1>2. w \in Balance
  <2> HIDE DEF W
  <2> QED
    BY <1>1, AtFacts
<1>3. SumOf(At(I, m, k)) = IF Here THEN Plus(w, old) ELSE w
  <2>1. CASE \E p \in I : Key(p) = Key(o)
    <3>1. PICK p \in I : Key(p) = Key(o)
      BY <2>1
    <3>2. W = I \ {p}
      BY <3>1 DEF Without, KeysApart
    <3>3. p \in Ops /\ p.store = o.store /\ p.batch = o.batch /\ p.date = o.date /\ Delta(p) = old
      BY <3>1, KeyFacts
    <3>4. SumOf(At(I, m, k)) =
            IF k = <<p.store, p.batch>> /\ MonthOf[p.date] < m
            THEN Plus(SumOf(At(I \ {p}, m, k)), Delta(p)) ELSE SumOf(At(I \ {p}, m, k))
      BY SumsWith
    <3> HIDE DEF W
    <3> QED
      BY <3>2, <3>3, <3>4
  <2>2. CASE \A p \in I : Key(p) # Key(o)
    <3>1. W = I /\ old = Nothing
      BY <2>2 DEF Without
    <3> HIDE DEF W
    <3> QED
      BY <1>2, <3>1, BalanceFacts
  <2> QED
    BY <2>1, <2>2
<1>4. SumOf(At(J, m, k)) = IF Here THEN Plus(w, new) ELSE w
  <2>1. CASE J = W /\ new = Nothing
    <3> HIDE DEF W
    <3> QED
      BY <1>2, <2>1, BalanceFacts
  <2>2. CASE J = W \cup {o} /\ new = Delta(o)
    <3>1. J \ {o} = W /\ o \in J
      BY <1>1, <2>2
    <3>2. IsFiniteSet(J) /\ J \subseteq Ops
      <4> HIDE DEF W
      <4>1. IsFiniteSet({o})
        BY FS_Singleton
      <4> QED
        BY <1>1, <2>2, <4>1, FS_Union
    <3> HIDE DEF W
    <3>3. SumOf(At(J, m, k)) =
            IF k = <<o.store, o.batch>> /\ MonthOf[o.date] < m
            THEN Plus(SumOf(At(J \ {o}, m, k)), Delta(o)) ELSE SumOf(At(J \ {o}, m, k))
      BY <3>1, <3>2, SumsWith
    <3> QED
      BY <2>2, <3>1, <3>3
  <2> QED
    BY <2>1, <2>2
<1>5. Plus(Plus(w, old), Minus(new, old)) = Plus(w, new)
  <2> HIDE DEF w
  <2> QED
    BY <1>2, BalanceFacts
<1> HIDE DEF w
<1> QED
  BY <1>3, <1>4, <1>5

(* The operation stored under a key, and what it added. *)
LEMMA StoredFacts ==
  ASSUME NEW d, Sound(d), NEW o \in Sane
  PROVE  /\ \A r \in d.main : r \in Stored(d, o) <=> Key(r.op) = Key(o)
         /\ Stored(d, o) \subseteq d.main
         /\ StoredDelta(d, o) \in Balance
         /\ \A r \in Stored(d, o) : StoredDelta(d, o) = Delta(r.op)
         /\ Stored(d, o) = {} => StoredDelta(d, o) = Nothing
         /\ StoredBalance(d, o) \in Balance
<1>1. o \in Ops /\ \A r \in d.main : r.op \in Ops /\ r.bal \in Balance
  BY SaneFacts, DatabaseFacts DEF Sound
<1>2. /\ \A r \in d.main : r \in Stored(d, o) <=> Key(r.op) = Key(o)
      /\ Stored(d, o) \subseteq d.main
  BY <1>1, KeyFacts DEF Stored, Chain
<1>3. \A r, s \in Stored(d, o) : r = s
  BY <1>2 DEF Sound, IsKeyed
<1>4. CASE Stored(d, o) = {}
  BY <1>2, <1>4, BalanceFacts DEF StoredDelta, StoredBalance
<1>5. CASE Stored(d, o) # {}
  <2>1. (CHOOSE r \in Stored(d, o) : TRUE) \in Stored(d, o)
    BY <1>5
  <2>2. StoredDelta(d, o) = Delta((CHOOSE r \in Stored(d, o) : TRUE).op)
        /\ StoredBalance(d, o) = (CHOOSE r \in Stored(d, o) : TRUE).bal
    BY <1>5 DEF StoredDelta, StoredBalance
  <2>3. \A r \in Stored(d, o) : r = (CHOOSE x \in Stored(d, o) : TRUE)
    BY <1>3, <2>1
  <2> QED
    BY <1>1, <1>2, <1>5, <2>1, <2>2, <2>3, OpDelta
<1> QED
  BY <1>2, <1>4, <1>5

(* Unless it names no batch, the index has it too. *)
LEMMA IndexedDelta ==
  ASSUME NEW d, Sound(d), NEW o \in Sane, ~ (Virtual(o) /\ o.kind = "issue")
  PROVE  /\ \A p \in d.index : Key(p) = Key(o) => Delta(p) = StoredDelta(d, o)
         /\ (\A p \in d.index : Key(p) # Key(o)) => StoredDelta(d, o) = Nothing
<1>1. /\ o \in Ops /\ d.index \subseteq Ops /\ d.index \subseteq Sane
      /\ \A r \in d.main : r.op \in Ops /\ r.op \in Sane
  BY SaneFacts, DatabaseFacts DEF Sound
<1>2. \A p \in Ops : p.kind \in Kinds /\ p.qty \in Int /\ p.cost \in Int
  BY DEF Ops
<1>3. CASE o.kind = "inventory"
  <2>1. \A p \in Ops : Key(p) = Key(o) => Delta(p) = Nothing
    BY <1>1, <1>2, <1>3, KeyFacts, DeltaFacts
  <2>2. StoredDelta(d, o) = Nothing
    BY <1>1, <2>1, StoredFacts
  <2> QED
    BY <1>1, <2>1, <2>2
<1>4. CASE o.kind # "inventory"
  <2>1. \A p \in Ops : Key(p) = Key(o) => p.kind = o.kind /\ Virtual(p) = Virtual(o)
    BY <1>1, KeyFacts
  <2>2. ASSUME NEW p \in d.index, Key(p) = Key(o)
        PROVE  Delta(p) = StoredDelta(d, o)
    <3>1. PICK r \in d.main : r.op = p
      BY <1>1, <1>4, <2>1, <2>2 DEF Sound, Mirrors
    <3> QED
      BY <2>2, <3>1, StoredFacts
  <2>3. ASSUME NEW r \in Stored(d, o)
        PROVE  r.op \in d.index /\ Key(r.op) = Key(o)
    <3>1. r \in d.main /\ Key(r.op) = Key(o)
      BY StoredFacts
    <3>2. ~ Virtual(r.op) /\ r.op.kind # "inventory"
      <4>1. ~ Virtual(o)
        BY <1>1, <1>2, <1>4 DEF Virtual, Kinds
      <4> QED
        BY <1>1, <1>4, <2>1, <3>1, <4>1
    <3>3. r.op.parts = <<>>
      BY <1>1, <3>1, <3>2, SaneFacts
    <3> QED
      BY <1>1, <3>1, <3>2, <3>3 DEF Sound, Mirrors
  <2>4. Stored(d, o) = {} => StoredDelta(d, o) = Nothing
    BY StoredFacts
  <2> QED
    BY <2>2, <2>3, <2>4
<1> QED
  BY <1>3, <1>4

(* The operations have been exchanged, and the difference is posted. *)
LEMMA PostSound ==
  ASSUME NEW d, Sound(d), NEW o \in Sane, NEW x \in Balance,
         NEW e \in Databases, e.chk = d.chk, e.latest = d.latest,
         IsFinite(e), IsKeyed(e), HasTaken(e), Mirrors(e),
         \A p \in e.index : p \in d.index \/ p.date = o.date,
         Careful => \A m \in Months, k \in Stores \X Batches :
           SumOf(At(e.index, m, k)) =
             IF k = <<o.store, o.batch>> /\ MonthOf[o.date] < m
             THEN Plus(SumOf(At(d.index, m, k)), x) ELSE SumOf(At(d.index, m, k))
  PROVE  Sound(Post(e, o, x))
<1> DEFINE f == Post(e, o, x)
<1>1. /\ f \in Databases /\ f.main = e.main /\ f.index = e.index /\ f.front = e.front
      /\ f.latest = IF e.latest <= MonthOf[o.date] THEN MonthOf[o.date] + 1 ELSE e.latest
  BY PostShape, SaneFacts
<1>2. MonthOf[o.date] \in Nat /\ d.latest \in Nat /\ f.latest \in Nat
      /\ d.latest <= f.latest /\ MonthOf[o.date] < f.latest
  <2>1. MonthOf[o.date] \in Nat /\ d.latest \in Nat
    BY SaneFacts, Numbers, OpFacts, DatabaseFacts DEF Months
  <2> HIDE DEF f
  <2> QED
    BY <1>1, <2>1
<1> HIDE DEF f
<1>3. Dated(f)
  <2>1. ASSUME NEW p \in f.index PROVE MonthOf[p.date] < f.latest
    <3>1. CASE p.date = o.date
      BY <1>2, <3>1
    <3>2. CASE p \in d.index
      <4>1. MonthOf[p.date] < d.latest /\ p \in Ops
        BY <3>2, DatabaseFacts DEF Sound, Dated
      <4>2. MonthOf[p.date] \in Nat
        BY <4>1, Numbers, OpFacts
      <4> QED
        BY <1>2, <4>1, <4>2
    <3> QED
      BY <1>1, <3>1, <3>2
  <2> QED
    BY <2>1 DEF Dated
<1>4. IsFinite(f) /\ IsKeyed(f) /\ HasTaken(f) /\ Mirrors(f)
  BY <1>1 DEF IsFinite, IsKeyed, HasTaken, Mirrors
<1>5. Careful => Sums(f, f.index)
  <2> SUFFICES ASSUME Careful PROVE Sums(f, f.index)
    OBVIOUS
  <2>1. Sums(e, d.index)
    BY DEF Sound, Sums
  <2>2. IsFiniteSet(d.index) /\ d.index \subseteq Ops /\ \A p \in d.index : MonthOf[p.date] < e.latest
    BY DatabaseFacts DEF Sound, IsFinite, Dated
  <2>3. o \in Ops
    BY SaneFacts
  <2>4. Sums(Post(e, o, x), e.index)
    BY <2>1, <2>2, <2>3, PostSums
  <2> QED
    BY <1>1, <2>4 DEF f
<1> QED
  BY <1>1, <1>3, <1>4, <1>5 DEF Sound, f

-----------------------------------------------------------------------------
(***************************************************************************)
(* Saving and deleting.                                                    *)
(***************************************************************************)

LEMMA SaveSound ==
  ASSUME NEW d, Sound(d), NEW o \in Sane, NEW b \in Balance,
         Virtual(o) /\ o.kind = "issue" => o.parts # <<>>
  PROVE  Sound(Save(d, o, b))
<1> DEFINE others == d.main \ Stored(d, o)
           gone   == IsZero(o) /\ o.parts = <<>>
           Kept   == gone /\ Stored(d, o) = {}
           main   == IF gone THEN others ELSE others \cup {[op |-> o, bal |-> b]}
           index  == IF o.parts # <<>> \/ (gone /\ Stored(d, o) = {}) THEN d.index
                     ELSE Without(d.index, o) \cup (IF gone THEN {} ELSE {o})
           e      == [d EXCEPT !.main = main, !.index = index]
           x      == Minus(Delta(o), StoredDelta(d, o))
<1>1. /\ d \in Databases /\ IsFiniteSet(d.index) /\ IsFiniteSet(d.main)
      /\ d.index \subseteq Sane /\ KeysApart(d.index)
  BY DatabaseFacts DEF Sound, IsFinite, IsKeyed
<1>2. Save(d, o, b) = IF o.parts # <<>> THEN e ELSE Post(e, o, x)
  BY DEF Save
<1>3. /\ \A r \in others : r \in d.main /\ Key(r.op) # Key(o)
      /\ \A r \in d.main : Key(r.op) # Key(o) => r \in others
  BY StoredFacts
<1>4. /\ index \in SUBSET Sane /\ IsFiniteSet(index) /\ KeysApart(index)
  <2>1. \/ index = d.index
        \/ index = Without(d.index, o)
        \/ index = Without(d.index, o) \cup {o}
    <3> HIDE DEF others, gone
    <3> QED
      OBVIOUS
  <2>2. /\ Without(d.index, o) \cup {o} \in SUBSET Sane /\ Without(d.index, o) \in SUBSET Sane
        /\ IsFiniteSet(Without(d.index, o) \cup {o}) /\ IsFiniteSet(Without(d.index, o))
        /\ KeysApart(Without(d.index, o) \cup {o}) /\ KeysApart(Without(d.index, o))
    BY <1>1, WithoutFacts
  <2> HIDE DEF index
  <2> QED
    BY <1>1, <2>1, <2>2
<1>5. main \in SUBSET [op : Sane, bal : Balance] /\ IsFiniteSet(main)
  <2>1. [op |-> o, bal |-> b] \in [op : Sane, bal : Balance]
    OBVIOUS
  <2>2. others \subseteq d.main /\ IsFiniteSet(others)
    BY <1>1, FS_Subset
  <2>3. IsFiniteSet({[op |-> o, bal |-> b]})
    BY FS_Singleton
  <2>4. d.main \subseteq [op : Sane, bal : Balance]
    BY <1>1 DEF Databases
  <2> HIDE DEF others
  <2> QED
    BY <2>1, <2>2, <2>3, <2>4, FS_Union
<1>6. /\ \A r \in main : r \in others \/ (r.op = o /\ ~ gone)
      /\ \A r \in others : r \in main
      /\ ~ gone => \E r \in main : r.op = o
  <2> HIDE DEF others, gone
  <2>1. CASE gone
    BY <2>1
  <2>2. CASE ~ gone
    <3>1. main = others \cup {[op |-> o, bal |-> b]} /\ [op |-> o, bal |-> b].op = o
      BY <2>2
    <3> HIDE DEF main
    <3> QED
      BY <2>2, <3>1
  <2> QED
    BY <2>1, <2>2
<1>7. o.parts # <<>> => index = d.index
  OBVIOUS
<1>8. o.parts = <<>> =>
        \A p : p \in index <=> \/ p \in d.index /\ (Key(p) # Key(o) \/ Kept)
                               \/ p = o /\ ~ gone
  <2>1. Kept => gone
    OBVIOUS
  <2>2. index = IF o.parts # <<>> \/ Kept THEN d.index
                ELSE Without(d.index, o) \cup (IF gone THEN {} ELSE {o})
    OBVIOUS
  <2> HIDE DEF others, gone, Kept, index
  <2> QED
    BY <2>1, <2>2 DEF Without
<1>9. /\ e \in Databases /\ e.main = main /\ e.index = index /\ e.front = d.front
      /\ e.chk = d.chk /\ e.latest = d.latest
  BY <1>1, <1>4, <1>5 DEF Databases
<1>10. o.parts = <<>> =>
        \/ index = d.index /\ x = Nothing
        \/ /\ \/ index = Without(d.index, o) /\ Delta(o) = Nothing
              \/ index = Without(d.index, o) \cup {o}
           /\ ~ (Virtual(o) /\ o.kind = "issue")
  <2> SUFFICES ASSUME o.parts = <<>>
               PROVE  \/ index = d.index /\ x = Nothing
                      \/ index = Without(d.index, o) /\ Delta(o) = Nothing
                      \/ index = Without(d.index, o) \cup {o}
    OBVIOUS
  <2>1. gone => Delta(o) = Nothing
    <3>1. o.kind \in Kinds /\ o.qty \in Int /\ o.cost \in Int
      BY DEF Sane, Ops
    <3> QED
      BY <3>1, DeltaFacts DEF IsZero
  <2>2. CASE gone /\ Stored(d, o) = {}
    <3>1. StoredDelta(d, o) = Nothing
      BY <2>2, StoredFacts
    <3>2. x = Nothing
      BY <2>1, <2>2, <3>1 DEF Minus, Nothing
    <3> QED
      BY <2>2, <3>2
  <2>3. CASE gone /\ Stored(d, o) # {}
    BY <2>1, <2>3
  <2>4. CASE ~ gone
    BY <2>4
  <2> QED
    BY <2>2, <2>3, <2>4
<1> HIDE DEF others, gone, Kept, main, index, e, x
<1>11. IsFinite(e)
  BY <1>4, <1>5, <1>9 DEF IsFinite, Sound
<1>12. IsKeyed(e)
  <2>1. \A r, s \in main : Key(r.op) = Key(s.op) => r = s
    <3>1. \A r, s \in main : Key(r.op) = Key(s.op) => (r \in others <=> s \in others)
      BY <1>3, <1>6
    <3>2. \A r, s \in others : Key(r.op) = Key(s.op) => r = s
      BY <1>3 DEF Sound, IsKeyed
    <3>3. \A r, s \in main : r \notin others /\ s \notin others => r = s
      BY DEF main
    <3> QED
      BY <3>1, <3>2, <3>3
  <2> QED
    BY <1>4, <1>9, <2>1 DEF IsKeyed, Sound
<1>13. HasTaken(e)
  BY <1>3, <1>6, <1>9 DEF HasTaken, Sound
<1>14. Mirrors(e)
  <2> SUFFICES ASSUME NEW p \in Sane, p.kind # "inventory"
               PROVE  p \in index <=> p.parts = <<>> /\ \E r \in main : r.op = p
    BY <1>9 DEF Mirrors
  <2>1. p \in d.index <=> p.parts = <<>> /\ \E r \in d.main : r.op = p
    BY DEF Sound, Mirrors
  <2>2. CASE o.parts # <<>>
    <3>1. Virtual(o)
      BY <2>2, SaneFacts
    <3>2. CASE o.kind = "issue"
      <4>1. \A r \in d.main : Key(r.op) = Key(o) => r.op.parts # <<>>
        <5> TAKE r \in d.main
        <5> HAVE Key(r.op) = Key(o)
        <5>1. r.op \in Ops /\ o \in Ops
          BY <1>1, DatabaseFacts, SaneFacts
        <5>2. Virtual(r.op) /\ r.op.kind = "issue"
          BY <3>1, <3>2, <5>1, KeyFacts
        <5> QED
          BY <5>2 DEF Sound, HasTaken
      <4>2. p.parts = <<>> => p # o
        BY <2>2
      <4> QED
        BY <1>3, <1>6, <1>7, <2>1, <2>2, <4>1, <4>2
    <3>3. CASE o.kind # "issue"
      <4>1. p # o /\ Key(p) # Key(o)
        <5>1. o.kind = "inventory"
          BY <3>1, <3>3 DEF Virtual, Sane, Ops, Kinds
        <5>2. p \in Ops /\ o \in Ops
          BY SaneFacts
        <5> QED
          BY <5>1, <5>2, KeyFacts
      <4> QED
        BY <1>3, <1>6, <1>7, <2>1, <2>2, <4>1
    <3> QED
      BY <3>2, <3>3
  <2>3. CASE o.parts = <<>>
    <3>1. \A r \in d.main : Key(r.op) = Key(o) => r \in Stored(d, o)
      BY StoredFacts
    <3>2. (\E r \in main : r.op = p) <=> (\E r \in d.main : r.op = p /\ Key(p) # Key(o)) \/ (p = o /\ ~ gone)
      BY <1>3, <1>6
    <3>3. p \in index <=> \/ p \in d.index /\ (Key(p) # Key(o) \/ Kept)
                          \/ p = o /\ ~ gone
      BY <1>8, <2>3
    <3>4. Kept /\ p \in d.index => Key(p) # Key(o)
      BY <2>1, <3>1 DEF Kept
    <3> QED
      BY <2>1, <2>3, <3>2, <3>3, <3>4
  <2> QED
    BY <2>2, <2>3
<1>15. CASE o.parts # <<>>
  <2>1. Dated(e) /\ (Careful => Sums(e, e.index))
    BY <1>7, <1>9, <1>15 DEF Sound, Dated, Sums
  <2>2. Sound(e)
    BY <1>9, <1>11, <1>12, <1>13, <1>14, <2>1 DEF Sound
  <2> QED
    BY <1>2, <1>15, <2>2
<1>16. CASE o.parts = <<>>
  <2>1. \A p \in e.index : p \in d.index \/ p.date = o.date
    BY <1>8, <1>9, <1>16
  <2>2. x \in Balance /\ Delta(o) \in Balance /\ StoredDelta(d, o) \in Balance
    BY SaneFacts, OpDelta, StoredFacts, BalanceFacts DEF x
  <2>3. \A m \in Months, k \in Stores \X Batches :
          SumOf(At(e.index, m, k)) =
            IF k = <<o.store, o.batch>> /\ MonthOf[o.date] < m
            THEN Plus(SumOf(At(d.index, m, k)), x) ELSE SumOf(At(d.index, m, k))
    <3>1. d.index \subseteq Ops /\ o \in Ops
      BY <1>1, SaneFacts
    <3>2. CASE index = d.index /\ x = Nothing
      <4>1. \A m, k : SumOf(At(d.index, m, k)) \in Balance
        BY <1>1, <3>1, AtFacts
      <4> QED
        BY <1>9, <3>2, <4>1, BalanceFacts
    <3>3. CASE ~ (Virtual(o) /\ o.kind = "issue")
               /\ (\/ index = Without(d.index, o) /\ Delta(o) = Nothing
                   \/ index = Without(d.index, o) \cup {o})
      <4>1. /\ \A p \in d.index : Key(p) = Key(o) => Delta(p) = StoredDelta(d, o)
            /\ (\A p \in d.index : Key(p) # Key(o)) => StoredDelta(d, o) = Nothing
        BY <3>3, IndexedDelta
      <4>2. \A m \in Months, k \in Stores \X Batches :
              SumOf(At(index, m, k)) =
                IF k = <<o.store, o.batch>> /\ MonthOf[o.date] < m
                THEN Plus(SumOf(At(d.index, m, k)), Minus(Delta(o), StoredDelta(d, o)))
                ELSE SumOf(At(d.index, m, k))
        <5>1. IsFiniteSet(d.index) /\ KeysApart(d.index)
          BY <1>1
        <5>2. \/ index = Without(d.index, o) /\ Delta(o) = Nothing
              \/ index = Without(d.index, o) \cup {o} /\ Delta(o) = Delta(o)
          BY <3>3
        <5> QED
          BY ONLY <2>2, <3>1, <4>1, <5>1, <5>2, SumsReplaced
      <4> QED
        BY <1>9, <4>2 DEF x
    <3> QED
      BY <1>10, <1>16, <3>2, <3>3
  <2>4. Sound(Post(e, o, x))
    BY <1>9, <1>11, <1>12, <1>13, <1>14, <2>1, <2>2, <2>3, PostSound
  <2> QED
    BY <1>2, <1>16, <2>4
<1> QED
  BY <1>15, <1>16

LEMMA Dependent ==
  ASSUME NEW p \in Ops, p.dep = TRUE, p.parts = <<>>, p.kind # "inventory"
  PROVE  p \in Sane /\ ~ Virtual(p)
<1>1. ~ Virtual(p)
  BY DEF Virtual
<1> QED
  BY <1>1 DEF Sane

LEMMA PartFacts ==
  ASSUME NEW o \in Sane, NEW b \in Batches, NEW q \in Int, NEW c \in Int
  PROVE  /\ Part(o, b, q, c) \in Sane /\ ~ Virtual(Part(o, b, q, c))
         /\ Part(o, b, q, c).kind = "issue" /\ Part(o, b, q, c).batch = b
         /\ Part(o, b, q, c).qty = q /\ Part(o, b, q, c).cost = c
<1>1. /\ <<>> \in Seq(Deps) /\ "issue" \in Kinds
      /\ o \in Ops
  BY SaneFacts DEF Kinds
<1>2. Part(o, b, q, c) \in Ops
  BY <1>1 DEF Ops, Part
<1>3. Part(o, b, q, c).dep = TRUE
  BY <1>1 DEF Ops, Part
<1>4. Part(o, b, q, c).parts = <<>>
  BY <1>1 DEF Ops, Part
<1>5. /\ Part(o, b, q, c).kind = "issue" /\ Part(o, b, q, c).batch = b
      /\ Part(o, b, q, c).qty = q /\ Part(o, b, q, c).cost = c
  BY <1>1 DEF Ops, Part
<1> QED
  BY <1>2, <1>3, <1>4, <1>5, Dependent

(* Whatever kind the dependant has that is taken out. *)
LEMMA DependantFacts ==
  ASSUME NEW o \in Sane, NEW b \in Batches, NEW k \in Kinds \ {"inventory"}
  PROVE  /\ [Part(o, b, 0, 0) EXCEPT !.kind = k] \in Sane
         /\ ~ Virtual([Part(o, b, 0, 0) EXCEPT !.kind = k])
<1> DEFINE p == Part(o, b, 0, 0)
           z == [p EXCEPT !.kind = k]
<1>1. /\ <<>> \in Seq(Deps) /\ "issue" \in Kinds
      /\ o \in Ops
  BY SaneFacts DEF Kinds
<1>2. p \in Ops
  <2>1. 0 \in Int
    OBVIOUS
  <2>2. Part(o, b, 0, 0) \in Sane
    BY <2>1, PartFacts
  <2> QED
    BY <2>2, SaneFacts
<1>3. p.dep = TRUE
  BY <1>1 DEF Ops, Part
<1>4. p.parts = <<>>
  BY <1>1 DEF Ops, Part
<1> HIDE DEF p
<1>5. z \in Ops
  BY <1>2 DEF Ops
<1>6. z.dep = TRUE
  BY <1>2, <1>3 DEF Ops
<1>7. z.parts = <<>>
  BY <1>2, <1>4 DEF Ops
<1>8. z.kind # "inventory"
  BY <1>2 DEF Ops
<1> HIDE DEF z
<1>9. z \in Sane /\ ~ Virtual(z)
  BY <1>5, <1>6, <1>7, <1>8, Dependent
<1> QED
  BY <1>9 DEF z, p

LEMMA ArrivalFacts ==
  ASSUME NEW o \in Sane, IsTransfer(o)
  PROVE  Arrival(o) \in Sane /\ ~ Virtual(Arrival(o))
<1>1. /\ <<>> \in Seq(Deps) /\ "receive" \in Kinds
      /\ o \in Ops
      /\ o.into \in Stores /\ o.store \in Stores \cup {NoStore}
  BY SaneFacts DEF Kinds, IsTransfer, Ops
<1>2. Arrival(o) \in Ops
  BY <1>1 DEF Ops, Arrival
<1>3. Arrival(o).dep = TRUE
  BY <1>1 DEF Ops, Arrival
<1>4. Arrival(o).parts = <<>>
  BY <1>1 DEF Ops, Arrival
<1>5. Arrival(o).kind = "receive"
  BY <1>1 DEF Ops, Arrival
<1> QED
  BY <1>2, <1>3, <1>4, <1>5, Dependent

(* What is left without o, before what follows is looked at. *)
CutOut(d, o) ==
  LET cut == [d EXCEPT
        !.main  = @ \ Stored(d, o),
        !.index = IF Stored(d, o) = {} THEN @ ELSE Without(@, o),
        !.front = Without(@, o)]
  IN  Post(cut, o, Minus(Nothing, StoredDelta(d, o)))

LEMMA TakeOutIs ==
  ASSUME NEW d, NEW o
  PROVE  TakeOut(d, o) = IF BalanceBefore(d, o) = StoredBalance(d, o) THEN CutOut(d, o)
                         ELSE PropagateBoth(CutOut(d, o), o)
BY DEF TakeOut, CutOut

LEMMA CutOutSound ==
  ASSUME NEW d, Sound(d), NEW o \in Sane,
         Careful => ~ (Virtual(o) /\ o.kind = "issue")
  PROVE  LET e == CutOut(d, o)
         IN  /\ Sound(e)
             /\ e.main = d.main \ Stored(d, o)
             /\ e.index \subseteq d.index
             /\ e.front = Without(d.front, o)
<1> DEFINE main  == d.main \ Stored(d, o)
           index == IF Stored(d, o) = {} THEN d.index ELSE Without(d.index, o)
           front == Without(d.front, o)
           cut   == [d EXCEPT !.main = main, !.index = index, !.front = front]
           x     == Minus(Nothing, StoredDelta(d, o))
<1>1. /\ d \in Databases /\ IsFiniteSet(d.index) /\ IsFiniteSet(d.main)
      /\ d.index \subseteq Sane /\ KeysApart(d.index)
      /\ d.front \subseteq Sane /\ KeysApart(d.front) /\ IsFiniteSet(d.front)
  BY DatabaseFacts DEF Sound, IsFinite, IsKeyed
<1>2. /\ \A r \in main : r \in d.main /\ Key(r.op) # Key(o)
      /\ \A r \in d.main : Key(r.op) # Key(o) => r \in main
  BY StoredFacts
<1>3. front \in SUBSET Sane /\ IsFiniteSet(front) /\ KeysApart(front)
  BY <1>1, WithoutFacts
<1>4. index \in SUBSET Sane /\ IsFiniteSet(index) /\ KeysApart(index)
  <2>1. index = d.index \/ index = Without(d.index, o)
    OBVIOUS
  <2>2. /\ Without(d.index, o) \in SUBSET Sane /\ IsFiniteSet(Without(d.index, o))
        /\ KeysApart(Without(d.index, o))
    BY <1>1, WithoutFacts
  <2> HIDE DEF index
  <2> QED
    BY <1>1, <2>1, <2>2
<1>5. main \in SUBSET [op : Sane, bal : Balance] /\ IsFiniteSet(main)
  <2>1. main \subseteq d.main /\ IsFiniteSet(main)
    BY <1>1, FS_Subset
  <2> HIDE DEF main
  <2> QED
    BY <1>1, <2>1 DEF Databases
<1>6. /\ cut \in Databases /\ cut.main = main /\ cut.index = index /\ cut.front = front
      /\ cut.chk = d.chk /\ cut.latest = d.latest
  <2> HIDE DEF main, index, front
  <2> QED
    BY <1>1, <1>3, <1>4, <1>5 DEF Databases
<1>7. \A p : p \in index <=> p \in d.index /\ (Stored(d, o) = {} \/ Key(p) # Key(o))
  BY DEF Without
<1>8. CutOut(d, o) = Post(cut, o, x)
  BY DEF CutOut
<1>9. x \in Balance
  BY StoredFacts, BalanceFacts
<1>10. \/ index = d.index /\ x = Nothing
       \/ index = Without(d.index, o)
  <2>1. Stored(d, o) = {} => x = Nothing
    BY StoredFacts DEF Minus, Nothing
  <2> HIDE DEF x
  <2> QED
    BY <2>1
<1> HIDE DEF main, index, front, cut, x
<1>11. IsFinite(cut) /\ IsKeyed(cut) /\ HasTaken(cut)
  <2>1. \A r, s \in main : Key(r.op) = Key(s.op) => r = s
    BY <1>2 DEF Sound, IsKeyed
  <2> QED
    BY <1>2, <1>3, <1>4, <1>5, <1>6, <2>1 DEF IsFinite, IsKeyed, HasTaken, Sound
<1>12. Mirrors(cut)
  <2> SUFFICES ASSUME NEW p \in Sane, p.kind # "inventory"
               PROVE  p \in index <=> p.parts = <<>> /\ \E r \in main : r.op = p
    BY <1>6 DEF Mirrors
  <2>1. p \in d.index <=> p.parts = <<>> /\ \E r \in d.main : r.op = p
    BY DEF Sound, Mirrors
  <2>2. \A r \in d.main : Key(r.op) = Key(o) => r \in Stored(d, o)
    BY StoredFacts
  <2> QED
    BY <1>2, <1>7, <2>1, <2>2
<1>13. Sound(Post(cut, o, x))
  <2>1. \A p \in cut.index : p \in d.index \/ p.date = o.date
    BY <1>6, <1>7
  <2>2. ASSUME Careful
        PROVE  \A m \in Months, k \in Stores \X Batches :
          SumOf(At(cut.index, m, k)) =
            IF k = <<o.store, o.batch>> /\ MonthOf[o.date] < m
            THEN Plus(SumOf(At(d.index, m, k)), x) ELSE SumOf(At(d.index, m, k))
    <3>1. d.index \subseteq Ops /\ o \in Ops
      BY <1>1, SaneFacts
    <3>2. CASE index = d.index /\ x = Nothing
      <4>1. \A m, k : SumOf(At(d.index, m, k)) \in Balance
        BY <1>1, <3>1, AtFacts
      <4> QED
        BY <1>6, <3>2, <4>1, BalanceFacts
    <3>3. CASE index = Without(d.index, o)
      <4>1. /\ \A p \in d.index : Key(p) = Key(o) => Delta(p) = StoredDelta(d, o)
            /\ (\A p \in d.index : Key(p) # Key(o)) => StoredDelta(d, o) = Nothing
        BY <2>2, IndexedDelta
      <4>2. StoredDelta(d, o) \in Balance /\ Nothing \in Balance
        BY StoredFacts, BalanceFacts
      <4>3. \A m \in Months, k \in Stores \X Batches :
              SumOf(At(index, m, k)) =
                IF k = <<o.store, o.batch>> /\ MonthOf[o.date] < m
                THEN Plus(SumOf(At(d.index, m, k)), Minus(Nothing, StoredDelta(d, o)))
                ELSE SumOf(At(d.index, m, k))
        BY <1>1, <3>1, <3>3, <4>1, <4>2, SumsReplaced
      <4> QED
        BY <1>6, <4>3 DEF x
    <3> QED
      BY <1>10, <3>2, <3>3
  <2> QED
    BY <1>6, <1>9, <1>11, <1>12, <2>1, <2>2, PostSound
<1>14. /\ Post(cut, o, x).main = cut.main /\ Post(cut, o, x).index = cut.index
       /\ Post(cut, o, x).front = cut.front
  <2>1. o \in Ops
    BY SaneFacts
  <2> QED
    BY <1>6, <1>9, <2>1, PostShape
<1>15. index \subseteq d.index
  BY <1>7
<1> QED
  BY <1>6, <1>8, <1>13, <1>14, <1>15 DEF main, front

LEMMA TakeOutSound ==
  ASSUME NEW d, Sound(d), NEW o \in Sane,
         Careful => ~ (Virtual(o) /\ o.kind = "issue")
  PROVE  Sound(TakeOut(d, o))
BY CutOutSound, TakeOutIs, PropagateSound

LEMMA DeleteSound ==
  ASSUME NEW d, Sound(d), NEW o \in Sane,
         Careful => ~ (Virtual(o) /\ o.kind = "issue")
  PROVE  Sound(Delete(d, o))
<1>1. Sound(TakeOut(d, o))
  BY TakeOutSound
<1>2. IsTransfer(o) => Sound(TakeOut(TakeOut(d, o), Arrival(o)))
  BY <1>1, ArrivalFacts, TakeOutSound
<1> QED
  BY <1>1, <1>2 DEF Delete

LEMMA SurplusFacts ==
  ASSUME NEW o \in Sane, o.kind = "inventory", NEW x \in Balance
  PROVE  Surplus(o, x) \in Sane /\ Surplus(o, x).kind = "receive"
<1>1. /\ <<>> \in Seq(Deps) /\ "receive" \in Kinds
      /\ o \in Ops /\ [date |-> o.date, id |-> o.id] \in Batches
      /\ x.qty \in Int /\ x.cost \in Int
  BY DEF Kinds, Sane, Balance
<1>2. Surplus(o, x) \in Ops
  BY <1>1 DEF Ops, Surplus
<1>3. Surplus(o, x).dep = TRUE
  BY <1>1 DEF Ops, Surplus
<1>4. Surplus(o, x).parts = <<>>
  BY <1>1 DEF Ops, Surplus
<1>5. Surplus(o, x).kind = "receive"
  BY <1>1 DEF Ops, Surplus
<1> QED
  BY <1>2, <1>3, <1>4, <1>5, Dependent

-----------------------------------------------------------------------------
(***************************************************************************)
(* What an operation finds on hand, and what it takes from it.             *)
(***************************************************************************)

LEMMA MoneyFacts ==
  /\ \A a, b \in Int : b # 0 => RoundDiv(a, b) \in Int
  /\ \A b \in Balance : Price(b) \in Int
  /\ \A p, q \in Int : CostAt(p, q) \in Int
  /\ \A b \in Balance, q \in Int : IssueCost(b, q) \in Int
<1>1. ASSUME NEW a \in Int, NEW b \in Int, b # 0
      PROVE  RoundDiv(a, b) \in Int
  <2> DEFINE n == IF b < 0 THEN -a ELSE a
             d == IF b < 0 THEN -b ELSE b
             down == n \div d
  <2>1. n \in Int /\ d \in Int /\ d > 0
    BY <1>1
  <2> HIDE DEF n, d
  <2>2. down \in Int
    BY <2>1
  <2> HIDE DEF down
  <2>3. RoundDiv(a, b) \in {down, down + 1}
    BY DEF RoundDiv, down, n, d
  <2> QED
    BY <2>2, <2>3
<1>2. \A b \in Balance : Price(b) \in Int
  BY <1>1 DEF Price, Balance, CentsPerPrice
<1>3. \A p, q \in Int : CostAt(p, q) \in Int
  <2> TAKE p, q \in Int
  <2>1. q * p \in Int /\ CentsPerPrice \in Int /\ CentsPerPrice # 0
    BY DEF CentsPerPrice
  <2> QED
    BY <1>1, <2>1 DEF CostAt
<1>4. \A b \in Balance, q \in Int : IssueCost(b, q) \in Int
  <2> TAKE b \in Balance, q \in Int
  <2>1. b.cost \in Int /\ CostAt(Price(b), q) \in Int
    BY <1>2, <1>3 DEF Balance
  <2> QED
    BY <2>1 DEF IssueCost
<1> QED
  BY <1>1, <1>2, <1>3, <1>4

LEMMA OnHandType ==
  ASSUME NEW d, Sound(d), NEW o \in Sane, NEW b \in Batches
  PROVE  OnHand(d, o, b) \in Balance
<1>1. d \in Databases /\ d.latest \in Months
  BY DatabaseFacts DEF Sound
<1>2. Opening(d, o) \in Months
  <2> DEFINE S == {MonthOf[o.date], d.latest}
  <2>1. MonthOf[o.date] \in Months /\ Months \subseteq Int
    BY SaneFacts, Numbers, OpFacts DEF Months
  <2>2. \E x \in S : \A y \in S : x =< y
    <3>1. \A u, v \in Int : (\A y \in {u, v} : u =< y) \/ (\A y \in {u, v} : v =< y)
      OBVIOUS
    <3>2. MonthOf[o.date] \in Int /\ d.latest \in Int
      BY <1>1, <2>1
    <3> QED
      BY <3>1, <3>2
  <2>3. Min(S) \in S
    BY ONLY <2>2 DEF Min
  <2> QED
    BY <1>1, <2>1, <2>3 DEF Opening
<1>3. d.chk[Opening(d, o)][<<o.store, b>>] \in Balance
  BY <1>1, <1>2, DatabaseFacts DEF Sane, Ops
<1> DEFINE S == {p \in Applied(d, o) : p.batch = b}
<1>4. S \subseteq d.index
  BY DEF Applied
<1>5. d.index \subseteq Ops /\ IsFiniteSet(d.index)
  BY DatabaseFacts DEF Sound, IsFinite
<1>6. SumOf(S) \in Balance
  <2> HIDE DEF S
  <2> QED
    BY <1>4, <1>5, FS_Subset, SumUnfolds
<1> QED
  BY <1>3, <1>6, BalanceFacts DEF OnHand

LEMMA QueuesType ==
  ASSUME NEW d, Sound(d), NEW o \in Sane, NEW s \in Queues(d, o)
  PROVE  \E n \in Nat : s \in [1 .. n -> Batches]
<1> DEFINE S == {b \in Batches \ {NoBatch} : OnHand(d, o, b).qty > 0}
<1>1. S \subseteq Batches
  OBVIOUS
<1>2. s \in SetToSeqs(S)
  BY DEF Queues
<1> HIDE DEF S
<1>3. IsFiniteSet(S) /\ Cardinality(S) \in Nat
  BY <1>1, BatchFacts, FS_Subset, FS_CardinalityType
<1>4. s \in [1 .. Cardinality(S) -> S]
  BY <1>2 DEF SetToSeqs
<1>5. s \in [1 .. Cardinality(S) -> Batches]
  BY <1>1, <1>4
<1> QED
  BY <1>3, <1>5

(* Dependants that have been made, and those that o may take. *)
Made == {p \in Sane : p.kind # "inventory"}
PartsOf(o) == {Part(o, b, q, c) : b \in Batches, q \in Int, c \in Int}

LEMMA PartsMade ==
  ASSUME NEW o \in Sane
  PROVE  PartsOf(o) \subseteq Made /\ Seq(PartsOf(o)) \subseteq Seq(Made)
<1>1. PartsOf(o) \subseteq Made
  <2> SUFFICES ASSUME NEW b \in Batches, NEW q \in Int, NEW c \in Int
               PROVE  Part(o, b, q, c) \in Made
    BY DEF PartsOf
  <2> QED
    BY PartFacts DEF Made
<1> QED
  BY <1>1

LEMMA TakenType ==
  ASSUME NEW d, Sound(d), NEW o \in Sane, NEW n \in Nat, NEW s \in [1 .. n -> Batches],
         NEW q \in Int
  PROVE  Taken(d, o, s, q) \in Seq(PartsOf(o))
<1> DEFINE have == [i \in DOMAIN s |-> OnHand(d, o, s[i])]
           needed == [i \in DOMAIN s |->
                        q - FoldLeft(Plus, Nothing, SubSeq(have, 1, i - 1)).qty]
           N == Cardinality({j \in DOMAIN s : needed[j] > 0})
           whole(i) == Part(o, s[i], have[i].qty, have[i].cost)
           share(i) == Part(o, s[i], needed[i], CostAt(Price(have[i]), needed[i]))
           one(i) == IF needed[i] >= have[i].qty THEN whole(i) ELSE share(i)
<1>1. Taken(d, o, s, q) = [i \in 1 .. N |-> one(i)]
  BY DEF Taken
<1>2. DOMAIN s = 1 .. n /\ \A i \in 1 .. n : s[i] \in Batches
  OBVIOUS
<1>3. have \in [1 .. n -> Balance]
  BY <1>2, OnHandType
<1>4. N \in Nat /\ N <= n
  <2> DEFINE T == {j \in DOMAIN s : needed[j] > 0}
             I == 1 .. n
  <2>1. T \in SUBSET I
    OBVIOUS
  <2>2. IsFiniteSet(I) /\ Cardinality(I) = n
    BY FS_Interval
  <2> HIDE DEF T, I
  <2>3. IsFiniteSet(T) /\ Cardinality(T) <= n
    BY <2>1, <2>2, FS_Subset
  <2>4. Cardinality(T) \in Nat
    BY <2>3, FS_CardinalityType
  <2> QED
    BY <2>3, <2>4 DEF T
<1> HIDE DEF have
<1>5. ASSUME NEW i \in 1 .. n
      PROVE  needed[i] \in Int
  <2> DEFINE u == SubSeq(have, 1, i - 1)
  <2>1. u = [j \in 1 .. (i - 1) |-> have[j]]
    BY <1>3
  <2>2. i - 1 \in Nat /\ DOMAIN u = 1 .. (i - 1)
    BY <2>1
  <2>3. \A j \in 1 .. (i - 1) : u[j].qty \in Int /\ u[j].cost \in Int
    BY <1>3, <2>1 DEF Balance
  <2> HIDE DEF u
  <2>4. FoldLeft(Plus, Nothing, u) \in Balance
    BY <2>2, <2>3, PlusAll
  <2>5. FoldLeft(Plus, Nothing, u).qty \in Int
    BY <2>4 DEF Balance
  <2> QED
    BY <1>2, <2>5 DEF u
<1> HIDE DEF needed, N
<1>6. ASSUME NEW i \in 1 .. n
      PROVE  one(i) \in PartsOf(o)
  <2>1. s[i] \in Batches /\ have[i] \in Balance /\ needed[i] \in Int
    BY <1>2, <1>3, <1>5
  <2>2. have[i].qty \in Int /\ have[i].cost \in Int /\ CostAt(Price(have[i]), needed[i]) \in Int
    BY <2>1, MoneyFacts DEF Balance
  <2>3. whole(i) \in PartsOf(o) /\ share(i) \in PartsOf(o)
    BY <2>1, <2>2 DEF PartsOf
  <2> QED
    BY <2>3
<1> HIDE DEF one
<1>7. \A i \in 1 .. N : one(i) \in PartsOf(o)
  BY <1>4, <1>6
<1> QED
  BY <1>1, <1>4, <1>7

LEMMA DependantsType ==
  ASSUME NEW ps \in Seq(Made)
  PROVE  Dependants(ps) \in Seq(Deps) /\ (ps # <<>> => Dependants(ps) # <<>>)
<1>1. /\ DOMAIN ps = 1 .. Len(ps) /\ Len(ps) \in Nat
      /\ \A i \in 1 .. Len(ps) : ps[i] \in Made
      /\ ps # <<>> => Len(ps) # 0
  OBVIOUS
<1>2. \A p \in Made : [kind |-> p.kind, batch |-> p.batch] \in Deps
  BY DEF Made, Sane, Ops, Deps
<1>3. Dependants(ps) = [i \in 1 .. Len(ps) |-> [kind |-> ps[i].kind, batch |-> ps[i].batch]]
  BY <1>1 DEF Dependants
<1>4. Dependants(ps) \in Seq(Deps) /\ Len(Dependants(ps)) = Len(ps)
  BY <1>1, <1>2, <1>3
<1> QED
  BY <1>1, <1>4

(* The parts of an issue, of which there are some. *)
LEMMA SplitType ==
  ASSUME NEW d, Sound(d), NEW o \in Sane, NEW s \in Queues(d, o)
  PROVE  /\ Split(d, o, s) \in Seq(PartsOf(o)) /\ Split(d, o, s) \in Seq(Made)
         /\ o.qty > 0 => Split(d, o, s) # <<>>
<1> DEFINE taken == Taken(d, o, s, o.qty)
           left == o.qty - Quantity(taken)
           rest == Part(o, NoBatch, left, 0)
<1>1. o.qty \in Int
  BY DEF Sane, Ops
<1>2. taken \in Seq(PartsOf(o)) /\ taken \in Seq(Made)
  <2>1. PICK n \in Nat : s \in [1 .. n -> Batches]
    BY QueuesType
  <2> QED
    BY <1>1, <2>1, TakenType, PartsMade
<1> HIDE DEF taken
<1>3. Quantity(taken) \in Int /\ (taken = <<>> => Quantity(taken) = 0)
  <2>1. DOMAIN taken = 1 .. Len(taken) /\ Len(taken) \in Nat
    BY <1>2
  <2>2. \A i \in 1 .. Len(taken) : taken[i].qty \in Int /\ taken[i].cost \in Int
    <3>1. \A p \in Made : p.qty \in Int /\ p.cost \in Int
      BY DEF Made, Sane, Ops
    <3> QED
      BY <1>2, <3>1
  <2>3. FoldLeft(Plus, Nothing, taken) \in Balance
    BY <2>1, <2>2, PlusAll
  <2>4. taken = <<>> => FoldLeft(Plus, Nothing, taken) = Nothing
    BY PlusNone
  <2> QED
    BY <2>3, <2>4 DEF Quantity, Balance, Nothing
<1>4. left \in Int
  BY <1>1, <1>3
<1>5. rest \in PartsOf(o) /\ rest \in Made
  BY <1>4, PartFacts, BatchFacts DEF Made, PartsOf
<1>6. Split(d, o, s) = taken \o (IF left > 0 THEN <<rest>> ELSE <<>>)
  BY DEF Split, taken
<1>7. taken = <<>> /\ o.qty > 0 => left > 0
  BY <1>1, <1>3
<1> HIDE DEF left, rest
<1>8. CASE left > 0
  <2>1. Split(d, o, s) = taken \o <<rest>>
    BY <1>6, <1>8
  <2> QED
    BY <1>2, <1>5, <2>1
<1>9. CASE ~ (left > 0)
  <2>1. Split(d, o, s) = taken
    BY <1>2, <1>6, <1>9
  <2> QED
    BY <1>2, <1>7, <1>9, <2>1
<1> QED
  BY <1>8, <1>9

(* What an inventory finds missing or too much. *)
LEMMA DifferenceType ==
  ASSUME NEW d, Sound(d), NEW o \in Sane
  PROVE  Difference(d, o) \in Balance
<1> DEFINE S == {b \in Batches : OnHand(d, o, b).qty > 0}
           val == [b \in Batches |-> OnHand(d, o, b)]
           pick == [s \in SUBSET S |-> CHOOSE x \in s : TRUE]
           step == [q \in S \X Balance |-> Plus(q[2], val[q[1]])]
           Is(g) == g = [s \in SUBSET S |->
                           IF s = {} THEN Nothing
                           ELSE Plus(g[s \ {CHOOSE x \in s : TRUE}],
                                     OnHand(d, o, CHOOSE x \in s : TRUE))]
           h == CHOOSE g : Is(g)
           stock == FoldSet(LAMBDA b, acc : Plus(acc, OnHand(d, o, b)), Nothing, S)
<1>1. stock = h[S]
  BY DEF FoldSet, MapThenFoldSet
<1>2. S \subseteq Batches /\ IsFiniteSet(S) /\ Nothing \in Balance
  <2>1. S \subseteq Batches
    OBVIOUS
  <2> HIDE DEF S
  <2> QED
    BY <2>1, BatchFacts, FS_Subset, BalanceFacts
<1>3. Picks(pick, S) /\ \A s \in SUBSET S : pick[s] = CHOOSE x \in s : TRUE
  <2> HIDE DEF S
  <2> QED
    BY DEF Picks
<1>4. \A x \in S, v \in Balance : /\ step[<<x, v>>] = Plus(v, OnHand(d, o, x))
                                  /\ step[<<x, v>>] \in Balance
  <2>1. \A x \in S : val[x] = OnHand(d, o, x) /\ val[x] \in Balance
    BY <1>2, OnHandType
  <2> HIDE DEF S, val
  <2> QED
    BY <2>1, BalanceFacts
<1> HIDE DEF S, step, pick
<1>5. \A s \in SUBSET S, v \in Balance :
        s # {} => step[<<pick[s], v>>] = Plus(v, OnHand(d, o, CHOOSE x \in s : TRUE))
  BY <1>3, <1>4 DEF Picks
<1>6. Steps(step, S, Balance)
  BY <1>4 DEF Steps
<1>7. Is(h)
  <2>1. PICK g : Folds(g, S, Nothing, step, pick)
    BY <1>2, <1>3, FoldsExist
  <2>2. g \in [SUBSET S -> Balance]
    BY <1>2, <1>3, <1>6, <2>1, FoldsType
  <2>3. \A s \in SUBSET S : s # {} =>
          step[<<pick[s], g[s \ {pick[s]}]>>]
            = Plus(g[s \ {CHOOSE x \in s : TRUE}], OnHand(d, o, CHOOSE x \in s : TRUE))
    BY <1>3, <1>5, <2>2
  <2>4. Is(g)
    BY ONLY <2>1, <2>3 DEF Folds
  <2> QED
    BY ONLY <2>4
<1> HIDE DEF h
<1>8. Follows(h, S, Balance, Nothing, step, pick)
  <2>1. h = [s \in SUBSET S |-> h[s]] /\ h[{}] = Nothing
    BY ONLY <1>7
  <2>2. \A s \in SUBSET S : s # {} /\ h[s \ {pick[s]}] \in Balance
          => h[s] = step[<<pick[s], h[s \ {pick[s]}]>>]
    <3> TAKE s \in SUBSET S
    <3> HAVE s # {} /\ h[s \ {pick[s]}] \in Balance
    <3>1. pick[s] = CHOOSE x \in s : TRUE
      BY <1>3
    <3>2. h[s] = Plus(h[s \ {CHOOSE x \in s : TRUE}], OnHand(d, o, CHOOSE x \in s : TRUE))
      BY ONLY <1>7, s \in SUBSET S, s # {}
    <3> QED
      BY <1>5, <3>1, <3>2
  <2> QED
    BY ONLY <2>1, <2>2 DEF Follows
<1>9. h \in [SUBSET S -> Balance]
  BY ONLY <1>2, <1>3, <1>6, <1>8, FoldsFollow
<1>10. stock \in Balance
  BY <1>1, <1>9
<1> HIDE DEF stock
<1>11. Difference(d, o) = [qty |-> o.qty - stock.qty,
                           cost |-> CostAt(Price(stock), o.qty - stock.qty)]
  BY DEF Difference, stock, S
<1>12. o.qty - stock.qty \in Int
  BY <1>10 DEF Balance, Sane, Ops
<1>13. CostAt(Price(stock), o.qty - stock.qty) \in Int
  BY <1>10, <1>12, MoneyFacts
<1> QED
  BY ONLY <1>11, <1>12, <1>13 DEF Balance

LEMMA CorrectionsType ==
  ASSUME NEW d, Sound(d), NEW o \in Sane, o.kind = "inventory", NEW s \in Queues(d, o)
  PROVE  Corrections(d, o, s) \in Seq(Made)
<1> DEFINE x == Difference(d, o)
<1>1. x \in Balance
  BY DifferenceType
<1> HIDE DEF x
<1>2. <<Surplus(o, x)>> \in Seq(Made)
  BY <1>1, SurplusFacts DEF Made
<1>3. Taken(d, o, s, -x.qty) \in Seq(Made)
  <2>1. PICK n \in Nat : s \in [1 .. n -> Batches]
    BY QueuesType
  <2>2. -x.qty \in Int
    BY <1>1 DEF Balance
  <2> QED
    BY <2>1, <2>2, TakenType, PartsMade
<1> QED
  BY <1>2, <1>3 DEF Corrections, x

-----------------------------------------------------------------------------
(***************************************************************************)
(* What becomes of an operation on the front.                              *)
(***************************************************************************)

Ledgers == {d \in Databases : Sound(d)}

LEMMA LedgerIsSound == \A d : d \in Ledgers <=> Sound(d)
BY DEF Ledgers, Sound

(* Whatever each insertion keeps, all of them keep. *)
InsertStep(ps, G) == [q \in (1 .. Len(ps)) \X G |-> Insert(q[2], ps[q[1]])]

LEMMA InsertsUnwind ==
  ASSUME NEW G, NEW d \in G, NEW ps, ps \in Seq(Sane),
         \A e \in G, i \in DOMAIN ps : Insert(e, ps[i]) \in G
  PROVE  \E h : /\ Unwinds(h, Len(ps), G, d, InsertStep(ps, G))
                /\ FoldLeft(Insert, d, ps) = h[1 .. Len(ps)]
<1> DEFINE n == Len(ps)
           S == 1 .. n
           step == [q \in S \X G |-> Insert(q[2], ps[q[1]])]
           Is(g) == g = [s \in SUBSET S |->
                           IF s = {} THEN d ELSE Insert(g[s \ {Max(s)}], ps[Max(s)])]
           h == CHOOSE g : Is(g)
<1>1. n \in Nat /\ DOMAIN ps = S /\ \A x \in S : ps[x] \in Sane
  OBVIOUS
<1>2. FoldLeft(Insert, d, ps) = h[S]
  BY <1>1 DEF FoldLeft, MapThenFoldSet
<1>3. Picks(LastOf(n), S) /\ IsFiniteSet(S)
  BY <1>1, LastPicks
<1>4. \A x \in S, e \in G : /\ step[<<x, e>>] = Insert(e, ps[x])
                                  /\ step[<<x, e>>] \in G
  <2> HIDE DEF S
  <2>1. \A x \in S, e \in G : step[<<x, e>>] = Insert(e, ps[x])
    OBVIOUS
  <2> HIDE DEF step
  <2>2. \A x \in S, e \in G : Insert(e, ps[x]) \in G
    BY <1>1
  <2> QED
    BY <2>1, <2>2
<1>5. \A s \in SUBSET S : LastOf(n)[s] = Max(s)
  BY DEF LastOf
<1> HIDE DEF n, S, step
<1>6. \A s \in SUBSET S, e \in G :
        s # {} => step[<<LastOf(n)[s], e>>] = Insert(e, ps[Max(s)])
  BY <1>3, <1>4, <1>5 DEF Picks
<1>7. Steps(step, S, G)
  BY <1>4 DEF Steps
<1>8. Is(h)
  <2>1. PICK g : Folds(g, S, d, step, LastOf(n))
    BY <1>3, FoldsExist
  <2>2. g \in [SUBSET S -> G]
    BY <1>3, <1>7, <2>1, FoldsType
  <2>3. \A s \in SUBSET S : s # {} =>
          step[<<LastOf(n)[s], g[s \ {LastOf(n)[s]}]>>] = Insert(g[s \ {Max(s)}], ps[Max(s)])
    BY <1>5, <1>6, <2>2
  <2>4. Is(g)
    BY ONLY <2>1, <2>3 DEF Folds
  <2> QED
    BY ONLY <2>4
<1> HIDE DEF h
<1>9. Follows(h, S, G, d, step, LastOf(n))
  <2>1. h = [s \in SUBSET S |-> h[s]] /\ h[{}] = d
    BY ONLY <1>8
  <2>2. \A s \in SUBSET S : s # {} /\ h[s \ {LastOf(n)[s]}] \in G
          => h[s] = step[<<LastOf(n)[s], h[s \ {LastOf(n)[s]}]>>]
    <3> TAKE s \in SUBSET S
    <3> HAVE s # {} /\ h[s \ {LastOf(n)[s]}] \in G
    <3>1. h[s] = Insert(h[s \ {Max(s)}], ps[Max(s)])
      BY ONLY <1>8, s \in SUBSET S, s # {}
    <3> QED
      BY <1>5, <1>6, <3>1
  <2> QED
    BY ONLY <2>1, <2>2 DEF Follows
<1>10. h \in [SUBSET S -> G]
  BY ONLY <1>3, <1>7, <1>9, FoldsFollow
<1>11. \A s \in SUBSET S : s # {} => Max(s) \in s /\ h[s] = step[<<Max(s), h[s \ {Max(s)}]>>]
  <2> TAKE s \in SUBSET S
  <2> HAVE s # {}
  <2>1. Max(s) \in s
    BY <1>3, <1>5 DEF Picks
  <2>2. h[s] = Insert(h[s \ {Max(s)}], ps[Max(s)])
    BY ONLY <1>8, s \in SUBSET S, s # {}
  <2>3. h[s \ {Max(s)}] \in G /\ Max(s) \in S
    BY <1>10, <2>1
  <2> QED
    BY <1>4, <2>1, <2>2, <2>3
<1>12. Unwinds(h, n, G, d, step)
  BY <1>9, <1>10, <1>11 DEF Unwinds, Follows, S
<1> QED
  BY <1>2, <1>12 DEF S, n, step, InsertStep

LEMMA InsertsKeep ==
  ASSUME NEW G, NEW d \in G, NEW ps, ps \in Seq(Sane),
         \A e \in G, i \in DOMAIN ps : Insert(e, ps[i]) \in G
  PROVE  FoldLeft(Insert, d, ps) \in G
<1>1. PICK h : /\ Unwinds(h, Len(ps), G, d, InsertStep(ps, G))
               /\ FoldLeft(Insert, d, ps) = h[1 .. Len(ps)]
  BY InsertsUnwind
<1> QED
  BY <1>1 DEF Unwinds

LEMMA InsertAll ==
  ASSUME NEW d, Sound(d), NEW ps \in Seq(Sane)
  PROVE  Sound(FoldLeft(Insert, d, ps))
<1>1. \A e \in Ledgers, i \in DOMAIN ps : Insert(e, ps[i]) \in Ledgers
  BY InsertSound, LedgerIsSound
<1>2. d \in Ledgers
  BY LedgerIsSound
<1> QED
  BY <1>1, <1>2, InsertsKeep, LedgerIsSound

(* A dependant of o with nothing left. *)
Zero(o, x) == [Part(o, x.batch, 0, 0) EXCEPT !.kind = x.kind]

(* Whatever each deletion of a dependant keeps, all of them keep. *)
DropStep(o, parts, G) ==
  [q \in (1 .. Len(o.parts)) \X G |->
     IF Contains(Dependants(parts), o.parts[q[1]]) THEN q[2]
     ELSE Delete(q[2], Zero(o, o.parts[q[1]]))]

LEMMA DroppedUnwinds ==
  ASSUME NEW G, NEW d \in G, NEW o \in Sane, NEW parts,
         \A e \in G, i \in DOMAIN o.parts :
           Contains(Dependants(parts), o.parts[i]) \/ Delete(e, Zero(o, o.parts[i])) \in G
  PROVE  \E h : /\ Unwinds(h, Len(o.parts), G, d, DropStep(o, parts, G))
                /\ Dropped(d, o, parts) = h[1 .. Len(o.parts)]
<1> DEFINE xs == o.parts
           n == Len(xs)
           S == 1 .. n
           Drop(e, x) == IF Contains(Dependants(parts), x) THEN e ELSE Delete(e, Zero(o, x))
           step == [q \in S \X G |-> Drop(q[2], xs[q[1]])]
           Is(g) == g = [s \in SUBSET S |->
                           IF s = {} THEN d ELSE Drop(g[s \ {Max(s)}], xs[Max(s)])]
           h == CHOOSE g : Is(g)
<1>0. DropStep(o, parts, G) = step
  BY DEF DropStep
<1>1. n \in Nat /\ DOMAIN xs = S /\ \A x \in S : xs[x] \in Deps
  <2>1. xs \in Seq(Deps)
    BY SaneFacts
  <2> HIDE DEF xs
  <2> QED
    BY <2>1
<1>2. Dropped(d, o, parts) = h[S]
  BY <1>1 DEF Dropped, FoldLeft, MapThenFoldSet, Zero
<1>3. Picks(LastOf(n), S) /\ IsFiniteSet(S)
  BY <1>1, LastPicks
<1>4. \A i \in S, e \in G : Drop(e, xs[i]) \in G
  BY <1>1
<1> HIDE DEF xs, Drop
<1>5. \A x \in S, e \in G : /\ step[<<x, e>>] = Drop(e, xs[x])
                                  /\ step[<<x, e>>] \in G
  BY <1>4
<1>6. \A s \in SUBSET S : LastOf(n)[s] = Max(s)
  BY DEF LastOf
<1> HIDE DEF n, S, step
<1>7. \A s \in SUBSET S, e \in G :
        s # {} => step[<<LastOf(n)[s], e>>] = Drop(e, xs[Max(s)])
  BY <1>3, <1>5, <1>6 DEF Picks
<1>8. Steps(step, S, G)
  BY <1>5 DEF Steps
<1>9. Is(h)
  <2>1. PICK g : Folds(g, S, d, step, LastOf(n))
    BY <1>3, FoldsExist
  <2>2. g \in [SUBSET S -> G]
    BY <1>3, <1>8, <2>1, FoldsType
  <2>3. \A s \in SUBSET S : s # {} =>
          step[<<LastOf(n)[s], g[s \ {LastOf(n)[s]}]>>] = Drop(g[s \ {Max(s)}], xs[Max(s)])
    BY <1>6, <1>7, <2>2
  <2>4. Is(g)
    BY ONLY <2>1, <2>3 DEF Folds
  <2> QED
    BY ONLY <2>4
<1> HIDE DEF h
<1>10. Follows(h, S, G, d, step, LastOf(n))
  <2>1. h = [s \in SUBSET S |-> h[s]] /\ h[{}] = d
    BY ONLY <1>9
  <2>2. \A s \in SUBSET S : s # {} /\ h[s \ {LastOf(n)[s]}] \in G
          => h[s] = step[<<LastOf(n)[s], h[s \ {LastOf(n)[s]}]>>]
    <3> TAKE s \in SUBSET S
    <3> HAVE s # {} /\ h[s \ {LastOf(n)[s]}] \in G
    <3>1. h[s] = Drop(h[s \ {Max(s)}], xs[Max(s)])
      BY ONLY <1>9, s \in SUBSET S, s # {}
    <3> QED
      BY <1>6, <1>7, <3>1
  <2> QED
    BY ONLY <2>1, <2>2 DEF Follows
<1>11. h \in [SUBSET S -> G]
  BY ONLY <1>3, <1>8, <1>10, FoldsFollow
<1>12. \A s \in SUBSET S : s # {} => Max(s) \in s /\ h[s] = step[<<Max(s), h[s \ {Max(s)}]>>]
  <2> TAKE s \in SUBSET S
  <2> HAVE s # {}
  <2>1. Max(s) \in s
    BY <1>3, <1>6 DEF Picks
  <2>2. h[s] = Drop(h[s \ {Max(s)}], xs[Max(s)])
    BY ONLY <1>9, s \in SUBSET S, s # {}
  <2>3. h[s \ {Max(s)}] \in G /\ Max(s) \in S
    BY <1>11, <2>1
  <2> QED
    BY <1>5, <2>1, <2>2, <2>3
<1>13. Unwinds(h, n, G, d, step)
  BY <1>10, <1>11, <1>12 DEF Unwinds, Follows, S
<1> QED
  BY <1>0, <1>2, <1>13 DEF S, n, xs

LEMMA DroppedKeeps ==
  ASSUME NEW G, NEW d \in G, NEW o \in Sane, NEW parts,
         \A e \in G, i \in DOMAIN o.parts : Delete(e, Zero(o, o.parts[i])) \in G
  PROVE  Dropped(d, o, parts) \in G
<1>1. PICK h : /\ Unwinds(h, Len(o.parts), G, d, DropStep(o, parts, G))
               /\ Dropped(d, o, parts) = h[1 .. Len(o.parts)]
  BY DroppedUnwinds
<1>2. 1 .. Len(o.parts) \in SUBSET (1 .. Len(o.parts))
  OBVIOUS
<1> QED
  BY <1>1, <1>2 DEF Unwinds

LEMMA DroppedSound ==
  ASSUME NEW d, Sound(d), NEW o \in Sane, NEW parts
  PROVE  Sound(Dropped(d, o, parts))
<1>1. \A e \in Ledgers, i \in DOMAIN o.parts : Delete(e, Zero(o, o.parts[i])) \in Ledgers
  <2> TAKE e \in Ledgers, i \in DOMAIN o.parts
  <2>1. o.parts[i] \in Deps
    BY SaneFacts
  <2>2. o.parts[i].batch \in Batches /\ o.parts[i].kind \in Kinds \ {"inventory"}
    BY <2>1 DEF Deps
  <2>3. Zero(o, o.parts[i]) \in Sane /\ ~ Virtual(Zero(o, o.parts[i]))
    BY <2>2, DependantFacts DEF Zero
  <2> QED
    BY <2>3, DeleteSound, LedgerIsSound
<1>2. d \in Ledgers
  BY LedgerIsSound
<1> QED
  BY <1>1, <1>2, DroppedKeeps, LedgerIsSound

LEMMA SpreadSound ==
  ASSUME NEW d, Sound(d), NEW o \in Sane, NEW parts \in Seq(Made)
  PROVE  Sound(Spread(d, o, parts))
<1>1. parts \in Seq(Sane)
  BY DEF Made
<1>2. Sound(FoldLeft(Insert, d, parts))
  BY <1>1, InsertAll
<1> QED
  BY <1>2, DroppedSound DEF Spread

LEMMA RememberedSound ==
  ASSUME NEW d, Sound(d), NEW o \in Sane, Virtual(o), NEW parts \in Seq(Made),
         o.kind = "issue" => parts # <<>>
  PROVE  Sound(Remembered(d, o, parts))
<1> DEFINE p == [o EXCEPT !.parts = Dependants(parts)]
<1>1. Dependants(parts) \in Seq(Deps) /\ (parts # <<>> => Dependants(parts) # <<>>)
  BY DependantsType
<1>2. o \in Ops
  BY SaneFacts
<1>3. p \in Ops
  BY <1>1, <1>2 DEF Ops
<1>4. /\ p.kind = o.kind /\ p.batch = o.batch /\ p.qty = o.qty
      /\ p.date = o.date /\ p.id = o.id
  BY <1>2 DEF Ops
<1>5. p.dep = o.dep
  BY <1>2 DEF Ops
<1>6. p.parts = Dependants(parts)
  BY <1>2 DEF Ops
<1> HIDE DEF p
<1>7. Virtual(p) <=> Virtual(o)
  BY <1>4, <1>5 DEF Virtual
<1>8. p \in Sane
  BY <1>3, <1>4, <1>7 DEF Sane
<1>9. Sound(Spread(d, o, parts)) /\ OnHand(d, o, NoBatch) \in Balance
  BY SpreadSound, OnHandType, BatchFacts
<1>10. Virtual(p) /\ p.kind = "issue" => p.parts # <<>>
  BY <1>1, <1>4, <1>6
<1>11. Sound(Save(Spread(d, o, parts), p, OnHand(d, o, NoBatch)))
  BY <1>8, <1>9, <1>10, SaveSound
<1> QED
  BY <1>11 DEF Remembered, p

LEMMA DistributedSound ==
  ASSUME NEW d, Sound(d), NEW o \in Sane, Virtual(o), o.kind = "issue",
         NEW s \in Queues(d, o)
  PROVE  Sound(Distributed(d, o, s))
<1>1. Split(d, o, s) \in Seq(Made) /\ Split(d, o, s) # <<>>
  BY SplitType DEF Sane
<1>2. Sound(Remembered(d, o, Split(d, o, s)))
  BY <1>1, RememberedSound
<1> QED
  BY <1>2, PropagateSound DEF Distributed

LEMMA CountedSound ==
  ASSUME NEW d, Sound(d), NEW o \in Sane, Virtual(o), o.kind = "inventory",
         NEW s \in Queues(d, o)
  PROVE  Sound(Counted(d, o, s))
<1> DEFINE x == Difference(d, o).qty
           parts == Corrections(d, o, s)
           e == IF x = 0 THEN d
                ELSE IF x > 0 THEN Spread(d, o, parts) ELSE Remembered(d, o, parts)
<1>1. parts \in Seq(Made)
  BY CorrectionsType
<1> HIDE DEF parts, x
<1>2. Sound(Spread(d, o, parts)) /\ Sound(Remembered(d, o, parts))
  BY <1>1, SpreadSound, RememberedSound
<1>3. Sound(e)
  BY <1>2
<1> HIDE DEF e
<1>4. Counted(d, o, s) = Propagate(e, o)
  BY DEF Counted, e, parts, x
<1> QED
  BY <1>3, <1>4, PropagateSound

LEMMA CalculatedSound ==
  ASSUME NEW d, Sound(d), NEW o \in Sane, ~ Virtual(o)
  PROVE  Sound(Calculated(d, o))
<1> DEFINE before == BalanceBefore(d, o)
           c == Costed(before, o)
           now == Evaluated(before, o)
           old == IF Stored(d, o) = {} THEN before ELSE StoredBalance(d, o)
           saved == Save(d, now.op, now.bal)
           done == IF Stored(d, o) = {now} THEN d
                   ELSE IF IsTransfer(o) THEN Insert(saved, Arrival(now.op)) ELSE saved
<1>1. o \in Ops /\ o.qty \in Int
  BY SaneFacts DEF Ops
<1>2. before \in Balance
  <2>1. Earlier(d, o) \subseteq Chain(d, o) /\ Chain(d, o) \subseteq d.main
    BY DEF Earlier, Chain
  <2>2. Earlier(d, o) # {} => Latest(Earlier(d, o)) \in d.main
    BY <2>1, ChainFacts
  <2>3. \A r \in d.main : r.bal \in Balance
    BY DatabaseFacts DEF Sound
  <2> QED
    BY <2>2, <2>3, BalanceFacts DEF BalanceBefore
<1> HIDE DEF before
<1>3. IssueCost(before, o.qty) \in Int
  BY <1>1, <1>2, MoneyFacts
<1>4. /\ c \in Sane /\ ~ Virtual(c)
      /\ c.into = o.into /\ c.kind = o.kind
  <2> DEFINE p == [o EXCEPT !.cost = IssueCost(before, o.qty)]
  <2>1. p \in Ops
    BY <1>1, <1>3 DEF Ops
  <2>2. /\ p.kind = o.kind /\ p.batch = o.batch /\ p.qty = o.qty /\ p.into = o.into
        /\ p.date = o.date /\ p.id = o.id
    BY <1>1 DEF Ops
  <2>3. p.dep = o.dep
    BY <1>1 DEF Ops
  <2>4. p.parts = o.parts
    BY <1>1 DEF Ops
  <2>5. c = p \/ c = o
    BY DEF Costed
  <2> HIDE DEF p, c
  <2>6. Virtual(p) <=> Virtual(o)
    BY <2>2, <2>3 DEF Virtual
  <2>7. p \in Sane
    BY <2>1, <2>2, <2>4, <2>6 DEF Sane
  <2> QED
    BY <2>2, <2>5, <2>6, <2>7
<1> HIDE DEF c
<1>5. now.op = c /\ now.bal = Plus(before, Delta(c))
  BY DEF Evaluated, c
<1>6. now.bal \in Balance
  BY <1>2, <1>4, <1>5, SaneFacts, OpDelta, BalanceFacts
<1>7. Sound(saved)
  <2> HIDE DEF now
  <2> QED
    BY <1>4, <1>5, <1>6, SaveSound
<1> HIDE DEF saved
<1>8. IsTransfer(o) => Sound(Insert(saved, Arrival(now.op)))
  <2> SUFFICES ASSUME IsTransfer(o) PROVE Sound(Insert(saved, Arrival(c)))
    BY <1>5
  <2>1. IsTransfer(c)
    BY <1>4 DEF IsTransfer
  <2>2. Arrival(c) \in Sane
    BY <1>4, <2>1, ArrivalFacts
  <2> QED
    BY <1>7, <2>2, InsertSound
<1>9. Sound(done)
  <2> HIDE DEF now
  <2> QED
    BY <1>7, <1>8
<1>10. Calculated(d, o) = IF o.batch = NoBatch \/ old # now.bal
                          THEN PropagateBoth(done, o) ELSE done
  BY DEF Calculated, saved, before
<1> HIDE DEF done, now, old
<1> QED
  BY <1>9, <1>10, PropagateSound

-----------------------------------------------------------------------------
(***************************************************************************)
(* The steps of the ledger.                                                *)
(***************************************************************************)

Mutations == {Put(o) : o \in Entries} \cup {Del(o) : o \in Removable}

DocsOK  == docs \in [Ids -> {{}} \cup {{o} : o \in Entries}]
QueueOK == queue \in Seq(Mutations)

(* The inductive invariant. *)
LedgerOK == DocsOK /\ QueueOK /\ Sound(db)

LEMMA EmptySound == Sound(Empty)
<1>1. /\ Empty.main = {} /\ Empty.index = {} /\ Empty.front = {} /\ Empty.latest = 0
      /\ Empty.chk = [m \in Months |-> [k \in Stores \X Batches |-> Nothing]]
  BY DEF Empty
<1>2. 0 \in Months
  BY OpFacts DEF Months
<1>3. Empty \in Databases
  <2>1. Empty = [main |-> Empty.main, index |-> Empty.index, chk |-> Empty.chk,
                 latest |-> Empty.latest, front |-> Empty.front]
    BY DEF Empty
  <2>2. Empty.chk \in [Months -> [Stores \X Batches -> Balance]]
    BY <1>1, BalanceFacts
  <2> QED
    BY ONLY <1>1, <1>2, <2>1, <2>2 DEF Databases
<1>4. IsFinite(Empty) /\ IsKeyed(Empty) /\ HasTaken(Empty) /\ Mirrors(Empty) /\ Dated(Empty)
  BY <1>1, FS_EmptySet DEF IsFinite, IsKeyed, KeysApart, HasTaken, Mirrors, Dated
<1>5. Sums(Empty, Empty.index)
  <2>1. IsFiniteSet({}) /\ {} \subseteq Ops
    BY FS_EmptySet
  <2>2. SumOf({}) = Nothing
    BY <2>1, SumUnfolds
  <2>3. \A m, k : At({}, m, k) = {}
    BY DEF At
  <2>4. \A m \in Months, k \in Stores \X Batches : Empty.chk[m][k] = Nothing
    BY <1>1
  <2> QED
    BY <1>1, <2>2, <2>3, <2>4 DEF Sums
<1> QED
  BY <1>3, <1>4, <1>5 DEF Sound

LEMMA EditKeeps ==
  ASSUME LedgerOK, NEW i \in Ids, NEW new, NEW mutations,
         new = {} \/ \E o \in Entries : new = {o}, mutations \in Seq(Mutations),
         Edit(i, new, mutations)
  PROVE  LedgerOK'
<1>1. DocsOK'
  BY DEF LedgerOK, DocsOK, Edit
<1>2. QueueOK'
  BY DEF QueueOK, Edit
<1>3. Sound(db)'
  BY DEF LedgerOK, Edit
<1> QED
  BY <1>1, <1>2, <1>3 DEF LedgerOK

LEMMA EnterKeeps ==
  ASSUME LedgerOK, NEW o \in Entries, Enter(o)
  PROVE  LedgerOK'
<1>1. Put(o) \in Mutations /\ o.id \in Ids
  BY DEF Mutations, Ids
<1>2. <<Put(o)>> \in Seq(Mutations)
  BY <1>1
<1>3. Edit(o.id, {o}, <<Put(o)>>)
  BY DEF Enter
<1> QED
  BY <1>1, <1>2, <1>3, EditKeeps

LEMMA ChangeKeeps ==
  ASSUME LedgerOK, NEW old \in Entries, NEW o \in Entries, Change(old, o)
  PROVE  LedgerOK'
<1> DEFINE ms == IF SamePlace(old, o) THEN <<Put(o)>> ELSE <<Del(old), Put(o)>>
<1>1. Put(o) \in Mutations /\ o.id \in Ids
  BY DEF Mutations, Ids
<1>2. ~ SamePlace(old, o) => Del(old) \in Mutations
  BY DEF Change, Mutations
<1>3. ms \in Seq(Mutations)
  BY <1>1, <1>2
<1>4. Edit(o.id, {o}, ms)
  BY DEF Change
<1> HIDE DEF ms
<1> QED
  BY <1>1, <1>3, <1>4, EditKeeps

LEMMA WithdrawKeeps ==
  ASSUME LedgerOK, NEW old \in Entries, Withdraw(old)
  PROVE  LedgerOK'
<1>1. Del(old) \in Mutations /\ old.id \in Ids
  BY DEF Withdraw, Mutations, Ids
<1>2. <<Del(old)>> \in Seq(Mutations)
  BY <1>1
<1>3. Edit(old.id, {}, <<Del(old)>>)
  BY DEF Withdraw
<1> QED
  BY <1>1, <1>2, <1>3, EditKeeps

LEMMA RefileKeeps ==
  ASSUME LedgerOK, NEW old \in Entries, NEW o \in Entries, Refile(old, o)
  PROVE  LedgerOK'
<1>1. o.id \in Ids /\ <<>> \in Seq(Mutations)
  BY DEF Ids
<1>2. Edit(o.id, {o}, <<>>)
  BY DEF Refile
<1> QED
  BY <1>1, <1>2, EditKeeps

LEMMA RecordKeeps ==
  ASSUME LedgerOK, Record
  PROVE  LedgerOK'
<1> DEFINE m == Head(queue)
           known == {r.op.parts : r \in Stored(db, m.op)}
           parts == IF known = {} THEN <<>> ELSE CHOOSE p \in known : TRUE
           p == [m.op EXCEPT !.parts = parts]
<1>1. /\ m \in Mutations /\ queue' = Tail(queue) /\ UNCHANGED docs
      /\ Tail(queue) \in Seq(Mutations)
  BY DEF Record, LedgerOK, QueueOK
<1>2. /\ \/ m.what = "put" /\ db' = Push(db, p)
         \/ m.what = "del" /\ db' = Delete(db, m.op)
  BY DEF Record
<1>3. Sound(db)
  BY DEF LedgerOK
<1> HIDE DEF m
<1>4. /\ m.op \in Entries /\ m.op \in Sane
      /\ m.what = "del" => m.op \in Removable
  BY <1>1, OpFacts, LedgerAssumption DEF Mutations, Put, Del
<1>5. CASE m.what = "put"
  <2>1. m.op \in Ops
    BY <1>4, SaneFacts
  <2>2. parts \in Seq(Deps) /\ (parts # <<>> => Virtual(m.op))
    <3>1. \A r \in Stored(db, m.op) : r.op \in Sane /\ Key(r.op) = Key(m.op)
      BY <1>3, <1>4, StoredFacts, DatabaseFacts DEF Sound
    <3>2. \A q \in known : q \in Seq(Deps) /\ (q # <<>> => Virtual(m.op))
      <4> SUFFICES ASSUME NEW r \in Stored(db, m.op)
                   PROVE  r.op.parts \in Seq(Deps) /\ (r.op.parts # <<>> => Virtual(m.op))
        OBVIOUS
      <4>1. r.op \in Ops /\ r.op.parts \in Seq(Deps) /\ (r.op.parts # <<>> => Virtual(r.op))
        BY <3>1, SaneFacts
      <4> QED
        BY <2>1, <3>1, <4>1, KeyFacts
    <3>3. known # {} => parts \in known
      OBVIOUS
    <3>4. known = {} => parts = <<>>
      OBVIOUS
    <3>5. <<>> \in Seq(Deps)
      OBVIOUS
    <3> HIDE DEF known, parts
    <3>6. CASE known = {}
      BY <3>4, <3>5, <3>6
    <3>7. CASE known # {}
      BY <3>2, <3>3, <3>7
    <3> QED
      BY <3>6, <3>7
  <2> HIDE DEF parts
  <2>3. p \in Ops
    BY <2>1, <2>2 DEF Ops
  <2>4. /\ p.kind = m.op.kind /\ p.batch = m.op.batch /\ p.qty = m.op.qty
        /\ p.date = m.op.date /\ p.id = m.op.id
    BY <2>1 DEF Ops
  <2>5. p.dep = m.op.dep
    BY <2>1 DEF Ops
  <2>6. p.parts = parts
    BY <2>1 DEF Ops
  <2> HIDE DEF p
  <2>7. Virtual(p) <=> Virtual(m.op)
    BY <2>4, <2>5 DEF Virtual
  <2>8. p \in Sane
    BY <1>4, <2>2, <2>3, <2>4, <2>6, <2>7 DEF Sane
  <2>9. Sound(db')
    BY <1>2, <1>3, <1>5, <2>8, PushSound
  <2> QED
    BY <1>1, <2>9 DEF LedgerOK, DocsOK, QueueOK
<1>6. CASE m.what = "del"
  <2>1. Careful => ~ (Virtual(m.op) /\ m.op.kind = "issue")
    BY <1>4, <1>6 DEF Careful
  <2>2. Sound(db')
    BY <1>2, <1>3, <1>4, <1>6, <2>1, DeleteSound
  <2> QED
    BY <1>1, <2>2 DEF LedgerOK, DocsOK, QueueOK
<1> QED
  BY <1>2, <1>5, <1>6

LEMMA TurnKeeps ==
  ASSUME LedgerOK, Turn
  PROVE  LedgerOK'
<1> DEFINE o == Foremost
           F == db.front \ {o}
           rest == [db EXCEPT !.front = F]
<1>1. Sound(db) /\ db.front # {} /\ UNCHANGED <<docs, queue>>
  BY DEF LedgerOK, Turn
<1>2. /\ db.front \subseteq Sane /\ db.front \subseteq Ops /\ IsFiniteSet(db.front)
      /\ KeysApart(db.front)
  BY <1>1, DatabaseFacts DEF Sound, IsFinite, IsKeyed
<1>3. o \in Sane
  <2>1. o \in db.front
    BY <1>1, <1>2, FirstIsThere DEF KeysApart, Foremost
  <2> QED
    BY <1>2, <2>1
<1>4. \/ db' = rest
      \/ /\ Virtual(o)
         /\ \E s \in Queues(rest, o) :
              db' = IF o.kind = "issue" THEN Distributed(rest, o, s) ELSE Counted(rest, o, s)
      \/ ~ Virtual(o) /\ db' = Calculated(rest, o)
  BY DEF Turn, Leave
<1> HIDE DEF o
<1>5. Sound(rest)
  <2>1. F \in SUBSET Sane /\ IsFiniteSet(F) /\ KeysApart(F)
    BY <1>2, FS_Subset DEF KeysApart
  <2> HIDE DEF F
  <2> QED
    BY <1>1, <2>1, FrontSound
<1> HIDE DEF rest
<1>6. Sound(db')
  <2>1. CASE db' = rest
    BY <1>5, <2>1
  <2>2. ASSUME Virtual(o), NEW s \in Queues(rest, o),
               db' = IF o.kind = "issue" THEN Distributed(rest, o, s) ELSE Counted(rest, o, s)
        PROVE  Sound(db')
    <3>1. CASE o.kind = "issue"
      BY <1>3, <1>5, <2>2, <3>1, DistributedSound
    <3>2. CASE o.kind # "issue"
      <4>1. o.kind = "inventory"
        BY <1>3, <2>2, <3>2 DEF Virtual, Sane, Ops, Kinds
      <4> QED
        BY <1>3, <1>5, <2>2, <3>2, <4>1, CountedSound
    <3> QED
      BY <3>1, <3>2
  <2>3. CASE ~ Virtual(o) /\ db' = Calculated(rest, o)
    BY <1>3, <1>5, <2>3, CalculatedSound
  <2> QED
    BY <1>4, <2>1, <2>2, <2>3
<1> QED
  BY <1>1, <1>6 DEF LedgerOK, DocsOK, QueueOK

LEMMA LedgerStays == Spec => []LedgerOK
<1>1. Init => LedgerOK
  <2> SUFFICES ASSUME Init PROVE LedgerOK
    OBVIOUS
  <2>1. DocsOK /\ QueueOK
    BY DEF Init, DocsOK, QueueOK
  <2> QED
    BY <2>1, EmptySound DEF Init, LedgerOK
<1>2. LedgerOK /\ [Next]_vars => LedgerOK'
  <2> SUFFICES ASSUME LedgerOK, [Next]_vars PROVE LedgerOK'
    OBVIOUS
  <2>1. CASE UNCHANGED vars
    BY <2>1 DEF vars, LedgerOK, DocsOK, QueueOK
  <2>2. ASSUME NEW o \in Entries, Enter(o) PROVE LedgerOK'
    BY <2>2, EnterKeeps
  <2>3. ASSUME NEW old \in Entries, NEW o \in Entries, Change(old, o) PROVE LedgerOK'
    BY <2>3, ChangeKeeps
  <2>4. ASSUME NEW old \in Entries, Withdraw(old) PROVE LedgerOK'
    BY <2>4, WithdrawKeeps
  <2>5. ASSUME NEW old \in Entries, NEW o \in Entries, Refile(old, o) PROVE LedgerOK'
    BY <2>5, RefileKeeps
  <2>6. CASE Record
    BY <2>6, RecordKeeps
  <2>7. CASE Turn
    BY <2>7, TurnKeeps
  <2> QED
    BY <2>1, <2>2, <2>3, <2>4, <2>5, <2>6, <2>7 DEF Next
<1> QED
  BY <1>1, <1>2, PTL DEF Spec

(* Every document stands for at most one operation, the ledger holds       *)
(* operations of known stores and batches with whole balances, and neither *)
(* the first ordered topology nor the propagation front holds two          *)
(* operations under one key.                                               *)
THEOREM LedgerTypes == Spec => []TypeOK
<1>1. LedgerOK => TypeOK
  <2> SUFFICES ASSUME LedgerOK PROVE TypeOK
    OBVIOUS
  <2>1. Sound(db) /\ db \in Databases
    BY DEF LedgerOK, Sound
  <2>2. \A i \in Ids : \E o \in Entries : docs[i] \in {{}, {o}}
    <3> TAKE i \in Ids
    <3>1. PICK o \in Entries : o.id = i
      BY DEF Ids
    <3>2. docs[i] = {} \/ \E p \in Entries : docs[i] = {p}
      BY DEF LedgerOK, DocsOK
    <3> QED
      BY <3>1, <3>2
  <2>3. \A r \in db.main : r.op.store \in Stores /\ r.op.batch \in Batches /\ r.bal \in Balance
    BY <2>1, DatabaseFacts DEF Ops
  <2>4. \A k \in Stores \X Batches, m \in Months : db.chk[m][k] \in Balance
    BY <2>1, DatabaseFacts
  <2>5. db.latest \in Months
    BY <2>1, DatabaseFacts
  <2>6. /\ \A a, b \in db.front : Key(a) = Key(b) => a = b
        /\ \A r, s \in db.main : Key(r.op) = Key(s.op) => r = s
    BY <2>1 DEF Sound, IsKeyed, KeysApart
  <2> QED
    BY <2>2, <2>3, <2>4, <2>5, <2>6 DEF TypeOK
<1> QED
  BY <1>1, LedgerStays, PTL

(* The secondary column families hold the operations of the first one,     *)
(* virtual ones and inventories excepted, after every single step of a     *)
(* propagation, whatever documents say and whoever edits them.             *)
THEOREM IndexFollowsMain == Spec => []IndexMirrorsMain
<1>1. LedgerOK => IndexMirrorsMain
  <2> SUFFICES ASSUME LedgerOK PROVE IndexMirrorsMain
    OBVIOUS
  <2>1. Mirrors(db) /\ db.index \subseteq Sane /\ \A r \in db.main : r.op \in Sane
    BY DatabaseFacts DEF LedgerOK, Sound
  <2> QED
    BY <2>1 DEF IndexMirrorsMain, Mirrors
<1> QED
  BY <1>1, LedgerStays, PTL

(* A checkpoint is at every step the sum of the operations dated before    *)
(* its month, as long as nobody deletes or moves an issue that names no    *)
(* batch: its deletion is posted although it was never posted itself.      *)
THEOREM CheckpointsSumUp == Careful => (Spec => []CheckpointsAreSums)
<1> SUFFICES ASSUME Careful PROVE Spec => []CheckpointsAreSums
  OBVIOUS
<1>1. LedgerOK => CheckpointsAreSums
  BY DEF LedgerOK, Sound, Sums, At, CheckpointsAreSums
<1> QED
  BY <1>1, LedgerStays, PTL

(***************************************************************************)
(* Sums of parts.                                                          *)
(***************************************************************************)

(* The function behind Sum. *)
GatherStep(f) == [p \in (DOMAIN f) \X Balance |-> Plus(p[2], f[p[1]])]
GatherPick(f) == [s \in SUBSET (DOMAIN f) |-> CHOOSE x \in s : TRUE]

Gathers(g, f) ==
  g = [s \in SUBSET (DOMAIN f) |->
         IF s = {} THEN Nothing
         ELSE Plus(g[s \ {CHOOSE x \in s : TRUE}], f[CHOOSE x \in s : TRUE])]

Gatherer(f) == CHOOSE g : Gathers(g, f)

LEMMA SumGathers == ASSUME NEW f PROVE Sum(f) = Gatherer(f)[DOMAIN f]
BY DEF Sum, FoldSet, MapThenFoldSet, Gathers, Gatherer

LEMMA GathererGathers ==
  ASSUME NEW K, IsFiniteSet(K), NEW f \in [K -> Balance]
  PROVE  Gathers(Gatherer(f), f)
<1>1. /\ DOMAIN f = K
      /\ Picks(GatherPick(f), K) /\ Steps(GatherStep(f), K, Balance)
  <2>1. ASSUME NEW s \in SUBSET K, s # {} PROVE GatherPick(f)[s] \in s
    BY <2>1 DEF GatherPick
  <2>2. ASSUME NEW x \in K, NEW v \in Balance PROVE GatherStep(f)[<<x, v>>] \in Balance
    BY BalanceFacts DEF GatherStep
  <2> QED
    BY <2>1, <2>2 DEF Picks, Steps
<1>2. PICK g : Folds(g, K, Nothing, GatherStep(f), GatherPick(f))
  BY <1>1, FoldsExist
<1>3. g \in [SUBSET K -> Balance]
  BY <1>1, <1>2, FoldsType, BalanceFacts
<1>4. \A s \in SUBSET K : s # {} =>
        GatherStep(f)[<<GatherPick(f)[s], g[s \ {GatherPick(f)[s]}]>>]
          = Plus(g[s \ {CHOOSE x \in s : TRUE}], f[CHOOSE x \in s : TRUE])
  <2> TAKE s \in SUBSET K
  <2> HAVE s # {}
  <2>1. GatherPick(f)[s] = CHOOSE x \in s : TRUE
    BY <1>1 DEF GatherPick
  <2>2. GatherPick(f)[s] \in K /\ g[s \ {GatherPick(f)[s]}] \in Balance
    BY <1>1, <1>3 DEF Picks
  <2>3. \A x \in K, v \in Balance : GatherStep(f)[<<x, v>>] = Plus(v, f[x])
    BY <1>1 DEF GatherStep
  <2> QED
    BY <2>1, <2>2, <2>3
<1>5. Gathers(g, f)
  <2>1. g = [s \in SUBSET K |-> IF s = {} THEN Nothing
               ELSE GatherStep(f)[<<GatherPick(f)[s], g[s \ {GatherPick(f)[s]}]>>]]
    BY <1>2 DEF Folds
  <2>2. g = [s \in SUBSET K |-> IF s = {} THEN Nothing
               ELSE Plus(g[s \ {CHOOSE x \in s : TRUE}], f[CHOOSE x \in s : TRUE])]
    BY ONLY <1>4, <2>1
  <2> QED
    BY <1>1, <2>2 DEF Gathers
<1> QED
  BY ONLY <1>5 DEF Gatherer

(* What is summed up by keys and then over the keys is the sum of all.     *)
LEMMA SumByKeys ==
  ASSUME NEW K, IsFiniteSet(K), NEW f \in [K -> Balance],
         NEW S, IsFiniteSet(S), S \subseteq Ops, NEW at \in [S -> K],
         \A k \in K : f[k] = SumOf({o \in S : at[o] = k})
  PROVE  Sum(f) = SumOf(S)
<1> DEFINE g == Gatherer(f)
           Of(T) == {o \in S : at[o] \in T}
           P == {T \in SUBSET K : g[T] = SumOf(Of(T))}
<1>1. DOMAIN f = K /\ Sum(f) = g[K]
  BY SumGathers
<1>2. g = [s \in SUBSET K |->
             IF s = {} THEN Nothing
             ELSE Plus(g[s \ {CHOOSE x \in s : TRUE}], f[CHOOSE x \in s : TRUE])]
  <2>1. Gathers(g, f)
    BY GathererGathers
  <2> QED
    BY <1>1, <2>1 DEF Gathers
<1> HIDE DEF g
<1>3. ASSUME NEW T \in SUBSET K, \A U \in (SUBSET T) \ {T} : U \in P
      PROVE  T \in P
  <2>1. CASE T = {}
    <3>1. g[T] = Nothing
      BY <1>2, <2>1
    <3>2. Of(T) = {}
      BY <2>1
    <3>3. SumOf({}) = Nothing
      BY FS_EmptySet, SumUnfolds
    <3> QED
      BY <3>1, <3>2, <3>3
  <2>2. CASE T # {}
    <3> DEFINE x == CHOOSE k \in T : TRUE
               U == T \ {x}
    <3>1. x \in T
      BY <2>2
    <3>2. g[T] = Plus(g[U], f[x])
      BY <1>2, <2>2
    <3> HIDE DEF x
    <3>3. U \in (SUBSET T) \ {T}
      BY <3>1
    <3>4. g[U] = SumOf(Of(U))
      BY <1>3, <3>3
    <3>5. f[x] = SumOf({o \in S : at[o] = x})
      BY <3>1
    <3>6. /\ {o \in S : at[o] = x} \in SUBSET Of(T)
          /\ Of(T) \ {o \in S : at[o] = x} = Of(U)
      BY <3>1
    <3>7. IsFiniteSet(Of(T)) /\ Of(T) \subseteq Ops
      BY FS_Subset
    <3> HIDE DEF U, Of
    <3>8. SumOf(Of(T)) = Plus(SumOf(Of(U)), SumOf({o \in S : at[o] = x}))
      BY <3>6, <3>7, SumUnion
    <3> QED
      BY <3>2, <3>4, <3>5, <3>8
  <2> QED
    BY <2>1, <2>2
<1>4. \A T \in SUBSET K : T \in P
  <2> HIDE DEF P
  <2> QED
    BY <1>3, SubsetInduction
<1>5. g[K] = SumOf(Of(K)) /\ Of(K) = S
  <2>1. K \in P
    <3> HIDE DEF P
    <3> QED
      BY <1>4
  <2> QED
    BY <2>1
<1> QED
  BY <1>1, <1>5

-----------------------------------------------------------------------------
(***************************************************************************)
(* A checkpoint and the operations from its month on.                      *)
(***************************************************************************)

LEMMA Calendar ==
  /\ Dates \subseteq Days /\ Days \subseteq Nat
  /\ \A day \in Days : MonthOf[day] \in Nat
  /\ \A a, b \in Days : MonthOf[a] < MonthOf[b] => a <= b
  /\ \A o \in Ops : o.date \in Days /\ o.date \in Nat /\ MonthOf[o.date] \in Nat
<1>1. /\ Dates \subseteq Days /\ Days \subseteq Nat
      /\ \A day \in Days : MonthOf[day] \in Nat
      /\ \A a, b \in Days : a <= b => MonthOf[a] <= MonthOf[b]
  BY ReportsAssumption DEF Dates
<1>2. \A a, b \in Days : MonthOf[a] < MonthOf[b] => a <= b
  <2> TAKE a, b \in Days
  <2> HAVE MonthOf[a] < MonthOf[b]
  <2>1. a \in Nat /\ b \in Nat /\ MonthOf[a] \in Nat /\ MonthOf[b] \in Nat
    BY <1>1
  <2>2. b <= a => MonthOf[b] <= MonthOf[a]
    BY <1>1
  <2> QED
    BY <2>1, <2>2
<1>3. \A o \in Ops : o.date \in Dates
  BY DEF Ops
<1> QED
  BY <1>1, <1>2, <1>3

LEMMA ReadMonthFacts ==
  ASSUME NEW d \in Databases, NEW day \in Days
  PROVE  /\ ReadMonth(d, day) \in Months /\ ReadMonth(d, day) \in Nat
         /\ ReadMonth(d, day) <= d.latest /\ ReadMonth(d, day) <= MonthOf[day]
         /\ ReadMonth(d, day) = d.latest \/ ReadMonth(d, day) = MonthOf[day]
<1>1. d.latest \in 0 .. Horizon /\ Horizon \in Nat /\ MonthOf[day] \in Nat
  BY DatabaseFacts, LedgerAssumption, Calendar DEF Months
<1> DEFINE S == {MonthOf[day], d.latest}
<1>2. \E x \in S : \A y \in S : x <= y
  BY <1>1
<1>3. Min(S) \in S /\ \A y \in S : Min(S) <= y
  BY <1>2 DEF Min
<1>4. Min(S) = d.latest \/ Min(S) = MonthOf[day]
  BY <1>3
<1>5. Min(S) <= d.latest /\ Min(S) <= MonthOf[day]
  BY <1>3
<1> QED
  BY <1>1, <1>4, <1>5 DEF ReadMonth, Months

(* What there is of one store and batch up to a day. *)
Till(S, k, day) == {o \in S : <<o.store, o.batch>> = k /\ o.date <= day}

(* A checkpoint, and the operations read on top of it. *)
LEMMA OnTopOf ==
  ASSUME NEW d, Sound(d), Careful, NEW day \in Days, NEW k \in Stores \X Batches
  PROVE  LET m == ReadMonth(d, day)
         IN  /\ d.chk[m][k] = SumOf(At(d.index, m, k))
             /\ d.chk[m][k] \in Balance
             /\ Plus(d.chk[m][k],
                     SumOf({o \in OpsOfAll(d, m, day) : <<o.store, o.batch>> = k}))
                  = SumOf(Till(d.index, k, day))
<1> DEFINE m == ReadMonth(d, day)
           All == Till(d.index, k, day)
           New == {o \in OpsOfAll(d, m, day) : <<o.store, o.batch>> = k}
<1>0. d \in Databases /\ IsFiniteSet(d.index) /\ d.index \subseteq Ops /\ Sums(d, d.index)
  BY DatabaseFacts DEF Sound, IsFinite
<1>1. m \in Months /\ m \in Nat /\ m <= d.latest /\ m <= MonthOf[day]
  BY <1>0, ReadMonthFacts
<1> HIDE DEF m
<1>2. ~ (m > d.latest)
  BY <1>0, <1>1, LedgerAssumption, DatabaseFacts DEF Months
<1>3. d.chk[m][k] = SumOf(At(d.index, m, k))
  BY <1>0, <1>1, <1>2, Zenon DEF Sums
<1>4. IsFiniteSet(All) /\ All \subseteq Ops
  <2>1. All \subseteq d.index
    BY DEF Till
  <2> HIDE DEF All
  <2> QED
    BY <1>0, <2>1, FS_Subset
<1>5. New \in SUBSET All /\ All \ New = At(d.index, m, k)
  <2>1. \A o \in d.index : /\ o.date \in Days /\ MonthOf[o.date] \in Nat
                           /\ MonthOf[o.date] < MonthOf[day] => o.date <= day
    BY <1>0, Calendar
  <2>2. MonthOf[day] \in Nat
    BY Calendar
  <2>3. \A o \in d.index : MonthOf[o.date] < m => o.date <= day
    BY <1>1, <2>1, <2>2
  <2>4. \A o \in d.index : MonthOf[o.date] < m <=> ~ (m <= MonthOf[o.date])
    BY <1>1, <2>1
  <2> QED
    BY <2>3, <2>4 DEF Till, OpsOfAll, At
<1> HIDE DEF All, New
<1>6. SumOf(All) = Plus(SumOf(At(d.index, m, k)), SumOf(New))
  BY <1>4, <1>5, SumUnion
<1>7. d.chk[m][k] \in Balance
  BY <1>0, <1>3, AtFacts
<1> QED
  BY <1>3, <1>6, <1>7 DEF m, All, New

(* The list of the stock. *)
LEMMA StockListAddsUp ==
  ASSUME NEW d, Sound(d), Careful, NEW day \in Days
  PROVE  StockList(d, day) = [k \in Stores \X Batches |-> SumOf(Till(d.index, k, day))]
<1> DEFINE m == ReadMonth(d, day)
<1>1. DOMAIN d.chk[m] = Stores \X Batches
  BY ReadMonthFacts, DatabaseFacts DEF Sound
<1>2. StockList(d, day) =
        [k \in Stores \X Batches |->
           Plus(d.chk[m][k], SumOf({o \in OpsOfAll(d, m, day) : <<o.store, o.batch>> = k}))]
  BY <1>1 DEF StockList, OnTop, CheckpointsForAll
<1>3. \A k \in Stores \X Batches :
        Plus(d.chk[m][k], SumOf({o \in OpsOfAll(d, m, day) : <<o.store, o.batch>> = k}))
          = SumOf(Till(d.index, k, day))
  BY OnTopOf
<1> HIDE DEF m
<1> QED
  BY ONLY <1>2, <1>3

(* The list of one goods in one store. *)
LEMMA GoodsInStoreAddsUp ==
  ASSUME NEW d, Sound(d), Careful, NEW day \in Days, NEW s \in Stores
  PROVE  GoodsInStore(d, s, day) =
           Sum([b \in Batches |-> SumOf(Till(d.index, <<s, b>>, day))])
<1> DEFINE m   == ReadMonth(d, day)
           All == {o \in d.index : o.store = s /\ o.date <= day}
           Old == {o \in d.index : o.store = s /\ MonthOf[o.date] < m}
           New == OpsOfGoodsInStore(d, s, m, day)
           chk == CheckpointsOfStore(d, s, day)
           all == [b \in Batches |-> SumOf(Till(d.index, <<s, b>>, day))]
<1>0. d \in Databases /\ IsFiniteSet(d.index) /\ d.index \subseteq Ops /\ IsFiniteSet(Batches)
  BY DatabaseFacts, BatchFacts DEF Sound, IsFinite
<1>1. m \in Nat /\ m <= MonthOf[day] /\ MonthOf[day] \in Nat
  BY <1>0, ReadMonthFacts, Calendar
<1>2. \A o \in d.index : o.batch \in Batches
  BY <1>0 DEF Ops
<1>3. /\ IsFiniteSet(All) /\ All \subseteq Ops
      /\ IsFiniteSet(Old) /\ Old \subseteq Ops
  <2>1. All \subseteq d.index /\ Old \subseteq d.index
    OBVIOUS
  <2> HIDE DEF All, Old
  <2> QED
    BY <1>0, <2>1, FS_Subset
<1>4. /\ chk = [b \in Batches |-> d.chk[m][<<s, b>>]]
      /\ \A b \in Batches : /\ chk[b] = SumOf({o \in Old : o.batch = b})
                            /\ chk[b] \in Balance
  <2>1. chk = [b \in Batches |-> d.chk[m][<<s, b>>]]
    BY DEF CheckpointsOfStore
  <2> HIDE DEF chk
  <2>2. ASSUME NEW b \in Batches
        PROVE  /\ chk[b] = SumOf({o \in Old : o.batch = b})
               /\ chk[b] \in Balance
    <3>1. <<s, b>> \in Stores \X Batches
      OBVIOUS
    <3>2. d.chk[m][<<s, b>>] = SumOf(At(d.index, m, <<s, b>>)) /\ d.chk[m][<<s, b>>] \in Balance
      BY <3>1, OnTopOf
    <3>3. At(d.index, m, <<s, b>>) = {o \in Old : o.batch = b}
      BY DEF At
    <3> QED
      BY <2>1, <3>2, <3>3
  <2> QED
    BY <2>1, <2>2
<1>5. Sum(chk) = SumOf(Old)
  <2> DEFINE at == [o \in Old |-> o.batch]
  <2>1. at \in [Old -> Batches] /\ \A b \in Batches : {o \in Old : o.batch = b} = {o \in Old : at[o] = b}
    BY <1>2
  <2>2. chk \in [Batches -> Balance]
    BY <1>4
  <2>3. \A b \in Batches : chk[b] = SumOf({o \in Old : at[o] = b})
    BY <1>4, <2>1
  <2> HIDE DEF chk, at, Old
  <2> QED
    BY <1>0, <1>3, <2>1, <2>2, <2>3, SumByKeys
<1>6. Sum(all) = SumOf(All)
  <2> DEFINE at == [o \in All |-> o.batch]
  <2>1. at \in [All -> Batches] /\ \A b \in Batches : {o \in All : at[o] = b} = Till(d.index, <<s, b>>, day)
    BY <1>2 DEF Till
  <2>2. \A b \in Batches : SumOf(Till(d.index, <<s, b>>, day)) \in Balance
    <3> TAKE b \in Batches
    <3>1. Till(d.index, <<s, b>>, day) \subseteq d.index
      BY DEF Till
    <3>2. IsFiniteSet(Till(d.index, <<s, b>>, day)) /\ Till(d.index, <<s, b>>, day) \subseteq Ops
      BY <1>0, <3>1, FS_Subset
    <3> QED
      BY <3>2, SumUnfolds
  <2>3. all \in [Batches -> Balance]
    BY <2>2
  <2>4. \A b \in Batches : all[b] = SumOf({o \in All : at[o] = b})
    BY <2>1
  <2> HIDE DEF all, at, All
  <2> QED
    BY <1>0, <1>3, <2>1, <2>3, <2>4, SumByKeys
<1>7. New \in SUBSET All /\ All \ New = Old
  <2>1. \A o \in d.index : /\ MonthOf[o.date] \in Nat
                           /\ MonthOf[o.date] < MonthOf[day] => o.date <= day
    BY <1>0, Calendar
  <2>2. \A o \in d.index : /\ MonthOf[o.date] < m => o.date <= day
                           /\ MonthOf[o.date] < m <=> ~ (m <= MonthOf[o.date])
    BY <1>1, <2>1
  <2> QED
    BY <2>2 DEF OpsOfGoodsInStore, OpsOfStore, OpsOfAll
<1>8. GoodsInStore(d, s, day) = Plus(Sum(chk), SumOf(New))
  BY DEF GoodsInStore, WithOps, CheckpointOfGoodsInStore
<1> HIDE DEF m, All, Old, New, chk
<1>9. SumOf(All) = Plus(SumOf(Old), SumOf(New))
  BY <1>3, <1>7, SumUnion
<1> QED
  BY <1>5, <1>6, <1>8, <1>9

(* Whoever asks for the stock of a day, in the middle of a change too, is  *)
(* told what the operations up to that day add up to, unless an inventory  *)
(* makes the reader panic; as long as nobody deletes an issue that names   *)
(* no batch.                                                               *)
THEOREM ListsStayCurrent == Careful => (Spec => []StockListIsCurrent)
<1> SUFFICES ASSUME Careful PROVE Spec => []StockListIsCurrent
  OBVIOUS
<1>1. LedgerOK => StockListIsCurrent
  <2> SUFFICES ASSUME LedgerOK PROVE StockListIsCurrent
    OBVIOUS
  <2>1. Sound(db)
    BY DEF LedgerOK
  <2>2. \A day \in Days : StockList(db, day) = [k \in Stores \X Batches |-> Until(k, day)]
    BY <2>1, StockListAddsUp DEF Until, Till
  <2>3. \A day \in Days, s \in Stores :
          GoodsInStore(db, s, day) = Sum([b \in Batches |-> Until(<<s, b>>, day)])
    BY <2>1, GoodsInStoreAddsUp DEF Until, Till
  <2> QED
    BY <2>2, <2>3 DEF StockListIsCurrent
<1> QED
  BY <1>1, LedgerStays, PTL
=============================================================================
