--------------------------- MODULE StockFlowProofs ---------------------------
(***************************************************************************)
(* Theorems about where the goods of the stock ledger go: the operations   *)
(* that others give rise to are stored as long as those are, and no longer.*)
(***************************************************************************)
EXTENDS StockBalancesProofs

(* The stored operations. *)
OpsOf(d) == {r.op : r \in d.main}

(* The front grows by operations of M, each for a key that is not on it. *)
Joins(F, G, M) ==
  /\ F \subseteq G
  /\ \A p \in G : p \in F \/ (p \in M /\ \A f \in F : Key(f) # Key(p))

LEMMA JoinsTwice ==
  ASSUME NEW F, NEW G, NEW H, NEW M, Joins(F, G, M), Joins(G, H, M)
  PROVE  Joins(F, H, M)
BY DEF Joins

(* What propagation after o may put on the front. *)
Next1(d, o) == {p \in OpsOf(d) : Behind(o, p)}

LEMMA PropagateJoins ==
  ASSUME NEW d, Sound(d), NEW o, NEW u, u.store = o.store,
         u.batch = o.batch \/ u.batch = NoBatch, Stamp(u) = Stamp(o)
  PROVE  /\ Joins(d.front, Propagate(d, u).front, Next1(d, o))
         /\ Propagate(d, u).main = d.main /\ Propagate(d, u).index = d.index
         /\ Propagate(d, u).chk = d.chk /\ Propagate(d, u).latest = d.latest
         /\ Later(d, u) # {} => OnFront(Propagate(d, u), Earliest(Later(d, u)).op)
<1>1. CASE Later(d, u) = {}
  BY <1>1 DEF Propagate, Joins
<1>2. CASE Later(d, u) # {}
  <2> DEFINE r == Earliest(Later(d, u))
             e == Push(d, r.op)
  <2>1. Later(d, u) \subseteq Chain(d, u)
    BY DEF Later
  <2>2. r \in Later(d, u)
    BY <1>2, <2>1, ChainFacts
  <2> HIDE DEF r
  <2>3. r \in d.main /\ r.op.store = u.store /\ r.op.batch = u.batch /\ Less(Stamp(u), Stamp(r.op))
    BY <2>2 DEF Later, Chain
  <2>4. r.op \in Next1(d, o)
    BY <2>3 DEF Behind, Next1, OpsOf
  <2>5. Propagate(d, u) = e
    BY <1>2 DEF Propagate, r
  <2>6. d \in Databases
    BY DEF Sound
  <2>7. e.main = d.main /\ e.index = d.index /\ e.chk = d.chk /\ e.latest = d.latest
        /\ e.front = IF OnFront(d, r.op) THEN d.front ELSE d.front \cup {r.op}
    BY <2>6 DEF Push, OnFront, Databases
  <2> HIDE DEF e
  <2>8. Joins(d.front, e.front, Next1(d, o))
    BY <2>4, <2>7 DEF Joins, OnFront
  <2>9. OnFront(e, r.op)
    BY <2>7 DEF OnFront
  <2> QED
    BY <2>5, <2>7, <2>8, <2>9 DEF r
<1> QED
  BY <1>1, <1>2

(* The operation o as it would be of no batch. *)
Loose(o) == [o EXCEPT !.batch = NoBatch]

LEMMA LooseFacts ==
  ASSUME NEW o \in Ops
  PROVE  /\ Loose(o).store = o.store /\ Loose(o).batch = NoBatch
         /\ Stamp(Loose(o)) = Stamp(o)
<1> DEFINE u == [o EXCEPT !.batch = NoBatch]
<1>1. u.date = o.date /\ u.kind = o.kind /\ u.id = o.id /\ u.store = o.store /\ u.batch = NoBatch
  BY DEF Ops
<1>2. u.dep = o.dep
  BY DEF Ops
<1> HIDE DEF u
<1>3. Stamp(u) = Stamp(o)
  BY <1>1, <1>2 DEF Stamp, Order, Flag
<1> QED
  BY <1>1, <1>3 DEF Loose, u

LEMMA BothJoin ==
  ASSUME NEW d, Sound(d), NEW o \in Sane
  PROVE  LET e == PropagateBoth(d, o)
         IN  /\ Joins(d.front, e.front, Next1(d, o))
             /\ e.main = d.main /\ e.index = d.index /\ e.chk = d.chk /\ e.latest = d.latest
             /\ Later(d, Loose(o)) # {} => OnFront(e, Earliest(Later(d, Loose(o))).op)
<1> DEFINE u == Loose(o)
           own == Propagate(d, o)
           e == PropagateBoth(d, o)
<1>1. /\ Joins(d.front, own.front, Next1(d, o))
      /\ own.main = d.main /\ own.index = d.index /\ own.chk = d.chk /\ own.latest = d.latest
      /\ Later(d, o) # {} => OnFront(own, Earliest(Later(d, o)).op)
  BY PropagateJoins
<1>2. Sound(own)
  BY PropagateSound
<1>3. o \in Ops
  BY SaneFacts
<1>4. u.store = o.store /\ u.batch = NoBatch /\ Stamp(u) = Stamp(o)
  BY <1>3, LooseFacts
<1>5. PropagateBoth(d, o) = IF o.batch = NoBatch THEN own ELSE Propagate(own, u)
  BY DEF PropagateBoth, Loose
<1> HIDE DEF u, own, e
<1>6. /\ Joins(own.front, Propagate(own, u).front, Next1(own, o))
      /\ Propagate(own, u).main = own.main /\ Propagate(own, u).index = own.index
      /\ Propagate(own, u).chk = own.chk /\ Propagate(own, u).latest = own.latest
      /\ Later(own, u) # {} => OnFront(Propagate(own, u), Earliest(Later(own, u)).op)
  BY <1>2, <1>4, PropagateJoins
<1>7. Next1(own, o) = Next1(d, o) /\ Later(own, u) = Later(d, u)
  BY <1>1 DEF Next1, OpsOf, Later, Chain
<1>8. CASE o.batch = NoBatch
  <2>1. Later(d, u) = Later(d, o)
    BY <1>4, <1>8 DEF Later, Chain
  <2> QED
    BY <1>1, <1>5, <1>8, <2>1 DEF u, e
<1>9. CASE o.batch # NoBatch
  <2>1. Joins(d.front, Propagate(own, u).front, Next1(d, o))
    BY <1>1, <1>6, <1>7, JoinsTwice
  <2> QED
    BY <1>1, <1>5, <1>6, <1>7, <1>9, <2>1 DEF u, e
<1> QED
  BY <1>8, <1>9

(* What is stored and what is on the front under a key of K is gone, and   *)
(* the front has grown by operations of M only.                            *)
Reduced(d, e, K, M) ==
  /\ e.main = {r \in d.main : Key(r.op) \notin K}
  /\ \A p \in e.front : /\ Key(p) \notin K
                        /\ p \in d.front \/ (p \in M /\ ~ OnFront(d, p))
  /\ \A p \in d.front : Key(p) \in K \/ p \in e.front
  /\ M \subseteq OpsOf(d)

LEMMA ReducedTwice ==
  ASSUME NEW d, NEW e, NEW f, NEW J, NEW K, NEW M, NEW N,
         Reduced(d, e, J, M), Reduced(e, f, K, N)
  PROVE  Reduced(d, f, J \cup K, M \cup N)
<1>1. f.main = {r \in d.main : Key(r.op) \notin J \cup K}
  BY DEF Reduced
<1>2. ASSUME NEW p \in f.front
      PROVE  /\ Key(p) \notin J \cup K
             /\ p \in d.front \/ (p \in M \cup N /\ ~ OnFront(d, p))
  <2>1. CASE p \in e.front
    BY <1>2, <2>1 DEF Reduced
  <2>2. CASE p \notin e.front
    <3>1. p \in N /\ ~ OnFront(e, p) /\ Key(p) \notin K
      BY <1>2, <2>2 DEF Reduced
    <3>2. PICK r \in e.main : r.op = p
      BY <3>1 DEF Reduced, OpsOf
    <3>3. Key(p) \notin J
      BY <3>2 DEF Reduced
    <3>4. ~ OnFront(d, p)
      BY <3>1, <3>3 DEF OnFront, Reduced
    <3> QED
      BY <3>1, <3>3, <3>4
  <2> QED
    BY <2>1, <2>2
<1>3. \A p \in d.front : Key(p) \in J \cup K \/ p \in f.front
  BY DEF Reduced
<1>4. M \cup N \subseteq OpsOf(d)
  BY DEF Reduced, OpsOf
<1> QED
  BY <1>1, <1>2, <1>3, <1>4 DEF Reduced

LEMMA TakeOutReduces ==
  ASSUME NEW d, Sound(d), NEW o \in Sane, Careful => ~ (Virtual(o) /\ o.kind = "issue")
  PROVE  /\ Sound(TakeOut(d, o))
         /\ Reduced(d, TakeOut(d, o), {Key(o)}, Next1(d, o))
<1> DEFINE c == CutOut(d, o)
           e == TakeOut(d, o)
<1>1. /\ Sound(c) /\ c.main = d.main \ Stored(d, o) /\ c.index \subseteq d.index
      /\ c.front = Without(d.front, o)
  BY CutOutSound
<1>2. e = IF BalanceBefore(d, o) = StoredBalance(d, o) THEN c ELSE PropagateBoth(c, o)
  BY TakeOutIs
<1>3. Sound(e)
  BY TakeOutSound
<1> HIDE DEF c, e
<1>4. Joins(c.front, e.front, Next1(c, o)) /\ e.main = c.main
  <2>1. Joins(c.front, c.front, Next1(c, o))
    BY DEF Joins
  <2> QED
    BY <1>1, <1>2, <2>1, BothJoin
<1>5. e.main = {r \in d.main : Key(r.op) \notin {Key(o)}}
  BY <1>1, <1>4, StoredFacts
<1>6. \A p \in Next1(c, o) : p \in Next1(d, o) /\ Key(p) # Key(o)
  <2> TAKE p \in Next1(c, o)
  <2>1. PICK r \in c.main : r.op = p
    BY DEF Next1, OpsOf
  <2>2. r \in d.main /\ Key(p) # Key(o)
    BY <1>4, <1>5, <2>1
  <2> QED
    BY <2>1, <2>2 DEF Next1, OpsOf
<1>7. \A p \in e.front : /\ Key(p) \notin {Key(o)}
                         /\ p \in d.front \/ (p \in Next1(d, o) /\ ~ OnFront(d, p))
  <2> TAKE p \in e.front
  <2>1. CASE p \in c.front
    BY <1>1, <2>1 DEF Without
  <2>2. CASE p \notin c.front
    <3>1. p \in Next1(c, o) /\ \A f \in c.front : Key(f) # Key(p)
      BY <1>4, <2>2 DEF Joins
    <3>2. ~ OnFront(d, p)
      BY <1>1, <1>6, <3>1 DEF OnFront, Without
    <3> QED
      BY <1>6, <3>1, <3>2
  <2> QED
    BY <2>1, <2>2
<1>8. \A p \in d.front : Key(p) \in {Key(o)} \/ p \in e.front
  BY <1>1, <1>4 DEF Without, Joins
<1>9. Next1(d, o) \subseteq OpsOf(d)
  BY DEF Next1
<1> QED
  BY <1>3, <1>5, <1>7, <1>8, <1>9 DEF Reduced, e

(* What the deletion of o takes with it. *)
GoneWith(o) == {Key(o)} \cup (IF IsTransfer(o) THEN {Key(Arrival(o))} ELSE {})

LEMMA DeleteReduces ==
  ASSUME NEW d, Sound(d), NEW o \in Sane, Careful => ~ (Virtual(o) /\ o.kind = "issue")
  PROVE  /\ Sound(Delete(d, o))
         /\ Reduced(d, Delete(d, o), GoneWith(o), Next1(d, o) \cup Next1(d, Arrival(o)))
<1> DEFINE e == TakeOut(d, o)
           z == Arrival(o)
           M == Next1(d, o) \cup Next1(d, z)
<1>1. Sound(e) /\ Reduced(d, e, {Key(o)}, Next1(d, o))
  BY TakeOutReduces
<1>2. Delete(d, o) = IF IsTransfer(o) THEN TakeOut(e, z) ELSE e
  BY DEF Delete
<1>3. Next1(d, o) \subseteq OpsOf(d) /\ Next1(d, z) \subseteq OpsOf(d)
  BY DEF Next1
<1>4. CASE ~ IsTransfer(o)
  <2> HIDE DEF e, z
  <2>1. GoneWith(o) = {Key(o)}
    BY <1>4 DEF GoneWith
  <2>2. Delete(d, o) = e
    BY <1>2, <1>4
  <2>3. Reduced(d, e, {Key(o)}, M)
    BY <1>1, <1>3 DEF Reduced
  <2> QED
    BY <1>1, <2>1, <2>2, <2>3 DEF z
<1>5. CASE IsTransfer(o)
  <2>1. z \in Sane /\ ~ Virtual(z)
    BY <1>5, ArrivalFacts
  <2>2. GoneWith(o) = {Key(o)} \cup {Key(z)}
    BY <1>5 DEF GoneWith
  <2> HIDE DEF e, z
  <2>3. Sound(TakeOut(e, z)) /\ Reduced(e, TakeOut(e, z), {Key(z)}, Next1(e, z))
    BY <1>1, <2>1, TakeOutReduces
  <2>4. Reduced(d, TakeOut(e, z), {Key(o)} \cup {Key(z)}, Next1(d, o) \cup Next1(e, z))
    BY <1>1, <2>3, ReducedTwice
  <2>5. Next1(e, z) \subseteq Next1(d, z)
    BY <1>1 DEF Reduced, Next1, OpsOf
  <2>6. Reduced(d, TakeOut(e, z), {Key(o)} \cup {Key(z)}, M)
    BY <1>3, <2>4, <2>5 DEF Reduced
  <2> QED
    BY <1>2, <1>5, <2>2, <2>3, <2>6 DEF z
<1> QED
  BY <1>4, <1>5

(* The keys of what o took from batches that parts takes nothing from. *)
ShedKeys(o, parts) ==
  UNION {GoneWith(Zero(o, o.parts[i])) :
           i \in {j \in DOMAIN o.parts : ~ Contains(Dependants(parts), o.parts[j])}}

LEMMA DroppedReduces ==
  ASSUME NEW d, Sound(d), NEW o \in Sane, NEW parts,
         NEW M, M \subseteq OpsOf(d),
         \A i \in DOMAIN o.parts :
           LET z == Zero(o, o.parts[i]) IN Next1(d, z) \cup Next1(d, Arrival(z)) \subseteq M
  PROVE  /\ Sound(Dropped(d, o, parts))
         /\ Reduced(d, Dropped(d, o, parts), ShedKeys(o, parts), M)
<1> DEFINE Z(i) == Zero(o, o.parts[i])
           I == {j \in DOMAIN o.parts : ~ Contains(Dependants(parts), o.parts[j])}
           L == ShedKeys(o, parts)
           n == Len(o.parts)
           G == {a \in Ledgers : \E K \in SUBSET L : Reduced(d, a, K, M)}
           H(i) == {a \in G : /\ \A r \in a.main : Key(r.op) \notin GoneWith(Z(i))
                              /\ \A p \in a.front : Key(p) \notin GoneWith(Z(i))}
           step == DropStep(o, parts, G)
           e == Dropped(d, o, parts)
<1>1. /\ n \in Nat /\ DOMAIN o.parts = 1 .. n
      /\ \A i \in DOMAIN o.parts : Z(i) \in Sane /\ ~ Virtual(Z(i))
  <2>1. o.parts \in Seq(Deps)
    BY SaneFacts
  <2>2. \A x \in Deps : x.batch \in Batches /\ x.kind \in Kinds \ {"inventory"}
    BY DEF Deps
  <2>3. \A i \in DOMAIN o.parts : o.parts[i] \in Deps
    BY <2>1
  <2> QED
    BY <2>1, <2>2, <2>3, DependantFacts DEF Zero
<1>2. \A i \in I : GoneWith(Z(i)) \subseteq L
  BY DEF ShedKeys
<1>3. L = UNION {GoneWith(Z(i)) : i \in I}
  BY DEF ShedKeys
<1> HIDE DEF L, Z, e
<1>4. ASSUME NEW a \in G, NEW i \in I
      PROVE  Delete(a, Z(i)) \in H(i)
  <2> DEFINE z == Z(i)
             f == Delete(a, z)
  <2>1. Sound(a) /\ i \in DOMAIN o.parts
    BY LedgerIsSound
  <2>2. PICK K \in SUBSET L : Reduced(d, a, K, M)
    OBVIOUS
  <2>3. z \in Sane /\ ~ Virtual(z)
    BY <1>1
  <2>4. Next1(d, z) \cup Next1(d, Arrival(z)) \subseteq M
    BY DEF Z
  <2> HIDE DEF z, f
  <2>5. Sound(f) /\ Reduced(a, f, GoneWith(z), Next1(a, z) \cup Next1(a, Arrival(z)))
    BY <2>1, <2>3, DeleteReduces DEF f
  <2>6. Reduced(d, f, K \cup GoneWith(z), M \cup (Next1(a, z) \cup Next1(a, Arrival(z))))
    BY <2>2, <2>5, ReducedTwice
  <2>7. Next1(a, z) \subseteq Next1(d, z) /\ Next1(a, Arrival(z)) \subseteq Next1(d, Arrival(z))
    BY <2>2 DEF Reduced, Next1, OpsOf
  <2>8. M \cup (Next1(a, z) \cup Next1(a, Arrival(z))) = M
    BY <2>4, <2>7
  <2>9. K \cup GoneWith(z) \in SUBSET L
    BY <1>2 DEF z
  <2>10. f \in G
    BY <2>5, <2>6, <2>8, <2>9, LedgerIsSound
  <2>11. /\ \A r \in f.main : Key(r.op) \notin GoneWith(z)
         /\ \A p \in f.front : Key(p) \notin GoneWith(z)
    BY <2>5 DEF Reduced
  <2> QED
    BY <2>10, <2>11 DEF f, z
<1>5. ASSUME NEW a \in G, NEW i \in DOMAIN o.parts
      PROVE  Contains(Dependants(parts), o.parts[i]) \/ Delete(a, Z(i)) \in G
  BY <1>4
<1>6. d \in G
  <2>1. Reduced(d, d, {}, M)
    BY DEF Reduced
  <2> QED
    BY <2>1, LedgerIsSound
<1>7. PICK h : /\ Unwinds(h, n, G, d, step)
               /\ e = h[1 .. n]
  <2> HIDE DEF G
  <2> QED
    BY <1>5, <1>6, DroppedUnwinds DEF e, Z
<1>8. e \in G
  <2>1. 1 .. n \in SUBSET (1 .. n)
    OBVIOUS
  <2> HIDE DEF G, n
  <2> QED
    BY <1>7, <2>1 DEF Unwinds
<1>9. ASSUME NEW i \in I PROVE e \in H(i)
  <2>1. \A a \in G, j \in 1 .. n :
          step[<<j, a>>] = IF j \in I THEN Delete(a, Z(j)) ELSE a
    BY <1>1 DEF DropStep, Z
  <2> HIDE DEF step
  <2>2. \A a \in G : step[<<i, a>>] \in H(i)
    <3>1. i \in I /\ i \in 1 .. n
      BY <1>1
    <3> HIDE DEF G, H, I, n
    <3> QED
      BY <1>4, <2>1, <3>1
  <2>3. ASSUME NEW a \in H(i), NEW j \in I PROVE Delete(a, Z(j)) \in H(i)
    <3>1. a \in G /\ Sound(a) /\ Z(j) \in Sane /\ ~ Virtual(Z(j))
      BY <1>1, LedgerIsSound
    <3>2. Delete(a, Z(j)) \in G
      BY <1>4
    <3>3. Reduced(a, Delete(a, Z(j)), GoneWith(Z(j)), Next1(a, Z(j)) \cup Next1(a, Arrival(Z(j))))
      BY <3>1, DeleteReduces
    <3> DEFINE f == Delete(a, Z(j))
    <3> HIDE DEF f
    <3>4. \A r \in f.main : r \in a.main
      BY <3>3 DEF Reduced, f
    <3>5. \A p \in f.front : p \in a.front \/ \E r \in a.main : r.op = p
      BY <3>3 DEF Reduced, Next1, OpsOf, f
    <3>6. /\ \A r \in a.main : Key(r.op) \notin GoneWith(Z(i))
          /\ \A p \in a.front : Key(p) \notin GoneWith(Z(i))
      OBVIOUS
    <3>7. /\ \A r \in f.main : Key(r.op) \notin GoneWith(Z(i))
          /\ \A p \in f.front : Key(p) \notin GoneWith(Z(i))
      BY <3>4, <3>5, <3>6
    <3> QED
      BY <3>2, <3>7 DEF f
  <2>4. \A a \in G, j \in 1 .. n : a \in H(i) => step[<<j, a>>] \in H(i)
    <3> HIDE DEF G, H, I, n
    <3> QED
      BY <2>1, <2>3
  <2>5. i \in 1 .. n
    BY <1>1
  <2> HIDE DEF G, H, step, n
  <2>6. h[1 .. n] \in H(i)
    BY <1>1, <1>7, <2>2, <2>4, <2>5, UnwindsTo
  <2> QED
    BY <1>7, <2>6
<1>10. Sound(e)
  BY <1>8, LedgerIsSound
<1>11. PICK K \in SUBSET L : Reduced(d, e, K, M)
  BY <1>8
<1>12. /\ \A r \in e.main : Key(r.op) \notin L
       /\ \A p \in e.front : Key(p) \notin L
  BY <1>3, <1>9
<1>13. Reduced(d, e, L, M)
  BY <1>11, <1>12 DEF Reduced
<1> QED
  BY <1>10, <1>13 DEF e, L

(* What a sequence is made of. *)
ElemsOf(ps) == {ps[i] : i \in DOMAIN ps}

(* Insertions exchange what is on the front under the keys inserted. *)
LEMMA InsertsIs ==
  ASSUME NEW d, Sound(d), NEW ps \in Seq(Sane)
  PROVE  LET a == FoldLeft(Insert, d, ps)
         IN  /\ Sound(a) /\ a.main = d.main /\ a.index = d.index
             /\ a.chk = d.chk /\ a.latest = d.latest
             /\ \A p \in a.front : \/ p \in ElemsOf(ps)
                                   \/ p \in d.front /\ \A q \in ElemsOf(ps) : Key(p) # Key(q)
             /\ \A p \in d.front : p \in a.front \/ \E q \in ElemsOf(ps) : Key(p) = Key(q)
             /\ \A q \in ElemsOf(ps) : OnFront(a, q)
             /\ KeysApart(ElemsOf(ps)) => ElemsOf(ps) \subseteq a.front
<1> DEFINE n == Len(ps)
           Q == ElemsOf(ps)
           G == {a \in Ledgers :
                   /\ a.main = d.main /\ a.index = d.index
                   /\ a.chk = d.chk /\ a.latest = d.latest
                   /\ a.front \subseteq d.front \cup Q
                   /\ \A p \in d.front : p \in a.front \/ \E q \in Q : Key(p) = Key(q)}
           H(i) == {a \in G : /\ \A p \in a.front : Key(p) = Key(ps[i]) => p \in Q
                              /\ OnFront(a, ps[i])}
           step == InsertStep(ps, G)
           e == FoldLeft(Insert, d, ps)
<1>1. n \in Nat /\ DOMAIN ps = 1 .. n /\ \A i \in 1 .. n : ps[i] \in Sane /\ ps[i] \in Q
  BY DEF ElemsOf
<1>2. Q = {ps[i] : i \in 1 .. n}
  BY <1>1 DEF ElemsOf
<1> HIDE DEF Q, e
<1>3. ASSUME NEW a \in G, NEW i \in 1 .. n
      PROVE  /\ Insert(a, ps[i]) \in H(i)
             /\ Insert(a, ps[i]).front = Without(a.front, ps[i]) \cup {ps[i]}
  <2> DEFINE f == Insert(a, ps[i])
  <2>1. Sound(a) /\ a \in Databases
    BY LedgerIsSound DEF Sound
  <2>2. Sound(f)
    BY <1>1, <2>1, InsertSound
  <2>3. /\ f.main = a.main /\ f.index = a.index /\ f.chk = a.chk /\ f.latest = a.latest
        /\ f.front = Without(a.front, ps[i]) \cup {ps[i]}
    BY <2>1 DEF Insert, Databases
  <2> HIDE DEF f
  <2>4. f.front \subseteq d.front \cup Q
    BY <1>1, <2>3 DEF Without
  <2>5. \A p \in d.front : p \in f.front \/ \E q \in Q : Key(p) = Key(q)
    BY <1>1, <2>3 DEF Without
  <2>6. f \in G
    BY <2>2, <2>3, <2>4, <2>5, LedgerIsSound
  <2>7. \A p \in f.front : Key(p) = Key(ps[i]) => p \in Q
    BY <1>1, <2>3 DEF Without
  <2>8. OnFront(f, ps[i])
    BY <2>3 DEF OnFront
  <2> QED
    BY <2>3, <2>6, <2>7, <2>8 DEF f
<1>4. \A a \in G, i \in DOMAIN ps : Insert(a, ps[i]) \in G
  BY <1>1, <1>3
<1>5. d \in G
  BY LedgerIsSound
<1>6. PICK h : Unwinds(h, n, G, d, step) /\ e = h[1 .. n]
  <2> HIDE DEF G
  <2> QED
    BY <1>4, <1>5, InsertsUnwind DEF e
<1>7. e \in G
  <2>1. 1 .. n \in SUBSET (1 .. n)
    OBVIOUS
  <2> HIDE DEF G, n
  <2> QED
    BY <1>6, <2>1 DEF Unwinds
<1>8. \A a \in G, j \in 1 .. n : step[<<j, a>>] = Insert(a, ps[j])
  BY DEF InsertStep
<1>9. ASSUME NEW i \in 1 .. n PROVE e \in H(i)
  <2>1. \A a \in G : step[<<i, a>>] \in H(i)
    BY <1>3, <1>8
  <2>2. ASSUME NEW a \in H(i), NEW j \in 1 .. n PROVE Insert(a, ps[j]) \in H(i)
    <3> DEFINE f == Insert(a, ps[j])
    <3>1. f \in G /\ f.front = Without(a.front, ps[j]) \cup {ps[j]}
      BY <1>3
    <3> HIDE DEF f
    <3>2. \A p \in f.front : Key(p) = Key(ps[i]) => p \in Q
      BY <1>1, <3>1 DEF Without
    <3>3. OnFront(f, ps[i])
      BY <3>1 DEF OnFront, Without
    <3> QED
      BY <3>1, <3>2, <3>3 DEF f
  <2>3. \A a \in G, j \in 1 .. n : a \in H(i) => step[<<j, a>>] \in H(i)
    BY <1>8, <2>2
  <2> HIDE DEF G, H, step, n
  <2>4. h[1 .. n] \in H(i)
    BY <1>1, <1>6, <2>1, <2>3, UnwindsTo
  <2> QED
    BY <1>6, <2>4
<1>10. /\ \A i \in 1 .. n : OnFront(e, ps[i])
       /\ \A p \in e.front, i \in 1 .. n : Key(p) = Key(ps[i]) => p \in Q
  BY <1>9
<1>11. \A q \in Q : OnFront(e, q)
  BY <1>2, <1>10
<1>12. \A p \in e.front : p \in Q \/ (p \in d.front /\ \A q \in Q : Key(p) # Key(q))
  BY <1>2, <1>7, <1>10
<1>13. ASSUME KeysApart(Q) PROVE Q \subseteq e.front
  <2> SUFFICES ASSUME NEW q \in Q PROVE q \in e.front
    OBVIOUS
  <2>1. PICK p \in e.front : Key(p) = Key(q)
    BY <1>11 DEF OnFront
  <2>2. p \in Q
    BY <1>2, <1>10, <2>1
  <2> QED
    BY <1>13, <2>1, <2>2 DEF KeysApart
<1>14. Sound(e)
  BY <1>7, LedgerIsSound
<1> QED
  BY <1>7, <1>11, <1>12, <1>13, <1>14 DEF e, Q

(* The same stored, but r in place of what had its key. *)
Replaced(d, e, r) == e.main = {q \in d.main : Key(q.op) # Key(r.op)} \cup {r}

LEMMA SaveReplaces ==
  ASSUME NEW d, Sound(d), NEW o \in Sane, NEW b \in Balance,
         Virtual(o) /\ o.kind = "issue" => o.parts # <<>>, ~ IsZero(o) \/ o.parts # <<>>
  PROVE  LET e == Save(d, o, b)
         IN  Sound(e) /\ Replaced(d, e, [op |-> o, bal |-> b]) /\ e.front = d.front
<1> DEFINE e == Save(d, o, b)
           r0 == [op |-> o, bal |-> b]
<1>1. /\ Sound(e) /\ Apart(d, e, o) /\ e.front = d.front
      /\ \A r \in e.main : r \in d.main \/ r = r0
      /\ Stored(e, o) = {r0}
  BY SaveShape
<1>2. r0.op = o
  OBVIOUS
<1> HIDE DEF e, r0
<1>3. \A r \in e.main : r \in Stored(e, o) <=> Key(r.op) = Key(o)
  BY <1>1, StoredFacts
<1>4. \A r \in d.main : Key(r.op) # Key(o) => r \in e.main
  BY <1>1, ApartFacts
<1>5. r0 \in e.main
  BY <1>1 DEF Stored, Chain
<1>6. \A r \in e.main : r = r0 \/ (r \in d.main /\ Key(r.op) # Key(o))
  BY <1>1, <1>3
<1>7. Replaced(d, e, r0)
  BY <1>2, <1>4, <1>5, <1>6 DEF Replaced
<1> QED
  BY <1>1, <1>7 DEF e, r0

LEMMA CalculatedIs ==
  ASSUME NEW d, Sound(d), NEW o \in Sane, ~ Virtual(o), Plain(o), o.qty > 0
  PROVE  LET e == Calculated(d, o)
             before == BalanceBefore(d, o)
             c == Costed(before, o)
             b == Plus(before, Delta(c))
             u == Loose(o)
         IN  /\ Sound(e) /\ c \in Sane /\ Alike(c, o) /\ (c.kind = "receive" => c = o)
             /\ b \in Balance /\ Replaced(d, e, [op |-> c, bal |-> b])
             /\ \E F : /\ \/ F = d.front /\ (IsTransfer(c) => c \in OpsOf(d))
                          \/ IsTransfer(c) /\ F = Without(d.front, Arrival(c)) \cup {Arrival(c)}
                       /\ Joins(F, e.front, {p \in OpsOf(d) : Behind(o, p) /\ Key(p) # Key(o)})
             /\ (o.batch = NoBatch \/ After(d, o) # b) /\ Later(d, u) # {}
                  => OnFront(e, Earliest(Later(d, u)).op)
<1> DEFINE before == BalanceBefore(d, o)
           c == Costed(before, o)
           b == Plus(before, Delta(c))
           now == [op |-> c, bal |-> b]
           saved == Save(d, c, b)
           done == IF Stored(d, o) = {now} THEN d
                   ELSE IF IsTransfer(o) THEN Insert(saved, Arrival(c)) ELSE saved
           e == Calculated(d, o)
           u == Loose(o)
           M == {p \in OpsOf(d) : Behind(o, p) /\ Key(p) # Key(o)}
<1>1. before \in Balance
  BY BeforeType
<1>2. c \in Sane /\ c \in Ops /\ Alike(c, o) /\ o \in Ops
  BY <1>1, CostedFacts, SaneFacts
<1>3. Evaluated(before, o) = now /\ (c.kind = "receive" => c = o)
  BY <1>2 DEF Evaluated, Alike, Costed
<1>4. Sound(e)
  BY CalculatedSound
<1>5. e = IF o.batch = NoBatch \/ After(d, o) # b THEN PropagateBoth(done, o) ELSE done
  <2>1. now.op = c /\ now.bal = b
    OBVIOUS
  <2> HIDE DEF c, b, now
  <2> QED
    BY <1>3, <2>1 DEF Calculated, After
<1>6. b \in Balance
  BY <1>1, <1>2, OpDelta, BalanceFacts
<1>7. /\ Key(c) = Key(o) /\ ~ Virtual(c) /\ Stored(d, c) = Stored(d, o)
      /\ (IsTransfer(c) <=> IsTransfer(o))
  BY <1>2, AlikeFacts
<1>8. ~ IsZero(c)
  BY <1>2 DEF Alike, IsZero
<1> HIDE DEF before, c, b, e
<1>9. Sound(saved) /\ Replaced(d, saved, now) /\ saved.front = d.front
  BY <1>2, <1>6, <1>7, <1>8, SaveReplaces
<1>10. now.op = c /\ now.bal = b
  OBVIOUS
<1> HIDE DEF now, saved
<1>11. /\ Sound(done) /\ Replaced(d, done, now)
       /\ \/ done.front = d.front /\ (IsTransfer(c) => c \in OpsOf(d))
          \/ IsTransfer(c) /\ done.front = Without(d.front, Arrival(c)) \cup {Arrival(c)}
  <2>1. CASE Stored(d, o) = {now}
    <3>1. now \in d.main /\ done = d
      BY <2>1 DEF Stored, Chain
    <3>2. \A q \in d.main : Key(q.op) = Key(now.op) => q = now
      BY <1>7, <1>10, <2>1, StoredFacts
    <3>3. Replaced(d, d, now)
      BY <3>1, <3>2 DEF Replaced
    <3>4. c \in OpsOf(d)
      BY <1>10, <3>1 DEF OpsOf
    <3> QED
      BY <3>1, <3>3, <3>4
  <2>2. CASE Stored(d, o) # {now} /\ ~ IsTransfer(o)
    BY <1>7, <1>9, <2>2
  <2>3. CASE Stored(d, o) # {now} /\ IsTransfer(o)
    <3>1. done = Insert(saved, Arrival(c))
      BY <2>3
    <3>2. Arrival(c) \in Sane
      BY <1>2, <1>7, <2>3, ArrivalFacts
    <3>3. Sound(done)
      BY <1>9, <3>1, <3>2, InsertSound
    <3>4. done.main = saved.main /\ done.front = Without(saved.front, Arrival(c)) \cup {Arrival(c)}
      BY <1>9, <3>1 DEF Insert, Sound, Databases
    <3> HIDE DEF done
    <3>5. Replaced(d, done, now)
      BY <1>9, <3>4 DEF Replaced
    <3> QED
      BY <1>7, <1>9, <2>3, <3>3, <3>4, <3>5
  <2> QED
    BY <2>1, <2>2, <2>3
<1> HIDE DEF done
<1>12. LET f == PropagateBoth(done, o)
       IN  /\ Joins(done.front, f.front, Next1(done, o)) /\ f.main = done.main
           /\ Later(done, u) # {} => OnFront(f, Earliest(Later(done, u)).op)
  BY <1>11, BothJoin
<1>13. Joins(done.front, e.front, Next1(done, o)) /\ e.main = done.main
  <2>1. Joins(done.front, done.front, Next1(done, o))
    BY DEF Joins
  <2> QED
    BY <1>5, <1>12, <2>1
<1>14. \A p \in Ops : Key(p) = Key(o) => ~ Less(Stamp(o), Stamp(p))
  <2> TAKE p \in Ops
  <2> HAVE Key(p) = Key(o)
  <2>1. Stamp(p) = Stamp(o)
    BY <1>2, KeyFacts
  <2> QED
    BY <1>2, <2>1, OneWay
<1>15. Next1(done, o) \subseteq M
  <2> SUFFICES ASSUME NEW p \in Next1(done, o) PROVE p \in M
    OBVIOUS
  <2>1. PICK r \in done.main : r.op = p /\ Behind(o, p)
    BY DEF Next1, OpsOf
  <2>2. p \in Ops
    BY <1>11, <2>1, DatabaseFacts DEF Sound
  <2>3. Key(p) # Key(o)
    BY <1>14, <2>1, <2>2 DEF Behind
  <2>4. r \in d.main
    BY <1>7, <1>10, <1>11, <2>1, <2>3 DEF Replaced
  <2> QED
    BY <2>1, <2>3, <2>4 DEF OpsOf
<1>16. Joins(done.front, e.front, M)
  BY <1>13, <1>15 DEF Joins
<1>17. Replaced(d, e, now)
  BY <1>11, <1>13 DEF Replaced
<1>18. Later(done, u) = Later(d, u)
  <2>1. u.store = o.store /\ u.batch = NoBatch /\ Stamp(u) = Stamp(o)
    BY <1>2, LooseFacts
  <2> HIDE DEF u
  <2>2. \A r \in done.main \cup d.main : Less(Stamp(u), Stamp(r.op)) => Key(r.op) # Key(o)
    <3>1. \A r \in done.main \cup d.main : r.op \in Ops
      BY <1>11, DatabaseFacts DEF Sound
    <3> QED
      BY <1>14, <2>1, <3>1
  <2>3. \A r : Less(Stamp(u), Stamp(r.op)) => (r \in done.main <=> r \in d.main)
    BY <1>7, <1>10, <1>11, <2>2 DEF Replaced
  <2> QED
    BY <2>3 DEF Later, Chain
<1>19. (o.batch = NoBatch \/ After(d, o) # b) /\ Later(d, u) # {}
          => OnFront(e, Earliest(Later(d, u)).op)
  BY <1>5, <1>12, <1>18
<1> HIDE DEF M, u
<1>20. \E F : /\ \/ F = d.front /\ (IsTransfer(c) => c \in OpsOf(d))
                 \/ IsTransfer(c) /\ F = Without(d.front, Arrival(c)) \cup {Arrival(c)}
              /\ Joins(F, e.front, M)
  BY <1>11, <1>16
<1> QED
  BY <1>2, <1>3, <1>4, <1>6, <1>17, <1>19, <1>20 DEF e, c, b, before, now, M, u

(* Induction up to n. *)
LEMMA UpTo ==
  ASSUME NEW n \in Nat, NEW P, 0 \in P, \A i \in 0 .. n - 1 : i \in P => i + 1 \in P
  PROVE  \A i \in 0 .. n : i \in P
<1> SUFFICES ASSUME NEW x \in 0 .. n, x \notin P PROVE FALSE
  OBVIOUS
<1> DEFINE S == {i \in 0 .. n : i \notin P}
           R == {q \in S \X S : q[1] < q[2]}
<1>1. IsFiniteSet(S)
  <2>1. IsFiniteSet(0 .. n)
    BY FS_Interval
  <2> QED
    BY <2>1, FS_Subset
<1>2. S # {} /\ \A i, j \in S : (<<i, j>> \in R <=> i < j)
  OBVIOUS
<1>3. S \subseteq 0 .. n /\ \A i \in S : i \in Int
  OBVIOUS
<1> HIDE DEF R
<1>4. PICK m \in S : \A y \in S : m = y \/ <<m, y>> \in R
  <2> HIDE DEF S
  <2>0. \A i, j \in Int : i = j \/ i < j \/ j < i
    OBVIOUS
  <2>1. \A i, j \in S : i = j \/ <<i, j>> \in R \/ <<j, i>> \in R
    BY <1>2, <1>3, <2>0
  <2>2. \A i, j, k \in S : <<i, j>> \in R /\ <<j, k>> \in R => <<i, k>> \in R
    BY <1>2, <1>3
  <2> QED
    BY <1>1, <1>2, <2>1, <2>2, LeastExists
<1>5. m # 0 /\ m - 1 \in 0 .. n - 1
  OBVIOUS
<1>6. m - 1 \notin S
  <2> SUFFICES ASSUME m - 1 \in S PROVE FALSE
    OBVIOUS
  <2>1. m \in Int
    BY <1>3
  <2> HIDE DEF S
  <2>2. m = m - 1 \/ m < m - 1
    BY <1>2, <1>4
  <2> QED
    BY <2>1, <2>2
<1> QED
  BY <1>5, <1>6

(* The sums of the beginnings of a sequence. *)
PartialSums(sums, n, ps) ==
  /\ sums \in [0 .. n -> Balance]
  /\ sums[0] = Nothing
  /\ \A i \in 1 .. n : sums[i] = Plus(sums[i - 1], ps[i])
  /\ \A u : \A i \in 0 .. n : DOMAIN u = 1 .. i /\ (\A j \in 1 .. i : u[j] = ps[j])
       => FoldLeft(Plus, Nothing, u) = sums[i]

LEMMA PlusPartialSums ==
  ASSUME NEW n \in Nat, NEW ps, DOMAIN ps = 1 .. n,
         \A i \in 1 .. n : ps[i].qty \in Int /\ ps[i].cost \in Int
  PROVE  \E sums : PartialSums(sums, n, ps)
<1> DEFINE S == 1 .. n
<1>1. PICK h : /\ Unwinds(h, n, Balance, Nothing, PlusStep(ps))
               /\ FoldLeft(Plus, Nothing, ps) = h[1 .. n]
               /\ \A x \in 1 .. n, v \in Balance : PlusStep(ps)[<<x, v>>] = Plus(v, ps[x])
  BY PlusUnwinds
<1>2. /\ h \in [SUBSET S -> Balance] /\ h[{}] = Nothing
      /\ \A s \in SUBSET S : s # {} => Max(s) \in s /\ h[s] = Plus(h[s \ {Max(s)}], ps[Max(s)])
  <2>1. /\ h \in [SUBSET S -> Balance] /\ h[{}] = Nothing
        /\ \A s \in SUBSET S : s # {} =>
             Max(s) \in s /\ h[s] = PlusStep(ps)[<<Max(s), h[s \ {Max(s)}]>>]
    BY <1>1 DEF Unwinds
  <2>2. \A s \in SUBSET S : s # {} => Max(s) \in S /\ h[s \ {Max(s)}] \in Balance
    BY <2>1
  <2> QED
    BY <1>1, <2>1, <2>2
<1>3. \A i \in S : Max(1 .. i) = i /\ (1 .. i) \ {i} = 1 .. (i - 1)
  <2> TAKE i \in S
  <2>1. \A x \in 1 .. i : (\A y \in 1 .. i : x >= y) <=> x = i
    OBVIOUS
  <2>2. Max(1 .. i) = i
    BY <2>1 DEF Max
  <2> QED
    BY <2>2
<1>4. \A i \in 0 .. n : 1 .. i \in SUBSET S
  OBVIOUS
<1> DEFINE sums == [i \in 0 .. n |-> h[1 .. i]]
<1>5. sums \in [0 .. n -> Balance]
  BY <1>2, <1>4
<1>6. sums[0] = Nothing
  BY <1>2
<1>7. \A i \in S : sums[i] = Plus(sums[i - 1], ps[i])
  <2> TAKE i \in S
  <2>1. 1 .. i \in SUBSET S /\ 1 .. i # {}
    OBVIOUS
  <2>2. h[1 .. i] = Plus(h[1 .. (i - 1)], ps[i])
    BY <1>2, <1>3, <2>1
  <2>3. i \in 0 .. n /\ i - 1 \in 0 .. n
    OBVIOUS
  <2> QED
    BY <2>2, <2>3
<1>8. ASSUME NEW i \in 0 .. n, NEW u, DOMAIN u = 1 .. i, \A j \in 1 .. i : u[j] = ps[j]
      PROVE  FoldLeft(Plus, Nothing, u) = sums[i]
  <2> DEFINE T == 1 .. i
  <2>0. i \in Nat /\ T \subseteq S
    OBVIOUS
  <2>1. PICK g : /\ Unwinds(g, i, Balance, Nothing, PlusStep(u))
                 /\ FoldLeft(Plus, Nothing, u) = g[1 .. i]
                 /\ \A x \in 1 .. i, v \in Balance : PlusStep(u)[<<x, v>>] = Plus(v, u[x])
    <3>1. DOMAIN u = 1 .. i /\ \A j \in 1 .. i : u[j].qty \in Int /\ u[j].cost \in Int
      BY <1>8
    <3> QED
      BY ONLY <2>0, <3>1, PlusUnwinds
  <2>2. /\ g \in [SUBSET T -> Balance] /\ g[{}] = Nothing
        /\ \A s \in SUBSET T : s # {} => Max(s) \in s /\ g[s] = Plus(g[s \ {Max(s)}], ps[Max(s)])
    <3>1. /\ g \in [SUBSET T -> Balance] /\ g[{}] = Nothing
          /\ \A s \in SUBSET T : s # {} =>
               Max(s) \in s /\ g[s] = PlusStep(u)[<<Max(s), g[s \ {Max(s)}]>>]
      BY <2>1 DEF Unwinds
    <3>2. \A s \in SUBSET T : s # {} => Max(s) \in T /\ g[s \ {Max(s)}] \in Balance
      BY <3>1
    <3>3. \A x \in T, v \in Balance : PlusStep(u)[<<x, v>>] = Plus(v, ps[x])
      BY <1>8, <2>1
    <3> HIDE DEF T
    <3> QED
      BY <3>1, <3>2, <3>3
  <2> DEFINE P == {s \in SUBSET T : g[s] = h[s]}
  <2>3. ASSUME NEW s \in SUBSET T, \A w \in (SUBSET s) \ {s} : w \in P
        PROVE  s \in P
    <3>1. CASE s = {}
      BY <1>2, <2>2, <3>1
    <3>2. CASE s # {}
      <4>1. Max(s) \in s /\ s \in SUBSET S
        BY <2>0, <2>2, <3>2
      <4>2. s \ {Max(s)} \in (SUBSET s) \ {s}
        BY <4>1
      <4>3. g[s \ {Max(s)}] = h[s \ {Max(s)}]
        BY <2>3, <4>2
      <4> HIDE DEF T, S
      <4> QED
        BY <1>2, <2>2, <3>2, <4>1, <4>3
    <3> QED
      BY <3>1, <3>2
  <2>4. \A s \in SUBSET T : s \in P
    <3>1. i \in Int /\ 1 \in Int
      BY <2>0
    <3>2. IsFiniteSet(1 .. i)
      BY ONLY <3>1, FS_Interval
    <3>3. IsFiniteSet(T)
      BY <3>2
    <3> HIDE DEF P, T
    <3> QED
      BY <2>3, <3>3, SubsetInduction
  <2> QED
    BY <2>1, <2>4
<1> HIDE DEF sums, S
<1> QED
  BY <1>5, <1>6, <1>7, <1>8 DEF S, PartialSums

(* The batches an issue can take from are all different ones it has. *)
LEMMA QueueFacts ==
  ASSUME NEW d, NEW o, NEW s \in Queues(d, o)
  PROVE  \E n \in Nat : /\ s \in [1 .. n -> Batches] /\ DOMAIN s = 1 .. n
                        /\ \A i \in 1 .. n : s[i] # NoBatch /\ OnHand(d, o, s[i]).qty > 0
                        /\ \A i, j \in 1 .. n : s[i] = s[j] => i = j
<1> DEFINE S == {b \in Batches \ {NoBatch} : OnHand(d, o, b).qty > 0}
<1>1. S \subseteq Batches
  OBVIOUS
<1>2. s \in SetToSeqs(S)
  BY DEF Queues
<1>3. \A b \in S : b # NoBatch /\ OnHand(d, o, b).qty > 0
  OBVIOUS
<1> HIDE DEF S
<1>4. IsFiniteSet(S) /\ Cardinality(S) \in Nat
  BY <1>1, BatchFacts, FS_Subset, FS_CardinalityType
<1>5. /\ s \in [1 .. Cardinality(S) -> S]
      /\ \A i, j \in 1 .. Cardinality(S) : i # j => s[i] # s[j]
  BY <1>2 DEF SetToSeqs
<1>6. s \in [1 .. Cardinality(S) -> Batches]
  BY <1>1, <1>5
<1> QED
  BY <1>3, <1>4, <1>5, <1>6

(* What is taken from the batches: a positive quantity of each of the      *)
(* first ones, and not more than is needed.                                *)
LEMMA TakenFacts ==
  ASSUME NEW d, Sound(d), NEW o \in Sane, NEW s \in Queues(d, o), NEW q \in Nat
  PROVE  LET taken == Taken(d, o, s, q)
         IN  /\ taken \in Seq(PartsOf(o))
             /\ \A i \in DOMAIN taken : taken[i].qty > 0 /\ taken[i].batch # NoBatch
             /\ \A i, j \in DOMAIN taken : taken[i].batch = taken[j].batch => i = j
             /\ Quantity(taken) \in Int /\ Quantity(taken) <= q
<1>1. PICK n \in Nat : /\ s \in [1 .. n -> Batches] /\ DOMAIN s = 1 .. n
                       /\ \A i \in 1 .. n : s[i] # NoBatch /\ OnHand(d, o, s[i]).qty > 0
                       /\ \A i, j \in 1 .. n : s[i] = s[j] => i = j
  BY QueueFacts
<1> DEFINE have == [i \in DOMAIN s |-> OnHand(d, o, s[i])]
           needed == [i \in DOMAIN s |->
                        q - FoldLeft(Plus, Nothing, SubSeq(have, 1, i - 1)).qty]
           N == Cardinality({j \in DOMAIN s : needed[j] > 0})
           whole(i) == Part(o, s[i], have[i].qty, have[i].cost)
           share(i) == Part(o, s[i], needed[i], CostAt(Price(have[i]), needed[i]))
           one(i) == IF needed[i] >= have[i].qty THEN whole(i) ELSE share(i)
           taken == Taken(d, o, s, q)
<1>2. taken = [i \in 1 .. N |-> one(i)]
  BY DEF Taken
<1>3. taken \in Seq(PartsOf(o))
  BY <1>1, TakenType
<1>4. have \in [1 .. n -> Balance] /\ \A i \in 1 .. n : have[i].qty > 0
  BY <1>1, OnHandType
<1> HIDE DEF have, taken
<1>5. /\ DOMAIN have = 1 .. n
      /\ \A i \in 1 .. n : have[i].qty \in Int /\ have[i].cost \in Int
  BY <1>4 DEF Balance
<1>6. PICK sums : PartialSums(sums, n, have)
  BY ONLY <1>5, n \in Nat, PlusPartialSums
<1>7. /\ sums \in [0 .. n -> Balance] /\ sums[0] = Nothing
       /\ \A i \in 1 .. n : sums[i] = Plus(sums[i - 1], have[i])
  BY <1>6 DEF PartialSums
<1> DEFINE f == [i \in 0 .. n |-> sums[i].qty]
<1>8. /\ f \in [0 .. n -> Int] /\ f[0] = 0
      /\ \A i \in 1 .. n : f[i] = f[i - 1] + have[i].qty
  <2>1. \A i \in 0 .. n : sums[i].qty \in Int
    BY <1>7 DEF Balance
  <2>2. f[0] = 0
    BY <1>7 DEF Nothing
  <2>3. \A i \in 1 .. n : sums[i].qty = sums[i - 1].qty + have[i].qty
    <3> TAKE i \in 1 .. n
    <3>1. sums[i] = Plus(sums[i - 1], have[i])
      BY <1>7
    <3> QED
      BY <3>1 DEF Plus
  <2> QED
    BY <2>1, <2>2, <2>3
<1>9. \A i \in 1 .. n : needed[i] = q - f[i - 1]
  <2> TAKE i \in 1 .. n
  <2> DEFINE u == SubSeq(have, 1, i - 1)
  <2>1. u = [j \in 1 .. (i - 1) |-> have[j]]
    BY <1>4
  <2>2. DOMAIN u = 1 .. (i - 1) /\ \A j \in 1 .. (i - 1) : u[j] = have[j]
    BY <2>1
  <2>3. i - 1 \in 0 .. n
    OBVIOUS
  <2> HIDE DEF u
  <2>4. FoldLeft(Plus, Nothing, u) = sums[i - 1]
    BY <1>6, <2>2, <2>3 DEF PartialSums
  <2> QED
    BY <1>1, <2>3, <2>4 DEF u
<1> HIDE DEF f, needed
<1> DEFINE T == {j \in 1 .. n : needed[j] > 0}
(* Those that are needed are the first ones. *)
<1>10. \E k \in 0 .. n : T = 1 .. k /\ (k < n => f[k] >= q)
  <2> DEFINE Q(m) == \E k \in 0 .. m : /\ {j \in 1 .. m : needed[j] > 0} = 1 .. k
                                       /\ k < m => f[k] >= q
             P == {m \in 0 .. n : (\A i \in 0 .. m : f[i] <= f[m]) /\ Q(m)}
  <2>1. 0 \in P
    <3>1. f[0] <= f[0] /\ {j \in 1 .. 0 : needed[j] > 0} = 1 .. 0
      BY <1>8
    <3> QED
      BY <3>1
  <2>2. ASSUME NEW m \in 0 .. n - 1, m \in P PROVE m + 1 \in P
    <3>1. PICK k \in 0 .. m : /\ {j \in 1 .. m : needed[j] > 0} = 1 .. k
                              /\ k < m => f[k] >= q
      BY <2>2
    <3>2. /\ m + 1 \in 1 .. n /\ f[m + 1] = f[m] + have[m + 1].qty
          /\ f[m] \in Int /\ f[m + 1] \in Int /\ have[m + 1].qty > 0 /\ have[m + 1].qty \in Int
      <4>1. m + 1 \in 1 .. n /\ (m + 1) - 1 = m /\ m \in 0 .. n /\ m + 1 \in 0 .. n
        OBVIOUS
      <4> QED
        BY <1>4, <1>5, <1>8, <4>1
    <3>3. \A i \in 0 .. m + 1 : f[i] <= f[m + 1]
      <4> TAKE i \in 0 .. m + 1
      <4>1. f[i] \in Int
        BY <1>8, <3>2
      <4>2. i = m + 1 \/ f[i] <= f[m]
        BY <2>2
      <4> QED
        BY <3>2, <4>1, <4>2
    <3>4. needed[m + 1] = q - f[m]
      BY <1>9, <3>2
    <3>5. \A j \in 1 .. m + 1 : j \in 1 .. m \/ j = m + 1
      OBVIOUS
    <3>6. \A j \in 1 .. m + 1 : needed[j] > 0 <=> (j \in 1 .. k \/ (j = m + 1 /\ q > f[m]))
      BY <3>1, <3>2, <3>4, <3>5
    <3>7. CASE k < m
      <4>1. f[k] >= q /\ f[k] <= f[m] /\ f[k] \in Int
        BY <1>8, <2>2, <3>1, <3>7
      <4>2. ~ (q > f[m])
        BY <3>2, <4>1
      <4>3. {j \in 1 .. m + 1 : needed[j] > 0} = 1 .. k
        BY <3>6, <4>2
      <4> QED
        BY <3>2, <3>3, <4>1, <4>3
    <3>8. CASE k = m /\ q > f[m]
      <4>1. {j \in 1 .. m + 1 : needed[j] > 0} = 1 .. m + 1
        BY <3>6, <3>8
      <4> QED
        BY <3>2, <3>3, <4>1
    <3>9. CASE k = m /\ ~ (q > f[m])
      <4>1. {j \in 1 .. m + 1 : needed[j] > 0} = 1 .. m
        BY <3>6, <3>9
      <4>2. f[m] >= q
        BY <3>2, <3>9
      <4> QED
        BY <3>2, <3>3, <4>1, <4>2
    <3> QED
      BY <3>7, <3>8, <3>9
  <2>3. n \in P
    <3> HIDE DEF P
    <3>1. \A m \in 0 .. n : m \in P
      BY <2>1, <2>2, UpTo
    <3> QED
      BY <3>1
  <2> QED
    BY <2>3
<1>11. PICK k \in 0 .. n : T = 1 .. k /\ (k < n => f[k] >= q)
  BY <1>10
<1>12. N = k
  <2>1. {j \in DOMAIN s : needed[j] > 0} = 1 .. k
    BY <1>1, <1>11
  <2>2. Cardinality(1 .. k) = k
    BY FS_Interval
  <2> QED
    BY <2>1, <2>2
<1> HIDE DEF N
<1>13. DOMAIN taken = 1 .. k /\ \A i \in 1 .. k : taken[i] = one(i)
  BY <1>2, <1>12
<1>14. ASSUME NEW i \in 1 .. k
       PROVE  /\ needed[i] > 0 /\ needed[i] \in Int /\ needed[i] = q - f[i - 1]
              /\ taken[i].batch = s[i] /\ taken[i].cost \in Int
              /\ taken[i].qty = IF needed[i] >= have[i].qty THEN have[i].qty ELSE needed[i]
  <2>1. i \in 1 .. n /\ i \in T /\ i - 1 \in 0 .. n
    BY <1>11
  <2>2. needed[i] > 0 /\ needed[i] = q - f[i - 1] /\ needed[i] \in Int
    BY <1>8, <1>9, <2>1
  <2>3. have[i].qty \in Int /\ have[i].cost \in Int /\ CostAt(Price(have[i]), needed[i]) \in Int
    BY <1>4, <1>5, <2>1, <2>2, MoneyFacts
  <2>4. s[i] \in Batches
    BY <1>1, <2>1
  <2>5. /\ whole(i).batch = s[i] /\ whole(i).qty = have[i].qty /\ whole(i).cost \in Int
        /\ share(i).batch = s[i] /\ share(i).qty = needed[i] /\ share(i).cost \in Int
    BY <2>2, <2>3, <2>4, PartFacts
  <2> HIDE DEF whole, share
  <2> QED
    BY <1>13, <2>2, <2>5
<1>15. \A i \in 1 .. k : taken[i].qty > 0 /\ taken[i].qty \in Int /\ taken[i].batch # NoBatch
  <2> TAKE i \in 1 .. k
  <2>1. i \in 1 .. n
    OBVIOUS
  <2> QED
    BY <1>1, <1>4, <1>5, <1>14, <2>1
<1>16. \A i, j \in 1 .. k : taken[i].batch = taken[j].batch => i = j
  <2> TAKE i, j \in 1 .. k
  <2>1. i \in 1 .. n /\ j \in 1 .. n
    OBVIOUS
  <2> QED
    BY <1>1, <1>14, <2>1
(* All but the last are whole batches, the last one is not too much. *)
<1>17. PICK had : PartialSums(had, k, taken)
  <2>1. k \in Nat /\ \A i \in 1 .. k : taken[i].qty \in Int /\ taken[i].cost \in Int
    BY <1>14, <1>15
  <2> QED
    BY ONLY <1>13, <2>1, PlusPartialSums
<1>18. /\ had \in [0 .. k -> Balance] /\ had[0] = Nothing
        /\ \A i \in 1 .. k : had[i] = Plus(had[i - 1], taken[i])
  BY <1>17 DEF PartialSums
<1>19. Quantity(taken) = had[k].qty
  <2>1. FoldLeft(Plus, Nothing, taken) = had[k]
    BY <1>13, <1>17 DEF PartialSums
  <2> QED
    BY <2>1 DEF Quantity
<1>20. \A m \in 0 .. k : had[m].qty \in Int /\ had[m].qty <= q
  <2> DEFINE P == {m \in 0 .. k : /\ had[m].qty \in Int
                                 /\ (had[m].qty = f[m] \/ (m = k /\ had[m].qty = q))
                                 /\ had[m].qty <= q}
  <2>1. 0 \in P
    BY <1>8, <1>18 DEF Nothing
  <2>2. ASSUME NEW m \in 0 .. k - 1, m \in P PROVE m + 1 \in P
    <3>1. m + 1 \in 1 .. k /\ m + 1 \in 1 .. n /\ (m + 1) - 1 = m
      OBVIOUS
    <3>2. had[m + 1].qty = had[m].qty + taken[m + 1].qty
      <4>1. had[m + 1] = Plus(had[m], taken[m + 1])
        BY <1>18, <3>1
      <4> QED
        BY <4>1 DEF Plus
    <3>3. /\ needed[m + 1] > 0 /\ needed[m + 1] = q - f[m] /\ needed[m + 1] \in Int
          /\ taken[m + 1].qty = IF needed[m + 1] >= have[m + 1].qty THEN have[m + 1].qty
                                ELSE needed[m + 1]
      BY <1>14, <3>1
    <3>4. f[m + 1] = f[m] + have[m + 1].qty /\ f[m] \in Int /\ have[m + 1].qty \in Int
      BY <1>5, <1>8, <3>1
    <3>5. had[m].qty = f[m]
      BY <2>2, <3>3, <3>4
    <3>6. f[m + 1] <= q \/ m + 1 = k
      <4> SUFFICES ASSUME m + 1 # k PROVE f[m + 1] <= q
        OBVIOUS
      <4>1. m + 2 \in 1 .. k /\ (m + 2) - 1 = m + 1
        BY <3>1
      <4>2. needed[m + 2] > 0 /\ needed[m + 2] = q - f[m + 1] /\ f[m + 1] \in Int
        BY <1>8, <1>14, <3>4, <4>1
      <4> QED
        BY <4>2
    <3>7. had[m + 1].qty = f[m + 1] \/ had[m + 1].qty = q
      BY <3>2, <3>3, <3>4, <3>5
    <3>8. had[m + 1].qty <= q
      BY <3>2, <3>3, <3>4, <3>5
    <3>9. had[m + 1].qty = q => f[m + 1] >= q
      BY <3>2, <3>3, <3>4, <3>5
    <3>10. had[m + 1].qty \in Int
      BY <3>2, <3>3, <3>4, <3>5
    <3>11. had[m + 1].qty = f[m + 1] \/ (m + 1 = k /\ had[m + 1].qty = q)
      BY <3>4, <3>6, <3>7, <3>9
    <3>12. m + 1 \in 0 .. k
      OBVIOUS
    <3> QED
      BY <3>8, <3>10, <3>11, <3>12
  <2>3. \A m \in 0 .. k : m \in P
    <3>1. k \in Nat
      OBVIOUS
    <3> HIDE DEF P
    <3> QED
      BY <2>1, <2>2, <3>1, UpTo
  <2> QED
    BY <2>3
<1>21. Quantity(taken) \in Int /\ Quantity(taken) <= q
  BY <1>19, <1>20
<1> QED
  BY <1>3, <1>13, <1>15, <1>16, <1>21 DEF taken

(* The parts of an issue are of different batches and make up the issue.   *)
LEMMA SplitFacts ==
  ASSUME NEW d, Sound(d), NEW o \in Sane, o.qty > 0, NEW s \in Queues(d, o)
  PROVE  LET parts == Split(d, o, s)
         IN  /\ parts \in Seq(PartsOf(o)) /\ parts \in Seq(Made) /\ parts # <<>>
             /\ \A i \in DOMAIN parts : parts[i].qty > 0 /\ parts[i].qty \in Int
                                        /\ parts[i].cost \in Int
             /\ \A i, j \in DOMAIN parts : parts[i].batch = parts[j].batch => i = j
             /\ Quantity(parts) = o.qty
<1> DEFINE taken == Taken(d, o, s, o.qty)
           left == o.qty - Quantity(taken)
           rest == Part(o, NoBatch, left, 0)
           parts == Split(d, o, s)
<1>1. o.qty \in Nat
  BY DEF Sane, Ops
<1>2. /\ taken \in Seq(PartsOf(o))
      /\ \A i \in DOMAIN taken : taken[i].qty > 0 /\ taken[i].batch # NoBatch
      /\ \A i, j \in DOMAIN taken : taken[i].batch = taken[j].batch => i = j
      /\ Quantity(taken) \in Int /\ Quantity(taken) <= o.qty
  BY <1>1, TakenFacts
<1>3. parts \in Seq(PartsOf(o)) /\ parts \in Seq(Made) /\ parts # <<>>
  BY SplitType
<1>4. parts = taken \o (IF left > 0 THEN <<rest>> ELSE <<>>)
  BY DEF Split
<1> HIDE DEF taken, parts
<1>5. left \in Int /\ left >= 0
  BY <1>1, <1>2
<1>6. rest.batch = NoBatch /\ rest.qty = left /\ rest.cost = 0 /\ rest \in PartsOf(o)
  BY <1>5, PartFacts, BatchFacts DEF PartsOf
<1>7. \A p \in PartsOf(o) : p.qty \in Int /\ p.cost \in Int
  <2> SUFFICES ASSUME NEW b \in Batches, NEW q \in Int, NEW c \in Int
               PROVE  Part(o, b, q, c).qty \in Int /\ Part(o, b, q, c).cost \in Int
    BY DEF PartsOf
  <2> QED
    BY PartFacts
<1>8. \A i \in DOMAIN parts : parts[i].qty \in Int /\ parts[i].cost \in Int
  <2> TAKE i \in DOMAIN parts
  <2>1. parts[i] \in PartsOf(o)
    BY <1>3
  <2> QED
    BY <1>7, <2>1
<1> HIDE DEF rest
<1>9. CASE ~ (left > 0)
  <2>1. parts = taken
    BY <1>2, <1>4, <1>9
  <2>2. Quantity(taken) = o.qty
    BY <1>1, <1>2, <1>5, <1>9
  <2> QED
    BY <1>2, <1>3, <1>8, <2>1, <2>2 DEF parts
<1>10. CASE left > 0
  <2> DEFINE k == Len(taken)
  <2>1. parts = taken \o <<rest>> /\ k \in Nat /\ DOMAIN taken = 1 .. k
    BY <1>2, <1>4, <1>10
  <2>2. /\ DOMAIN parts = 1 .. k + 1 /\ parts[k + 1] = rest
        /\ \A i \in 1 .. k : parts[i] = taken[i]
    BY <1>2, <2>1
  <2> HIDE DEF k, left
  <2>3. \A i \in 1 .. k + 1 : i = k + 1 \/ i \in 1 .. k
    BY <2>1
  <2>4. \A i \in DOMAIN parts : parts[i].qty > 0
    BY <1>2, <1>6, <1>10, <2>1, <2>2, <2>3
  <2>5. \A i, j \in DOMAIN parts : parts[i].batch = parts[j].batch => i = j
    BY <1>2, <1>6, <2>1, <2>2, <2>3
  <2>6. PICK sums : PartialSums(sums, k + 1, parts)
    <3>1. k + 1 \in Nat /\ DOMAIN parts = 1 .. k + 1
          /\ \A i \in 1 .. k + 1 : parts[i].qty \in Int /\ parts[i].cost \in Int
      BY <1>8, <2>1, <2>2
    <3> QED
      BY ONLY <3>1, PlusPartialSums
  <2>7. /\ FoldLeft(Plus, Nothing, parts) = sums[k + 1]
        /\ FoldLeft(Plus, Nothing, taken) = sums[k]
    <3>1. k \in 0 .. k + 1 /\ k + 1 \in 0 .. k + 1
      BY <2>1
    <3> QED
      BY <2>1, <2>2, <2>6, <3>1 DEF PartialSums
  <2>8. sums[k + 1] = Plus(sums[k], parts[k + 1])
    <3>1. k + 1 \in 1 .. k + 1 /\ (k + 1) - 1 = k
      BY <2>1
    <3> QED
      BY <2>6, <3>1 DEF PartialSums
  <2>9. sums[k + 1].qty = sums[k].qty + left
    BY <1>6, <2>2, <2>8 DEF Plus
  <2>10. Quantity(parts) = Quantity(taken) + left
    BY <2>7, <2>9 DEF Quantity
  <2>11. Quantity(parts) = o.qty
    BY <1>1, <1>2, <2>10 DEF left
  <2> QED
    BY <1>3, <1>8, <2>4, <2>5, <2>11 DEF parts
<1> QED
  BY <1>9, <1>10

(* The virtual issue with its parts. *)
With(o, parts) == [o EXCEPT !.parts = Dependants(parts)]

LEMMA WithFacts ==
  ASSUME NEW o \in Sane, Virtual(o), o.kind = "issue",
         NEW parts \in Seq(Made), parts # <<>>
  PROVE  LET v == With(o, parts)
         IN  /\ v \in Sane /\ Virtual(v) /\ v.parts = Dependants(parts) /\ v.parts # <<>>
             /\ Key(v) = Key(o) /\ Stamp(v) = Stamp(o)
             /\ v.id = o.id /\ v.date = o.date /\ v.store = o.store /\ v.into = o.into
             /\ v.batch = o.batch /\ v.kind = o.kind /\ v.qty = o.qty /\ v.dep = o.dep
             /\ \A b, q, c : Part(v, b, q, c) = Part(o, b, q, c)
<1> DEFINE v == With(o, parts)
<1>1. o \in Ops
  BY SaneFacts
<1>2. Dependants(parts) \in Seq(Deps) /\ Dependants(parts) # <<>>
  BY DependantsType
<1>3. /\ v.id = o.id /\ v.date = o.date /\ v.store = o.store /\ v.into = o.into
      /\ v.batch = o.batch /\ v.kind = o.kind /\ v.qty = o.qty
  BY <1>1 DEF Ops, With
<1>4. v.dep = o.dep /\ v.parts = Dependants(parts) /\ v.cost = o.cost /\ v.auto = o.auto
  BY <1>1 DEF Ops, With
<1>5. v \in Ops
  BY <1>1, <1>2 DEF Ops, With
<1>6. \A b, q, c : Part(v, b, q, c) = Part(o, b, q, c)
  BY <1>1 DEF Ops, With, Part
<1> HIDE DEF v
<1>7. Key(v) = Key(o) /\ Stamp(v) = Stamp(o) /\ Virtual(v)
  BY <1>3, <1>4 DEF Key, Stamp, Order, Flag, Virtual
<1>8. v \in Sane
  BY <1>3, <1>5, <1>7 DEF Sane
<1> QED
  BY <1>2, <1>3, <1>4, <1>6, <1>7, <1>8 DEF v

(* Operations are equal when all their fields are.                         *)
LEMMA SameOp ==
  ASSUME NEW o \in Ops, NEW p \in Ops,
         o.id = p.id, o.date = p.date, o.store = p.store, o.into = p.into, o.batch = p.batch,
         o.kind = p.kind, o.qty = p.qty, o.cost = p.cost, o.auto = p.auto, o.dep = p.dep,
         o.parts = p.parts
  PROVE  o = p
<1>1. \A x \in Ops : x = [id |-> x.id, date |-> x.date, store |-> x.store, into |-> x.into,
          batch |-> x.batch, kind |-> x.kind, qty |-> x.qty, cost |-> x.cost, auto |-> x.auto,
          dep |-> x.dep, parts |-> x.parts]
  BY DEF Ops
<1> QED
  BY <1>1

(* The fields of a part. *)
IsPartOf(p, o, b, q, c) ==
  /\ p \in Sane /\ p \in Ops /\ p \in PartsOf(o)
  /\ p.id = o.id /\ p.date = o.date /\ p.store = o.store /\ p.into = o.into
  /\ p.batch = b /\ p.kind = "issue" /\ p.qty = q /\ p.cost = c
  /\ p.auto = TRUE /\ p.dep = TRUE /\ p.parts = <<>>

LEMMA PartFields ==
  ASSUME NEW o \in Sane, NEW b \in Batches, NEW q \in Int, NEW c \in Int
  PROVE  IsPartOf(Part(o, b, q, c), o, b, q, c)
<1> DEFINE p == Part(o, b, q, c)
<1>1. o \in Ops
  BY SaneFacts
<1>2. p \in Sane /\ p \in Ops
  BY PartFacts, SaneFacts
<1>3. p \in PartsOf(o)
  BY PartsHave
<1>4. /\ p.id = o.id /\ p.date = o.date /\ p.store = o.store /\ p.into = o.into
      /\ p.batch = b /\ p.kind = "issue" /\ p.qty = q /\ p.cost = c
  BY <1>1 DEF Part, Ops
<1>5. p.auto = TRUE
  BY <1>1 DEF Part, Ops
<1>6. p.dep = TRUE
  BY <1>1 DEF Part, Ops
<1>7. p.parts = <<>>
  BY <1>1 DEF Part, Ops
<1> QED
  BY <1>2, <1>3, <1>4, <1>5, <1>6, <1>7 DEF IsPartOf

LEMMA ArrivalFields ==
  ASSUME NEW o \in Sane, IsTransfer(o)
  PROVE  LET p == Arrival(o)
         IN  /\ p \in Sane /\ p \in Ops /\ ~ Virtual(p)
             /\ p.id = o.id /\ p.date = o.date /\ p.store = o.into /\ p.into = o.store
             /\ p.batch = o.batch /\ p.kind = "receive" /\ p.qty = o.qty /\ p.cost = o.cost
             /\ p.auto = FALSE /\ p.dep = TRUE /\ p.parts = <<>>
<1> DEFINE p == Arrival(o)
<1>1. o \in Ops
  BY SaneFacts
<1>2. p \in Sane /\ p \in Ops /\ ~ Virtual(p)
  BY ArrivalFacts, SaneFacts
<1>4. /\ p.id = o.id /\ p.date = o.date /\ p.store = o.into /\ p.into = o.store
      /\ p.batch = o.batch /\ p.kind = "receive" /\ p.qty = o.qty /\ p.cost = o.cost
  BY <1>1 DEF Arrival, Ops
<1>5. p.auto = FALSE
  BY <1>1 DEF Arrival, Ops
<1>6. p.dep = TRUE
  BY <1>1 DEF Arrival, Ops
<1>7. p.parts = <<>>
  BY <1>1 DEF Arrival, Ops
<1> QED
  BY <1>2, <1>4, <1>5, <1>6, <1>7

LEMMA PartSame ==
  ASSUME NEW o \in Sane, NEW v \in Sane, NEW b \in Batches, NEW q \in Int, NEW c \in Int,
         o.id = v.id, o.date = v.date, o.store = v.store, o.into = v.into
  PROVE  Part(o, b, q, c) = Part(v, b, q, c)
<1> DEFINE x == Part(o, b, q, c)
           y == Part(v, b, q, c)
<1>1. IsPartOf(x, o, b, q, c) /\ IsPartOf(y, v, b, q, c)
  BY PartFields
<1> HIDE DEF x, y
<1>2. /\ x \in Ops
      /\ x.id = o.id /\ x.date = o.date /\ x.store = o.store /\ x.into = o.into
      /\ x.batch = b /\ x.kind = "issue" /\ x.qty = q /\ x.cost = c
      /\ x.auto = TRUE /\ x.dep = TRUE /\ x.parts = <<>>
  BY <1>1 DEF IsPartOf
<1>3. /\ y \in Ops
      /\ y.id = v.id /\ y.date = v.date /\ y.store = v.store /\ y.into = v.into
      /\ y.batch = b /\ y.kind = "issue" /\ y.qty = q /\ y.cost = c
      /\ y.auto = TRUE /\ y.dep = TRUE /\ y.parts = <<>>
  BY <1>1 DEF IsPartOf
<1>4. x = y
  BY <1>2, <1>3, SameOp
<1> QED
  BY <1>4 DEF x, y

(* Equal keys are equal fields.                                            *)
LEMMA KeyFields ==
  ASSUME NEW o \in Ops, NEW p \in Ops
  PROVE  Key(o) = Key(p) <=> /\ o.date = p.date /\ o.kind = p.kind /\ o.store = p.store
                             /\ o.batch = p.batch /\ o.id = p.id /\ o.dep = p.dep
<1>1. Key(o) = Key(p) => /\ o.date = p.date /\ o.kind = p.kind /\ o.store = p.store
                         /\ o.batch = p.batch /\ o.id = p.id /\ o.dep = p.dep
  BY KeyFacts
<1>2. ASSUME o.date = p.date, o.kind = p.kind, o.store = p.store,
             o.batch = p.batch, o.id = p.id, o.dep = p.dep
      PROVE  Key(o) = Key(p)
  BY <1>2 DEF Key, Order, Flag
<1> QED
  BY <1>1, <1>2

(* What an issue took is deleted as a part of it that takes nothing.       *)
LEMMA ZeroFacts ==
  ASSUME Orderly, NEW R, Meant(R), NEW o \in Sane, Rooted(o, R), Virtual(o), o.kind = "issue",
         NEW i \in DOMAIN o.parts
  PROVE  LET x == o.parts[i]
             z == Zero(o, x)
         IN  /\ x \in Deps /\ x.kind = "issue" /\ x = [kind |-> "issue", batch |-> x.batch]
             /\ x.batch \in Batches
             /\ z = Part(o, x.batch, 0, 0) /\ z \in PartsOf(o)
<1> DEFINE x == o.parts[i]
           p == Part(o, x.batch, 0, 0)
           z == Zero(o, x)
<1>1. x \in Deps
  BY SaneFacts
<1>2. x.kind = "issue"
  <2>1. PICK e \in R : Belongs(o, e)
    BY DEF Rooted
  <2>2. ~ o.dep
    BY DEF Virtual
  <2> QED
    BY <2>1, <2>2 DEF Belongs, IsOwn, IsPart, IsArrival
<1>3. x.batch \in Batches /\ x = [kind |-> "issue", batch |-> x.batch]
  BY <1>1, <1>2 DEF Deps
<1>4. 0 \in Int
  OBVIOUS
<1>5. IsPartOf(p, o, x.batch, 0, 0)
  BY <1>3, <1>4, PartFields
<1>6. z = [p EXCEPT !.kind = "issue"]
  BY <1>2 DEF Zero
<1> HIDE DEF p, z
<1>7. z = p
  BY <1>5, <1>6 DEF Ops, IsPartOf
<1> QED
  BY <1>1, <1>2, <1>3, <1>5, <1>7 DEF p, z, IsPartOf

(* The batches of parts, and those o took from that parts takes none from. *)
BatchesOf(ps) == {ps[i].batch : i \in DOMAIN ps}
Dropping(o, parts) == BatchesOf(o.parts) \ BatchesOf(parts)

LEMMA DependantsHave ==
  ASSUME NEW o \in Sane, NEW parts \in Seq(PartsOf(o)), NEW b \in Batches
  PROVE  /\ Contains(Dependants(parts), [kind |-> "issue", batch |-> b])
              <=> b \in BatchesOf(parts)
         /\ BatchesOf(parts) \subseteq Batches
<1> DEFINE x == [kind |-> "issue", batch |-> b]
           D == Dependants(parts)
<1>1. /\ Len(parts) \in Nat /\ DOMAIN parts = 1 .. Len(parts)
      /\ \A i \in DOMAIN parts : parts[i] \in PartsOf(o)
  OBVIOUS
<1>2. \A p \in PartsOf(o) : p.kind = "issue" /\ p.batch \in Batches
  BY PartFacts DEF PartsOf
<1>3. DOMAIN D = 1 .. Len(parts) /\ \A i \in 1 .. Len(parts) : D[i] = [kind |-> "issue", batch |-> parts[i].batch]
  BY <1>1, <1>2 DEF Dependants
<1>4. Len(D) = Len(parts)
  <2>1. D \in Seq(Deps)
    BY PartsMade, DependantsType
  <2> QED
    BY <1>1, <1>3, <2>1
<1>5. Contains(D, x) <=> \E i \in 1 .. Len(parts) : D[i] = x
  BY <1>4 DEF Contains
<1>6. \A i \in 1 .. Len(parts) : D[i] = x <=> parts[i].batch = b
  BY <1>3
<1>7. b \in BatchesOf(parts) <=> \E i \in 1 .. Len(parts) : parts[i].batch = b
  BY <1>1 DEF BatchesOf
<1>8. BatchesOf(parts) \subseteq Batches
  BY <1>1, <1>2 DEF BatchesOf
<1> HIDE DEF D, x
<1>9. Contains(D, x) <=> b \in BatchesOf(parts)
  BY <1>5, <1>6, <1>7
<1> QED
  BY <1>8, <1>9 DEF D, x

(* The operation of o that takes nothing from the batch b.                 *)
NoneOf(o, b) == Part(o, b, 0, 0)

LEMMA NoneFacts ==
  ASSUME NEW o \in Sane, NEW b \in Batches
  PROVE  IsPartOf(NoneOf(o, b), o, b, 0, 0)
<1>1. 0 \in Int
  OBVIOUS
<1> QED
  BY <1>1, PartFields DEF NoneOf

LEMMA ShedIs ==
  ASSUME Orderly, NEW R, Meant(R), NEW o \in Sane, Rooted(o, R), Virtual(o), o.kind = "issue",
         NEW parts \in Seq(PartsOf(o))
  PROVE  /\ ShedKeys(o, parts) = UNION {GoneWith(NoneOf(o, b)) : b \in Dropping(o, parts)}
         /\ Dropping(o, parts) \subseteq Batches
<1> DEFINE I == {j \in DOMAIN o.parts : ~ Contains(Dependants(parts), o.parts[j])}
           D == Dropping(o, parts)
<1>1. ASSUME NEW i \in DOMAIN o.parts
      PROVE  /\ o.parts[i].batch \in Batches
             /\ i \in I <=> o.parts[i].batch \in D
             /\ Zero(o, o.parts[i]) = NoneOf(o, o.parts[i].batch)
  <2>1. /\ o.parts[i].batch \in Batches
        /\ o.parts[i] = [kind |-> "issue", batch |-> o.parts[i].batch]
        /\ Zero(o, o.parts[i]) = NoneOf(o, o.parts[i].batch)
    BY ZeroFacts DEF NoneOf
  <2>2. Contains(Dependants(parts), o.parts[i]) <=> o.parts[i].batch \in BatchesOf(parts)
    BY <2>1, DependantsHave
  <2>3. o.parts[i].batch \in BatchesOf(o.parts)
    BY DEF BatchesOf
  <2> QED
    BY <2>1, <2>2, <2>3 DEF Dropping
<1>2. D \subseteq Batches /\ \A b \in D : \E i \in I : o.parts[i].batch = b
  <2> SUFFICES ASSUME NEW b \in D PROVE b \in Batches /\ \E i \in I : o.parts[i].batch = b
    OBVIOUS
  <2>1. PICK i \in DOMAIN o.parts : o.parts[i].batch = b
    BY DEF Dropping, BatchesOf
  <2> QED
    BY <1>1, <2>1
<1>3. ShedKeys(o, parts) = UNION {GoneWith(Zero(o, o.parts[i])) : i \in I}
  BY DEF ShedKeys
<1>4. \A i \in I : i \in DOMAIN o.parts
  OBVIOUS
<1> HIDE DEF I, D
<1>5. \A k : k \in ShedKeys(o, parts) <=> \E b \in D : k \in GoneWith(NoneOf(o, b))
  <2> TAKE k
  <2>1. k \in ShedKeys(o, parts) <=> \E i \in I : k \in GoneWith(Zero(o, o.parts[i]))
    BY <1>3
  <2>2. ASSUME NEW i \in I
        PROVE  GoneWith(Zero(o, o.parts[i])) = GoneWith(NoneOf(o, o.parts[i].batch))
               /\ o.parts[i].batch \in D
    BY <1>1, <1>4
  <2> QED
    BY <1>2, <2>1, <2>2
<1>6. ShedKeys(o, parts) = UNION {GoneWith(NoneOf(o, b)) : b \in D}
  BY <1>5
<1> QED
  BY <1>2, <1>6 DEF D

(* Where the keys of two parts meet, and those of their arrivals.          *)
LEMMA PartKeys ==
  ASSUME NEW o \in Sane, NEW b \in Batches, NEW q \in PartsOf(o)
  PROVE  /\ Key(NoneOf(o, b)) = Key(q) <=> q.batch = b
         /\ IsTransfer(NoneOf(o, b)) => Key(Arrival(NoneOf(o, b))) # Key(q)
         /\ q \in Sane /\ q \in Ops /\ q.kind = "issue" /\ q.dep = TRUE
<1> DEFINE z == NoneOf(o, b)
<1>1. IsPartOf(z, o, b, 0, 0)
  BY NoneFacts
<1>2. PICK c \in Batches, n \in Int, m \in Int : q = Part(o, c, n, m)
  BY DEF PartsOf
<1>3. IsPartOf(q, o, c, n, m)
  BY <1>2, PartFields
<1> HIDE DEF z
<1>4. /\ z \in Ops /\ z \in Sane /\ q \in Ops /\ q \in Sane
      /\ z.date = q.date /\ z.kind = q.kind /\ z.store = q.store /\ z.id = q.id /\ z.dep = q.dep
      /\ z.batch = b /\ q.kind = "issue" /\ q.dep = TRUE
  BY <1>1, <1>3 DEF IsPartOf
<1>5. Key(z) = Key(q) <=> z.batch = q.batch
  BY <1>4, KeyFields
<1>6. ASSUME IsTransfer(z) PROVE Key(Arrival(z)) # Key(q)
  <2>1. Arrival(z) \in Ops /\ Arrival(z).kind = "receive"
    BY <1>4, <1>6, ArrivalFields
  <2> QED
    BY <1>4, <2>1, KeyFields
<1> QED
  BY <1>4, <1>5, <1>6 DEF z

(* What the distribution of o makes of d, as e: o is stored with its       *)
(* parts, what it lost is gone, and its parts are on the front.            *)
Distributes(d, e, o, parts) ==
  LET L == ShedKeys(o, parts)
      Q == ElemsOf(parts)
  IN  /\ e.main = {r \in d.main : Key(r.op) \notin L /\ Key(r.op) # Key(o)}
                    \cup {[op |-> With(o, parts), bal |-> OnHand(d, o, NoBatch)]}
      /\ Q \subseteq e.front
      /\ \A p \in e.front :
           /\ Key(p) \notin L
           /\ \/ p \in Q
              \/ /\ \A q \in Q : Key(p) # Key(q)
                 /\ p \in d.front \/ (p \in OpsOf(d) /\ Key(p) # Key(o) /\ ~ OnFront(d, p))
      /\ \A p \in d.front : Key(p) \in L \/ p \in e.front \/ \E q \in Q : Key(p) = Key(q)
      /\ \A r \in e.main :
           r.op.store = o.store /\ r.op.batch = NoBatch /\ Less(Stamp(o), Stamp(r.op)) =>
             \E w \in e.front : /\ w.store = o.store /\ w.batch = NoBatch
                                /\ Less(Stamp(o), Stamp(w)) /\ ~ Less(Stamp(r.op), Stamp(w))

LEMMA DistributedIs ==
  ASSUME Orderly, NEW R, Meant(R), NEW o \in Sane, Rooted(o, R), Virtual(o), o.kind = "issue",
         NEW d, Sound(d), NEW s \in Queues(d, o)
  PROVE  /\ Sound(Distributed(d, o, s))
         /\ Distributes(d, Distributed(d, o, s), o, Split(d, o, s))
<1> DEFINE parts == Split(d, o, s)
           L == ShedKeys(o, parts)
           Q == ElemsOf(parts)
           M == {p \in OpsOf(d) : Key(p) # Key(o)}
           a == FoldLeft(Insert, d, parts)
           f == Dropped(a, o, parts)
           v == With(o, parts)
           b == OnHand(d, o, NoBatch)
           r0 == [op |-> v, bal |-> b]
           saved == Save(f, v, b)
           e == Distributed(d, o, s)
<1>1. o \in Ops /\ o.qty > 0
  BY SaneFacts DEF Sane
<1>2. /\ parts \in Seq(PartsOf(o)) /\ parts \in Seq(Made) /\ parts # <<>>
      /\ \A i, j \in DOMAIN parts : parts[i].batch = parts[j].batch => i = j
  BY <1>1, SplitFacts
<1>3. Sound(e)
  BY DistributedSound
<1>4. e = Propagate(saved, o)
  BY DEF Distributed, Remembered, Spread, With
<1>5. b \in Balance
  BY <1>1, BatchFacts, OnHandType
<1> HIDE DEF parts
<1>6. /\ v \in Sane /\ Virtual(v) /\ v.parts # <<>> /\ Key(v) = Key(o) /\ Stamp(v) = Stamp(o)
      /\ v.store = o.store /\ v.batch = o.batch
  BY <1>2, WithFacts
<1> HIDE DEF v, b, e
<1>7. parts \in Seq(Sane)
  BY <1>2 DEF Made
<1>8. /\ Sound(a) /\ a.main = d.main
      /\ \A p \in a.front : p \in Q \/ (p \in d.front /\ \A q \in Q : Key(p) # Key(q))
      /\ \A p \in d.front : p \in a.front \/ \E q \in Q : Key(p) = Key(q)
      /\ \A q \in Q : OnFront(a, q)
      /\ KeysApart(Q) => Q \subseteq a.front
  BY <1>7, InsertsIs
<1> HIDE DEF a
<1>9. \A q \in Q : q \in PartsOf(o)
  BY <1>2 DEF ElemsOf
<1>10. KeysApart(Q)
  <2> SUFFICES ASSUME NEW p \in Q, NEW q \in Q, Key(p) = Key(q) PROVE p = q
    BY DEF KeysApart
  <2>1. PICK i \in DOMAIN parts : parts[i] = p
    BY DEF ElemsOf
  <2>2. PICK j \in DOMAIN parts : parts[j] = q
    BY DEF ElemsOf
  <2>3. p \in Ops /\ q \in Ops
    BY <1>9, BatchFacts, PartKeys
  <2>4. p.batch = q.batch
    BY <2>3, KeyFields
  <2> QED
    BY <1>2, <2>1, <2>2, <2>4
<1>11. L = UNION {GoneWith(NoneOf(o, c)) : c \in Dropping(o, parts)}
       /\ Dropping(o, parts) \subseteq Batches
  BY <1>2, ShedIs
<1>12. \A q \in Q : Key(q) \notin L
  <2> SUFFICES ASSUME NEW q \in Q, NEW c \in Dropping(o, parts), Key(q) \in GoneWith(NoneOf(o, c))
               PROVE  FALSE
    BY <1>11
  <2>1. c \in Batches /\ q \in PartsOf(o)
    BY <1>9, <1>11
  <2>2. q.batch = c
    BY <2>1, PartKeys DEF GoneWith
  <2>3. q.batch \in BatchesOf(parts)
    BY DEF ElemsOf, BatchesOf
  <2> QED
    BY <2>2, <2>3 DEF Dropping
<1> HIDE DEF L
<1>13. PICK g \in R : Belongs(o, g)
  BY DEF Rooted
<1>14. o.store # o.into
  BY <1>1, <1>13, BelongsFacts
<1>15. ASSUME NEW i \in DOMAIN o.parts
       PROVE  LET z == Zero(o, o.parts[i]) IN Next1(a, z) \cup Next1(a, Arrival(z)) \subseteq M
  <2> DEFINE z == Zero(o, o.parts[i])
  <2>1. z = NoneOf(o, o.parts[i].batch) /\ z \in PartsOf(o) /\ o.parts[i].batch \in Batches
    BY ZeroFacts DEF NoneOf
  <2>2. IsPartOf(z, o, o.parts[i].batch, 0, 0)
    BY <2>1, NoneFacts
  <2>3. Less(Stamp(o), Stamp(z))
    BY <2>1, PartNew
  <2> HIDE DEF z
  <2>4. z \in Sane /\ z \in Ops /\ z.store = o.store /\ z.into = o.into
    BY <2>2 DEF IsPartOf
  <2>5. ASSUME NEW p \in Next1(a, z) PROVE p \in M
    <3>1. p \in OpsOf(d) /\ p \in Ops
      BY <1>8, DatabaseFacts DEF Next1, OpsOf, Sound
    <3>2. Less(Stamp(z), Stamp(p))
      BY DEF Next1, Behind
    <3>3. Less(Stamp(o), Stamp(p))
      BY <1>1, <2>3, <2>4, <3>1, <3>2, StampOrder
    <3>4. Stamp(p) # Stamp(o)
      BY <1>1, <3>1, <3>3, OneWay
    <3>5. Key(p) # Key(o)
      BY <1>1, <3>1, <3>4, KeyFacts
    <3> QED
      BY <3>1, <3>5
  <2>6. ASSUME NEW p \in Next1(a, Arrival(z)) PROVE p \in M
    <3>1. p \in OpsOf(d) /\ p \in Ops
      BY <1>8, DatabaseFacts DEF Next1, OpsOf, Sound
    <3>2. p.store = Arrival(z).store
      BY DEF Next1, Behind
    <3>3. Arrival(z).store = z.into
      BY <2>4 DEF Arrival, Ops
    <3>4. Key(p) # Key(o)
      BY <1>1, <1>14, <2>4, <3>1, <3>2, <3>3, KeyFacts
    <3> QED
      BY <3>1, <3>4
  <2> QED
    BY <2>5, <2>6 DEF z
<1>16. Sound(f) /\ Reduced(a, f, L, M)
  <2>1. M \subseteq OpsOf(a)
    BY <1>8 DEF OpsOf
  <2> HIDE DEF M
  <2> QED
    BY <1>8, <1>15, <2>1, DroppedReduces DEF L
<1> HIDE DEF f
<1>17. Sound(saved) /\ Replaced(f, saved, r0) /\ saved.front = f.front
  BY <1>5, <1>6, <1>16, SaveReplaces
<1> HIDE DEF saved
<1>18. /\ Joins(saved.front, e.front, Next1(saved, o)) /\ e.main = saved.main
       /\ Later(saved, o) # {} => OnFront(e, Earliest(Later(saved, o)).op)
  BY <1>4, <1>17, PropagateJoins
<1>19. r0.op = v /\ r0.bal = b
  OBVIOUS
<1> HIDE DEF r0
<1>20. e.main = {r \in d.main : Key(r.op) \notin L /\ Key(r.op) # Key(o)} \cup {r0}
  BY <1>6, <1>8, <1>16, <1>17, <1>18, <1>19 DEF Replaced, Reduced
<1>21. Q \subseteq f.front
  BY <1>8, <1>10, <1>12, <1>16 DEF Reduced
<1>22. ASSUME NEW p \in f.front
       PROVE  /\ Key(p) \notin L
              /\ \/ p \in Q
                 \/ /\ \A q \in Q : Key(p) # Key(q)
                    /\ p \in d.front \/ (p \in M /\ ~ OnFront(d, p))
  <2>1. Key(p) \notin L /\ (p \in a.front \/ (p \in M /\ ~ OnFront(a, p)))
    BY <1>16 DEF Reduced
  <2>2. CASE p \in a.front
    BY <1>8, <2>1, <2>2
  <2>3. CASE p \in M /\ ~ OnFront(a, p)
    <3>1. \A q \in Q : Key(p) # Key(q)
      BY <1>8, <2>3 DEF OnFront
    <3>2. ~ OnFront(d, p)
      BY <1>8, <2>3, <3>1 DEF OnFront
    <3> QED
      BY <2>1, <2>3, <3>1, <3>2
  <2> QED
    BY <2>1, <2>2, <2>3
<1>23. \A p \in d.front : Key(p) \in L \/ p \in f.front \/ \E q \in Q : Key(p) = Key(q)
  BY <1>8, <1>16 DEF Reduced
<1>24. ASSUME NEW p \in e.front
       PROVE  /\ Key(p) \notin L
              /\ \/ p \in Q
                 \/ /\ \A q \in Q : Key(p) # Key(q)
                    /\ p \in d.front \/ (p \in OpsOf(d) /\ Key(p) # Key(o) /\ ~ OnFront(d, p))
  <2>1. CASE p \in f.front
    BY <1>22, <2>1
  <2>2. CASE p \notin f.front
    <3>1. p \in Next1(saved, o) /\ \A h \in f.front : Key(h) # Key(p)
      BY <1>17, <1>18, <2>2 DEF Joins
    <3>2. PICK r \in saved.main : r.op = p /\ Behind(o, p)
      BY <3>1 DEF Next1, OpsOf
    <3>3. p \in Ops
      BY <1>17, <3>2, DatabaseFacts DEF Sound
    <3>4. Key(p) # Key(o)
      <4>1. Stamp(p) # Stamp(o)
        BY <1>1, <3>2, <3>3, OneWay DEF Behind
      <4> QED
        BY <1>1, <3>3, <4>1, KeyFacts
    <3>5. r \in d.main /\ Key(p) \notin L
      BY <1>6, <1>18, <1>19, <1>20, <3>2, <3>4
    <3>6. \A q \in Q : Key(p) # Key(q)
      BY <1>21, <3>1
    <3>7. ~ OnFront(d, p)
      BY <1>23, <3>1, <3>5, <3>6 DEF OnFront
    <3> QED
      BY <3>2, <3>4, <3>5, <3>6, <3>7 DEF OpsOf
  <2> QED
    BY <2>1, <2>2
<1>25. \A p \in f.front : p \in e.front
  BY <1>17, <1>18 DEF Joins
<1>26. ASSUME NEW r \in e.main, r.op.store = o.store, r.op.batch = NoBatch,
              Less(Stamp(o), Stamp(r.op))
       PROVE  \E w \in e.front : /\ w.store = o.store /\ w.batch = NoBatch
                                 /\ Less(Stamp(o), Stamp(w)) /\ ~ Less(Stamp(r.op), Stamp(w))
  <2> DEFINE S == Later(saved, o)
             x == Earliest(S)
  <2>1. S \subseteq Chain(saved, o) /\ r \in S
    BY <1>18, <1>26 DEF Later, Chain, Virtual
  <2>2. x \in S /\ \A y \in S : y = x \/ Less(Stamp(x.op), Stamp(y.op))
    BY <1>17, <2>1, ChainFacts
  <2>3. OnFront(e, x.op)
    BY <1>18, <2>1
  <2>4. /\ x.op.store = o.store /\ x.op.batch = NoBatch /\ Less(Stamp(o), Stamp(x.op))
        /\ x \in saved.main
    BY <2>2 DEF Later, Chain, Virtual
  <2> HIDE DEF S, x
  <2>5. PICK w \in e.front : Key(w) = Key(x.op)
    BY <2>3 DEF OnFront
  <2>6. w \in Ops /\ x.op \in Ops /\ r.op \in Ops
    BY <1>3, <1>17, <2>4, DatabaseFacts DEF Sound
  <2>7. w.store = x.op.store /\ w.batch = x.op.batch /\ Stamp(w) = Stamp(x.op)
    BY <2>5, <2>6, KeyFacts
  <2>8. ~ Less(Stamp(r.op), Stamp(x.op))
    BY <2>1, <2>2, <2>6, OneWay
  <2> QED
    BY <2>4, <2>7, <2>8
<1>27. Q \subseteq e.front /\ \A p \in d.front : Key(p) \in L \/ p \in e.front \/ \E q \in Q : Key(p) = Key(q)
  BY <1>21, <1>23, <1>25
<1> HIDE DEF Q
<1>28. Distributes(d, e, o, parts)
  BY <1>20, <1>24, <1>26, <1>27 DEF Distributes, L, Q, r0, v, b
<1> QED
  BY <1>3, <1>28 DEF e, parts

(***************************************************************************)
(* What gives rise to what.                                                *)
(***************************************************************************)

(* An operation that takes goods from one store into another.              *)
Moving(o) == IsTransfer(o) /\ ~ Virtual(o)

(* Issues of one document.                                                 *)
LEMMA SameIssue ==
  ASSUME Orderly, NEW R, Meant(R), NEW o \in Ops, NEW p \in Ops, Rooted(o, R), Rooted(p, R),
         o.kind = "issue", p.kind = "issue", o.id = p.id
  PROVE  /\ o.store = p.store /\ o.into = p.into /\ o.date = p.date
         /\ ~ o.dep /\ ~ p.dep => Key(o) = Key(p)
         /\ ~ Virtual(o) /\ ~ Virtual(p) => o.dep = p.dep
<1>1. PICK e \in R : Belongs(o, e)
  BY DEF Rooted
<1>2. PICK f \in R : Belongs(p, f)
  BY DEF Rooted
<1>3. e = f
  BY <1>1, <1>2 DEF Belongs, Meant
<1>4. /\ o.store = e.store /\ o.into = e.into /\ (o.dep => Virtual(e))
      /\ ~ o.dep => o.batch = e.batch /\ Virtual(o) = Virtual(e)
  BY <1>1, BelongsFacts
<1>5. /\ p.store = e.store /\ p.into = e.into /\ (p.dep => Virtual(e))
      /\ ~ p.dep => p.batch = e.batch /\ Virtual(p) = Virtual(e)
  BY <1>2, <1>3, BelongsFacts
<1>6. o.date = p.date
  BY <1>1, <1>2, <1>3 DEF Belongs
<1>8. o.dep \in BOOLEAN /\ p.dep \in BOOLEAN
  BY DEF Ops
<1>7. ASSUME ~ o.dep, ~ p.dep PROVE Key(o) = Key(p)
  <2>1. o.dep = p.dep
    BY <1>7, <1>8
  <2>2. o.store = p.store /\ o.batch = p.batch
    BY <1>4, <1>5, <1>7
  <2> QED
    BY <1>6, <2>1, <2>2, KeyFields
<1> QED
  BY <1>4, <1>5, <1>6, <1>7, <1>8

LEMMA ArrivalKeys ==
  ASSUME Orderly, NEW R, Meant(R), NEW o \in Sane, NEW p \in Sane, Rooted(o, R), Rooted(p, R),
         Moving(o), Moving(p)
  PROVE  Key(Arrival(o)) = Key(Arrival(p)) <=> Key(o) = Key(p)
<1> DEFINE x == Arrival(o)
           y == Arrival(p)
<1>1. o \in Ops /\ p \in Ops /\ o.kind = "issue" /\ p.kind = "issue"
      /\ IsTransfer(o) /\ IsTransfer(p) /\ ~ Virtual(o) /\ ~ Virtual(p)
  BY SaneFacts DEF Moving, IsTransfer
<1>2. /\ x \in Ops /\ x.id = o.id /\ x.date = o.date /\ x.store = o.into
      /\ x.batch = o.batch /\ x.kind = "receive" /\ x.dep = TRUE
  BY <1>1, ArrivalFields
<1>3. /\ y \in Ops /\ y.id = p.id /\ y.date = p.date /\ y.store = p.into
      /\ y.batch = p.batch /\ y.kind = "receive" /\ y.dep = TRUE
  BY <1>1, ArrivalFields
<1> HIDE DEF x, y
<1>7. x.dep = y.dep
  BY <1>2, <1>3
<1>4. Key(x) = Key(y) <=> o.id = p.id /\ o.date = p.date /\ o.into = p.into /\ o.batch = p.batch
  <2>1. Key(x) = Key(y) <=> /\ x.date = y.date /\ x.kind = y.kind /\ x.store = y.store
                             /\ x.batch = y.batch /\ x.id = y.id /\ x.dep = y.dep
    BY <1>2, <1>3, KeyFields
  <2> QED
    BY <1>2, <1>3, <1>7, <2>1
<1>5. Key(o) = Key(p) <=> /\ o.date = p.date /\ o.store = p.store
                          /\ o.batch = p.batch /\ o.id = p.id /\ o.dep = p.dep
  BY <1>1, KeyFields
<1>6. o.id = p.id => o.store = p.store /\ o.into = p.into /\ o.date = p.date /\ o.dep = p.dep
  BY <1>1, SameIssue
<1> QED
  BY <1>4, <1>5, <1>6 DEF x, y

(* The key of the receive t causes.                                        *)
Sends(t, z) == Moving(t) /\ Key(Arrival(t)) = Key(z)

LEMMA SendsFacts ==
  ASSUME NEW t \in Sane, Moving(t)
  PROVE  /\ Arrival(t) \in Sane /\ Arrival(t) \in Ops /\ ~ Virtual(Arrival(t))
         /\ Arrival(t).kind = "receive" /\ Arrival(t).dep = TRUE
         /\ Arrival(t).id = t.id /\ Arrival(t).date = t.date /\ Arrival(t).qty = t.qty
         /\ Arrival(t).parts = <<>>
         /\ t.kind = "issue" /\ t \in Ops
<1>1. IsTransfer(t) /\ t.kind = "issue" /\ t \in Ops
  BY SaneFacts DEF Moving, IsTransfer
<1> QED
  BY <1>1, ArrivalFields

(* Receives that came from elsewhere, and issues that take from a batch    *)
(* for another.                                                            *)
Came(z)  == z.kind = "receive" /\ z.dep
Taking(p) == p.kind = "issue" /\ p.dep

(* What is stored and what waits on the front.                             *)
AllOps(d) == OpsOf(d) \cup d.front

(* No operation is empty.                                                  *)
AllFull(d) == \A p \in AllOps(d) : p.qty > 0

(* Dependent issues are those of a stored virtual one.                     *)
TakesFor(p, v) ==
  /\ Virtual(v) /\ v.kind = "issue"
  /\ p.batch \in BatchesOf(v.parts)
  /\ p = Part(v, p.batch, p.qty, p.cost)
AllTaken(d) == \A p \in AllOps(d) : Taking(p) => \E v \in OpsOf(d) : TakesFor(p, v)

(* What waits on the front took from the batches that what is stored did.  *)
SameParts(d) == \A r \in OpsOf(d), p \in d.front : Key(r) = Key(p) => r.parts = p.parts

(* A transfer's receive is as the transfer is: it is stored, or it waits   *)
(* and has not been looked at.                                             *)
AllSent(d, U) ==
  \A t \in OpsOf(d) : Moving(t) =>
    /\ \A p \in d.front : Key(p) = Key(Arrival(t)) => p = Arrival(t)
    /\ Arrival(t) \in OpsOf(d) \/ (Arrival(t) \in d.front /\ Arrival(t) \notin U)

(* A receive that came from elsewhere has its transfer.                    *)
AllCame(d) == \A z \in AllOps(d) : Came(z) => \E t \in OpsOf(d) : Sends(t, z)

(* A receive that came from elsewhere and was looked at is still stored;   *)
(* or its transfer was looked at; or what that was taken for was, and took *)
(* it back.                                                                *)
LookedAt(d, U, u) ==
  \/ u \in OpsOf(d)
  \/ \E w \in U : Sends(w, u)
  \/ /\ \E w \in U : Virtual(w) /\ w.kind = "issue" /\ w.id = u.id
     /\ \A t \in AllOps(d) : ~ Sends(t, u)
AllLookedAt(d, U) == \A u \in U \cup d.front : Came(u) => LookedAt(d, U, u)

Flowing(d, U) ==
  AllFull(d) /\ AllTaken(d) /\ SameParts(d) /\ AllSent(d, U) /\ AllCame(d) /\ AllLookedAt(d, U)

(* What the document e says is stored, or waits and has not been looked at.*)
Heard(d, U, e) ==
  /\ \A p \in d.front \cup U : Key(p) = Key(e) => p.qty = e.qty
  /\ \/ \E p \in OpsOf(d) : Key(p) = Key(e) /\ p.qty = e.qty
     \/ OnFront(d, e) /\ Unseen(U, e)

(* What all operations of a ledger on the way are.                         *)
LEMMA OnTheWayOps ==
  ASSUME Orderly, NEW R, Meant(R), NEW d, Sound(d), NEW U, U \subseteq Sane, Placed(d, U, R)
  PROVE  /\ \A p \in AllOps(d) \cup U : p \in Sane /\ p \in Ops /\ Rooted(p, R) /\ Plain(p)
         /\ \A p, q \in OpsOf(d) : Key(p) = Key(q) => p = q
         /\ \A p, q \in d.front : Key(p) = Key(q) => p = q
<1>1. d \in Databases /\ IsKeyed(d)
  BY DEF Sound
<1>2. \A p \in AllOps(d) \cup U : p \in Sane /\ p \in Ops /\ Rooted(p, R)
  BY <1>1, DatabaseFacts, SaneFacts DEF AllOps, OpsOf, Placed
<1>3. \A p \in AllOps(d) \cup U : Plain(p)
  BY <1>2, RootedFacts
<1>4. \A p, q \in OpsOf(d) : Key(p) = Key(q) => p = q
  BY <1>1 DEF OpsOf, IsKeyed
<1> QED
  BY <1>1, <1>2, <1>3, <1>4 DEF IsKeyed, KeysApart

(* The recalculation of o makes c of it, and e of d: F is the front before *)
(* what follows is put there.                                              *)
Calculates(d, e, o, c, F) ==
  /\ o \in d.front /\ ~ Virtual(o) /\ c \in Sane /\ Alike(c, o) /\ (c.kind = "receive" => c = o)
  /\ OpsOf(e) = {p \in OpsOf(d) : Key(p) # Key(o)} \cup {c}
  /\ \/ F = d.front \ {o} /\ (Moving(c) => c \in OpsOf(d))
     \/ Moving(c) /\ F = Without(d.front \ {o}, Arrival(c)) \cup {Arrival(c)}
  /\ Joins(F, e.front, {p \in OpsOf(d) : Key(p) # Key(o)})

LEMMA CalculatedFlows ==
  ASSUME Orderly, NEW R, Meant(R), NEW d, Sound(d), NEW U, U \subseteq Sane, Placed(d, U, R),
         Ordered(d.front, U), Flowing(d, U), NEW o, o \notin U, NEW e, NEW c, NEW F,
         Calculates(d, e, o, c, F)
  PROVE  Flowing(e, U \cup {o})
<1> DEFINE z == Arrival(c)
           V == U \cup {o}
           Moves == Moving(c)
<1>1. /\ o \in d.front /\ ~ Virtual(o) /\ c \in Sane /\ Alike(c, o) /\ (c.kind = "receive" => c = o)
      /\ OpsOf(e) = {p \in OpsOf(d) : Key(p) # Key(o)} \cup {c}
      /\ Joins(F, e.front, {p \in OpsOf(d) : Key(p) # Key(o)})
  BY DEF Calculates
<1>2. /\ \A p \in AllOps(d) \cup U : p \in Sane /\ p \in Ops /\ Rooted(p, R) /\ Plain(p)
      /\ \A p, q \in OpsOf(d) : Key(p) = Key(q) => p = q
      /\ \A p, q \in d.front : Key(p) = Key(q) => p = q
  BY OnTheWayOps
<1>3. o \in Sane /\ o \in Ops /\ Rooted(o, R) /\ Plain(o) /\ o \in AllOps(d)
  BY <1>1, <1>2 DEF AllOps
<1>4. /\ c \in Ops /\ Key(c) = Key(o) /\ ~ Virtual(c) /\ Rooted(c, R) /\ (Moving(c) <=> Moving(o))
      /\ c.qty = o.qty /\ c.kind = o.kind /\ c.dep = o.dep /\ c.parts = o.parts /\ c.id = o.id
  <2>1. /\ c \in Ops /\ Key(c) = Key(o) /\ (Virtual(c) <=> Virtual(o))
        /\ (IsTransfer(c) <=> IsTransfer(o)) /\ \A g : Belongs(c, g) <=> Belongs(o, g)
    BY <1>1, AlikeFacts, SaneFacts
  <2>2. c.qty = o.qty /\ c.kind = o.kind /\ c.parts = o.parts /\ c.id = o.id
    BY <1>1 DEF Alike
  <2>3. c.dep = o.dep
    BY <1>1 DEF Alike
  <2> QED
    BY <1>1, <1>3, <2>1, <2>2, <2>3 DEF Rooted, Moving
<1>5. Moves => /\ z \in Sane /\ z \in Ops /\ ~ Virtual(z) /\ z.kind = "receive" /\ z.dep = TRUE
               /\ z.id = c.id /\ z.qty = c.qty /\ z.parts = <<>>
               /\ c.kind = "issue"
  BY <1>1, SendsFacts
<1>6. ASSUME Moves, NEW t \in Sane, Moving(t), Rooted(t, R)
      PROVE  Key(Arrival(t)) = Key(z) <=> Key(t) = Key(o)
  BY <1>1, <1>4, <1>6, ArrivalKeys
<1>7. o.kind = "issue" \/ o.kind = "receive"
  BY <1>3 DEF Plain
<1> HIDE DEF z
<1>8. \A p \in e.front :
        \/ p \in d.front /\ Key(p) # Key(o)
        \/ Moves /\ p = z
        \/ p \in OpsOf(d) /\ Key(p) # Key(o) /\ \A f \in F : Key(f) # Key(p)
  BY <1>1, <1>2 DEF Calculates, Joins, Without, z
<1>9. /\ \A p \in d.front : p = o \/ p \in F \/ (Moves /\ Key(p) = Key(z))
      /\ F \subseteq e.front
      /\ Moves => c \in OpsOf(d) \/ z \in F
      /\ \A p \in F : (p \in d.front /\ Key(p) # Key(o)) \/ (Moves /\ p = z)
      /\ z \in F \/ F = d.front \ {o}
  BY <1>1, <1>2 DEF Calculates, Joins, Without, z
<1>10. \A p \in OpsOf(e) : p = c \/ (p \in OpsOf(d) /\ Key(p) # Key(o))
  BY <1>1
<1>11. \A p \in OpsOf(d) : Key(p) # Key(o) => p \in OpsOf(e)
  BY <1>1
<1>12. c \in OpsOf(e)
  BY <1>1
<1>13. \A p \in AllOps(e) : p \in AllOps(d) \/ p = c \/ (Moves /\ p = z)
  BY <1>8, <1>10 DEF AllOps
<1> HIDE DEF Moves
<1>14. AllFull(e)
  <2>1. \A p \in AllOps(d) : p.qty > 0
    BY DEF Flowing, AllFull
  <2> QED
    BY <1>3, <1>4, <1>5, <1>13, <2>1 DEF AllFull
<1>15. AllTaken(e)
  <2> SUFFICES ASSUME NEW p \in AllOps(e), Taking(p) PROVE \E v \in OpsOf(e) : TakesFor(p, v)
    BY DEF AllTaken
  <2>1. \A q \in AllOps(d) : Taking(q) => \E v \in OpsOf(d) : TakesFor(q, v)
    BY DEF Flowing, AllTaken
  <2>2. \A v \in OpsOf(d) : Virtual(v) => v \in OpsOf(e)
    <3> TAKE v \in OpsOf(d)
    <3> HAVE Virtual(v)
    <3>1. Key(v) # Key(o)
      <4>1. v \in Ops
        BY <1>2 DEF AllOps
      <4> QED
        BY <1>1, <1>3, <4>1, KeyFacts
    <3> QED
      BY <1>11, <3>1
  <2>3. CASE p \in AllOps(d)
    <3>1. PICK v \in OpsOf(d) : TakesFor(p, v)
      BY <2>1, <2>3
    <3> QED
      BY <2>2, <3>1 DEF TakesFor
  <2>4. CASE p = c
    <3>1. Taking(o)
      BY <1>4, <2>4 DEF Taking
    <3>2. PICK v \in OpsOf(d) : TakesFor(o, v)
      BY <1>3, <2>1, <3>1
    <3>3. v \in Sane /\ o.batch \in Batches /\ o.qty \in Int /\ o.cost \in Int
          /\ c.batch = o.batch /\ c.cost \in Int /\ c.qty = o.qty
      BY <1>1, <1>2, <1>3, <1>4 DEF AllOps, Ops, Alike
    <3> DEFINE x == Part(v, o.batch, o.qty, o.cost)
               y == Part(v, o.batch, o.qty, c.cost)
    <3>4. IsPartOf(x, v, o.batch, o.qty, o.cost) /\ IsPartOf(y, v, o.batch, o.qty, c.cost)
      BY <3>3, PartFields
    <3>5. o = x
      BY <3>2 DEF TakesFor
    <3> HIDE DEF x, y
    <3>6. /\ y \in Ops /\ y.id = x.id /\ y.date = x.date /\ y.store = x.store /\ y.into = x.into
          /\ y.batch = x.batch /\ y.kind = x.kind /\ y.qty = x.qty /\ y.cost = c.cost
          /\ y.parts = x.parts
      BY <3>4 DEF IsPartOf
    <3>7. y.auto = x.auto
      BY <3>4 DEF IsPartOf
    <3>8. y.dep = x.dep
      BY <3>4 DEF IsPartOf
    <3>9. /\ c.id = x.id /\ c.date = x.date /\ c.store = x.store /\ c.into = x.into
          /\ c.batch = x.batch /\ c.kind = x.kind /\ c.qty = x.qty /\ c.parts = x.parts
      BY <1>1, <3>5 DEF Alike
    <3>10. c.auto = x.auto
      BY <1>1, <3>5 DEF Alike
    <3>11. c.dep = x.dep
      BY <1>1, <3>5 DEF Alike
    <3>12. c = y
      BY <1>4, <3>6, <3>7, <3>8, <3>9, <3>10, <3>11, SameOp
    <3>13. TakesFor(c, v)
      BY <3>2, <3>3, <3>12 DEF TakesFor, y
    <3> QED
      BY <2>2, <2>4, <3>2, <3>13 DEF TakesFor
  <2>5. CASE Moves /\ p = z
    BY <1>5, <2>5 DEF Taking
  <2> QED
    BY <1>13, <2>3, <2>4, <2>5
<1>16. SameParts(e)
  <2> SUFFICES ASSUME NEW r \in OpsOf(e), NEW p \in e.front, Key(r) = Key(p)
               PROVE  r.parts = p.parts
    BY DEF SameParts
  <2>1. r \in Sane /\ p \in Sane /\ r \in Ops /\ p \in Ops
    BY <1>1, <1>2, <1>4, <1>5, <1>8, <1>10 DEF AllOps
  <2>2. Virtual(r) <=> Virtual(p)
    BY <2>1, KeyFacts
  <2>3. CASE ~ Virtual(r)
    BY <2>1, <2>2, <2>3, SaneFacts
  <2>4. CASE Virtual(r)
    <3>1. r \in OpsOf(d) /\ (p \in d.front \/ p \in OpsOf(d))
      BY <1>4, <1>5, <1>8, <1>10, <2>2, <2>4
    <3> QED
      BY <1>2, <3>1 DEF Flowing, SameParts
  <2> QED
    BY <2>3, <2>4
<1>17. ASSUME NEW t \in OpsOf(d), Moving(t)
       PROVE  /\ t \in Sane /\ t \in Ops /\ Rooted(t, R)
              /\ \A p \in d.front : Key(p) = Key(Arrival(t)) => p = Arrival(t)
              /\ Arrival(t) \in OpsOf(d) \/ (Arrival(t) \in d.front /\ Arrival(t) \notin U)
              /\ Arrival(t) \in Ops /\ Arrival(t).kind = "receive" /\ Arrival(t).dep = TRUE
  BY <1>2, <1>17, SendsFacts DEF AllOps, Flowing, AllSent
<1>18. AllCame(e)
  <2> SUFFICES ASSUME NEW x \in AllOps(e), Came(x) PROVE \E t \in OpsOf(e) : Sends(t, x)
    BY DEF AllCame
  <2>1. ASSUME NEW y \in AllOps(d), Came(y) PROVE \E t \in OpsOf(e) : Sends(t, y)
    <3>1. PICK t \in OpsOf(d) : Sends(t, y)
      BY <2>1 DEF Flowing, AllCame
    <3>2. CASE Key(t) # Key(o)
      BY <1>11, <3>1, <3>2
    <3>3. CASE Key(t) = Key(o)
      <4>1. t \in Sane /\ t \in Ops /\ Rooted(t, R) /\ Moving(t)
        BY <1>17, <3>1 DEF Sends
      <4>2. Moving(c)
        <5>1. t.kind = "issue" /\ o.kind = "issue" /\ t.id = o.id
          BY <1>3, <3>3, <4>1, KeyFacts DEF Moving, IsTransfer
        <5>2. t.into = o.into
          BY <1>3, <4>1, <5>1, SameIssue
        <5> QED
          BY <1>1, <1>4, <4>1, <5>1, <5>2 DEF Moving, IsTransfer
      <4>3. Key(Arrival(t)) = Key(Arrival(c))
        BY <1>1, <1>4, <3>3, <4>1, <4>2, ArrivalKeys
      <4> QED
        BY <1>12, <3>1, <4>2, <4>3 DEF Sends
    <3> QED
      BY <3>2, <3>3
  <2>2. CASE x \in AllOps(d)
    BY <2>1, <2>2
  <2>3. CASE x = c
    <3>1. x = o
      BY <1>1, <2>3 DEF Came
    <3> QED
      BY <1>3, <2>1, <3>1
  <2>4. CASE Moves /\ x = z
    BY <1>12, <2>4 DEF Sends, Moves, z
  <2> QED
    BY <1>13, <2>2, <2>3, <2>4
(* A receive on the front is what its transfer says.                       *)
<1>19. ASSUME Came(o) PROVE \E t \in OpsOf(d) : Moving(t) /\ o = Arrival(t)
  BY <1>1, <1>3, <1>17, <1>19 DEF Flowing, AllCame, Sends
<1>20. AllLookedAt(e, V)
  <2> SUFFICES ASSUME NEW u \in V \cup e.front, Came(u) PROVE LookedAt(e, V, u)
    BY DEF AllLookedAt
  <2>1. CASE Moves /\ u = z
    <3>1. Sends(o, u)
      <4>1. Moving(o)
        BY <1>4, <2>1 DEF Moves
      <4>2. Key(Arrival(o)) = Key(z)
        BY <1>3, <1>6, <2>1, <4>1
      <4> QED
        BY <2>1, <4>1, <4>2 DEF Sends
    <3> QED
      BY <3>1 DEF LookedAt
  <2>2. CASE u = o
    <3>1. u = c
      BY <1>1, <1>4, <2>2 DEF Came
    <3> QED
      BY <1>12, <3>1 DEF LookedAt
  <2>3. CASE u \in U \cup d.front /\ u # o
    <3>1. LookedAt(d, U, u)
      BY <2>3 DEF Flowing, AllLookedAt
    <3>2. CASE u \in OpsOf(d)
      <4>1. CASE Key(u) # Key(o)
        BY <1>11, <3>2, <4>1 DEF LookedAt
      <4>2. CASE Key(u) = Key(o)
        <5>1. u.kind = "receive" /\ u.dep /\ u \in Ops
          BY <1>2, <3>2 DEF Came, AllOps
        <5>2. Came(o)
          BY <1>3, <4>2, <5>1, KeyFacts DEF Came
        <5>3. PICK t \in OpsOf(d) : Moving(t) /\ o = Arrival(t)
          BY <1>19, <5>2
        <5>4. LookedAt(d, U, o)
          BY <1>1, <5>2 DEF Flowing, AllLookedAt
        <5>5. o \notin OpsOf(d)
          BY <1>2, <2>3, <3>2, <4>2
        <5>6. t \in AllOps(d) /\ Sends(t, o)
          BY <5>3 DEF AllOps, Sends
        <5>7. PICK w \in U : Sends(w, o)
          BY <5>4, <5>5, <5>6 DEF LookedAt
        <5>8. Sends(w, u)
          BY <4>2, <5>7 DEF Sends
        <5> QED
          BY <5>8 DEF LookedAt
      <4> QED
        BY <4>1, <4>2
    <3>3. CASE \E w \in U : Sends(w, u)
      BY <3>3 DEF LookedAt
    <3>4. CASE /\ \E w \in U : Virtual(w) /\ w.kind = "issue" /\ w.id = u.id
               /\ \A t \in AllOps(d) : ~ Sends(t, u)
      <4>1. ASSUME NEW t \in AllOps(e), Sends(t, u) PROVE FALSE
        <5>1. CASE t \in AllOps(d)
          BY <3>4, <4>1, <5>1
        <5>2. CASE t = c
          <6>1. Moving(c) /\ Moving(o)
            BY <1>4, <4>1, <5>2 DEF Sends
          <6>2. Key(Arrival(o)) = Key(Arrival(c))
            BY <1>1, <1>3, <1>4, <6>1, ArrivalKeys
          <6>3. Sends(o, u)
            BY <4>1, <5>2, <6>1, <6>2 DEF Sends
          <6> QED
            BY <1>3, <3>4, <6>3
        <5>3. CASE Moves /\ t = z
          BY <1>5, <4>1, <5>3 DEF Sends, Moving, IsTransfer
        <5> QED
          BY <1>13, <5>1, <5>2, <5>3
      <4> QED
        BY <3>4, <4>1 DEF LookedAt
    <3> QED
      BY <3>1, <3>2, <3>3, <3>4 DEF LookedAt
  <2>4. CASE u \in OpsOf(d) /\ Key(u) # Key(o)
    BY <1>11, <2>4 DEF LookedAt
  <2> QED
    BY <1>8, <2>1, <2>2, <2>3, <2>4
<1>21. AllSent(e, V)
  <2> SUFFICES ASSUME NEW t \in OpsOf(e), Moving(t)
               PROVE  /\ \A p \in e.front : Key(p) = Key(Arrival(t)) => p = Arrival(t)
                      /\ \/ Arrival(t) \in OpsOf(e)
                         \/ Arrival(t) \in e.front /\ Arrival(t) \notin V
    BY DEF AllSent
  <2> DEFINE y == Arrival(t)
  <2>1. ASSUME NEW x \in Ops, x.kind = "receive", x.dep, x \in OpsOf(d), Key(x) = Key(o)
        PROVE  o \in OpsOf(e)
    BY <1>1, <1>3, <1>4, <1>12, <2>1, KeyFacts
  <2>2. CASE t = c /\ ~ (c \in OpsOf(d))
    <3>1. Moves /\ y = z /\ z \in F
      BY <1>9, <2>2 DEF Moves, z
    <3>2. \A p \in e.front : Key(p) = Key(y) => p = y
      <4> TAKE p \in e.front
      <4> HAVE Key(p) = Key(y)
      <4>1. CASE p \in F
        BY <1>1, <3>1, <4>1, <2>2 DEF Calculates, Without, z
      <4>2. CASE p \notin F
        BY <1>1, <3>1, <4>2 DEF Joins
      <4> QED
        BY <4>1, <4>2
    <3>3. CASE z \notin U
      <4>1. z # o
        BY <1>4, <1>5, <3>1
      <4> QED
        BY <1>9, <3>1, <3>2, <3>3, <4>1
    <3>4. CASE z \in U
      <4>1. Came(z)
        BY <1>5, <3>1 DEF Came
      <4>2. LookedAt(d, U, z)
        BY <3>4, <4>1 DEF Flowing, AllLookedAt
      <4>3. Moving(o) /\ Sends(o, z)
        <5>1. Moving(o)
          BY <1>4, <3>1 DEF Moves
        <5> QED
          BY <1>3, <1>6, <3>1, <5>1 DEF Sends
      <4>4. ~ \E w \in U : Sends(w, z)
        <5> SUFFICES ASSUME NEW w \in U, Sends(w, z) PROVE FALSE
          OBVIOUS
        <5>1. w \in Sane /\ w \in Ops /\ Rooted(w, R) /\ Moving(w)
          BY <1>2 DEF Sends
        <5>2. Key(w) = Key(o)
          BY <1>6, <3>1, <5>1 DEF Sends
        <5>3. Passed(w, o)
          BY <1>1 DEF Ordered
        <5>4. w.kind = "issue" /\ o.kind = "issue" /\ w.date = o.date /\ o.date \in Nat
          BY <1>3, <4>3, <5>1, <5>2, KeyFacts, Numbers DEF Moving, IsTransfer
        <5>5. Less(Key(w), Key(o))
          BY <5>3, <5>4 DEF Passed
        <5> QED
          BY <1>3, <5>1, <5>2, <5>5, OneWay
      <4>5. z \in OpsOf(d)
        BY <1>3, <4>2, <4>3, <4>4 DEF LookedAt
      <4>6. Key(z) # Key(o)
        BY <1>3, <1>4, <1>5, <3>1, KeyFacts
      <4> QED
        BY <1>11, <3>1, <3>2, <4>5, <4>6
    <3> QED
      BY <3>3, <3>4
  <2>3. CASE t \in OpsOf(d)
    <3>1. /\ t \in Sane /\ t \in Ops /\ Rooted(t, R)
          /\ \A p \in d.front : Key(p) = Key(y) => p = y
          /\ y \in OpsOf(d) \/ (y \in d.front /\ y \notin U)
          /\ y \in Ops /\ y.kind = "receive" /\ y.dep = TRUE
      BY <1>17, <2>3
    <3>2. Moves /\ Key(z) = Key(y) => t = c
      <4> SUFFICES ASSUME Moves, Key(z) = Key(y) PROVE t = c
        OBVIOUS
      <4>1. Key(t) = Key(o)
        BY <1>6, <3>1
      <4> QED
        BY <1>10, <4>1
    <3> HIDE DEF y
    <3>3. y = o \/ y \in OpsOf(d) \/ y \in F
      BY <1>9, <3>1, <3>2 DEF z, y
    <3>4. \A p \in e.front : Key(p) = Key(y) => p = y
      <4> TAKE p \in e.front
      <4> HAVE Key(p) = Key(y)
      <4>1. CASE p \in d.front
        BY <3>1, <4>1
      <4>2. CASE Moves /\ p = z
        BY <3>2, <4>2 DEF z, y
      <4>3. CASE p \in OpsOf(d) /\ Key(p) # Key(o) /\ \A f \in F : Key(f) # Key(p)
        BY <1>2, <3>3, <4>3
      <4> QED
        BY <1>8, <4>1, <4>2, <4>3
    <3>5. CASE y = o
      <4>1. c = o
        BY <1>1, <1>4, <3>1, <3>5
      <4> QED
        BY <1>12, <3>4, <3>5, <4>1 DEF y
    <3>6. CASE y # o /\ y \in OpsOf(d)
      <4>1. CASE Key(y) # Key(o)
        BY <1>11, <3>4, <3>6, <4>1 DEF y
      <4>2. CASE Key(y) = Key(o)
        BY <1>1, <3>1, <3>6, <4>2
      <4> QED
        BY <4>1, <4>2
    <3>7. CASE y # o /\ y \notin OpsOf(d)
      BY <1>9, <3>1, <3>3, <3>4, <3>7 DEF y
    <3> QED
      BY <3>5, <3>6, <3>7
  <2> QED
    BY <1>10, <2>2, <2>3
<1> QED
  BY <1>14, <1>15, <1>16, <1>18, <1>20, <1>21 DEF Flowing

(* What an issue lost: parts of it, and the receives of those.             *)
LEMMA NoneRooted ==
  ASSUME Orderly, NEW R, Meant(R), NEW o \in Sane, Rooted(o, R), Virtual(o), o.kind = "issue",
         NEW b \in Batches
  PROVE  LET z == NoneOf(o, b)
         IN  /\ z \in Sane /\ z \in Ops /\ Rooted(z, R) /\ ~ Virtual(z) /\ z.dep = TRUE
             /\ z.kind = "issue" /\ z.id = o.id /\ z.date = o.date /\ z.store = o.store
             /\ z.into = o.into /\ z.batch = b
             /\ Moving(z) <=> IsTransfer(o)
             /\ GoneWith(z) = {Key(z)} \cup (IF IsTransfer(o) THEN {Key(Arrival(z))} ELSE {})
<1> DEFINE z == NoneOf(o, b)
<1>1. IsPartOf(z, o, b, 0, 0)
  BY NoneFacts
<1>2. z \in PartsOf(o)
  BY <1>1 DEF IsPartOf
<1>3. Rooted(z, R)
  BY <1>2, PartNew
<1> HIDE DEF z
<1>4. ~ Virtual(z) /\ (IsTransfer(z) <=> IsTransfer(o))
  BY <1>1 DEF IsPartOf, Virtual, IsTransfer
<1>5. GoneWith(z) = {Key(z)} \cup (IF IsTransfer(o) THEN {Key(Arrival(z))} ELSE {})
  BY <1>4 DEF GoneWith
<1> QED
  BY <1>1, <1>3, <1>4, <1>5 DEF z, IsPartOf, Moving

LEMMA ShedFacts ==
  ASSUME Orderly, NEW R, Meant(R), NEW o \in Sane, Rooted(o, R), Virtual(o), o.kind = "issue",
         NEW parts \in Seq(PartsOf(o))
  PROVE  /\ \A p \in Ops : Key(p) \in ShedKeys(o, parts) =>
              /\ p.dep /\ p.id = o.id
              /\ p.kind = "issue" => p.batch \in Dropping(o, parts)
         /\ \A b \in Dropping(o, parts) : Key(NoneOf(o, b)) \in ShedKeys(o, parts)
         /\ \A t \in Sane : Moving(t) /\ Rooted(t, R)
              => (Key(t) \in ShedKeys(o, parts) <=> Key(Arrival(t)) \in ShedKeys(o, parts))
<1> DEFINE L == ShedKeys(o, parts)
           D == Dropping(o, parts)
<1>1. L = UNION {GoneWith(NoneOf(o, b)) : b \in D} /\ D \subseteq Batches
  BY ShedIs
<1> HIDE DEF L, D
<1>2. \A b \in D :
        /\ NoneOf(o, b) \in Sane /\ NoneOf(o, b) \in Ops /\ Rooted(NoneOf(o, b), R)
        /\ NoneOf(o, b).dep = TRUE /\ NoneOf(o, b).kind = "issue"
        /\ NoneOf(o, b).id = o.id /\ NoneOf(o, b).into = o.into /\ NoneOf(o, b).batch = b
        /\ Moving(NoneOf(o, b)) <=> IsTransfer(o)
        /\ GoneWith(NoneOf(o, b)) = {Key(NoneOf(o, b))}
              \cup (IF IsTransfer(o) THEN {Key(Arrival(NoneOf(o, b)))} ELSE {})
  BY <1>1, NoneRooted
<1>3. \A k : k \in L <=> \E b \in D : \/ k = Key(NoneOf(o, b))
                                      \/ IsTransfer(o) /\ k = Key(Arrival(NoneOf(o, b)))
  BY <1>1, <1>2
<1>4. \A b \in D : IsTransfer(o) =>
        /\ Arrival(NoneOf(o, b)) \in Ops /\ Arrival(NoneOf(o, b)).kind = "receive"
        /\ Arrival(NoneOf(o, b)).dep = TRUE /\ Arrival(NoneOf(o, b)).id = o.id
  BY <1>2, SendsFacts
<1>5. ASSUME NEW p \in Ops, Key(p) \in L
      PROVE  p.dep /\ p.id = o.id /\ (p.kind = "issue" => p.batch \in D)
  <2>1. PICK b \in D : \/ Key(p) = Key(NoneOf(o, b))
                       \/ IsTransfer(o) /\ Key(p) = Key(Arrival(NoneOf(o, b)))
    BY <1>3, <1>5
  <2>2. CASE Key(p) = Key(NoneOf(o, b))
    BY <1>2, <2>2, KeyFacts
  <2>3. CASE IsTransfer(o) /\ Key(p) = Key(Arrival(NoneOf(o, b)))
    BY <1>4, <2>3, KeyFacts
  <2> QED
    BY <2>1, <2>2, <2>3
<1>6. \A b \in D : Key(NoneOf(o, b)) \in L
  BY <1>3
<1>7. ASSUME NEW t \in Sane, Moving(t), Rooted(t, R)
      PROVE  Key(t) \in L <=> Key(Arrival(t)) \in L
  <2>1. t \in Ops /\ t.kind = "issue" /\ Arrival(t) \in Ops /\ Arrival(t).kind = "receive"
    BY <1>7, SendsFacts
  <2>2. ASSUME Key(t) \in L PROVE Key(Arrival(t)) \in L
    <3>1. PICK b \in D : \/ Key(t) = Key(NoneOf(o, b))
                         \/ IsTransfer(o) /\ Key(t) = Key(Arrival(NoneOf(o, b)))
      BY <1>3, <2>2
    <3>2. Key(t) = Key(NoneOf(o, b))
      BY <1>4, <2>1, <3>1, KeyFacts
    <3>3. t.id = o.id
      BY <1>2, <2>1, <3>2, KeyFacts
    <3>4. o \in Ops /\ t.into = o.into
      <4>1. o \in Ops
        BY SaneFacts
      <4> QED
        BY <1>7, <2>1, <3>3, <4>1, SameIssue
    <3>5. IsTransfer(o)
      BY <1>7, <3>4 DEF Moving, IsTransfer
    <3>6. Key(Arrival(t)) = Key(Arrival(NoneOf(o, b)))
      BY <1>2, <1>7, <3>2, <3>5, ArrivalKeys
    <3> QED
      BY <1>3, <3>5, <3>6
  <2>3. ASSUME Key(Arrival(t)) \in L PROVE Key(t) \in L
    <3>1. PICK b \in D : \/ Key(Arrival(t)) = Key(NoneOf(o, b))
                         \/ IsTransfer(o) /\ Key(Arrival(t)) = Key(Arrival(NoneOf(o, b)))
      BY <1>3, <2>3
    <3>2. IsTransfer(o) /\ Key(Arrival(t)) = Key(Arrival(NoneOf(o, b)))
      BY <1>2, <2>1, <3>1, KeyFacts
    <3>3. Key(t) = Key(NoneOf(o, b))
      BY <1>2, <1>7, <3>2, ArrivalKeys
    <3> QED
      BY <1>3, <3>3
  <2> QED
    BY <2>2, <2>3
<1> QED
  BY <1>5, <1>6, <1>7 DEF L, D

LEMMA DistributedFlows ==
  ASSUME Orderly, NEW R, Meant(R), NEW d, Sound(d), NEW U, U \subseteq Sane, Placed(d, U, R),
         Ordered(d.front, U), Flowing(d, U),
         NEW o \in d.front, o \notin U, Virtual(o), o.kind = "issue",
         NEW rest, rest.main = d.main, rest.front = d.front \ {o},
         NEW parts \in Seq(PartsOf(o)), parts \in Seq(Made), parts # <<>>,
         \A i \in DOMAIN parts : parts[i].qty > 0,
         NEW e, Distributes(rest, e, o, parts)
  PROVE  Flowing(e, U \cup {o})
<1> DEFINE V == U \cup {o}
           L == ShedKeys(o, parts)
           Q == ElemsOf(parts)
           v == With(o, parts)
<1>1. /\ \A p \in AllOps(d) \cup U : p \in Sane /\ p \in Ops /\ Rooted(p, R) /\ Plain(p)
      /\ \A p, q \in OpsOf(d) : Key(p) = Key(q) => p = q
      /\ \A p, q \in d.front : Key(p) = Key(q) => p = q
  BY OnTheWayOps
<1>2. o \in Sane /\ o \in Ops /\ Rooted(o, R) /\ Plain(o) /\ o \in AllOps(d)
  BY <1>1 DEF AllOps
<1>3. /\ v \in Sane /\ Virtual(v) /\ v.parts = Dependants(parts) /\ Key(v) = Key(o)
      /\ v.id = o.id /\ v.date = o.date /\ v.store = o.store /\ v.into = o.into
      /\ v.kind = o.kind /\ v.qty = o.qty /\ v.dep = o.dep
  BY <1>2, WithFacts
<1>4. \A q \in Q : /\ q \in PartsOf(o) /\ q \in Sane /\ q \in Ops /\ q.kind = "issue" /\ q.dep = TRUE
                   /\ q.id = o.id /\ q.qty > 0 /\ ~ Virtual(q) /\ Rooted(q, R)
                   /\ q = Part(o, q.batch, q.qty, q.cost) /\ q.batch \in Batches
                   /\ q.qty \in Int /\ q.cost \in Int /\ q.batch \in BatchesOf(parts)
  <2> TAKE q \in Q
  <2>1. PICK i \in DOMAIN parts : parts[i] = q
    BY DEF ElemsOf
  <2>2. q \in PartsOf(o) /\ q.qty > 0 /\ q.batch \in BatchesOf(parts)
    BY <2>1 DEF BatchesOf
  <2>3. PICK b \in Batches, n \in Int, m \in Int : q = Part(o, b, n, m)
    BY <2>2 DEF PartsOf
  <2>4. IsPartOf(q, o, b, n, m) /\ Rooted(q, R)
    BY <1>2, <2>2, <2>3, PartFields, PartNew
  <2>5. ~ Virtual(q)
    BY <2>4 DEF IsPartOf, Virtual
  <2> QED
    BY <2>2, <2>3, <2>4, <2>5 DEF IsPartOf
<1>5. /\ \A p \in Ops : Key(p) \in L =>
           p.dep /\ p.id = o.id /\ (p.kind = "issue" => p.batch \in Dropping(o, parts))
      /\ \A b \in Dropping(o, parts) : Key(NoneOf(o, b)) \in L
      /\ \A t \in Sane : Moving(t) /\ Rooted(t, R) => (Key(t) \in L <=> Key(Arrival(t)) \in L)
  BY <1>2, ShedFacts
<1> HIDE DEF L, Q, v
<1>6. OpsOf(e) = {p \in OpsOf(d) : Key(p) \notin L /\ Key(p) # Key(o)} \cup {v}
  <2> DEFINE r0 == [op |-> v, bal |-> OnHand(rest, o, NoBatch)]
  <2>1. e.main = {r \in d.main : Key(r.op) \notin L /\ Key(r.op) # Key(o)} \cup {r0}
    BY DEF Distributes, L, v
  <2>2. r0.op = v
    OBVIOUS
  <2> HIDE DEF r0
  <2> QED
    BY <2>1, <2>2 DEF OpsOf
<1>7. /\ Q \subseteq e.front
      /\ \A p \in e.front : /\ Key(p) \notin L
                            /\ \/ p \in Q
                               \/ p \in d.front /\ Key(p) # Key(o) /\ \A q \in Q : Key(p) # Key(q)
                               \/ p \in OpsOf(d) /\ Key(p) # Key(o) /\ ~ OnFront(d, p)
      /\ \A p \in d.front : p = o \/ Key(p) \in L \/ p \in e.front \/ \E q \in Q : Key(p) = Key(q)
  BY <1>1 DEF Distributes, L, Q, OnFront, OpsOf
<1>8. \A p \in AllOps(e) : p \in AllOps(d) \/ p = v \/ p \in Q
  BY <1>6, <1>7 DEF AllOps
<1>9. \A p \in OpsOf(d) : Key(p) \notin L /\ Key(p) # Key(o) => p \in OpsOf(e)
  BY <1>6
<1>10. v \in OpsOf(e) /\ v \in Ops
  BY <1>3, <1>6, SaneFacts
<1>11. \A p \in OpsOf(e) : p = v \/ (p \in OpsOf(d) /\ Key(p) \notin L /\ Key(p) # Key(o))
  BY <1>6
<1>12. \A p \in Ops : Key(p) = Key(o) => Virtual(p) /\ ~ p.dep /\ p.kind = "issue"
  <2> TAKE p \in Ops
  <2> HAVE Key(p) = Key(o)
  <2>1. o.kind = p.kind /\ o.dep = p.dep /\ o.batch = p.batch
    BY <1>2, KeyFields
  <2>2. ~ o.dep
    BY DEF Virtual
  <2> QED
    BY <2>1, <2>2 DEF Virtual
<1>13. AllFull(e)
  <2>1. \A p \in AllOps(d) : p.qty > 0
    BY DEF Flowing, AllFull
  <2> QED
    BY <1>2, <1>3, <1>4, <1>8, <2>1 DEF AllFull
<1>14. AllTaken(e)
  <2> SUFFICES ASSUME NEW p \in AllOps(e), Taking(p) PROVE \E w \in OpsOf(e) : TakesFor(p, w)
    BY DEF AllTaken
  <2>0. BatchesOf(v.parts) = BatchesOf(parts)
    <3>1. DOMAIN Dependants(parts) = DOMAIN parts
          /\ \A i \in DOMAIN parts : Dependants(parts)[i].batch = parts[i].batch
      BY DEF Dependants
    <3> QED
      BY <1>3, <3>1 DEF BatchesOf
  <2>1. CASE p \in Q
    <3>1. p = Part(v, p.batch, p.qty, p.cost)
      <4>1. p = Part(o, p.batch, p.qty, p.cost) /\ p.batch \in Batches /\ p.qty \in Int /\ p.cost \in Int
        BY <1>4, <2>1
      <4>2. Part(o, p.batch, p.qty, p.cost) = Part(v, p.batch, p.qty, p.cost)
        BY <1>2, <1>3, <4>1, PartSame
      <4> QED
        BY <4>1, <4>2
    <3> QED
      BY <1>3, <1>4, <1>10, <2>0, <2>1, <3>1 DEF TakesFor
  <2>2. CASE p = v
    BY <1>3, <2>2 DEF Taking, Virtual
  <2>3. CASE p \in AllOps(d) /\ p \notin Q /\ p # v
    <3>1. PICK w \in OpsOf(d) : TakesFor(p, w)
      BY <2>3 DEF Flowing, AllTaken
    <3>2. Virtual(w) /\ w.kind = "issue" /\ w \in Ops /\ w \in Sane /\ Rooted(w, R)
      BY <1>1, <3>1 DEF TakesFor, AllOps
    <3>3. Key(w) \notin L
      BY <1>5, <3>2 DEF Virtual
    <3>4. CASE Key(w) # Key(o)
      BY <1>9, <3>1, <3>3, <3>4
    <3>5. CASE Key(w) = Key(o)
      <4>1. w.parts = o.parts
        BY <3>1, <3>5 DEF Flowing, SameParts
      <4>2. p \in Ops /\ p.batch \in Batches /\ p.qty \in Int /\ p.cost \in Int
        BY <1>1, <2>3 DEF Ops
      <4>3. /\ w.id = o.id /\ w.date = o.date /\ w.store = o.store /\ w.into = o.into
        BY <1>2, <3>2, <3>5, KeyFacts, SameIssue
      <4>4. IsPartOf(Part(w, p.batch, p.qty, p.cost), w, p.batch, p.qty, p.cost)
        BY <3>2, <4>2, PartFields
      <4>5. p = Part(w, p.batch, p.qty, p.cost)
        BY <3>1 DEF TakesFor
      <4>6. IsPartOf(p, w, p.batch, p.qty, p.cost)
        BY <4>4, <4>5
      <4>7. IsPartOf(NoneOf(o, p.batch), o, p.batch, 0, 0)
        BY <1>2, <4>2, NoneFacts
      <4>8. Key(p) = Key(NoneOf(o, p.batch))
        <5> DEFINE y == NoneOf(o, p.batch)
        <5> HIDE DEF y
        <5>1. /\ y \in Ops /\ y.id = o.id /\ y.date = o.date /\ y.store = o.store
              /\ y.batch = p.batch /\ y.kind = "issue" /\ y.dep = TRUE
          BY <4>7 DEF IsPartOf, y
        <5>2. p.id = w.id /\ p.date = w.date /\ p.store = w.store /\ p.kind = "issue" /\ p.dep = TRUE
          BY <4>6 DEF IsPartOf
        <5>4. p.dep = y.dep
          BY <5>1, <5>2
        <5>5. p.id = y.id /\ p.date = y.date /\ p.store = y.store /\ p.kind = y.kind
          BY <4>3, <5>1, <5>2
        <5>6. p.batch = y.batch /\ y \in Ops
          BY <5>1
        <5>3. Key(p) = Key(y)
          BY <4>2, <5>4, <5>5, <5>6, KeyFields
        <5> QED
          BY <5>3 DEF y
      <4>9. Key(p) \notin L
        BY <1>7, <1>11, <2>3 DEF AllOps
      <4>10. p.batch \notin Dropping(o, parts)
        BY <1>5, <4>8, <4>9
      <4>11. p.batch \in BatchesOf(v.parts)
        BY <2>0, <3>1, <4>1, <4>10 DEF TakesFor, Dropping
      <4>12. p = Part(v, p.batch, p.qty, p.cost)
        <5>1. Part(w, p.batch, p.qty, p.cost) = Part(v, p.batch, p.qty, p.cost)
          BY <1>3, <3>2, <4>2, <4>3, PartSame
        <5> QED
          BY <4>5, <5>1
      <4> QED
        BY <1>3, <1>10, <4>11, <4>12 DEF TakesFor
    <3> QED
      BY <3>4, <3>5
  <2> QED
    BY <1>8, <2>1, <2>2, <2>3
<1>15. SameParts(e)
  <2> SUFFICES ASSUME NEW r \in OpsOf(e), NEW p \in e.front, Key(r) = Key(p)
               PROVE  r.parts = p.parts
    BY DEF SameParts
  <2>1. r \in Ops /\ r \in Sane
    BY <1>1, <1>3, <1>10, <1>11 DEF AllOps
  <2>2. CASE p \in Q
    <3>1. ~ Virtual(r)
      BY <1>4, <2>1, <2>2, KeyFacts
    <3> QED
      BY <1>4, <2>1, <2>2, <3>1, SaneFacts
  <2>3. CASE p \notin Q
    <3>1. Key(p) # Key(o) /\ (p \in d.front \/ p \in OpsOf(d))
      BY <1>7, <2>3
    <3>2. r \in OpsOf(d)
      BY <1>3, <1>11, <3>1
    <3> QED
      BY <1>1, <3>1, <3>2 DEF Flowing, SameParts
  <2> QED
    BY <2>2, <2>3
<1>16. ASSUME NEW t \in OpsOf(d), Moving(t)
       PROVE  /\ t \in Sane /\ t \in Ops /\ Rooted(t, R)
              /\ \A p \in d.front : Key(p) = Key(Arrival(t)) => p = Arrival(t)
              /\ Arrival(t) \in OpsOf(d) \/ (Arrival(t) \in d.front /\ Arrival(t) \notin U)
              /\ Arrival(t) \in Ops /\ Arrival(t).kind = "receive" /\ Arrival(t).dep = TRUE
  BY <1>1, <1>16, SendsFacts DEF AllOps, Flowing, AllSent
<1>17. AllCame(e)
  <2> SUFFICES ASSUME NEW x \in AllOps(e), Came(x) PROVE \E t \in OpsOf(e) : Sends(t, x)
    BY DEF AllCame
  <2>1. x \in AllOps(d) /\ Key(x) \notin L
    BY <1>3, <1>4, <1>7, <1>8, <1>11, <1>2 DEF Came, AllOps
  <2>2. PICK t \in OpsOf(d) : Sends(t, x)
    BY <2>1 DEF Flowing, AllCame
  <2>3. Moving(t) /\ t \in Sane /\ t \in Ops /\ Rooted(t, R)
    BY <1>16, <2>2 DEF Sends
  <2>4. Key(t) \notin L
    BY <1>5, <2>1, <2>2, <2>3 DEF Sends
  <2>5. Key(t) # Key(o)
    BY <1>12, <2>3 DEF Moving
  <2> QED
    BY <1>9, <2>2, <2>4, <2>5
<1>18. AllSent(e, V)
  <2> SUFFICES ASSUME NEW t \in OpsOf(e), Moving(t)
               PROVE  /\ \A p \in e.front : Key(p) = Key(Arrival(t)) => p = Arrival(t)
                      /\ \/ Arrival(t) \in OpsOf(e)
                         \/ Arrival(t) \in e.front /\ Arrival(t) \notin V
    BY DEF AllSent
  <2> DEFINE y == Arrival(t)
  <2>1. t \in OpsOf(d) /\ Key(t) \notin L
    BY <1>3, <1>11 DEF Moving
  <2>2. /\ t \in Sane /\ t \in Ops /\ Rooted(t, R)
        /\ \A p \in d.front : Key(p) = Key(y) => p = y
        /\ y \in OpsOf(d) \/ (y \in d.front /\ y \notin U)
        /\ y \in Ops /\ y.kind = "receive" /\ y.dep = TRUE
    BY <1>16, <2>1
  <2>3. Key(y) \notin L
    BY <1>5, <2>1, <2>2
  <2> HIDE DEF y
  <2>4. Key(y) # Key(o) /\ y # o /\ \A q \in Q : Key(y) # Key(q)
    BY <1>4, <1>12, <2>2, KeyFacts
  <2>5. \A p \in e.front : Key(p) = Key(y) => p = y
    <3> TAKE p \in e.front
    <3> HAVE Key(p) = Key(y)
    <3>1. p \notin Q
      BY <2>4
    <3>2. CASE p \in d.front
      BY <2>2, <3>2
    <3>3. CASE p \in OpsOf(d) /\ ~ OnFront(d, p)
      BY <1>1, <2>2, <3>3 DEF OnFront
    <3> QED
      BY <1>7, <3>1, <3>2, <3>3
  <2>6. CASE y \in OpsOf(d)
    BY <1>9, <2>3, <2>4, <2>5, <2>6 DEF y
  <2>7. CASE y \in d.front /\ y \notin U
    BY <1>7, <2>3, <2>4, <2>5, <2>7 DEF y
  <2> QED
    BY <2>2, <2>6, <2>7
<1>19. ASSUME NEW w \in U, Virtual(w), w.kind = "issue" PROVE w.id # o.id
  <2> SUFFICES ASSUME w.id = o.id PROVE FALSE
    OBVIOUS
  <2>1. w \in Ops /\ Rooted(w, R)
    BY <1>1
  <2>2. Key(w) = Key(o) /\ w.date = o.date /\ o.date \in Nat
    <3>1. ~ w.dep /\ ~ o.dep
      BY <1>19 DEF Virtual
    <3> QED
      BY <1>2, <1>19, <2>1, <3>1, SameIssue, Numbers
  <2>3. Passed(w, o)
    BY DEF Ordered
  <2>4. Less(Key(w), Key(o))
    BY <1>19, <2>2, <2>3 DEF Passed
  <2> QED
    BY <1>2, <2>1, <2>2, <2>4, OneWay
<1>20. AllLookedAt(e, V)
  <2> SUFFICES ASSUME NEW u \in V \cup e.front, Came(u) PROVE LookedAt(e, V, u)
    BY DEF AllLookedAt
  <2>1. u # o /\ u \notin Q
    BY <1>4 DEF Came
  <2>2. u \in Ops /\ u \in Sane /\ Rooted(u, R)
    BY <1>1, <1>7, <2>1 DEF AllOps
  <2>3. Key(u) # Key(o) /\ \A q \in Q : Key(u) # Key(q)
    BY <1>4, <1>12, <2>2, KeyFacts DEF Came
  <2>4. CASE u \in OpsOf(d)
    <3>1. CASE Key(u) \notin L
      BY <1>9, <2>3, <2>4, <3>1 DEF LookedAt
    <3>2. CASE Key(u) \in L
      <4>1. o.id = u.id
        BY <1>5, <2>2, <3>2
      <4>2. ASSUME NEW t \in AllOps(e), Sends(t, u) PROVE FALSE
        <5>1. t # v
          BY <1>3, <4>2 DEF Sends, Moving
        <5>2. t \in Sane /\ Rooted(t, R)
          BY <1>1, <1>4, <1>8, <4>2, <5>1
        <5>3. Key(t) \in L
          BY <1>5, <3>2, <4>2, <5>2 DEF Sends
        <5> QED
          BY <1>7, <1>11, <5>1, <5>3 DEF AllOps
      <4> QED
        BY <4>1, <4>2 DEF LookedAt
    <3> QED
      BY <3>1, <3>2
  <2>5. CASE u \notin OpsOf(d)
    <3>1. u \in U \cup d.front
      BY <1>7, <2>1, <2>5
    <3>2. LookedAt(d, U, u)
      BY <3>1 DEF Flowing, AllLookedAt
    <3>3. CASE \E w \in U : Sends(w, u)
      BY <3>3 DEF LookedAt
    <3>4. CASE /\ \E w \in U : Virtual(w) /\ w.kind = "issue" /\ w.id = u.id
               /\ \A t \in AllOps(d) : ~ Sends(t, u)
      <4>1. PICK w \in U : Virtual(w) /\ w.kind = "issue" /\ w.id = u.id
        BY <3>4
      <4>2. ASSUME NEW t \in AllOps(e), Sends(t, u) PROVE FALSE
        <5>1. t # v
          BY <1>3, <4>2 DEF Sends, Moving
        <5>2. t \in Q
          BY <1>8, <3>4, <4>2, <5>1
        <5>3. t.id = o.id /\ t \in Sane /\ Moving(t)
          BY <1>4, <4>2, <5>2 DEF Sends
        <5>4. u.id = o.id
          <6>1. Arrival(t) \in Ops /\ Arrival(t).id = t.id /\ Key(Arrival(t)) = Key(u)
            BY <4>2, <5>3, SendsFacts DEF Sends
          <6> QED
            BY <2>2, <5>3, <6>1, KeyFacts
        <5> QED
          BY <1>19, <4>1, <5>4
      <4> QED
        BY <4>1, <4>2 DEF LookedAt
    <3> QED
      BY <2>5, <3>2, <3>3, <3>4 DEF LookedAt
  <2> QED
    BY <2>4, <2>5
<1> QED
  BY <1>13, <1>14, <1>15, <1>17, <1>18, <1>20 DEF Flowing

(* What was looked at before is skipped.                                   *)
LEMMA SkippedFlows ==
  ASSUME NEW d, NEW U, Flowing(d, U), NEW o \in U, NEW e, e.main = d.main, e.front = d.front \ {o}
  PROVE  Flowing(e, U)
<1>1. OpsOf(e) = OpsOf(d) /\ e.front \subseteq d.front /\ AllOps(e) \subseteq AllOps(d)
      /\ \A p \in d.front : p = o \/ p \in e.front
  BY DEF OpsOf, AllOps
<1>2. AllFull(e) /\ AllTaken(e) /\ SameParts(e) /\ AllCame(e)
  BY <1>1 DEF Flowing, AllFull, AllTaken, SameParts, AllCame
<1>3. AllSent(e, U)
  BY <1>1 DEF Flowing, AllSent
<1>4. AllLookedAt(e, U)
  BY <1>1 DEF Flowing, AllLookedAt, LookedAt
<1> QED
  BY <1>2, <1>3, <1>4 DEF Flowing

(* With nothing left on the front, what was looked at is forgotten.        *)
LEMMA ForgottenFlows ==
  ASSUME NEW d, NEW U, Flowing(d, U), d.front = {}
  PROVE  Flowing(d, {})
<1>1. AllSent(d, {}) /\ AllLookedAt(d, {})
  BY DEF Flowing, AllSent, AllLookedAt
<1> QED
  BY <1>1 DEF Flowing

(* An operation that a document stands for is put on the front.            *)
LEMMA PutFlows ==
  ASSUME NEW d, Sound(d), d.front = {}, Flowing(d, {}),
         NEW p \in Sane, ~ p.dep, p.qty > 0, \A r \in OpsOf(d) : Key(r) = Key(p) => r.parts = p.parts,
         NEW e, e.main = d.main, e.front = {p}
  PROVE  Flowing(e, {})
<1>1. OpsOf(e) = OpsOf(d) /\ AllOps(d) = OpsOf(d) /\ AllOps(e) = OpsOf(d) \cup {p}
  BY DEF OpsOf, AllOps
<1>2. AllFull(e) /\ AllTaken(e) /\ SameParts(e) /\ AllCame(e)
  BY <1>1 DEF Flowing, AllFull, AllTaken, SameParts, AllCame, Taking, Came
<1>3. AllSent(e, {})
  <2> SUFFICES ASSUME NEW t \in OpsOf(d), Moving(t)
               PROVE  Key(p) # Key(Arrival(t)) /\ Arrival(t) \in OpsOf(d)
    BY <1>1 DEF AllSent
  <2>1. t \in Sane
    BY DatabaseFacts DEF Sound, OpsOf
  <2>2. Arrival(t) \in Ops /\ Arrival(t).dep = TRUE /\ p \in Ops
    BY <2>1, SendsFacts, SaneFacts
  <2>3. Key(p) = Key(Arrival(t)) => p.dep = Arrival(t).dep
    BY <2>2, KeyFacts
  <2>4. Arrival(t) \in OpsOf(d)
    BY DEF Flowing, AllSent
  <2> QED
    BY <2>2, <2>3, <2>4
<1>4. AllLookedAt(e, {})
  BY DEF AllLookedAt, Came
<1> QED
  BY <1>2, <1>3, <1>4 DEF Flowing

(* An operation that a document stood for is deleted.                      *)
LEMMA DeletedFlows ==
  ASSUME Orderly, NEW R, Meant(R), NEW d, Sound(d), Placed(d, {}, R), d.front = {}, Flowing(d, {}),
         NEW o \in Sane, Rooted(o, R), ~ Virtual(o), ~ o.dep, NEW e, NEW M, Reduced(d, e, GoneWith(o), M)
  PROVE  Flowing(e, {})
<1> DEFINE G == GoneWith(o)
<1>1. /\ \A p \in AllOps(d) : p \in Sane /\ p \in Ops /\ Rooted(p, R) /\ Plain(p)
      /\ \A p, q \in OpsOf(d) : Key(p) = Key(q) => p = q
      /\ o \in Ops
  BY OnTheWayOps, SaneFacts
<1>2. AllOps(d) = OpsOf(d) /\ e.front \subseteq OpsOf(d)
      /\ OpsOf(e) = {p \in OpsOf(d) : Key(p) \notin G} /\ \A p \in e.front : Key(p) \notin G
  BY DEF AllOps, Reduced, OpsOf
<1>3. AllOps(e) \subseteq OpsOf(d) /\ e.front \subseteq OpsOf(e)
  BY <1>2 DEF AllOps
<1>4. IsTransfer(o) => /\ Moving(o) /\ Arrival(o) \in Ops /\ Arrival(o).kind = "receive"
                       /\ ~ Virtual(Arrival(o))
  BY SendsFacts DEF Moving
<1>5. G = {Key(o)} \cup (IF IsTransfer(o) THEN {Key(Arrival(o))} ELSE {})
  BY DEF GoneWith
<1> HIDE DEF G
<1>6. ASSUME NEW t \in OpsOf(d), Moving(t)
      PROVE  /\ Arrival(t) \in OpsOf(d)
             /\ Key(t) \in G <=> Key(Arrival(t)) \in G
  <2>1. t \in Sane /\ t \in Ops /\ Rooted(t, R) /\ t.kind = "issue"
        /\ Arrival(t) \in Ops /\ Arrival(t).kind = "receive" /\ Arrival(t).dep = TRUE
    BY <1>1, <1>2, <1>6, SendsFacts
  <2>2. Arrival(t) \in OpsOf(d)
    BY <1>6 DEF Flowing, AllSent
  <2>3. Key(t) \in G <=> Key(t) = Key(o)
    BY <1>4, <1>5, <2>1, KeyFacts
  <2>4. Key(t) = Key(o) => IsTransfer(o)
    <3> SUFFICES ASSUME Key(t) = Key(o) PROVE IsTransfer(o)
      OBVIOUS
    <3>1. o.kind = "issue" /\ t.id = o.id
      BY <1>1, <2>1, KeyFacts
    <3>2. t.into = o.into
      BY <1>1, <2>1, <3>1, SameIssue
    <3> QED
      BY <1>6, <3>1, <3>2 DEF Moving, IsTransfer
  <2>5. Key(Arrival(t)) \in G <=> IsTransfer(o) /\ Key(Arrival(t)) = Key(Arrival(o))
    <3>1. Key(Arrival(t)) # Key(o)
      <4> SUFFICES ASSUME Key(Arrival(t)) = Key(o) PROVE FALSE
        OBVIOUS
      <4>1. o.dep = Arrival(t).dep
        BY <1>1, <2>1, KeyFacts
      <4> QED
        BY <2>1, <4>1
    <3> QED
      BY <1>5, <3>1
  <2>6. IsTransfer(o) => (Key(Arrival(t)) = Key(Arrival(o)) <=> Key(t) = Key(o))
    BY <1>4, <1>6, <2>1, ArrivalKeys
  <2> QED
    BY <2>2, <2>3, <2>4, <2>5, <2>6
<1>7. AllFull(e)
  BY <1>2, <1>3 DEF AllFull, Flowing
<1>8. AllTaken(e)
  <2> SUFFICES ASSUME NEW p \in AllOps(e), Taking(p) PROVE \E v \in OpsOf(e) : TakesFor(p, v)
    BY DEF AllTaken
  <2>1. PICK v \in OpsOf(d) : TakesFor(p, v)
    BY <1>2, <1>3 DEF Flowing, AllTaken
  <2>2. Virtual(v) /\ v \in Ops
    BY <1>1, <1>2, <2>1 DEF TakesFor
  <2>3. Key(v) \notin G
    BY <1>1, <1>4, <1>5, <2>2, KeyFacts
  <2> QED
    BY <1>2, <2>1, <2>3
<1>9. SameParts(e)
  BY <1>1, <1>2, <1>3 DEF SameParts
<1>10. AllSent(e, {})
  BY <1>1, <1>2, <1>3, <1>6 DEF AllSent
<1>11. AllCame(e)
  <2> SUFFICES ASSUME NEW x \in AllOps(e), Came(x) PROVE \E t \in OpsOf(e) : Sends(t, x)
    BY DEF AllCame
  <2>1. PICK t \in OpsOf(d) : Sends(t, x)
    BY <1>2, <1>3 DEF Flowing, AllCame
  <2>2. Key(x) \notin G
    BY <1>2 DEF AllOps
  <2>3. Key(t) \notin G
    BY <1>6, <2>1, <2>2 DEF Sends
  <2> QED
    BY <1>2, <2>1, <2>3
<1>12. AllLookedAt(e, {})
  BY <1>3 DEF AllLookedAt, LookedAt
<1> QED
  BY <1>7, <1>8, <1>9, <1>10, <1>11, <1>12 DEF Flowing

LEMMA SkippedHears ==
  ASSUME NEW d, NEW U, NEW a, Heard(d, U, a), NEW o \in U,
         NEW e, e.main = d.main, e.front = d.front \ {o}
  PROVE  Heard(e, U, a)
BY DEF Heard, OpsOf, OnFront, Unseen

LEMMA ForgottenHears ==
  ASSUME NEW d, NEW U, NEW a, Heard(d, U, a), d.front = {}
  PROVE  Heard(d, {}, a)
BY DEF Heard, OnFront

(* What is put on the front is what is stored, or of another key.          *)
LEMMA CalculatedHears ==
  ASSUME Orderly, NEW R, Meant(R), NEW d, Sound(d), NEW U, U \subseteq Sane, Placed(d, U, R),
         NEW o, NEW e, NEW c, NEW F, Calculates(d, e, o, c, F),
         NEW a \in Ops, ~ a.dep \/ a.kind = "issue", Heard(d, U, a)
  PROVE  Heard(e, U \cup {o}, a)
<1>1. /\ o \in d.front /\ ~ Virtual(o) /\ c \in Sane /\ Alike(c, o)
      /\ OpsOf(e) = {p \in OpsOf(d) : Key(p) # Key(o)} \cup {c}
      /\ \/ F = d.front \ {o}
         \/ Moving(c) /\ F = Without(d.front \ {o}, Arrival(c)) \cup {Arrival(c)}
      /\ Joins(F, e.front, {p \in OpsOf(d) : Key(p) # Key(o)})
  BY DEF Calculates
<1>2. /\ \A p \in AllOps(d) \cup U : p \in Sane /\ p \in Ops /\ Rooted(p, R) /\ Plain(p)
      /\ \A p, q \in OpsOf(d) : Key(p) = Key(q) => p = q
      /\ \A p, q \in d.front : Key(p) = Key(q) => p = q
  BY OnTheWayOps
<1>3. Key(c) = Key(o) /\ c.qty = o.qty
  BY <1>1, AlikeFacts DEF Alike
<1>4. Moving(c) => Key(Arrival(c)) # Key(a)
  <2> SUFFICES ASSUME Moving(c) PROVE Key(Arrival(c)) # Key(a)
    OBVIOUS
  <2>1. Arrival(c) \in Ops /\ Arrival(c).dep = TRUE /\ Arrival(c).kind = "receive"
    BY <1>1, SendsFacts
  <2>2. Key(Arrival(c)) = Key(a) => a.dep = Arrival(c).dep /\ a.kind = Arrival(c).kind
    BY <2>1, KeyFacts
  <2> QED
    BY <2>1, <2>2
<1>5. \A p \in e.front : Key(p) = Key(a) => p \in F \/ (p \in OpsOf(d) /\ \A f \in F : Key(f) # Key(p))
  BY <1>1 DEF Joins
<1>6. \A p \in F : Key(p) = Key(a) => p \in d.front
  BY <1>1, <1>4 DEF Without
<1>7. \A p \in d.front : Key(p) = Key(a) => p = o \/ (p \in F /\ p \in e.front)
  BY <1>1, <1>4 DEF Without, Joins
<1>8. /\ \A p \in d.front \cup U : Key(p) = Key(a) => p.qty = a.qty
      /\ \/ \E p \in OpsOf(d) : Key(p) = Key(a) /\ p.qty = a.qty
         \/ OnFront(d, a) /\ Unseen(U, a)
  BY DEF Heard
<1>9. CASE Key(o) = Key(a)
  <2>1. c \in OpsOf(e) /\ Key(c) = Key(a) /\ c.qty = a.qty
    BY <1>1, <1>3, <1>8, <1>9
  <2>2. ASSUME NEW p \in e.front, Key(p) = Key(a) PROVE p.qty = a.qty
    BY <1>1, <1>5, <1>6, <1>8, <1>9, <2>2 DEF Joins
  <2> QED
    BY <1>1, <1>8, <2>1, <2>2 DEF Heard
<1>10. CASE Key(o) # Key(a)
  <2>1. \/ \E p \in OpsOf(e) : Key(p) = Key(a) /\ p.qty = a.qty
        \/ OnFront(e, a) /\ Unseen(U \cup {o}, a)
    BY <1>1, <1>7, <1>8, <1>10 DEF OnFront, Unseen
  <2>2. ASSUME NEW p \in e.front, Key(p) = Key(a) PROVE p.qty = a.qty
    <3>1. CASE p \in F
      BY <1>6, <1>8, <2>2, <3>1
    <3>2. CASE p \in OpsOf(d) /\ \A f \in F : Key(f) # Key(p)
      <4>1. ~ OnFront(d, a)
        BY <1>7, <1>10, <2>2, <3>2 DEF OnFront
      <4> QED
        BY <1>2, <1>8, <2>2, <3>2, <4>1
    <3> QED
      BY <1>5, <2>2, <3>1, <3>2
  <2> QED
    BY <1>8, <1>10, <2>1, <2>2 DEF Heard
<1> QED
  BY <1>9, <1>10

(* The parts of an operation are of its day, its stores and its document.  *)
LEMMA PartsFields ==
  ASSUME NEW o \in Sane, NEW q \in PartsOf(o)
  PROVE  /\ q.id = o.id /\ q.date = o.date /\ q.store = o.store /\ q.into = o.into
         /\ q.kind = "issue" /\ q.dep = TRUE /\ q.parts = <<>> /\ q.batch \in Batches
         /\ q \in Sane /\ q \in Ops
<1>1. PICK b \in Batches, n \in Int, c \in Int : q = Part(o, b, n, c)
  BY DEF PartsOf
<1>2. IsPartOf(q, o, b, n, c)
  BY <1>1, PartFields
<1> QED
  BY <1>2 DEF IsPartOf

LEMMA DistributedHears ==
  ASSUME Orderly, NEW R, Meant(R), NEW d, Sound(d), NEW U, U \subseteq Sane, Placed(d, U, R),
         NEW o \in d.front, Virtual(o), o.kind = "issue",
         NEW rest, rest.main = d.main, rest.front = d.front \ {o},
         NEW parts \in Seq(PartsOf(o)), parts \in Seq(Made), parts # <<>>,
         NEW e, Distributes(rest, e, o, parts),
         NEW a \in Ops, ~ a.dep \/ a.id # o.id, Heard(d, U, a)
  PROVE  Heard(e, U \cup {o}, a)
<1> DEFINE L == ShedKeys(o, parts)
           Q == ElemsOf(parts)
           v == With(o, parts)
           r0 == [op |-> v, bal |-> OnHand(rest, o, NoBatch)]
<1>1. /\ \A p \in AllOps(d) \cup U : p \in Sane /\ p \in Ops /\ Rooted(p, R) /\ Plain(p)
      /\ \A p, q \in OpsOf(d) : Key(p) = Key(q) => p = q
      /\ \A p, q \in d.front : Key(p) = Key(q) => p = q
  BY OnTheWayOps
<1>2. o \in Sane /\ o \in Ops /\ Rooted(o, R)
  BY <1>1 DEF AllOps
<1>3. Key(v) = Key(o) /\ v.qty = o.qty
  BY <1>2, WithFacts
<1>4. \A q \in Q : Key(q) # Key(a)
  <2> SUFFICES ASSUME NEW q \in Q PROVE Key(q) # Key(a)
    OBVIOUS
  <2>1. q \in PartsOf(o)
    BY DEF ElemsOf
  <2>2. q \in Ops /\ q.dep = TRUE
    BY <1>2, <2>1, BatchFacts, PartKeys
  <2>3. q.id = o.id
    BY <1>2, <2>1, PartsFields
  <2>4. Key(q) = Key(a) => a.dep = q.dep /\ a.id = q.id
    BY <2>2, KeyFacts
  <2> QED
    BY <2>2, <2>3, <2>4
<1>5. Key(a) \notin L
  BY <1>2, ShedFacts
<1> HIDE DEF L, Q, v
<1>6. e.main = {r \in d.main : Key(r.op) \notin L /\ Key(r.op) # Key(o)} \cup {r0}
  BY DEF Distributes, L, v
<1>7. r0.op = v
  OBVIOUS
<1> HIDE DEF r0
<1>8. OpsOf(e) = {p \in OpsOf(d) : Key(p) \notin L /\ Key(p) # Key(o)} \cup {v}
  BY <1>6, <1>7 DEF OpsOf
<1>9. \A p \in e.front : Key(p) = Key(a) =>
        \/ p \in d.front
        \/ p \in OpsOf(d) /\ Key(p) # Key(o) /\ ~ OnFront(rest, p)
  BY <1>4 DEF Distributes, Q, OpsOf
<1>10. \A p \in d.front : Key(p) = Key(a) => p = o \/ p \in e.front
  BY <1>4, <1>5 DEF Distributes, Q, L
<1>11. /\ \A p \in d.front \cup U : Key(p) = Key(a) => p.qty = a.qty
       /\ \/ \E p \in OpsOf(d) : Key(p) = Key(a) /\ p.qty = a.qty
          \/ OnFront(d, a) /\ Unseen(U, a)
  BY DEF Heard
<1>12. CASE Key(o) = Key(a)
  <2>1. v \in OpsOf(e) /\ Key(v) = Key(a) /\ v.qty = a.qty
    BY <1>3, <1>8, <1>11, <1>12
  <2> QED
    BY <1>9, <1>11, <1>12, <2>1 DEF Heard
<1>13. CASE Key(o) # Key(a)
  <2>1. \/ \E p \in OpsOf(e) : Key(p) = Key(a) /\ p.qty = a.qty
        \/ OnFront(e, a) /\ Unseen(U \cup {o}, a)
    BY <1>5, <1>8, <1>10, <1>11, <1>13 DEF OnFront, Unseen
  <2>2. ASSUME NEW p \in e.front, Key(p) = Key(a) PROVE p.qty = a.qty
    <3>1. CASE p \in d.front
      BY <1>11, <2>2, <3>1
    <3>2. CASE p \in OpsOf(d) /\ ~ OnFront(rest, p)
      <4>1. ~ OnFront(d, a)
        BY <1>13, <2>2, <3>2 DEF OnFront
      <4> QED
        BY <1>1, <1>11, <2>2, <3>2, <4>1
    <3> QED
      BY <1>9, <2>2, <3>1, <3>2
  <2> QED
    BY <1>11, <1>13, <2>1, <2>2 DEF Heard
<1> QED
  BY <1>12, <1>13

LEMMA DeletedHears ==
  ASSUME NEW d, Sound(d), d.front = {}, NEW o \in Sane, NEW e, NEW M, Reduced(d, e, GoneWith(o), M),
         NEW a \in Ops, a.id # o.id, Heard(d, {}, a)
  PROVE  Heard(e, {}, a)
<1>1. PICK p \in OpsOf(d) : Key(p) = Key(a) /\ p.qty = a.qty
  BY DEF Heard, OnFront
<1>2. \A q \in OpsOf(d) : Key(q) = Key(a) => q = p
  BY <1>1 DEF Sound, IsKeyed, OpsOf
<1>3. Key(a) \notin GoneWith(o)
  <2>1. o \in Ops
    BY SaneFacts
  <2>2. Key(a) # Key(o)
    BY <2>1, KeyFacts
  <2>3. IsTransfer(o) => Key(a) # Key(Arrival(o))
    <3>1. IsTransfer(o) => Arrival(o) \in Ops /\ Arrival(o).id = o.id
      BY ArrivalFields
    <3> QED
      BY <3>1, KeyFacts
  <2> QED
    BY <2>2, <2>3 DEF GoneWith
<1>4. p \in OpsOf(e) /\ \A q \in e.front : q \in OpsOf(d)
  BY <1>1, <1>3 DEF Reduced, OpsOf
<1> QED
  BY <1>1, <1>2, <1>4 DEF Heard

LEMMA PutHears ==
  ASSUME NEW d, d.front = {}, NEW p, NEW e, e.main = d.main, e.front = {p}, NEW a,
         \/ Heard(d, {}, a) /\ Key(p) # Key(a)
         \/ Key(p) = Key(a) /\ p.qty = a.qty
  PROVE  Heard(e, {}, a)
BY DEF Heard, OnFront, Unseen, OpsOf

(***************************************************************************)
(* What a stored virtual issue took is shared out: its parts make its      *)
(* quantity, and each is stored as such, or waits and is not looked at yet.*)
(***************************************************************************)
Shares(d, U, v, parts) ==
  /\ v.parts = Dependants(parts)
  /\ \A i, j \in DOMAIN parts : parts[i].batch = parts[j].batch => i = j
  /\ Quantity(parts) = v.qty
  /\ \A i \in DOMAIN parts : Heard(d, U, parts[i])

AllShared(d, U) ==
  \A v \in OpsOf(d) : Virtual(v) => \E parts \in Seq(PartsOf(v)) : Shares(d, U, v, parts)

LEMMA SharesOn ==
  ASSUME NEW d, NEW U, NEW e, NEW V, NEW v \in Sane, NEW parts \in Seq(PartsOf(v)),
         Shares(d, U, v, parts),
         \A a \in Ops : a.dep /\ a.kind = "issue" /\ a.id = v.id /\ Heard(d, U, a) => Heard(e, V, a)
  PROVE  Shares(e, V, v, parts)
<1>1. \A i \in DOMAIN parts : parts[i] \in PartsOf(v)
  OBVIOUS
<1>2. \A i \in DOMAIN parts : /\ parts[i] \in Ops /\ parts[i].dep = TRUE
                             /\ parts[i].kind = "issue" /\ parts[i].id = v.id
  BY <1>1, PartsFields
<1> QED
  BY <1>2 DEF Shares

LEMMA SkippedShares ==
  ASSUME NEW d, NEW U, AllShared(d, U), \A p \in OpsOf(d) : p \in Sane, NEW o \in U,
         NEW e, e.main = d.main, e.front = d.front \ {o}
  PROVE  AllShared(e, U)
<1> SUFFICES ASSUME NEW v \in OpsOf(e), Virtual(v)
             PROVE  \E parts \in Seq(PartsOf(v)) : Shares(e, U, v, parts)
  BY DEF AllShared
<1>1. v \in OpsOf(d) /\ v \in Sane
  BY DEF OpsOf
<1>2. PICK parts \in Seq(PartsOf(v)) : Shares(d, U, v, parts)
  BY <1>1 DEF AllShared
<1> QED
  BY <1>1, <1>2, SkippedHears, SharesOn

LEMMA ForgottenShares ==
  ASSUME NEW d, NEW U, AllShared(d, U), d.front = {}
  PROVE  AllShared(d, {})
BY ForgottenHears DEF AllShared, Shares

LEMMA CalculatedShares ==
  ASSUME Orderly, NEW R, Meant(R), NEW d, Sound(d), NEW U, U \subseteq Sane, Placed(d, U, R),
         NEW o, NEW e, NEW c, NEW F, Calculates(d, e, o, c, F), AllShared(d, U)
  PROVE  AllShared(e, U \cup {o})
<1> SUFFICES ASSUME NEW v \in OpsOf(e), Virtual(v)
             PROVE  \E parts \in Seq(PartsOf(v)) : Shares(e, U \cup {o}, v, parts)
  BY DEF AllShared
<1>1. v \in OpsOf(d)
  <2>1. ~ Virtual(c)
    BY AlikeFacts DEF Calculates
  <2> QED
    BY <2>1 DEF Calculates
<1>2. v \in Sane
  BY <1>1, OnTheWayOps DEF AllOps
<1>3. PICK parts \in Seq(PartsOf(v)) : Shares(d, U, v, parts)
  BY <1>1 DEF AllShared
<1>4. \A a \in Ops : a.dep /\ a.kind = "issue" /\ a.id = v.id /\ Heard(d, U, a)
        => Heard(e, U \cup {o}, a)
  BY CalculatedHears
<1> QED
  BY <1>2, <1>3, <1>4, SharesOn

(* The parts of the issue that is split were not looked at before.         *)
LEMMA OwnPartsHeard ==
  ASSUME Orderly, NEW R, Meant(R), NEW d, Sound(d), NEW U, U \subseteq Sane, Placed(d, U, R),
         Ordered(d.front, U),
         NEW o \in d.front, Virtual(o), o.kind = "issue",
         NEW rest, NEW parts \in Seq(PartsOf(o)),
         \A i, j \in DOMAIN parts : parts[i].batch = parts[j].batch => i = j,
         NEW e, Distributes(rest, e, o, parts), NEW i \in DOMAIN parts
  PROVE  Heard(e, U \cup {o}, parts[i])
<1> DEFINE q == parts[i]
<1>1. o \in Sane /\ o \in Ops /\ Rooted(o, R)
  BY OnTheWayOps DEF AllOps
<1>2. q \in PartsOf(o)
  OBVIOUS
<1>3. q \in Ops /\ q.dep = TRUE /\ q.kind = "issue" /\ Rooted(q, R) /\ New(o, q)
  BY <1>1, <1>2, PartNew, PartsFields
<1>4. ASSUME NEW u \in U \cup {o} PROVE Key(u) # Key(q)
  <2>1. CASE u = o
    BY <1>1, <1>3, <2>1, KeyFacts DEF Virtual
  <2>2. CASE u \in U
    <3>1. u \in Ops /\ Rooted(u, R) /\ Passed(u, o)
      BY <2>2, SaneFacts DEF Placed, Ordered
    <3>2. Passed(u, q)
      BY <1>1, <1>3, <3>1, PassedNew
    <3>3. Key(u) = Key(q) => u.date = q.date /\ u.kind = q.kind /\ ~ Less(Key(u), Key(q))
      BY <1>3, <3>1, KeyFacts, OneWay
    <3> QED
      BY <1>3, <3>1, <3>2, <3>3, OpFacts DEF Passed, Ops
  <2> QED
    BY <2>1, <2>2
<1>5. q \in e.front
  BY DEF Distributes, ElemsOf
<1>6. ASSUME NEW p \in e.front, Key(p) = Key(q) PROVE p.qty = q.qty
  <2>1. p \in ElemsOf(parts)
    BY <1>6 DEF Distributes, ElemsOf
  <2>2. PICK j \in DOMAIN parts : p = parts[j]
    BY <2>1 DEF ElemsOf
  <2>3. p \in Ops
    <3>1. p \in PartsOf(o)
      BY <2>2
    <3> QED
      BY <1>1, <3>1, PartsFields
  <2>4. p.batch = q.batch
    BY <1>3, <1>6, <2>3, KeyFacts
  <2> QED
    BY <2>2, <2>4
<1> HIDE DEF q
<1>7. Heard(e, U \cup {o}, q)
  BY <1>4, <1>5, <1>6 DEF Heard, OnFront, Unseen
<1> QED
  BY <1>7 DEF q

LEMMA DistributedShares ==
  ASSUME Orderly, NEW R, Meant(R), NEW d, Sound(d), NEW U, U \subseteq Sane, Placed(d, U, R),
         Ordered(d.front, U),
         NEW o \in d.front, Virtual(o), o.kind = "issue",
         NEW rest, rest.main = d.main, rest.front = d.front \ {o},
         NEW parts \in Seq(PartsOf(o)), parts \in Seq(Made), parts # <<>>,
         \A i, j \in DOMAIN parts : parts[i].batch = parts[j].batch => i = j,
         Quantity(parts) = o.qty,
         NEW e, Distributes(rest, e, o, parts), AllShared(d, U)
  PROVE  AllShared(e, U \cup {o})
<1> SUFFICES ASSUME NEW v \in OpsOf(e), Virtual(v)
             PROVE  \E ps \in Seq(PartsOf(v)) : Shares(e, U \cup {o}, v, ps)
  BY DEF AllShared
<1>1. o \in Sane /\ o \in Ops /\ Rooted(o, R)
  BY OnTheWayOps DEF AllOps
<1>2. v = With(o, parts) \/ (v \in OpsOf(d) /\ Key(v) # Key(o))
  <2>1. PICK r \in e.main : r.op = v
    BY DEF OpsOf
  <2> QED
    BY <2>1 DEF Distributes, OpsOf
<1>3. CASE v = With(o, parts)
  <2>1. /\ v.parts = Dependants(parts) /\ v.qty = o.qty
        /\ \A b, q, c : Part(v, b, q, c) = Part(o, b, q, c)
    BY <1>1, <1>3, WithFacts
  <2>2. PartsOf(v) = PartsOf(o)
    BY <2>1 DEF PartsOf
  <2>3. \A i \in DOMAIN parts : Heard(e, U \cup {o}, parts[i])
    BY OwnPartsHeard
  <2>4. Shares(e, U \cup {o}, v, parts)
    BY <2>1, <2>3 DEF Shares
  <2> QED
    BY <2>2, <2>4
<1>4. CASE v \in OpsOf(d) /\ Key(v) # Key(o)
  <2>1. v \in Sane /\ v \in Ops /\ Rooted(v, R) /\ Plain(v)
    BY <1>4, OnTheWayOps DEF AllOps
  <2>2. v.id # o.id
    <3>1. v.kind = "issue"
      BY <2>1 DEF Plain, Virtual
    <3> QED
      BY <1>1, <1>4, <2>1, <3>1, SameIssue DEF Virtual
  <2>3. PICK ps \in Seq(PartsOf(v)) : Shares(d, U, v, ps)
    BY <1>4 DEF AllShared
  <2>4. \A a \in Ops : a.dep /\ a.kind = "issue" /\ a.id = v.id /\ Heard(d, U, a)
          => Heard(e, U \cup {o}, a)
    BY <2>2, DistributedHears
  <2> QED
    BY <2>1, <2>3, <2>4, SharesOn
<1> QED
  BY <1>2, <1>3, <1>4

LEMMA DeletedShares ==
  ASSUME Orderly, NEW R, Meant(R), NEW d, Sound(d), Placed(d, {}, R), d.front = {},
         NEW o \in Sane, Rooted(o, R), ~ Virtual(o), ~ o.dep, NEW e, NEW M,
         Reduced(d, e, GoneWith(o), M), AllShared(d, {})
  PROVE  AllShared(e, {})
<1> SUFFICES ASSUME NEW v \in OpsOf(e), Virtual(v)
             PROVE  \E ps \in Seq(PartsOf(v)) : Shares(e, {}, v, ps)
  BY DEF AllShared
<1>1. v \in OpsOf(d)
  BY DEF Reduced, OpsOf
<1>2. v \in Sane /\ v \in Ops /\ Rooted(v, R) /\ Plain(v) /\ o \in Ops
  BY <1>1, OnTheWayOps, SaneFacts DEF AllOps
<1>3. v.id # o.id
  <2>1. PICK e1 \in R : Belongs(v, e1)
    BY <1>2 DEF Rooted
  <2>2. PICK e2 \in R : Belongs(o, e2)
    BY DEF Rooted
  <2>3. v.kind = "issue"
    BY <1>2 DEF Plain, Virtual
  <2>4. v.batch = e1.batch /\ e1.kind = "issue" /\ v.id = e1.id /\ v.batch = NoBatch
    BY <1>2, <2>1, <2>3, BelongsFacts DEF Virtual, Belongs
  <2>5. o.id = e2.id /\ o.batch = e2.batch /\ o.kind = e2.kind
    <3>1. IsOwn(o, e2)
      BY <2>2 DEF Belongs, IsPart, IsArrival
    <3> QED
      BY <2>2, <3>1 DEF Belongs, IsOwn
  <2> QED
    BY <2>4, <2>5 DEF Meant, Virtual
<1>4. PICK ps \in Seq(PartsOf(v)) : Shares(d, {}, v, ps)
  BY <1>1 DEF AllShared
<1>5. \A a \in Ops : a.dep /\ a.kind = "issue" /\ a.id = v.id /\ Heard(d, {}, a) => Heard(e, {}, a)
  BY <1>3, DeletedHears
<1> QED
  BY <1>2, <1>4, <1>5, SharesOn

LEMMA PutShares ==
  ASSUME NEW d, d.front = {}, \A p \in OpsOf(d) : p \in Sane,
         NEW p \in Ops, ~ p.dep, NEW e, e.main = d.main, e.front = {p}, AllShared(d, {})
  PROVE  AllShared(e, {})
<1> SUFFICES ASSUME NEW v \in OpsOf(e), Virtual(v)
             PROVE  \E ps \in Seq(PartsOf(v)) : Shares(e, {}, v, ps)
  BY DEF AllShared
<1>1. v \in OpsOf(d) /\ v \in Sane
  BY DEF OpsOf
<1>2. PICK ps \in Seq(PartsOf(v)) : Shares(d, {}, v, ps)
  BY <1>1 DEF AllShared
<1>3. \A a \in Ops : a.dep /\ a.kind = "issue" /\ a.id = v.id /\ Heard(d, {}, a) => Heard(e, {}, a)
  <2> SUFFICES ASSUME NEW a \in Ops, a.dep, Heard(d, {}, a) PROVE Heard(e, {}, a)
    OBVIOUS
  <2>1. Key(p) # Key(a)
    BY KeyFacts
  <2> QED
    BY <2>1, PutHears
<1> QED
  BY <1>1, <1>2, <1>3, SharesOn

(* What is on the way stays so, what was heard of an operation, and what   *)
(* was shared out.                                                         *)
FlowsTo(d, U, e, V) ==
  /\ Flowing(e, V)
  /\ \A a \in Ops : ~ a.dep /\ Heard(d, U, a) => Heard(e, V, a)
  /\ AllShared(d, U) => AllShared(e, V)

LEMMA TurnCalculates ==
  ASSUME NEW d, NEW o \in d.front, o \in Sane, ~ Virtual(o), Plain(o), o.qty > 0,
         NEW rest, Sound(rest), rest.main = d.main, rest.front = d.front \ {o}
  PROVE  \E c, F : Calculates(d, Calculated(rest, o), o, c, F)
<1> DEFINE e == Calculated(rest, o)
           before == BalanceBefore(rest, o)
           c == Costed(before, o)
           b == Plus(before, Delta(c))
<1>1. /\ Sound(e) /\ c \in Sane /\ Alike(c, o) /\ (c.kind = "receive" => c = o)
      /\ Replaced(rest, e, [op |-> c, bal |-> b])
      /\ \E F : /\ \/ F = rest.front /\ (IsTransfer(c) => c \in OpsOf(rest))
                   \/ IsTransfer(c) /\ F = Without(rest.front, Arrival(c)) \cup {Arrival(c)}
                /\ Joins(F, e.front, {p \in OpsOf(rest) : Behind(o, p) /\ Key(p) # Key(o)})
  BY CalculatedIs
<1> HIDE DEF e, c, b
<1>2. PICK F : /\ \/ F = rest.front /\ (IsTransfer(c) => c \in OpsOf(rest))
                  \/ IsTransfer(c) /\ F = Without(rest.front, Arrival(c)) \cup {Arrival(c)}
               /\ Joins(F, e.front, {p \in OpsOf(rest) : Behind(o, p) /\ Key(p) # Key(o)})
  BY <1>1
<1>3. OpsOf(rest) = OpsOf(d)
  BY DEF OpsOf
<1>4. Key(c) = Key(o) /\ (Virtual(c) <=> Virtual(o))
  BY <1>1, AlikeFacts
<1>5. OpsOf(e) = {p \in OpsOf(d) : Key(p) # Key(o)} \cup {c}
  <2>1. e.main = {q \in d.main : Key(q.op) # Key(c)} \cup {[op |-> c, bal |-> b]}
    BY <1>1 DEF Replaced
  <2>2. \A p : p \in OpsOf(e) <=> p = c \/ (p \in OpsOf(d) /\ Key(p) # Key(o))
    <3>1. \A p : p \in OpsOf(e) <=> \E r \in e.main : r.op = p
      BY DEF OpsOf
    <3>2. \A p : p \in OpsOf(d) <=> \E r \in d.main : r.op = p
      BY DEF OpsOf
    <3>3. \A r : r \in e.main <=> (r \in d.main /\ Key(r.op) # Key(o)) \/ r = [op |-> c, bal |-> b]
      BY <1>4, <2>1
    <3>4. [op |-> c, bal |-> b].op = c
      OBVIOUS
    <3> QED
      BY <3>1, <3>2, <3>3, <3>4
  <2> QED
    BY <2>2
<1>6. Joins(F, e.front, {p \in OpsOf(d) : Key(p) # Key(o)})
  BY <1>2, <1>3 DEF Joins
<1>7. \/ F = d.front \ {o} /\ (Moving(c) => c \in OpsOf(d))
      \/ Moving(c) /\ F = Without(d.front \ {o}, Arrival(c)) \cup {Arrival(c)}
  BY <1>2, <1>3, <1>4 DEF Moving
<1>8. Calculates(d, e, o, c, F)
  BY <1>1, <1>5, <1>6, <1>7 DEF Calculates
<1> QED
  BY <1>8 DEF e

LEMMA TurnFlows ==
  ASSUME Orderly, NEW R, Meant(R), NEW d, NEW U, OnTheWay(d, U, R), Flowing(d, U),
         NEW o \in d.front, NEW rest, Sound(rest), rest.main = d.main,
         rest.front = d.front \ {o}
  PROVE  /\ o \in U => FlowsTo(d, U, rest, U)
         /\ o \notin U /\ ~ Virtual(o) => FlowsTo(d, U, Calculated(rest, o), U \cup {o})
         /\ o \notin U /\ Virtual(o) =>
              \A s \in Queues(rest, o) : FlowsTo(d, U, Distributed(rest, o, s), U \cup {o})
<1>1. Sound(d) /\ U \subseteq Sane /\ Placed(d, U, R) /\ Ordered(d.front, U)
  BY DEF OnTheWay
<1>2. o \in Sane /\ o \in Ops /\ Rooted(o, R) /\ Plain(o)
  BY <1>1, OnTheWayOps DEF AllOps
<1>3. o.qty > 0
  BY DEF Flowing, AllFull, AllOps
<1>4. ASSUME o \in U PROVE FlowsTo(d, U, rest, U)
  <2>1. Flowing(rest, U)
    BY <1>4, SkippedFlows
  <2>2. \A a : Heard(d, U, a) => Heard(rest, U, a)
    BY <1>4, SkippedHears
  <2>3. AllShared(d, U) => AllShared(rest, U)
    BY <1>1, <1>4, OnTheWayOps, SkippedShares DEF AllOps
  <2> QED
    BY <2>1, <2>2, <2>3 DEF FlowsTo
<1>5. ASSUME o \notin U, ~ Virtual(o) PROVE FlowsTo(d, U, Calculated(rest, o), U \cup {o})
  <2> DEFINE e == Calculated(rest, o)
  <2>1. PICK c, F : Calculates(d, e, o, c, F)
    BY <1>2, <1>3, <1>5, TurnCalculates
  <2> HIDE DEF e
  <2>2. Flowing(e, U \cup {o})
    BY <1>1, <1>5, <2>1, CalculatedFlows
  <2>3. \A a \in Ops : ~ a.dep /\ Heard(d, U, a) => Heard(e, U \cup {o}, a)
    BY <1>1, <2>1, CalculatedHears
  <2>4. AllShared(d, U) => AllShared(e, U \cup {o})
    BY <1>1, <2>1, CalculatedShares
  <2>5. FlowsTo(d, U, e, U \cup {o})
    BY <2>2, <2>3, <2>4 DEF FlowsTo
  <2> QED
    BY <2>5 DEF e
<1>6. ASSUME o \notin U, Virtual(o), NEW s \in Queues(rest, o)
      PROVE  FlowsTo(d, U, Distributed(rest, o, s), U \cup {o})
  <2> DEFINE e == Distributed(rest, o, s)
             parts == Split(rest, o, s)
  <2>1. o.kind = "issue"
    BY <1>2, <1>6 DEF Plain, Virtual
  <2>2. Distributes(rest, e, o, parts)
    BY <1>2, <1>6, <2>1, DistributedIs
  <2>3. /\ parts \in Seq(PartsOf(o)) /\ parts \in Seq(Made) /\ parts # <<>>
        /\ \A i \in DOMAIN parts : parts[i].qty > 0
        /\ \A i, j \in DOMAIN parts : parts[i].batch = parts[j].batch => i = j
        /\ Quantity(parts) = o.qty
    BY <1>2, <1>3, <1>6, SplitFacts
  <2> HIDE DEF e, parts
  <2>4. Flowing(e, U \cup {o})
    BY <1>1, <1>6, <2>1, <2>2, <2>3, DistributedFlows
  <2>5. \A a \in Ops : ~ a.dep /\ Heard(d, U, a) => Heard(e, U \cup {o}, a)
    BY <1>1, <1>6, <2>1, <2>2, <2>3, DistributedHears
  <2>6. AllShared(d, U) => AllShared(e, U \cup {o})
    BY <1>1, <1>6, <2>1, <2>2, <2>3, DistributedShares
  <2>7. FlowsTo(d, U, e, U \cup {o})
    BY <2>4, <2>5, <2>6 DEF FlowsTo
  <2> QED
    BY <2>7 DEF e
<1> QED
  BY <1>4, <1>5, <1>6

(* The documents of which the ledger has been told all.                    *)
Told ==
  {o \in Entries : docs[o.id] = {o} /\ \A i \in DOMAIN queue : queue[i].op.id # o.id}

FlowOK ==
  /\ BalancesOK
  /\ Flowing(db, uniq)
  /\ AllShared(db, uniq)
  /\ \A a \in Told : Heard(db, uniq, a)

LEMMA EditKeepsFlow ==
  ASSUME FlowOK, BalancesOK', NEW i \in Ids, NEW new, NEW mutations, Edit(i, new, mutations),
         1 \in DOMAIN mutations, mutations[1].op.id = i
  PROVE  FlowOK'
<1>1. /\ db' = db /\ uniq' = uniq /\ queue = <<>> /\ queue' = mutations
      /\ docs' = [docs EXCEPT ![i] = new]
      /\ docs \in [Ids -> {{}} \cup {{o} : o \in Entries}]
  BY DEF Edit, Idle, FlowOK, BalancesOK, LedgerOK, DocsOK
<1>2. \A a \in Told' : a \in Told
  <2> SUFFICES ASSUME NEW a \in Entries, docs'[a.id] = {a},
                      \A j \in DOMAIN queue' : queue'[j].op.id # a.id
               PROVE  a \in Told
    BY DEF Told
  <2>1. a.id # i /\ a.id \in Ids
    BY <1>1 DEF Ids
  <2>2. docs[a.id] = {a}
    BY <1>1, <2>1
  <2> QED
    BY <1>1, <2>2 DEF Told
<1> QED
  BY <1>1, <1>2 DEF FlowOK

LEMMA EnterKeepsFlow ==
  ASSUME Orderly, FlowOK, NEW o \in Entries, Enter(o)
  PROVE  FlowOK'
<1>1. BalancesOK'
  BY EnterKeepsBalances DEF FlowOK
<1>2. Edit(o.id, {o}, <<Put(o)>>) /\ o.id \in Ids
  BY DEF Enter, Ids
<1>3. 1 \in DOMAIN <<Put(o)>> /\ <<Put(o)>>[1].op.id = o.id
  BY DEF Put
<1> QED
  BY <1>1, <1>2, <1>3, EditKeepsFlow

LEMMA ChangeKeepsFlow ==
  ASSUME Orderly, FlowOK, NEW old \in Entries, NEW o \in Entries, old.id = o.id,
         Change(old, o)
  PROVE  FlowOK'
<1> DEFINE ms == IF SamePlace(old, o) THEN <<Put(o)>> ELSE <<Del(old), Put(o)>>
<1>1. BalancesOK'
  BY ChangeKeepsBalances DEF FlowOK
<1>2. Edit(o.id, {o}, ms) /\ o.id \in Ids
  BY DEF Change, Ids
<1>3. 1 \in DOMAIN ms /\ ms[1].op.id = o.id
  BY DEF Put, Del
<1> HIDE DEF ms
<1> QED
  BY <1>1, <1>2, <1>3, EditKeepsFlow

LEMMA WithdrawKeepsFlow ==
  ASSUME Orderly, FlowOK, NEW old \in Entries, Withdraw(old)
  PROVE  FlowOK'
<1>1. BalancesOK'
  BY WithdrawKeepsBalances DEF FlowOK
<1>2. Edit(old.id, {}, <<Del(old)>>) /\ old.id \in Ids
  BY DEF Withdraw, Ids
<1>3. 1 \in DOMAIN <<Del(old)>> /\ <<Del(old)>>[1].op.id = old.id
  BY DEF Del
<1> QED
  BY <1>1, <1>2, <1>3, EditKeepsFlow

LEMMA TurnKeepsFlow ==
  ASSUME Orderly, FlowOK, Turn
  PROVE  FlowOK'
<1> DEFINE o == Foremost
           F == db.front \ {o}
           rest == [db EXCEPT !.front = F]
           U == uniq \cup {o}
<1>1. BalancesOK /\ BalancesOK' /\ UNCHANGED <<docs, queue>> /\ db.front # {}
      /\ OnTheWay(db, uniq, Roots) /\ LedgerOK
  BY TurnKeepsBalances DEF FlowOK, BalancesOK, Turn
<1>2. Meant(Roots) /\ Sound(db) /\ Placed(db, uniq, Roots)
  BY <1>1, RootsMeant DEF OnTheWay
<1>3. o \in db.front
  BY <1>1, <1>2, FirstIsLeast DEF Foremost
<1>4. \/ o \in uniq /\ Leave(rest, uniq)
      \/ /\ o \notin uniq
         /\ Virtual(o)
         /\ \E s \in Queues(rest, o) :
              Leave(IF o.kind = "issue" THEN Distributed(rest, o, s) ELSE Counted(rest, o, s), U)
      \/ o \notin uniq /\ ~ Virtual(o) /\ Leave(Calculated(rest, o), U)
  BY DEF Turn
<1> HIDE DEF o
<1>5. Sound(rest) /\ rest.front = db.front \ {o} /\ rest.main = db.main
  <2>1. F \in SUBSET Sane /\ IsFiniteSet(F) /\ KeysApart(F)
    BY <1>2, DatabaseFacts, FS_Subset DEF Sound, IsFinite, IsKeyed, KeysApart
  <2> HIDE DEF F
  <2>2. Sound(rest) /\ rest.front = F /\ rest.main = db.main
    BY <1>2, <2>1, FrontSound
  <2> QED
    BY <2>2 DEF F
<1> HIDE DEF rest
<1>6. /\ o \in uniq => FlowsTo(db, uniq, rest, uniq)
      /\ o \notin uniq /\ ~ Virtual(o) => FlowsTo(db, uniq, Calculated(rest, o), U)
      /\ o \notin uniq /\ Virtual(o) =>
           \A s \in Queues(rest, o) : FlowsTo(db, uniq, Distributed(rest, o, s), U)
  <2>1. Flowing(db, uniq)
    BY DEF FlowOK
  <2> QED
    BY <1>1, <1>2, <1>3, <1>5, <2>1, TurnFlows
<1>7. Virtual(o) => o.kind = "issue"
  <2>1. Plain(o)
    BY <1>2, <1>3, DatabaseFacts, RootedFacts DEF Sound, Placed
  <2> QED
    BY <2>1 DEF Plain, Virtual
<1> HIDE DEF U
<1>8. \E e, V : FlowsTo(db, uniq, e, V) /\ Leave(e, V)
  BY <1>4, <1>6, <1>7
<1>9. PICK e, V : FlowsTo(db, uniq, e, V) /\ db' = e /\ uniq' = IF e.front = {} THEN {} ELSE V
  BY <1>8 DEF Leave
<1>10. Told' = Told
  BY <1>1 DEF Told
<1>11. \A a \in Told : a \in Ops /\ ~ a.dep /\ Heard(e, V, a)
  <2>1. \A a \in Told : a \in Ops /\ ~ a.dep /\ Heard(db, uniq, a)
    BY OpFacts, SaneFacts, LedgerAssumption DEF FlowOK, Told, DocumentOps
  <2> QED
    BY <1>9, <2>1 DEF FlowsTo
<1>12. /\ Flowing(db', uniq') /\ AllShared(db', uniq')
       /\ \A a \in Told : Heard(db', uniq', a)
  <2>1. AllShared(e, V)
    BY <1>9 DEF FlowsTo, FlowOK
  <2>2. CASE e.front = {}
    BY <1>9, <1>11, <2>1, <2>2, ForgottenFlows, ForgottenHears, ForgottenShares DEF FlowsTo
  <2>3. CASE e.front # {}
    BY <1>9, <1>11, <2>1, <2>3 DEF FlowsTo
  <2> QED
    BY <2>2, <2>3
<1> QED
  BY <1>1, <1>10, <1>12 DEF FlowOK

LEMMA PutKeepsFlow ==
  ASSUME Orderly, FlowOK, BalancesOK', NEW o \in Entries, queue = <<Put(o)>>,
         docs[o.id] = {o}, Record
  PROVE  FlowOK'
<1> DEFINE known == {r.op.parts : r \in Stored(db, o)}
           parts == IF known = {} THEN <<>> ELSE CHOOSE x \in known : TRUE
           p == [o EXCEPT !.parts = parts]
<1>1. /\ Head(queue) = Put(o) /\ Put(o).op = o /\ Put(o).what = "put" /\ "put" # "del"
      /\ Tail(queue) = <<>>
  BY DEF Put
<1>2. /\ db.front = {} /\ db' = Push(db, p) /\ queue' = <<>>
      /\ docs' = docs /\ uniq' = uniq
  BY <1>1 DEF Record
<1>3. uniq = {} /\ LedgerOK /\ OnTheWay(db, {}, Roots) /\ Flowing(db, {}) /\ Sound(db)
  BY <1>2 DEF FlowOK, BalancesOK, OnTheWay
<1>4. o \in Sane /\ o \in Ops /\ o.dep = FALSE /\ o.qty > 0
  BY OpFacts, SaneFacts, LedgerAssumption DEF DocumentOps, Orderly
<1>5. \A r \in db.main : Key(r.op) = Key(o) => r.op.parts = parts
  <2> SUFFICES ASSUME NEW r \in db.main, Key(r.op) = Key(o) PROVE r.op.parts = parts
    OBVIOUS
  <2>1. r \in Stored(db, o)
    BY <1>3, <1>4, StoredFacts
  <2>2. \A x \in known : x = r.op.parts
    <3>1. \A s \in Stored(db, o) : s = r
      BY <1>3, <1>4, StoredFacts DEF Sound, IsKeyed
    <3> QED
      BY <3>1
  <2>3. r.op.parts \in known
    BY <2>1
  <2>4. parts \in known
    BY <2>3
  <2> HIDE DEF known, parts
  <2> QED
    BY <2>2, <2>4
<1> HIDE DEF parts
<1>6. /\ p.id = o.id /\ p.date = o.date /\ p.kind = o.kind /\ p.store = o.store
      /\ p.batch = o.batch /\ p.dep = o.dep /\ p.qty = o.qty
  BY <1>4 DEF Ops
<1>7. p.parts = parts
  BY <1>4 DEF Ops
<1>8. Key(p) = Key(o)
  BY <1>6 DEF Key, Order, Flag
<1> HIDE DEF p
<1>9. db'.main = db.main /\ db'.front = {p}
  <2>1. db \in Databases
    BY <1>3 DEF Sound
  <2> QED
    BY <1>2, <2>1 DEF Push, Databases
<1>10. p \in Sane
  <2>1. Sound(db')
    BY DEF BalancesOK, LedgerOK
  <2> QED
    BY <1>9, <2>1, DatabaseFacts DEF Sound
<1>11. \A r \in OpsOf(db) : Key(r) = Key(p) => r.parts = p.parts
  BY <1>5, <1>7, <1>8 DEF OpsOf
<1>12. Flowing(db', {})
  BY <1>2, <1>3, <1>4, <1>6, <1>9, <1>10, <1>11, PutFlows
<1>13. ASSUME NEW a \in Told' PROVE Heard(db', {}, a)
  <2>1. a \in Entries /\ docs[a.id] = {a} /\ a \in Ops
    BY <1>2, OpFacts, SaneFacts DEF Told
  <2>2. CASE a.id = o.id
    <3>1. a = o
      BY <2>1, <2>2
    <3> QED
      BY <1>2, <1>6, <1>8, <1>9, <3>1, PutHears
  <2>3. CASE a.id # o.id
    <3>1. queue[1] = Put(o) /\ DOMAIN queue = {1}
      OBVIOUS
    <3>2. a \in Told
      BY <1>1, <2>1, <2>3, <3>1 DEF Told
    <3>3. Heard(db, {}, a)
      BY <1>3, <3>2 DEF FlowOK
    <3>4. Key(p) # Key(a)
      BY <1>4, <1>8, <2>1, <2>3, KeyFacts
    <3> QED
      BY <1>2, <1>9, <3>3, <3>4, PutHears
  <2> QED
    BY <2>2, <2>3
<1>14. AllShared(db', {})
  <2>1. \A r \in OpsOf(db) : r \in Sane
    BY <1>3, DatabaseFacts DEF Sound, OpsOf
  <2>2. AllShared(db, {}) /\ p \in Ops
    BY <1>3, <1>10, SaneFacts DEF FlowOK
  <2> QED
    BY <1>2, <1>4, <1>6, <1>9, <2>1, <2>2, PutShares
<1> QED
  BY <1>2, <1>3, <1>12, <1>13, <1>14 DEF FlowOK

LEMMA DelKeepsFlow ==
  ASSUME Orderly, FlowOK, BalancesOK', NEW old \in Removable, Record,
         Head(queue) = Del(old), queue # <<>>,
         \A a \in Told' : a \in Told /\ a.id # old.id
  PROVE  FlowOK'
<1>1. Del(old).op = old /\ Del(old).what = "del"
  BY DEF Del
<1>2. db.front = {} /\ db' = Delete(db, old) /\ uniq' = uniq
  BY <1>1 DEF Record
<1>3. uniq = {} /\ LedgerOK /\ OnTheWay(db, {}, Roots) /\ Flowing(db, {})
  BY <1>2 DEF FlowOK, BalancesOK
<1>4. Meant(Roots) /\ Sound(db) /\ Placed(db, {}, Roots)
  BY <1>3, RootsMeant DEF OnTheWay
<1>5. old \in Entries /\ old \in Sane /\ ~ Virtual(old) /\ ~ old.dep /\ old.qty > 0
  <2>1. old \in Entries /\ old \in Sane /\ old.kind \in Kinds /\ old.dep = FALSE
    BY OpFacts, LedgerAssumption DEF DocumentOps
  <2>2. old.kind # "inventory" /\ Careful
    BY <2>1 DEF Orderly
  <2> QED
    BY <2>1, <2>2, LedgerAssumption DEF Careful, Virtual, Kinds
<1>6. Rooted(old, Roots)
  <2>1. old \in Roots
    BY <1>1, <1>5 DEF Roots, Means
  <2>2. IsOwn(old, old)
    <3>1. old.parts = <<>>
      BY <1>5, LedgerAssumption DEF DocumentOps
    <3>2. \A i : i \notin DOMAIN <<>>
      OBVIOUS
    <3> QED
      BY <1>5, <3>1, <3>2 DEF IsOwn
  <2> QED
    BY <2>1, <2>2 DEF Rooted, Belongs
<1>7. \E M : Reduced(db, db', GoneWith(old), M)
  BY <1>2, <1>4, <1>5, DeleteReduces
<1>8. PICK M : Reduced(db, db', GoneWith(old), M)
  BY <1>7
<1>9. Flowing(db', {})
  BY <1>2, <1>3, <1>4, <1>5, <1>6, <1>8, DeletedFlows
<1>10. ASSUME NEW a \in Told' PROVE Heard(db', {}, a)
  <2>1. a \in Told /\ a.id # old.id /\ a \in Ops
    BY OpFacts, SaneFacts DEF Told
  <2>2. Heard(db, {}, a)
    BY <1>3, <2>1 DEF FlowOK
  <2> QED
    BY <1>2, <1>4, <1>5, <1>8, <2>1, <2>2, DeletedHears
<1>11. AllShared(db', {})
  <2>1. AllShared(db, {})
    BY <1>3 DEF FlowOK
  <2> QED
    BY <1>2, <1>4, <1>5, <1>6, <1>8, <2>1, DeletedShares
<1> QED
  BY <1>2, <1>3, <1>9, <1>10, <1>11 DEF FlowOK

LEMMA RecordKeepsFlow ==
  ASSUME Orderly, FlowOK, Record
  PROVE  FlowOK'
<1>1. BalancesOK'
  BY RecordKeepsBalances DEF FlowOK
<1>2. queue # <<>> /\ queue' = Tail(queue) /\ docs' = docs /\ QueueFits
  BY DEF Record, FlowOK, BalancesOK
<1>3. /\ \A a : Tail(<<a>>) = <<>> /\ Head(<<a>>) = a /\ DOMAIN <<a>> = {1} /\ <<a>>[1] = a
      /\ \A a, b : /\ Tail(<<a, b>>) = <<b>> /\ Head(<<a, b>>) = a /\ DOMAIN <<a, b>> = {1, 2}
                   /\ <<a, b>>[1] = a /\ <<a, b>>[2] = b
  OBVIOUS
<1>4. \A a : Put(a).op = a /\ Del(a).op = a
  BY DEF Put, Del
<1>5. ASSUME NEW o \in Entries, queue = <<Put(o)>>, docs[o.id] = {o}
      PROVE  FlowOK'
  BY <1>1, <1>5, PutKeepsFlow
<1>6. ASSUME NEW old \in Removable, queue = <<Del(old)>>, docs[old.id] = {}
      PROVE  FlowOK'
  <2>1. Head(queue) = Del(old) /\ queue' = <<>> /\ DOMAIN queue = {1} /\ queue[1].op = old
    BY <1>2, <1>3, <1>4, <1>6
  <2>2. \A a \in Told' : a \in Told /\ a.id # old.id
    BY <1>2, <1>6, <2>1 DEF Told
  <2> QED
    BY <1>1, <1>2, <2>1, <2>2, DelKeepsFlow
<1>7. ASSUME NEW old \in Removable, NEW o \in Entries, queue = <<Del(old), Put(o)>>,
             old.id = o.id
      PROVE  FlowOK'
  <2>1. /\ Head(queue) = Del(old) /\ queue' = <<Put(o)>>
        /\ DOMAIN queue = {1, 2} /\ queue[1].op = old /\ queue[2].op = o
        /\ DOMAIN (queue') = {1} /\ (queue')[1].op = o
    BY <1>2, <1>3, <1>4, <1>7
  <2>2. \A a \in Told' : a \in Told /\ a.id # old.id
    BY <1>2, <1>7, <2>1 DEF Told
  <2> QED
    BY <1>1, <1>2, <2>1, <2>2, DelKeepsFlow
<1> QED
  BY <1>2, <1>5, <1>6, <1>7 DEF QueueFits

LEMMA FlowsOn == Orderly => (Spec => []FlowOK)
<1> SUFFICES ASSUME Orderly PROVE Spec => []FlowOK
  OBVIOUS
<1>1. Init /\ BalancesOK => FlowOK
  <2> SUFFICES ASSUME Init, BalancesOK PROVE FlowOK
    OBVIOUS
  <2>1. db.main = {} /\ db.front = {} /\ uniq = {}
    BY DEF Init, Empty
  <2>2. Flowing(db, uniq) /\ AllShared(db, uniq)
    BY <2>1 DEF Flowing, AllFull, AllTaken, SameParts, AllSent, AllCame, AllLookedAt, AllShared, AllOps, OpsOf
  <2>3. Told = {}
    <3> SUFFICES ASSUME NEW o \in Entries, docs[o.id] = {o} PROVE FALSE
      BY DEF Told
    <3>1. o.id \in Ids
      BY DEF Ids
    <3> QED
      BY <3>1 DEF Init
  <2> QED
    BY <2>2, <2>3 DEF FlowOK
<1>2. FlowOK /\ [Next]_vars => FlowOK'
  <2> SUFFICES ASSUME FlowOK, [Next]_vars PROVE FlowOK'
    OBVIOUS
  <2>1. CASE UNCHANGED vars
    BY <2>1 DEF vars, FlowOK, Told, BalancesOK, LedgerOK, DocsOK, QueueOK, QueueFits, Roots, Means
  <2>2. ASSUME NEW o \in Entries, Enter(o) PROVE FlowOK'
    BY <2>2, EnterKeepsFlow
  <2>3. ASSUME NEW old \in Entries, NEW o \in Entries, old.id = o.id, Change(old, o)
        PROVE  FlowOK'
    BY <2>3, ChangeKeepsFlow
  <2>4. ASSUME NEW old \in Entries, Withdraw(old) PROVE FlowOK'
    BY <2>4, WithdrawKeepsFlow
  <2>5. ASSUME NEW old \in Entries, NEW o \in Entries, Refile(old, o) PROVE FlowOK'
    BY <2>5 DEF Orderly, Refile
  <2>6. CASE Record
    BY <2>6, RecordKeepsFlow
  <2>7. CASE Turn
    BY <2>7, TurnKeepsFlow
  <2> QED
    BY <2>1, <2>2, <2>3, <2>4, <2>5, <2>6, <2>7 DEF Next
<1>3. Spec => []BalancesOK
  BY BalancesStay
<1> QED
  BY <1>1, <1>2, <1>3, PTL DEF Spec

(* What is at a number is the operation of a document of that number.      *)
DocsNamed == \A i \in Ids : \A o \in docs[i] : o \in Entries /\ o.id = i

LEMMA DocsStayNamed == Spec => []DocsNamed
<1>1. Init => DocsNamed
  BY DEF Init, DocsNamed
<1>2. DocsNamed /\ LedgerOK /\ [Next]_vars => DocsNamed'
  <2> SUFFICES ASSUME DocsNamed, LedgerOK, [Next]_vars PROVE DocsNamed'
    OBVIOUS
  <2>1. docs \in [Ids -> {{}} \cup {{o} : o \in Entries}]
    BY DEF LedgerOK, DocsOK
  <2>2. ASSUME NEW i \in Ids, NEW new, NEW ms, Edit(i, new, ms),
               \A o \in new : o \in Entries /\ o.id = i
        PROVE  DocsNamed'
    <3>1. docs' = [docs EXCEPT ![i] = new]
      BY <2>2 DEF Edit
    <3>2. \A j \in Ids : docs'[j] = IF j = i THEN new ELSE docs[j]
      BY <2>1, <3>1
    <3> QED
      BY <2>2, <3>2 DEF DocsNamed
  <2>3. \A o \in Entries : o.id \in Ids
    BY DEF Ids
  <2>4. ASSUME NEW o \in Entries, Enter(o) PROVE DocsNamed'
    <3>1. Edit(o.id, {o}, <<Put(o)>>)
      BY <2>4 DEF Enter
    <3> QED
      BY <2>2, <2>3, <3>1
  <2>5. ASSUME NEW old \in Entries, NEW o \in Entries, old.id = o.id, Change(old, o)
        PROVE  DocsNamed'
    <3>1. \E ms : Edit(o.id, {o}, ms)
      BY <2>5 DEF Change
    <3> QED
      BY <2>2, <2>3, <3>1
  <2>6. ASSUME NEW old \in Entries, Withdraw(old) PROVE DocsNamed'
    <3>1. Edit(old.id, {}, <<Del(old)>>)
      BY <2>6 DEF Withdraw
    <3> QED
      BY <2>2, <2>3, <3>1
  <2>7. ASSUME NEW old \in Entries, NEW o \in Entries, Refile(old, o) PROVE DocsNamed'
    <3>1. Edit(o.id, {o}, <<>>)
      BY <2>7 DEF Refile
    <3> QED
      BY <2>2, <2>3, <3>1
  <2>8. docs' = docs => DocsNamed'
    BY DEF DocsNamed
  <2> QED
    BY <2>4, <2>5, <2>6, <2>7, <2>8 DEF Next, Record, Turn, vars
<1> QED
  BY <1>1, <1>2, LedgerStays, PTL DEF Spec

(* Once an edit is recorded, what a transfer takes from one store has      *)
(* arrived in the other, same batch, quantity and cost, whatever was       *)
(* changed or withdrawn, and in whatever order it was looked at.           *)
THEOREM TransfersGetThere == Orderly => (Spec => []TransfersArrive)
<1> SUFFICES ASSUME Orderly PROVE Spec => []TransfersArrive
  OBVIOUS
<1>1. FlowOK => TransfersArrive
  <2> SUFFICES ASSUME FlowOK, Idle, NEW r \in db.main, IsTransfer(r.op), ~ Virtual(r.op)
               PROVE  Arrival(r.op) \in {q.op : q \in db.main}
    BY DEF TransfersArrive
  <2>1. AllSent(db, uniq) /\ r.op \in OpsOf(db) /\ Moving(r.op) /\ db.front = {}
    BY DEF FlowOK, Flowing, OpsOf, Moving, Idle
  <2>2. Arrival(r.op) \in OpsOf(db)
    BY <2>1 DEF AllSent
  <2> QED
    BY <2>2 DEF OpsOf
<1>2. Spec => []FlowOK
  BY FlowsOn
<1> QED
  BY <1>1, <1>2, PTL

(* Once an edit is recorded, every document is stored with its quantity,   *)
(* and nothing is stored but the operations of documents, the parts that   *)
(* virtual issues took from batches and the arrivals of transfers: no edit *)
(* of any past day, and no order of looking again, leaves anything behind  *)
(* or loses anything.  So it is as long as documents are orderly.          *)
THEOREM LedgerMatches == Orderly => (Spec => []LedgerMatchesDocuments)
<1> SUFFICES ASSUME Orderly PROVE Spec => []LedgerMatchesDocuments
  OBVIOUS
<1>1. FlowOK /\ DocsNamed => LedgerMatchesDocuments
  <2> SUFFICES ASSUME FlowOK, DocsNamed, Idle
               PROVE  /\ \A i \in Ids : \A o \in docs[i] :
                           o.kind # "inventory" => \E r \in Stored(db, o) : r.op.qty = o.qty
                      /\ \A r \in db.main :
                           IF r.op.dep THEN HasCause(r.op)
                                       ELSE \E o \in docs[r.op.id] : Key(o) = Key(r.op)
    BY DEF LedgerMatchesDocuments
  <2>1. /\ queue = <<>> /\ db.front = {} /\ uniq = {} /\ LedgerOK /\ OnTheWay(db, {}, Roots)
        /\ Flowing(db, {})
    BY DEF FlowOK, BalancesOK, Idle
  <2>2. Meant(Roots) /\ Sound(db) /\ Placed(db, {}, Roots)
    BY <2>1, RootsMeant DEF OnTheWay
  <2>3. docs \in [Ids -> {{}} \cup {{o} : o \in Entries}]
    BY <2>1 DEF LedgerOK, DocsOK
  <2>4. /\ \A p \in OpsOf(db) : p \in Sane /\ p \in Ops /\ Rooted(p, Roots) /\ Plain(p)
        /\ \A p, q \in OpsOf(db) : Key(p) = Key(q) => p = q
    BY <2>2, OnTheWayOps DEF AllOps
  <2>5. \A p : p \in OpsOf(db) <=> \E r \in db.main : r.op = p
    BY DEF OpsOf
  <2>6. ASSUME NEW i \in Ids, NEW o \in docs[i] PROVE \E r \in Stored(db, o) : r.op.qty = o.qty
    <3>1. o \in Entries /\ o.id = i /\ docs[i] = {o} /\ o \in Sane
      BY <2>3, OpFacts DEF DocsNamed
    <3>2. o \in Told
      BY <2>1, <3>1 DEF Told
    <3>3. \E p \in OpsOf(db) : Key(p) = Key(o) /\ p.qty = o.qty
      BY <2>1, <3>2 DEF FlowOK, Heard, OnFront
    <3> QED
      BY <2>2, <2>5, <3>1, <3>3, StoredFacts
  <2>7. ASSUME NEW r \in db.main, ~ r.op.dep PROVE \E o \in docs[r.op.id] : Key(o) = Key(r.op)
    <3>1. r.op \in Ops /\ Rooted(r.op, Roots)
      BY <2>4, <2>5
    <3>2. PICK e \in Roots : Belongs(r.op, e)
      BY <3>1 DEF Rooted
    <3>3. e \in Entries /\ e \in Ops /\ e \in docs[e.id] /\ e.dep = FALSE
      BY <2>1, <3>2, OpFacts, SaneFacts, LedgerAssumption DEF Roots, Means, DocumentOps
    <3>4. r.op.id = e.id /\ r.op.date = e.date /\ IsOwn(r.op, e)
      BY <2>7, <3>2 DEF Belongs, IsPart, IsArrival
    <3>5. r.op.dep = e.dep
      BY <2>7, <3>1, <3>3 DEF Ops
    <3>6. Key(e) = Key(r.op)
      BY <3>1, <3>3, <3>4, <3>5, KeyFields DEF IsOwn
    <3> QED
      BY <3>3, <3>4, <3>6
  <2>8. ASSUME NEW p \in OpsOf(db), p.dep PROVE HasCause(p)
    <3>1. p \in AllOps(db) /\ p \in Ops /\ Plain(p) /\ p.dep
      BY <2>4, <2>8 DEF AllOps
    <3>2. CASE p.kind = "issue"
      <4>1. PICK v \in OpsOf(db) : TakesFor(p, v)
        BY <2>1, <3>1, <3>2 DEF Flowing, AllTaken, Taking
      <4>2. PICK w \in db.main : w.op = v
        BY <2>5
      <4>3. PICK i \in DOMAIN v.parts : v.parts[i].batch = p.batch
        BY <4>1 DEF TakesFor, BatchesOf
      <4>4. v \in Sane /\ Rooted(v, Roots) /\ Virtual(v) /\ v.kind = "issue"
        BY <2>4, <4>1 DEF TakesFor
      <4>5. v.parts[i] = [kind |-> "issue", batch |-> p.batch]
        BY <2>2, <4>3, <4>4, ZeroFacts
      <4>6. Contains(v.parts, [kind |-> "issue", batch |-> p.batch])
        <5>1. v.parts \in Seq(Deps)
          BY <4>4, SaneFacts
        <5> QED
          BY <4>5, <5>1 DEF Contains
      <4>7. p = Part(v, p.batch, p.qty, p.cost)
        BY <4>1 DEF TakesFor
      <4> QED
        BY <3>2, <4>2, <4>4, <4>6, <4>7 DEF HasCause
    <3>3. CASE p.kind = "receive"
      <4>1. PICK t \in OpsOf(db) : Sends(t, p)
        BY <2>1, <3>1, <3>3 DEF Flowing, AllCame, Came
      <4>2. Arrival(t) \in OpsOf(db)
        BY <2>1, <4>1 DEF Flowing, AllSent, Sends
      <4>3. Arrival(t) = p
        BY <2>4, <3>1, <4>1, <4>2 DEF Sends
      <4>4. PICK w \in db.main : w.op = t
        BY <2>5
      <4> QED
        BY <3>3, <4>1, <4>3, <4>4 DEF HasCause, Sends, Moving
    <3> QED
      BY <3>1, <3>2, <3>3 DEF Plain
  <2>9. \A r \in db.main : r.op.dep => HasCause(r.op)
    BY <2>5, <2>8
  <2> QED
    BY <2>6, <2>7, <2>9
<1>2. Spec => []FlowOK
  BY FlowsOn
<1> QED
  BY <1>1, <1>2, DocsStayNamed, PTL

(***************************************************************************)
(* What the operations of a ledger add up to.                              *)
(***************************************************************************)
LEMMA SumOfOne ==
  ASSUME NEW p \in Ops
  PROVE  SumOf({p}) = Delta(p) /\ SumOf({}) = Nothing
<1>1. IsFiniteSet({p}) /\ IsFiniteSet({}) /\ {p} \ {p} = {}
  BY FS_Singleton, FS_EmptySet
<1>2. SumOf({}) = Nothing
  BY <1>1, SumUnfolds
<1>3. SumOf({p}) = Plus(Nothing, Delta(p))
  BY <1>1, <1>2, SumWith
<1>4. Delta(p).qty \in Int /\ Delta(p).cost \in Int /\ Delta(p) \in [qty : Int, cost : Int]
  BY OpDelta DEF Balance
<1> QED
  BY <1>2, <1>3, <1>4 DEF Plus, Nothing

(* A transfer and its receive leave the stock of all stores as it is.      *)
Arrivals(A) == {Arrival(t) : t \in A}

LEMMA PairsCancel ==
  ASSUME NEW A, IsFiniteSet(A), A \subseteq Sane, \A t \in A : Moving(t),
         \A s, t \in A : Arrival(s) = Arrival(t) => s = t
  PROVE  SumOf(A \cup Arrivals(A)).qty = 0
<1> DEFINE P == {T \in SUBSET A : SumOf(T \cup Arrivals(T)).qty = 0}
<1>1. ASSUME NEW T \in SUBSET A, \A U \in (SUBSET T) \ {T} : U \in P
      PROVE  T \in P
  <2>1. CASE T = {}
    <3>1. T \cup Arrivals(T) = {} /\ IsFiniteSet({})
      BY <2>1, FS_EmptySet DEF Arrivals
    <3>2. SumOf(T \cup Arrivals(T)) = Nothing
      BY <3>1, SumUnfolds
    <3> QED
      BY <3>2 DEF Nothing
  <2>2. CASE T # {}
    <3>1. PICK t \in T : TRUE
      BY <2>2
    <3> DEFINE Z == T \ {t}
               W == T \cup Arrivals(T)
               V == W \ {t}
    <3>2. Z \in P
      BY <1>1, <3>1
    <3>3. SumOf(Z \cup Arrivals(Z)).qty = 0
      BY <3>2
    <3>4. \A x \in T : x \in Sane /\ x \in Ops /\ x.kind = "issue"
      BY SendsFacts
    <3>5. \A x \in T : Arrival(x) \in Ops /\ Arrival(x).kind = "receive" /\ Arrival(x).qty = x.qty
      BY SendsFacts
    <3>6. IsFiniteSet(T) /\ IsFiniteSet(Arrivals(T))
      <4>1. IsFiniteSet(T)
        BY FS_Subset
      <4> DEFINE f == [x \in T |-> Arrival(x)]
      <4>2. f \in [T -> Arrivals(T)] /\ \A y \in Arrivals(T) : \E x \in T : f[x] = y
        BY DEF Arrivals
      <4> HIDE DEF f
      <4>3. IsFiniteSet(Arrivals(T))
        BY <4>1, <4>2, Images
      <4> QED
        BY <4>1, <4>3
    <3>7. IsFiniteSet(W) /\ W \subseteq Ops /\ t \in W
      BY <3>1, <3>4, <3>5, <3>6, FS_Union DEF Arrivals
    <3>8. IsFiniteSet(V) /\ V \subseteq Ops /\ Arrival(t) \in V
      <4>1. Arrival(t) \in W /\ Arrival(t) # t
        BY <3>1, <3>4, <3>5 DEF Arrivals
      <4> QED
        BY <3>7, <4>1, FS_Subset
    <3>9. V \ {Arrival(t)} = Z \cup Arrivals(Z)
      <4>1. \A x \in T : Arrival(x) \notin T
        BY <3>4, <3>5
      <4>2. \A x \in T : Arrival(x) = Arrival(t) => x = t
        BY <3>1
      <4>3. \A y : y \in Arrivals(T) <=> \E x \in T : y = Arrival(x)
        BY DEF Arrivals
      <4>4. \A y : y \in Arrivals(Z) <=> \E x \in Z : y = Arrival(x)
        BY DEF Arrivals
      <4>5. \A y : y \in V \ {Arrival(t)} <=> y \in Z \cup Arrivals(Z)
        BY <3>1, <4>1, <4>2, <4>3, <4>4
      <4> QED
        BY <4>5
    <3> HIDE DEF Z, V, W
    <3>10. SumOf(W) = Plus(SumOf(V), Delta(t))
      BY <3>7, SumWith DEF V
    <3>11. SumOf(V) = Plus(SumOf(Z \cup Arrivals(Z)), Delta(Arrival(t)))
      BY <3>8, <3>9, SumWith
    <3>12. t.qty \in Int /\ Delta(t).qty = - t.qty /\ Delta(Arrival(t)).qty = t.qty
      BY <3>1, <3>4, <3>5 DEF Delta, Ops
    <3>13. SumOf(W).qty = 0
      BY <3>3, <3>10, <3>11, <3>12 DEF Plus
    <3> QED
      BY <3>13 DEF W
  <2> QED
    BY <2>1, <2>2
<1>2. \A T \in SUBSET A : T \in P
  <2> HIDE DEF P
  <2> QED
    BY <1>1, SubsetInduction
<1> QED
  BY <1>2

(* What is stored of the parts of an issue takes what they take.           *)
LEMMA PartsAddUp ==
  ASSUME NEW v \in Sane, NEW parts \in Seq(PartsOf(v)),
         \A i, j \in DOMAIN parts : parts[i].batch = parts[j].batch => i = j,
         NEW P, IsFiniteSet(P), P \subseteq Ops,
         \A p, q \in P : p.batch = q.batch => p = q,
         \A p \in P : /\ p.kind = "issue"
                      /\ \E i \in DOMAIN parts : p.batch = parts[i].batch /\ p.qty = parts[i].qty,
         \A i \in DOMAIN parts : \E p \in P : p.batch = parts[i].batch
  PROVE  SumOf(P).qty = - Quantity(parts)
<1> DEFINE n == Len(parts)
           Of(k) == {p \in P : \E j \in 1 .. k : p.batch = parts[j].batch}
<1>1. n \in Nat /\ DOMAIN parts = 1 .. n
  OBVIOUS
<1>2. \A i \in 1 .. n : parts[i] \in Ops
  <2>1. \A i \in 1 .. n : parts[i] \in PartsOf(v)
    BY <1>1
  <2> QED
    BY <2>1, PartsFields
<1>3. \A i \in 1 .. n : parts[i].qty \in Int /\ parts[i].cost \in Int
  BY <1>2 DEF Ops
<1> HIDE DEF n
<1>4. PICK sums : PartialSums(sums, n, parts)
  BY <1>1, <1>3, PlusPartialSums
<1>5. FoldLeft(Plus, Nothing, parts) = sums[n]
  BY <1>1, <1>4 DEF PartialSums
<1> DEFINE K == {k \in 0 .. n : SumOf(Of(k)).qty = - sums[k].qty}
<1>6. 0 \in K
  <2>1. Of(0) = {} /\ IsFiniteSet({})
    BY FS_EmptySet
  <2>2. SumOf(Of(0)) = Nothing
    BY <2>1, SumUnfolds
  <2>3. sums[0] = Nothing
    BY <1>4 DEF PartialSums
  <2>4. Nothing.qty = 0
    BY DEF Nothing
  <2>5. SumOf(Of(0)).qty = - sums[0].qty
    <3>1. SumOf(Of(0)).qty = 0 /\ sums[0].qty = 0
      BY <2>2, <2>3, <2>4
    <3> HIDE DEF Of
    <3> QED
      BY <3>1
  <2>6. 0 \in 0 .. n
    BY <1>1
  <2> HIDE DEF Of
  <2> QED
    BY <2>5, <2>6
<1>7. ASSUME NEW k \in 0 .. n - 1, k \in K PROVE k + 1 \in K
  <2>1. k + 1 \in 1 .. n /\ k \in 0 .. n /\ k + 1 \in 0 .. n
    BY <1>1
  <2>2. PICK p \in P : p.batch = parts[k + 1].batch
    BY <1>1, <2>1
  <2>3. p.kind = "issue" /\ p.qty = parts[k + 1].qty /\ p \in Ops
    <3>1. PICK i \in DOMAIN parts : p.batch = parts[i].batch /\ p.qty = parts[i].qty
      OBVIOUS
    <3>2. i = k + 1
      BY <1>1, <2>1, <2>2, <3>1
    <3> QED
      BY <3>1, <3>2
  <2>4. Of(k + 1) \ {p} = Of(k)
    <3>1. \A j \in 1 .. k : j \in 1 .. n /\ j # k + 1 /\ j \in 1 .. k + 1
      BY <1>1
    <3>2. \A j \in 1 .. k + 1 : j = k + 1 \/ j \in 1 .. k
      BY <1>1
    <3>3. \A q \in P : q.batch = parts[k + 1].batch => q = p
      BY <2>2
    <3>4. p \notin Of(k)
      BY <1>1, <2>1, <2>2, <3>1
    <3> QED
      BY <3>1, <3>2, <3>3, <3>4
  <2>5. p \in Of(k + 1) /\ IsFiniteSet(Of(k + 1)) /\ Of(k + 1) \subseteq Ops
    <3>1. k + 1 \in 1 .. k + 1
      BY <1>1
    <3> QED
      BY <2>2, <3>1, FS_Subset
  <2> HIDE DEF Of
  <2>6. SumOf(Of(k + 1)) = Plus(SumOf(Of(k)), Delta(p))
    BY <2>4, <2>5, SumWith
  <2>7. sums[k + 1] = Plus(sums[k], parts[k + 1])
    <3>1. sums[k + 1] = Plus(sums[(k + 1) - 1], parts[k + 1])
      BY <1>4, <2>1 DEF PartialSums
    <3>2. (k + 1) - 1 = k
      BY <2>1
    <3> QED
      BY <3>1, <3>2
  <2>8. Delta(p).qty = - p.qty
    BY <2>3 DEF Delta, Ops
  <2>9. SumOf(Of(k)).qty = - sums[k].qty
    BY <1>7
  <2>10. sums[k].qty \in Int /\ parts[k + 1].qty \in Int
    BY <1>3, <1>4, <2>1 DEF PartialSums, Balance
  <2>11. SumOf(Of(k + 1)).qty = SumOf(Of(k)).qty + Delta(p).qty
    BY <2>6 DEF Plus
  <2>12. sums[k + 1].qty = sums[k].qty + parts[k + 1].qty
    BY <2>7 DEF Plus
  <2>13. SumOf(Of(k + 1)).qty = - sums[k + 1].qty
    BY <2>3, <2>8, <2>9, <2>10, <2>11, <2>12
  <2> QED
    BY <2>1, <2>13
<1>8. n \in K
  <2> HIDE DEF K
  <2>1. \A i \in 0 .. n : i \in K
    BY <1>1, <1>6, <1>7, UpTo
  <2> QED
    BY <1>1, <2>1
<1>9. Of(n) = P
  BY <1>1
<1> QED
  BY <1>5, <1>8, <1>9 DEF Quantity

(***************************************************************************)
(* Between edits.                                                          *)
(***************************************************************************)

(* The operations of document i that move stock.                           *)
OfDoc(i) == {p \in db.index : p.id = i}

(* What is so once an edit is recorded.                                    *)
Settled ==
  /\ Sound(db) /\ NoCounts(db) /\ db.front = {} /\ Meant(Roots) /\ Placed(db, {}, Roots)
  /\ Flowing(db, {}) /\ AllShared(db, {})
  /\ docs \in [Ids -> {{}} \cup {{o} : o \in Entries}]
  /\ \A o \in Roots : o \in docs[o.id]
  /\ \A i \in Ids : \A o \in docs[i] :
       /\ o \in Entries /\ o.id = i /\ docs[i] = {o}
       /\ \E p \in OpsOf(db) : Key(p) = Key(o) /\ p.qty = o.qty

LEMMA IdleSettled ==
  ASSUME Orderly, FlowOK, DocsNamed, Idle
  PROVE  Settled
<1>1. /\ queue = <<>> /\ db.front = {} /\ uniq = {} /\ LedgerOK /\ OnTheWay(db, {}, Roots)
      /\ Flowing(db, {}) /\ AllShared(db, {})
  BY DEF FlowOK, BalancesOK, Idle
<1>2. Meant(Roots) /\ Sound(db) /\ Placed(db, {}, Roots)
  BY <1>1, RootsMeant DEF OnTheWay
<1>3. docs \in [Ids -> {{}} \cup {{o} : o \in Entries}]
  BY <1>1 DEF LedgerOK, DocsOK
<1>4. NoCounts(db)
  BY <1>2, DatabaseFacts, RootedFacts DEF Sound, Placed, NoCounts
<1>5. \A o \in Roots : o \in docs[o.id]
  BY <1>1 DEF Roots, Means
<1>6. ASSUME NEW i \in Ids, NEW o \in docs[i]
      PROVE  /\ o \in Entries /\ o.id = i /\ docs[i] = {o}
             /\ \E p \in OpsOf(db) : Key(p) = Key(o) /\ p.qty = o.qty
  <2>1. o \in Entries /\ o.id = i /\ docs[i] = {o}
    BY <1>3 DEF DocsNamed
  <2>2. \A j : j \notin DOMAIN <<>>
    OBVIOUS
  <2>3. o \in Told
    BY <1>1, <2>1, <2>2 DEF Told
  <2> QED
    BY <1>1, <2>1, <2>3 DEF FlowOK, Heard, OnFront
<1> QED
  BY <1>1, <1>2, <1>3, <1>4, <1>5, <1>6 DEF Settled

LEMMA SettledFacts ==
  ASSUME Orderly, Settled
  PROVE  /\ \A p \in OpsOf(db) : p \in Sane /\ p \in Ops /\ Rooted(p, Roots) /\ Plain(p)
         /\ \A p, q \in OpsOf(db) : Key(p) = Key(q) => p = q
         /\ \A p : p \in db.index <=> p \in OpsOf(db) /\ ~ Virtual(p)
         /\ IsFiniteSet(db.index) /\ db.index \subseteq Ops /\ IsFiniteSet(Ids)
         /\ \A p \in OpsOf(db) : \E e \in Entries : Belongs(p, e) /\ e \in docs[p.id] /\ p.id \in Ids
<1>1. /\ \A p \in OpsOf(db) : p \in Sane /\ p \in Ops /\ Rooted(p, Roots) /\ Plain(p)
      /\ \A p, q \in OpsOf(db) : Key(p) = Key(q) => p = q
  BY OnTheWayOps DEF AllOps, Settled
<1>2. \A p : p \in db.index <=> p \in OpsOf(db) /\ ~ Virtual(p)
  <2>1. \A p : p \in OpsOf(db) <=> \E r \in db.main : r.op = p
    BY DEF OpsOf
  <2>2. /\ \A p \in db.index : (\E r \in db.main : r.op = p) /\ ~ Virtual(p)
        /\ \A r \in db.main : ~ Virtual(r.op) => r.op \in db.index
    BY IndexedFacts DEF Settled
  <2> QED
    BY <2>1, <2>2
<1>3. IsFiniteSet(db.index) /\ db.index \subseteq Ops
  BY DatabaseFacts DEF Settled, Sound, IsFinite
<1>4. IsFiniteSet(Ids)
  <2> DEFINE f == [o \in Entries |-> o.id]
  <2>1. f \in [Entries -> Ids] /\ (\A i \in Ids : \E o \in Entries : f[o] = i) /\ IsFiniteSet(Entries)
    BY LedgerAssumption DEF Ids
  <2> HIDE DEF f
  <2> QED
    BY <2>1, Images
<1>5. ASSUME NEW p \in OpsOf(db)
      PROVE  \E e \in Entries : Belongs(p, e) /\ e \in docs[p.id] /\ p.id \in Ids
  <2>1. PICK e \in Roots : Belongs(p, e)
    BY <1>1 DEF Rooted
  <2>2. e \in Entries /\ p.id = e.id /\ e \in docs[e.id] /\ e.id \in Ids
    BY <2>1 DEF Settled, Belongs, Roots, Ids
  <2> QED
    BY <2>1, <2>2
<1> QED
  BY <1>1, <1>2, <1>3, <1>4, <1>5

(* A transfer moves stock, and that is all it does.                        *)
LEMMA TransfersAddNothing ==
  ASSUME Orderly, Settled, NEW e \in Entries, IsTransfer(e), \A p \in OfDoc(e.id) : Belongs(p, e)
  PROVE  SumOf(OfDoc(e.id)).qty = 0
<1> DEFINE I == OfDoc(e.id)
           A == {p \in I : p.kind = "issue"}
<1>0. /\ \A p \in OpsOf(db) : p \in Sane /\ p \in Ops /\ Rooted(p, Roots) /\ Plain(p)
      /\ \A p, q \in OpsOf(db) : Key(p) = Key(q) => p = q
      /\ \A p : p \in db.index <=> p \in OpsOf(db) /\ ~ Virtual(p)
      /\ IsFiniteSet(db.index) /\ db.index \subseteq Ops
  BY SettledFacts
<1>1. \A p : p \in I <=> p \in OpsOf(db) /\ ~ Virtual(p) /\ p.id = e.id
  BY <1>0 DEF OfDoc
<1>2. Meant(Roots) /\ AllSent(db, {}) /\ AllCame(db) /\ db.front = {}
  BY DEF Settled, Flowing
<1> HIDE DEF I
<1>3. ASSUME NEW p \in A
      PROVE  Moving(p) /\ p \in Sane /\ p \in OpsOf(db) /\ Arrival(p) \in I
             /\ Arrival(p).kind = "receive"
  <2>1. p \in OpsOf(db) /\ ~ Virtual(p) /\ p.id = e.id /\ p \in Sane /\ p \in Ops
        /\ Rooted(p, Roots) /\ p.kind = "issue"
    BY <1>0, <1>1
  <2>2. Belongs(p, e)
    BY <1>3 DEF I
  <2>3. p.into = e.into
    BY <2>1, <2>2 DEF Belongs, IsOwn, IsPart, IsArrival
  <2>4. Moving(p)
    BY <2>1, <2>3 DEF Moving, IsTransfer
  <2>5. Arrival(p) \in OpsOf(db)
    BY <1>2, <2>1, <2>4 DEF AllSent
  <2>6. Arrival(p).id = p.id /\ ~ Virtual(Arrival(p)) /\ Arrival(p).kind = "receive"
    BY <2>1, <2>4, SendsFacts
  <2> QED
    BY <1>1, <2>1, <2>4, <2>5, <2>6
<1>4. ASSUME NEW p \in I, p \notin A PROVE \E t \in A : p = Arrival(t)
  <2>1. p \in OpsOf(db) /\ p \in Ops /\ Rooted(p, Roots) /\ Plain(p) /\ p.id = e.id /\ Belongs(p, e)
    BY <1>0, <1>1 DEF I
  <2>2. p.kind = "receive"
    BY <1>4, <2>1 DEF Plain
  <2>3. p.dep
    BY <2>1, <2>2 DEF Belongs, IsOwn, IsPart, IsArrival, IsTransfer
  <2>4. PICK t \in OpsOf(db) : Sends(t, p)
    BY <1>2, <2>1, <2>2, <2>3 DEF AllCame, AllOps, Came
  <2>5. Moving(t) /\ Key(Arrival(t)) = Key(p)
    BY <2>4 DEF Sends
  <2>6. Arrival(t) \in OpsOf(db)
    BY <1>2, <2>4, <2>5 DEF AllSent
  <2>7. Arrival(t) = p
    BY <1>0, <2>1, <2>5, <2>6
  <2>8. t.id = e.id /\ t.kind = "issue"
    BY <1>0, <2>1, <2>4, <2>5, <2>7, SendsFacts
  <2>9. t \in A
    BY <1>1, <2>4, <2>5, <2>8 DEF Moving
  <2> QED
    BY <2>7, <2>9
<1>5. I = A \cup Arrivals(A)
  BY <1>3, <1>4 DEF Arrivals
<1>6. IsFiniteSet(A) /\ A \subseteq Sane /\ \A t \in A : Moving(t)
  <2>1. A \subseteq db.index
    BY DEF I, OfDoc
  <2> QED
    BY <1>0, <1>3, <2>1, FS_Subset
<1>7. \A s, t \in A : Arrival(s) = Arrival(t) => s = t
  BY <1>0, <1>2, <1>3, ArrivalKeys
<1> HIDE DEF A
<1>8. SumOf(A \cup Arrivals(A)).qty = 0
  BY <1>6, <1>7, PairsCancel
<1> QED
  BY <1>5, <1>8 DEF I

(* A document of one operation moves what that does.                       *)
LEMMA OneMovesItself ==
  ASSUME Orderly, Settled, NEW e \in Entries, ~ IsTransfer(e), ~ Virtual(e), docs[e.id] = {e},
         e.id \in Ids, \A p \in OfDoc(e.id) : Belongs(p, e)
  PROVE  SumOf(OfDoc(e.id)).qty = SumOf({e}).qty
<1>0. /\ \A p \in OpsOf(db) : p \in Sane /\ p \in Ops /\ Rooted(p, Roots) /\ Plain(p)
      /\ \A p, q \in OpsOf(db) : Key(p) = Key(q) => p = q
      /\ \A p : p \in db.index <=> p \in OpsOf(db) /\ ~ Virtual(p)
  BY SettledFacts
<1>1. e \in Ops /\ e.dep = FALSE
  BY OpFacts, SaneFacts, LedgerAssumption DEF DocumentOps
<1>2. PICK w \in OpsOf(db) : Key(w) = Key(e) /\ w.qty = e.qty
  BY DEF Settled
<1>3. w \in Ops /\ w.kind = e.kind /\ w.id = e.id /\ ~ Virtual(w)
  BY <1>0, <1>1, <1>2, KeyFacts
<1>4. w \in OfDoc(e.id)
  BY <1>0, <1>2, <1>3 DEF OfDoc
<1>5. ASSUME NEW p \in OfDoc(e.id) PROVE p = w
  <2>1. p \in OpsOf(db) /\ p \in Ops /\ Belongs(p, e)
    BY <1>0, <1>5 DEF OfDoc
  <2>2. p.id = e.id /\ p.date = e.date /\ IsOwn(p, e)
    BY <2>1 DEF Belongs, IsPart, IsArrival
  <2>3. p.dep = e.dep
    BY <1>1, <2>1, <2>2 DEF IsOwn, Ops
  <2>4. Key(p) = Key(e)
    BY <1>1, <2>1, <2>2, <2>3, KeyFields DEF IsOwn
  <2> QED
    BY <1>0, <1>2, <2>1, <2>4
<1>6. OfDoc(e.id) = {w}
  BY <1>4, <1>5
<1>7. SumOf({w}) = Delta(w) /\ SumOf({e}) = Delta(e)
  BY <1>1, <1>3, SumOfOne
<1>8. Delta(w).qty = Delta(e).qty
  BY <1>2, <1>3 DEF Delta
<1> QED
  BY <1>6, <1>7, <1>8

(* An issue that names no batch moves what its parts do, all of it.        *)
LEMMA PartsMoveItAll ==
  ASSUME Orderly, Settled, NEW e \in Entries, ~ IsTransfer(e), Virtual(e), e.kind = "issue",
         docs[e.id] = {e}, e.id \in Ids, \A p \in OfDoc(e.id) : Belongs(p, e)
  PROVE  SumOf(OfDoc(e.id)).qty = SumOf({e}).qty
<1> DEFINE P == OfDoc(e.id)
<1>0. /\ \A p \in OpsOf(db) : p \in Sane /\ p \in Ops /\ Rooted(p, Roots) /\ Plain(p)
      /\ \A p, q \in OpsOf(db) : Key(p) = Key(q) => p = q
      /\ \A p : p \in db.index <=> p \in OpsOf(db) /\ ~ Virtual(p)
      /\ IsFiniteSet(db.index) /\ db.index \subseteq Ops
  BY SettledFacts
<1>1. e \in Ops /\ e.dep = FALSE
  BY OpFacts, SaneFacts, LedgerAssumption DEF DocumentOps
<1>2. PICK w \in OpsOf(db) : Key(w) = Key(e) /\ w.qty = e.qty
  BY DEF Settled
<1>3. w \in Ops /\ w \in Sane /\ w.kind = "issue" /\ w.id = e.id /\ Virtual(w) /\ ~ w.dep
  BY <1>0, <1>1, <1>2, KeyFacts
<1>4. PICK parts \in Seq(PartsOf(w)) : Shares(db, {}, w, parts)
  BY <1>3 DEF Settled, AllShared
<1>5. /\ \A i, j \in DOMAIN parts : parts[i].batch = parts[j].batch => i = j
      /\ Quantity(parts) = e.qty /\ w.parts = Dependants(parts)
  BY <1>2, <1>4 DEF Shares
<1>6. \A i \in DOMAIN parts : parts[i] \in PartsOf(w)
  OBVIOUS
<1>7. ASSUME NEW i \in DOMAIN parts
      PROVE  \E p \in P : Key(p) = Key(parts[i]) /\ p.qty = parts[i].qty /\ p.batch = parts[i].batch
  <2>1. PICK p \in OpsOf(db) : Key(p) = Key(parts[i]) /\ p.qty = parts[i].qty
    BY <1>4 DEF Shares, Heard, OnFront, Settled
  <2>2. parts[i] \in Ops /\ parts[i].id = e.id /\ parts[i].dep = TRUE /\ parts[i].kind = "issue"
    BY <1>3, <1>6, PartsFields
  <2>3. p.id = e.id /\ p.dep = TRUE /\ p.kind = "issue" /\ p.batch = parts[i].batch
    BY <1>0, <2>1, <2>2, KeyFacts
  <2>4. p \in P
    BY <1>0, <2>1, <2>3 DEF OfDoc, Virtual
  <2> QED
    BY <2>1, <2>3, <2>4
<1>8. ASSUME NEW p \in P
      PROVE  p.kind = "issue" /\ \E i \in DOMAIN parts : p.batch = parts[i].batch /\ p.qty = parts[i].qty
  <2>1. p \in OpsOf(db) /\ p \in Ops /\ ~ Virtual(p) /\ p.id = e.id /\ Belongs(p, e)
        /\ Rooted(p, Roots)
    BY <1>0, <1>8 DEF OfDoc
  <2>2. IsPart(p, e)
    BY <2>1 DEF Belongs, IsOwn, IsArrival, Virtual
  <2>3. p.dep /\ p.kind = "issue"
    BY <2>2 DEF IsPart
  <2>4. PICK v \in OpsOf(db) : TakesFor(p, v)
    BY <2>1, <2>3 DEF Settled, Flowing, AllTaken, AllOps, Taking
  <2>5. v \in Sane /\ v \in Ops /\ Virtual(v) /\ v.kind = "issue" /\ Rooted(v, Roots) /\ ~ v.dep
    BY <1>0, <2>4 DEF TakesFor, Virtual
  <2>6. p \in PartsOf(v)
    <3>1. p = Part(v, p.batch, p.qty, p.cost)
      BY <2>4 DEF TakesFor
    <3>2. p.batch \in Batches /\ p.qty \in Int /\ p.cost \in Int
      BY <2>1 DEF Ops
    <3> QED
      BY <3>1, <3>2, PartsHave
  <2>7. v.id = w.id
    BY <1>3, <2>1, <2>5, <2>6, PartsFields
  <2>8. v = w
    <3>1. Meant(Roots) /\ Rooted(w, Roots)
      BY <1>0 DEF Settled
    <3>2. Key(v) = Key(w)
      BY <1>3, <2>5, <2>7, <3>1, SameIssue
    <3> QED
      BY <1>0, <3>2
  <2>9. PICK i \in DOMAIN w.parts : w.parts[i].batch = p.batch
    BY <2>4, <2>8 DEF TakesFor, BatchesOf
  <2>10. i \in DOMAIN parts /\ parts[i].batch = p.batch
    BY <1>5, <2>9 DEF Dependants
  <2>11. PICK q \in P : Key(q) = Key(parts[i]) /\ q.qty = parts[i].qty
    BY <1>7, <2>10
  <2>12. q \in OpsOf(db)
    BY <1>0 DEF OfDoc
  <2>13. Key(p) = Key(parts[i])
    <3>1. p \in PartsOf(w) /\ parts[i] \in PartsOf(w)
      BY <1>6, <2>6, <2>8, <2>10
    <3>2. \A x \in PartsOf(w) : /\ x \in Ops /\ x.id = w.id /\ x.date = w.date /\ x.dep = TRUE
                                 /\ x.store = w.store /\ x.kind = "issue"
      BY <1>3, PartsFields
    <3>3. /\ p \in Ops /\ parts[i] \in Ops /\ p.id = parts[i].id /\ p.date = parts[i].date
          /\ p.store = parts[i].store /\ p.kind = parts[i].kind
      BY <3>1, <3>2
    <3>4. p.dep = parts[i].dep
      BY <3>1, <3>2
    <3> QED
      BY <2>10, <3>3, <3>4, KeyFields
  <2>14. p = q
    BY <1>0, <2>1, <2>11, <2>12, <2>13
  <2> QED
    BY <2>3, <2>10, <2>11, <2>14
<1>9. IsFiniteSet(P) /\ P \subseteq Ops
  <2>1. P \subseteq db.index
    BY DEF OfDoc
  <2> QED
    BY <1>0, <2>1, FS_Subset
<1>10. ASSUME NEW p \in P, NEW q \in P, p.batch = q.batch PROVE p = q
  <2>1. \A x \in P : x \in OpsOf(db) /\ x.id = e.id /\ Belongs(x, e) /\ ~ Virtual(x) /\ x \in Ops
    BY <1>0 DEF OfDoc
  <2>2. \A x \in P : IsPart(x, e) /\ x.date = e.date
    BY <2>1 DEF Belongs, IsOwn, IsArrival, Virtual
  <2>3. Key(p) = Key(q)
    <3>1. p.dep = TRUE /\ q.dep = TRUE
      BY <2>1, <2>2 DEF IsPart, Ops
    <3>2. p.date = q.date /\ p.kind = q.kind /\ p.store = q.store /\ p.id = q.id
      BY <2>1, <2>2 DEF IsPart
    <3> QED
      BY <1>10, <2>1, <3>1, <3>2, KeyFields
  <2> QED
    BY <1>0, <2>1, <2>3
<1> HIDE DEF P
<1>11. \A i \in DOMAIN parts : \E p \in P : p.batch = parts[i].batch
  BY <1>7
<1>12. SumOf(P).qty = - Quantity(parts)
  BY <1>3, <1>5, <1>8, <1>9, <1>10, <1>11, PartsAddUp
<1>13. SumOf({e}).qty = - e.qty
  <2>1. SumOf({e}) = Delta(e)
    BY <1>1, SumOfOne
  <2> QED
    BY <1>1, <2>1 DEF Delta, Ops
<1> QED
  BY <1>5, <1>12, <1>13 DEF P

LEMMA EachAddsUp ==
  ASSUME Orderly, Settled, NEW i \in Ids
  PROVE  SumOf(OfDoc(i)).qty = SumOf({o \in docs[i] : ~ IsTransfer(o)}).qty
<1>0. /\ \A p : p \in db.index <=> p \in OpsOf(db) /\ ~ Virtual(p)
      /\ \A p \in OpsOf(db) : \E e \in Entries : Belongs(p, e) /\ e \in docs[p.id]
  BY SettledFacts
<1>1. ASSUME docs[i] = {} PROVE SumOf(OfDoc(i)).qty = SumOf({o \in docs[i] : ~ IsTransfer(o)}).qty
  <2>1. OfDoc(i) = {} /\ {o \in docs[i] : ~ IsTransfer(o)} = {}
    BY <1>0, <1>1 DEF OfDoc
  <2> QED
    BY <2>1
<1>2. ASSUME NEW e \in docs[i]
      PROVE  SumOf(OfDoc(i)).qty = SumOf({o \in docs[i] : ~ IsTransfer(o)}).qty
  <2>1. e \in Entries /\ e.id = i /\ docs[e.id] = {e} /\ e.id \in Ids
    BY <1>2 DEF Settled
  <2>2. \A p \in OfDoc(e.id) : Belongs(p, e)
    BY <1>0, <2>1 DEF OfDoc
  <2>3. CASE IsTransfer(e)
    <3>1. {o \in docs[i] : ~ IsTransfer(o)} = {}
      BY <2>1, <2>3
    <3>2. SumOf({}).qty = 0
      <4>1. IsFiniteSet({})
        BY FS_EmptySet
      <4>2. SumOf({}) = Nothing
        BY <4>1, SumUnfolds
      <4> QED
        BY <4>2 DEF Nothing
    <3>3. SumOf(OfDoc(i)).qty = 0
      BY <2>1, <2>2, <2>3, TransfersAddNothing
    <3> QED
      BY <3>1, <3>2, <3>3
  <2>4. CASE ~ IsTransfer(e)
    <3>1. {o \in docs[i] : ~ IsTransfer(o)} = {e}
      BY <2>1, <2>4
    <3>2. Virtual(e) => e.kind = "issue"
      BY <2>1, OpFacts, SaneFacts DEF Virtual, Orderly, Ops, Kinds
    <3>3. SumOf(OfDoc(e.id)).qty = SumOf({e}).qty
      BY <2>1, <2>2, <2>4, <3>2, OneMovesItself, PartsMoveItAll
    <3> QED
      BY <2>1, <3>1, <3>3
  <2> QED
    BY <2>3, <2>4
<1> QED
  BY <1>1, <1>2

(* What the documents say of the stock, of those with an id in T.          *)
SaidOf(T) == {o \in UNION {docs[i] : i \in Ids} : ~ IsTransfer(o) /\ o.id \in T}

LEMMA AllAddUp ==
  ASSUME Orderly, Settled
  PROVE  SumOf(db.index).qty = SumOf({o \in UNION {docs[i] : i \in Ids} : ~ IsTransfer(o)}).qty
<1> DEFINE Kept(T) == {p \in db.index : p.id \in T}
           P == {T \in SUBSET Ids : SumOf(Kept(T)).qty = SumOf(SaidOf(T)).qty}
           D == UNION {docs[i] : i \in Ids}
<1>0. /\ IsFiniteSet(db.index) /\ db.index \subseteq Ops /\ IsFiniteSet(Ids)
      /\ \A p \in db.index : p.id \in Ids
  BY SettledFacts
<1>1. /\ \A o \in D : o \in Entries /\ o.id \in Ids /\ o \in docs[o.id]
      /\ \A i \in Ids : \A o \in docs[i] : o \in D /\ o.id = i
      /\ IsFiniteSet(D) /\ D \subseteq Ops
  <2>1. \A i \in Ids : \A o \in docs[i] : o \in D /\ o \in Entries /\ o.id = i
    BY DEF Settled
  <2>2. \A o \in D : \E i \in Ids : o \in docs[i]
    OBVIOUS
  <2>3. D \subseteq Entries
    BY <2>1, <2>2
  <2>4. IsFiniteSet(Entries) /\ Entries \subseteq Ops
    BY LedgerAssumption, OpFacts, SaneFacts
  <2> HIDE DEF D
  <2>5. IsFiniteSet(D)
    BY <2>3, <2>4, FS_Subset
  <2> QED
    BY <2>1, <2>2, <2>3, <2>4, <2>5
<1>2. \A T \in SUBSET Ids : /\ IsFiniteSet(Kept(T)) /\ Kept(T) \subseteq Ops
                            /\ IsFiniteSet(SaidOf(T)) /\ SaidOf(T) \subseteq Ops
  <2> TAKE T \in SUBSET Ids
  <2>1. Kept(T) \subseteq db.index /\ SaidOf(T) \subseteq D
    BY DEF SaidOf
  <2> HIDE DEF D
  <2> QED
    BY <1>0, <1>1, <2>1, FS_Subset
<1>3. ASSUME NEW T \in SUBSET Ids, \A U \in (SUBSET T) \ {T} : U \in P
      PROVE  T \in P
  <2>1. CASE T = {}
    <3>1. Kept(T) = {} /\ SaidOf(T) = {}
      BY <2>1 DEF SaidOf
    <3> QED
      BY <3>1
  <2>2. CASE T # {}
    <3>1. PICK i \in T : TRUE
      BY <2>2
    <3> DEFINE Z == T \ {i}
               S == {o \in docs[i] : ~ IsTransfer(o)}
    <3>2. SumOf(Kept(Z)).qty = SumOf(SaidOf(Z)).qty
      BY <1>3, <3>1
    <3>3. OfDoc(i) \in SUBSET Kept(T) /\ Kept(T) \ OfDoc(i) = Kept(Z)
      BY <3>1 DEF OfDoc
    <3>4. S \in SUBSET SaidOf(T) /\ SaidOf(T) \ S = SaidOf(Z)
      <4>1. \A o : o \in S <=> o \in D /\ ~ IsTransfer(o) /\ o.id = i
        BY <1>1, <3>1
      <4>2. \A o, X : o \in SaidOf(X) <=> o \in D /\ ~ IsTransfer(o) /\ o.id \in X
        BY DEF SaidOf
      <4> HIDE DEF S, D
      <4> QED
        BY <3>1, <4>1, <4>2
    <3>5. SumOf(OfDoc(i)).qty = SumOf(S).qty
      BY <3>1, EachAddsUp
    <3> HIDE DEF Z, S, Kept
    <3>6. SumOf(Kept(T)) = Plus(SumOf(Kept(Z)), SumOf(OfDoc(i)))
      BY <1>2, <3>3, SumUnion
    <3>7. SumOf(SaidOf(T)) = Plus(SumOf(SaidOf(Z)), SumOf(S))
      BY <1>2, <3>4, SumUnion
    <3>8. SumOf(Kept(T)).qty = SumOf(SaidOf(T)).qty
      BY <3>2, <3>5, <3>6, <3>7 DEF Plus
    <3> QED
      BY <3>8
  <2> QED
    BY <2>1, <2>2
<1>4. Ids \in P
  <2> HIDE DEF P
  <2>1. \A T \in SUBSET Ids : T \in P
    BY <1>0, <1>3, SubsetInduction
  <2> QED
    BY <2>1
<1>5. Kept(Ids) = db.index /\ SaidOf(Ids) = {o \in D : ~ IsTransfer(o)}
  BY <1>0, <1>1 DEF SaidOf
<1> QED
  BY <1>4, <1>5

(* Once an edit is recorded, the stock of all stores together is what the  *)
(* documents received less what they issued: however often the front       *)
(* looks again at parts and transfers, it makes no goods and loses none.   *)
(* So it is as long as documents are orderly.                              *)
THEOREM StockIsKept == Orderly => (Spec => []StockIsConserved)
<1> SUFFICES ASSUME Orderly PROVE Spec => []StockIsConserved
  OBVIOUS
<1>1. FlowOK /\ DocsNamed /\ TransfersArrive => StockIsConserved
  <2> SUFFICES ASSUME FlowOK, DocsNamed, TransfersArrive, Idle
               PROVE  SumOf(db.index).qty =
                        SumOf({o \in UNION {docs[i] : i \in Ids} : ~ IsTransfer(o)}).qty
                        + SumOf({o \in db.index : \E i \in docs[o.id] : i.kind = "inventory"}).qty
    BY DEF StockIsConserved
  <2> DEFINE counted == {o \in db.index : \E i \in docs[o.id] : i.kind = "inventory"}
  <2>1. Settled
    BY IdleSettled
  <2>2. counted = {}
    <3> SUFFICES ASSUME NEW p \in db.index, NEW o \in docs[p.id], o.kind = "inventory"
                 PROVE  FALSE
      OBVIOUS
    <3>1. p.id \in Ids
      BY <2>1, SettledFacts
    <3> QED
      BY <2>1, <3>1 DEF Settled, Orderly
  <2>3. SumOf({}).qty = 0
    <3>1. IsFiniteSet({})
      BY FS_EmptySet
    <3>2. SumOf({}) = Nothing
      BY <3>1, SumUnfolds
    <3> QED
      BY <3>2 DEF Nothing
  <2>4. SumOf(db.index).qty \in Int
    <3>1. SumOf(db.index) \in Balance
      BY <2>1, SettledFacts, SumUnfolds
    <3> QED
      BY <3>1 DEF Balance
  <2>5. SumOf(db.index).qty = SumOf({o \in UNION {docs[i] : i \in Ids} : ~ IsTransfer(o)}).qty
    BY <2>1, AllAddUp
  <2>6. SumOf(db.index).qty = SumOf(db.index).qty + 0
    BY <2>4
  <2>7. SumOf(counted).qty = 0
    BY <2>2, <2>3
  <2> QED
    BY ONLY <2>5, <2>6, <2>7, Zenon
<1>2. Spec => []FlowOK
  BY FlowsOn
<1>3. Spec => []TransfersArrive
  BY TransfersGetThere
<1> QED
  BY <1>1, <1>2, <1>3, DocsStayNamed, PTL

-----------------------------------------------------------------------------
(***************************************************************************)
(* Splits are first in, first out.                                         *)
(***************************************************************************)

(* A split depends on the database only by what is on hand. *)
LEMMA SplitSame ==
  ASSUME NEW d, NEW o, NEW e, NEW v, v.qty = o.qty,
         \A b, q, c : Part(v, b, q, c) = Part(o, b, q, c),
         \A b \in Batches : OnHand(e, v, b) = OnHand(d, o, b)
  PROVE  /\ Queues(e, v) = Queues(d, o)
         /\ \A s \in Queues(d, o) : Split(e, v, s) = Split(d, o, s)
<1>1. {b \in Batches \ {NoBatch} : OnHand(e, v, b).qty > 0}
        = {b \in Batches \ {NoBatch} : OnHand(d, o, b).qty > 0}
  OBVIOUS
<1>2. Queues(e, v) = Queues(d, o)
  BY <1>1 DEF Queues
<1>3. ASSUME NEW s \in Queues(d, o) PROVE Split(e, v, s) = Split(d, o, s)
  <2>1. PICK n \in Nat : s \in [1 .. n -> Batches]
    BY QueueFacts
  <2>2. \A i \in DOMAIN s : OnHand(e, v, s[i]) = OnHand(d, o, s[i])
    BY <2>1
  <2>3. [i \in DOMAIN s |-> OnHand(e, v, s[i])] = [i \in DOMAIN s |-> OnHand(d, o, s[i])]
    BY <2>2
  <2>4. Taken(e, v, s, o.qty) = Taken(d, o, s, o.qty)
    <3> DEFINE h == [i \in DOMAIN s |-> OnHand(d, o, s[i])]
               g == [i \in DOMAIN s |-> OnHand(e, v, s[i])]
               needed(x) == [i \in DOMAIN s |->
                               o.qty - FoldLeft(Plus, Nothing, SubSeq(x, 1, i - 1)).qty]
               N(x) == Cardinality({j \in DOMAIN s : x[j] > 0})
               one(u, x, y, i) ==
                 IF y[i] >= x[i].qty THEN Part(u, s[i], x[i].qty, x[i].cost)
                                     ELSE Part(u, s[i], y[i], CostAt(Price(x[i]), y[i]))
    <3>1. Taken(d, o, s, o.qty) = [i \in 1 .. N(needed(h)) |-> one(o, h, needed(h), i)]
      BY DEF Taken
    <3>2. Taken(e, v, s, o.qty) = [i \in 1 .. N(needed(g)) |-> one(v, g, needed(g), i)]
      BY DEF Taken
    <3>3. g = h
      BY <2>3
    <3>4. \A x, y, i : one(v, x, y, i) = one(o, x, y, i)
      OBVIOUS
    <3> HIDE DEF h, g, needed, N, one
    <3> QED
      BY <3>1, <3>2, <3>3, <3>4
  <2> QED
    BY <2>4 DEF Split
<1> QED
  BY <1>2, <1>3

(* What the index has of a batch in the store of o, up to o. *)
Through(d, o, b) ==
  {p \in d.index : p.store = o.store /\ p.batch = b /\ ~ Less(Stamp(o), Stamp(p))}

LEMMA ThroughFacts ==
  ASSUME NEW d, Sound(d), NEW o, NEW b
  PROVE  Through(d, o, b) \subseteq Ops /\ IsFiniteSet(Through(d, o, b))
<1>1. d.index \subseteq Ops /\ IsFiniteSet(d.index)
  BY DatabaseFacts DEF Sound, IsFinite
<1>2. Through(d, o, b) \subseteq d.index
  BY DEF Through
<1> QED
  BY <1>1, <1>2, FS_Subset

(* What is on hand is the sum of that, whatever checkpoint it starts from. *)
LEMMA OnHandIsThrough ==
  ASSUME Careful, NEW d, Sound(d), NEW o \in Ops, NEW b \in Batches
  PROVE  OnHand(d, o, b) = SumOf(Through(d, o, b))
<1> DEFINE n == Opening(d, o)
           k == <<o.store, b>>
           A == At(d.index, n, k)
           B == {p \in Applied(d, o) : p.batch = b}
           S == Through(d, o, b)
<1>1. /\ d.index \subseteq Ops
      /\ Sums(d, d.index) /\ d.latest \in Months
  BY DatabaseFacts DEF Sound
<1>2. MonthOf[o.date] \in Nat /\ d.latest \in Nat
  BY <1>1, Numbers, OpFacts DEF Months
<1>3. n \in Months /\ n \in Nat /\ n <= MonthOf[o.date] /\ n <= d.latest
  <2>1. n = IF MonthOf[o.date] <= d.latest THEN MonthOf[o.date] ELSE d.latest
    BY <1>2 DEF Opening, Min
  <2> QED
    BY <1>1, <1>2, <2>1, OpFacts DEF Months
<1>4. k \in Stores \X Batches
  BY DEF Ops
<1>5. d.chk[n][k] = SumOf(A)
  BY <1>1, <1>2, <1>3, <1>4, OpFacts DEF Sums, Months
<1> HIDE DEF n
<1>6. B \subseteq S
  BY DEF Applied, Through
<1>7. A \subseteq S /\ A \cap B = {}
  <2>1. ASSUME NEW p \in A PROVE p \in S /\ p \notin B
    <3>1. p \in d.index /\ p \in Ops /\ p.store = o.store /\ p.batch = b
          /\ MonthOf[p.date] < n
      BY <1>1 DEF At
    <3>2. MonthOf[p.date] \in Nat /\ p.date \in Nat /\ o.date \in Nat
          /\ p.date \in Dates /\ o.date \in Dates
      <4>1. MonthOf[p.date] \in Nat
        BY <3>1, Numbers, OpFacts
      <4>2. p.date \in Nat /\ o.date \in Nat
        BY <3>1, Numbers
      <4>3. p.date \in Dates /\ o.date \in Dates
        BY <3>1 DEF Ops
      <4> QED
        BY <4>1, <4>2, <4>3
    <3>3. ~ (o.date <= p.date)
      <4>1. o.date <= p.date => MonthOf[o.date] <= MonthOf[p.date]
        BY <3>2, LedgerAssumption DEF Dates
      <4> QED
        BY <1>2, <1>3, <3>1, <3>2, <4>1
    <3>4. ~ Less(Stamp(o), Stamp(p))
      BY <3>1, <3>2, <3>3, StampLess
    <3>5. p \notin B
      BY <1>2, <1>3, <3>1, <3>2 DEF Applied, n
    <3> QED
      BY <3>1, <3>4, <3>5 DEF Through
  <2> QED
    BY <2>1
<1>8. S \subseteq A \cup B
  <2> SUFFICES ASSUME NEW p \in S, p \notin A PROVE p \in B
    OBVIOUS
  <2>1. p \in d.index /\ p \in Ops /\ p.store = o.store /\ p.batch = b
        /\ ~ Less(Stamp(o), Stamp(p))
    BY <1>1 DEF Through
  <2>2. MonthOf[p.date] \in Nat
    BY <2>1, Numbers, OpFacts
  <2>3. ~ (MonthOf[p.date] < n)
    BY <1>1, <2>1 DEF At
  <2>4. n <= MonthOf[p.date]
    BY <1>2, <1>3, <2>2, <2>3, OpFacts DEF Months
  <2> QED
    BY <1>1, <2>1, <2>4 DEF Applied, n
<1>9. S \ B = A /\ B \in SUBSET S
  BY <1>6, <1>7, <1>8
<1>10. SumOf(S) = Plus(SumOf(A), SumOf(B))
  <2>1. S \subseteq Ops /\ IsFiniteSet(S)
    BY ThroughFacts
  <2> HIDE DEF S, A, B
  <2> QED
    BY <1>9, <2>1, SumUnion
<1> QED
  BY <1>5, <1>10 DEF OnHand, n

(* The records in the store of v, up to v but for its own. *)
Pasts(d, v) ==
  {r \in d.main : /\ r.op.store = v.store /\ Key(r.op) # Key(v)
                  /\ ~ Less(Stamp(v), Stamp(r.op))}

(* The balance of a record is the one before it changed by its operation;  *)
(* that is less than being current, an issue's cost may be out of date.    *)
Continues(d, r) ==
  r.bal = IF Virtual(r.op) THEN BalanceBefore(d, r.op)
                           ELSE Plus(BalanceBefore(d, r.op), Delta(r.op))

Chained(d, v) ==
  \A r \in d.main : r.op.store = v.store /\ Less(Stamp(r.op), Stamp(v)) => Continues(d, r)

LEMMA CurrentContinues ==
  ASSUME NEW d, NEW r, Current(d, r)
  PROVE  Continues(d, r)
<1>1. CASE Virtual(r.op)
  BY <1>1 DEF Current, Continues
<1>2. CASE ~ Virtual(r.op)
  <2> DEFINE before == BalanceBefore(d, r.op)
             c == Costed(before, r.op)
  <2>1. r = [op |-> c, bal |-> Plus(before, Delta(c))]
    BY <1>2 DEF Current, Evaluated
  <2>2. r.op = c /\ r.bal = Plus(before, Delta(c))
    <3> HIDE DEF before, c
    <3> QED
      BY ONLY <2>1
  <2>3. r.bal = Plus(before, Delta(r.op))
    BY <2>2
  <2> QED
    BY <1>2, <2>3 DEF Continues
<1> QED
  BY <1>1, <1>2

(* With the same past, all of it is the same. *)
LEMMA SamePast ==
  ASSUME Careful, NEW d, Sound(d), NoCounts(d), NEW e, Sound(e), NoCounts(e),
         NEW v \in Ops, Virtual(v), Pasts(e, v) = Pasts(d, v)
  PROVE  /\ \A b \in Batches : OnHand(e, v, b) = OnHand(d, v, b)
         /\ Chained(d, v) => Chained(e, v)
<1>1. /\ \A r \in d.main : r.op \in Ops
      /\ \A r \in e.main : r.op \in Ops
  BY DatabaseFacts DEF Sound
<1>2. \A b : Through(e, v, b) = Through(d, v, b)
  <2>1. \A p : p \in d.index <=> ~ Virtual(p) /\ \E r \in d.main : r.op = p
    BY IndexedFacts
  <2>2. \A p : p \in e.index <=> ~ Virtual(p) /\ \E r \in e.main : r.op = p
    BY IndexedFacts
  <2>3. ASSUME NEW b, NEW p PROVE p \in Through(e, v, b) <=> p \in Through(d, v, b)
    <3> DEFINE up == p.store = v.store /\ ~ Less(Stamp(v), Stamp(p))
    <3>0. \A r \in d.main \cup e.main : ~ Virtual(r.op) => Key(r.op) # Key(v)
      BY <1>1, KeyFacts
    <3>1. p \in Through(d, v, b) <=> /\ ~ Virtual(p) /\ p.batch = b
                                     /\ \E r \in Pasts(d, v) : r.op = p
      <4>1. p \in Through(d, v, b) <=> p \in d.index /\ p.batch = b /\ up
        BY DEF Through
      <4>2. ~ Virtual(p) => ((\E r \in Pasts(d, v) : r.op = p) <=> up /\ \E r \in d.main : r.op = p)
        BY <3>0 DEF Pasts
      <4> QED
        BY <2>1, <4>1, <4>2
    <3>2. p \in Through(e, v, b) <=> /\ ~ Virtual(p) /\ p.batch = b
                                     /\ \E r \in Pasts(e, v) : r.op = p
      <4>1. p \in Through(e, v, b) <=> p \in e.index /\ p.batch = b /\ up
        BY DEF Through
      <4>2. ~ Virtual(p) => ((\E r \in Pasts(e, v) : r.op = p) <=> up /\ \E r \in e.main : r.op = p)
        BY <3>0 DEF Pasts
      <4> QED
        BY <2>2, <4>1, <4>2
    <3> QED
      BY <3>1, <3>2
  <2> QED
    BY <2>3
<1>3. \A b \in Batches : OnHand(e, v, b) = OnHand(d, v, b)
  BY <1>2, OnHandIsThrough
<1>4. ASSUME Chained(d, v), NEW r \in e.main, r.op.store = v.store, Less(Stamp(r.op), Stamp(v))
      PROVE  Continues(e, r)
  <2>1. ~ Less(Stamp(v), Stamp(r.op)) /\ Key(r.op) # Key(v)
    BY <1>1, <1>4, OneWay, KeyFacts
  <2>2. r \in d.main
    BY <1>4, <2>1 DEF Pasts
  <2>3. Continues(d, r)
    BY <1>4, <2>2 DEF Chained
  <2>4. Earlier(e, r.op) = Earlier(d, r.op)
    <3>1. ASSUME NEW x \in d.main \cup e.main, x.op.store = r.op.store, Less(Stamp(x.op), Stamp(r.op))
          PROVE  x \in d.main <=> x \in e.main
      <4>1. x.op \in Ops /\ r.op \in Ops
        BY <1>1, <1>4, <3>1
      <4>2. Less(Stamp(x.op), Stamp(v))
        BY <1>4, <3>1, <4>1, StampOrder
      <4>3. ~ Less(Stamp(v), Stamp(x.op)) /\ Key(x.op) # Key(v)
        BY <4>1, <4>2, OneWay, KeyFacts
      <4> QED
        BY <1>4, <3>1, <4>3 DEF Pasts
    <3> QED
      BY <3>1 DEF Earlier, Chain
  <2>5. BalanceBefore(e, r.op) = BalanceBefore(d, r.op)
    BY <2>4 DEF BalanceBefore
  <2> QED
    BY <2>3, <2>5 DEF Continues
<1>5. Chained(d, v) => Chained(e, v)
  BY <1>4 DEF Chained
<1> QED
  BY <1>3, <1>5

(* Who follows o starts from the same balance if o leaves it as it was.    *)
LEMMA BeforesSame ==
  ASSUME NEW d, Sound(d), NEW e, Sound(e), NEW o \in Sane, Apart(d, e, o),
         After(d, o) = After(e, o), NEW r \in d.main, Key(r.op) # Key(o)
  PROVE  BalanceBefore(e, r.op) = BalanceBefore(d, r.op)
<1> SUFFICES ASSUME BalanceBefore(e, r.op) # BalanceBefore(d, r.op) PROVE FALSE
  OBVIOUS
<1>1. r.op \in Sane /\ r.op \in Ops /\ o \in Ops
  BY SaneFacts, DatabaseFacts DEF Sound
<1>2. /\ r.op.store = o.store /\ r.op.batch = o.batch /\ Less(Stamp(o), Stamp(r.op))
      /\ \A y \in Later(d, o) : ~ Less(Stamp(y.op), Stamp(r.op))
  BY <1>1, OthersSame
<1>3. r \in Later(d, o) /\ r \in Later(e, o)
  BY <1>2, BeforeSame DEF Later, Chain
<1>4. Later(e, o) = Later(d, o)
  BY BeforeSame
<1>5. BalanceBefore(d, r.op) = After(d, o) /\ BalanceBefore(e, r.op) = After(e, o)
  BY <1>2, <1>3, <1>4, NextStartsAfter
<1> QED
  BY <1>5

(* The record n takes the place of another of the same key.                *)
LEMMA ReplacedIsApart ==
  ASSUME NEW d, Sound(d), NEW e, Sound(e), NEW o \in Sane, NEW n, Replaced(d, e, n),
         Key(n.op) = Key(o)
  PROVE  Apart(d, e, o) /\ Stored(e, o) = {n} /\ n \in e.main
<1>1. n \in e.main
  BY DEF Replaced
<1>2. \A r : r \in Stored(e, o) <=> r = n
  <2>1. \A r \in e.main : r \in Stored(e, o) <=> Key(r.op) = Key(o)
    BY StoredFacts
  <2>2. Stored(e, o) \subseteq e.main
    BY StoredFacts
  <2> QED
    BY <1>1, <2>1, <2>2 DEF Replaced
<1>3. \A r \in d.main : Key(r.op) = Key(o) => r \in Stored(d, o)
  BY StoredFacts
<1>4. Apart(d, e, o)
  BY <1>2, <1>3 DEF Apart, Replaced
<1> QED
  BY <1>1, <1>2, <1>4

(* An operation calculated again with the balance it had changes nothing   *)
(* for those after it, in whatever batch, when all before them follow:     *)
(* it adds what it added.                                                  *)
LEMMA SwappedPast ==
  ASSUME Careful, NEW d, Sound(d), NoCounts(d), NEW e, Sound(e), NoCounts(e),
         NEW o \in Sane, ~ Virtual(o), Plain(o), o.qty > 0, NEW c \in Sane, Alike(c, o), NEW b,
         Replaced(d, e, [op |-> c, bal |-> b]),
         b = Plus(BalanceBefore(d, o), Delta(c)), After(d, o) = b,
         NEW v \in Ops, o.store = v.store, Less(Stamp(o), Stamp(v)), Chained(d, v)
  PROVE  /\ \A x \in Batches : OnHand(e, v, x) = OnHand(d, v, x)
         /\ Chained(e, v)
<1> DEFINE n == [op |-> c, bal |-> b]
           before == BalanceBefore(d, o)
<1>1. n.op = c /\ n.bal = b
  OBVIOUS
<1>2. /\ Key(c) = Key(o) /\ Stamp(c) = Stamp(o) /\ ~ Virtual(c)
      /\ c.store = o.store /\ c.batch = o.batch
      /\ BalanceBefore(d, c) = BalanceBefore(d, o) /\ BalanceBefore(e, c) = BalanceBefore(e, o)
      /\ Stored(d, c) = Stored(d, o)
  BY AlikeFacts DEF Alike
<1>3. /\ c \in Ops /\ o \in Ops /\ c.qty > 0 /\ c.kind # "inventory" /\ c.kind \in Kinds
      /\ before \in Balance /\ Delta(c) \in Balance /\ c.qty \in Int
  BY SaneFacts, BeforeType, OpDelta DEF Alike, Plain, Ops
<1>4. Replaced(d, e, n)
  OBVIOUS
<1> HIDE DEF n
<1>5. Apart(d, e, o) /\ Stored(e, o) = {n} /\ n \in e.main
  BY <1>1, <1>2, <1>4, ReplacedIsApart
<1>6. Stored(d, o) # {}
  <2> SUFFICES ASSUME Stored(d, o) = {} PROVE FALSE
    OBVIOUS
  <2>1. Plus(before, Delta(c)) = before
    BY DEF After
  <2>2. Delta(c).qty # 0 /\ Delta(c).qty \in Int
    BY <1>3 DEF Delta
  <2>3. before.qty \in Int /\ Plus(before, Delta(c)).qty = before.qty + Delta(c).qty
    BY <1>3 DEF Balance, Plus
  <2> QED
    BY <2>1, <2>2, <2>3
<1> DEFINE r == CHOOSE q \in Stored(d, o) : TRUE
<1>7. r \in Stored(d, o) /\ r.bal = b
  BY <1>6 DEF After, StoredBalance
<1> HIDE DEF r
<1>8. /\ r \in d.main /\ Key(r.op) = Key(o) /\ r.op \in Ops
      /\ \A q \in d.main : Key(q.op) = Key(o) => q = r
  <2>1. r \in d.main /\ Key(r.op) = Key(o)
    BY <1>7, StoredFacts
  <2>2. r.op \in Ops
    BY <2>1, DatabaseFacts DEF Sound
  <2>3. \A q \in d.main : Key(q.op) = Key(o) => q = r
    BY <2>1 DEF Sound, IsKeyed
  <2> QED
    BY <2>1, <2>2, <2>3
<1>9. /\ r.op.store = o.store /\ r.op.batch = o.batch /\ Stamp(r.op) = Stamp(o)
      /\ ~ Virtual(r.op)
  BY <1>3, <1>8, KeyFacts
<1>10. Delta(r.op) = Delta(c)
  <2>1. Continues(d, r)
    BY <1>8, <1>9 DEF Chained
  <2>2. BalanceBefore(d, r.op) = before
    BY <1>9 DEF BalanceBefore, Earlier, Chain
  <2>3. Plus(before, Delta(r.op)) = Plus(before, Delta(c))
    BY <1>7, <1>9, <2>1, <2>2 DEF Continues
  <2>4. Delta(r.op) \in Balance
    BY <1>8, OpDelta
  <2> HIDE DEF before
  <2>5. \A x, y, z \in Balance : Plus(x, y) = Plus(x, z) => y = z
    BY DEF Plus, Balance
  <2> QED
    BY <1>3, <2>3, <2>4, <2>5
<1>11. \A q : q \in e.main <=> q = n \/ (q \in d.main /\ q # r)
  BY <1>1, <1>2, <1>4, <1>8 DEF Replaced
<1>12. ASSUME NEW x \in Batches PROVE OnHand(e, v, x) = OnHand(d, v, x)
  <2> DEFINE T == Through(d, v, x)
             Y == Through(e, v, x)
  <2>1. \A p : p \in T <=> /\ ~ Virtual(p) /\ p.store = v.store /\ p.batch = x
                           /\ ~ Less(Stamp(v), Stamp(p)) /\ \E q \in d.main : q.op = p
    BY IndexedFacts DEF Through
  <2>2. \A p : p \in Y <=> /\ ~ Virtual(p) /\ p.store = v.store /\ p.batch = x
                           /\ ~ Less(Stamp(v), Stamp(p)) /\ \E q \in e.main : q.op = p
    BY IndexedFacts DEF Through
  <2>3. \A q \in d.main : q.op = r.op => q = r
    BY <1>8
  <2>4. \A q \in d.main : q.op = c => q = r
    BY <1>2, <1>8
  <2>5. T \subseteq Ops /\ IsFiniteSet(T) /\ Y \subseteq Ops /\ IsFiniteSet(Y)
    BY ThroughFacts
  <2>6. ~ Less(Stamp(v), Stamp(o))
    BY <1>3, OneWay
  <2> HIDE DEF T, Y
  <2>7. SumOf(Y) = SumOf(T)
    <3>1. CASE o.batch # x
      <4>1. \A p : p \in T <=> p \in Y
        BY <1>1, <1>2, <1>9, <1>11, <2>1, <2>2, <3>1
      <4>2. Y = T
        BY <4>1
      <4> QED
        BY <4>2
    <3>2. CASE o.batch = x
      <4>1. r.op \in T
        BY <1>8, <1>9, <2>1, <2>6, <3>2
      <4>2. c \in Y
        BY <1>1, <1>2, <1>5, <2>2, <2>6, <3>2
      <4>3. Y \ {c} = T \ {r.op}
        <5>1. ASSUME NEW p PROVE p \in Y \ {c} <=> p \in T \ {r.op}
          <6>1. (p # c /\ \E q \in e.main : q.op = p) <=> (p # c /\ \E q \in d.main : q.op = p /\ q # r)
            BY <1>1, <1>11
          <6>2. (\E q \in d.main : q.op = p /\ q # r) <=> (p # r.op /\ \E q \in d.main : q.op = p)
            BY <2>3
          <6>3. (p = c /\ p # r.op) => ~ \E q \in d.main : q.op = p
            BY <2>4
          <6> QED
            BY <2>1, <2>2, <6>1, <6>2, <6>3
        <5> QED
          BY <5>1
      <4>4. SumOf(Y) = Plus(SumOf(Y \ {c}), Delta(c)) /\ SumOf(T) = Plus(SumOf(T \ {r.op}), Delta(r.op))
        BY <2>5, <4>1, <4>2, SumWith
      <4> QED
        BY <1>10, <4>3, <4>4
    <3> QED
      BY <3>1, <3>2
  <2>8. OnHand(d, v, x) = SumOf(T) /\ OnHand(e, v, x) = SumOf(Y)
    BY OnHandIsThrough DEF T, Y
  <2> QED
    BY <2>7, <2>8
<1>13. ASSUME NEW q \in e.main, q.op.store = v.store, Less(Stamp(q.op), Stamp(v))
       PROVE  Continues(e, q)
  <2>1. CASE q = n
    <3>1. BalanceBefore(e, o) = before
      BY <1>5, BeforeSame
    <3>2. BalanceBefore(e, n.op) = before /\ ~ Virtual(n.op) /\ Delta(n.op) = Delta(c)
      BY <1>1, <1>2, <3>1
    <3> QED
      BY <1>1, <2>1, <3>2 DEF Continues
  <2>2. CASE q # n
    <3>1. q \in d.main /\ Key(q.op) # Key(o)
      BY <1>8, <1>11, <2>2
    <3>2. Continues(d, q)
      BY <1>13, <3>1 DEF Chained
    <3>3. After(e, o) = b
      BY <1>1, <1>5 DEF After, StoredBalance
    <3>4. BalanceBefore(e, q.op) = BalanceBefore(d, q.op)
      BY <1>5, <3>1, <3>3, BeforesSame
    <3> QED
      BY <3>2, <3>4 DEF Continues
  <2> QED
    BY <2>1, <2>2
<1> QED
  BY <1>12, <1>13 DEF Chained

(* An operation of no batch before v, or v itself, is still to be looked   *)
(* at; each of them sends for the next.                                    *)
Waiting(d, U, v) ==
  \E w \in d.front : /\ w.store = v.store /\ w.batch = NoBatch /\ ~ Less(Stamp(v), Stamp(w))
                     /\ Unseen(U, w)

(* The same of one that comes after the stamp t.                           *)
Marked(d, U, t, v) ==
  \E w \in d.front : /\ w.store = v.store /\ w.batch = NoBatch /\ ~ Less(Stamp(v), Stamp(w))
                     /\ Less(t, Stamp(w)) /\ Unseen(U, w)

Splits(d, v) == {Split(d, v, s) : s \in Queues(d, v)}

(* The parts of v are those of a split, and stored or on their way.        *)
Suits(d, U, v) ==
  \E parts \in Splits(d, v) : /\ v.parts = Dependants(parts)
                              /\ \A i \in DOMAIN parts : Heard(d, U, parts[i])

Ready(d, U, v) == Waiting(d, U, v) \/ (Chained(d, v) /\ Suits(d, U, v))
AllReady(d, U) == \A v \in OpsOf(d) : Virtual(v) => Ready(d, U, v)

LEMMA ReadyOn ==
  ASSUME NEW d, Sound(d), NEW U, NEW e, NEW V, NEW v \in Sane, v.qty > 0, Ready(d, U, v),
         Waiting(d, U, v) => Waiting(e, V, v),
         \/ Waiting(e, V, v)
         \/ /\ \A b \in Batches : OnHand(e, v, b) = OnHand(d, v, b)
            /\ Chained(d, v) => Chained(e, v),
         \A a \in Ops : a.dep /\ a.kind = "issue" /\ a.id = v.id /\ Heard(d, U, a) => Heard(e, V, a)
  PROVE  Ready(e, V, v)
<1> SUFFICES ASSUME ~ Waiting(e, V, v) PROVE Chained(e, v) /\ Suits(e, V, v)
  BY DEF Ready
<1>1. /\ Chained(e, v) /\ Suits(d, U, v)
      /\ \A b \in Batches : OnHand(e, v, b) = OnHand(d, v, b)
  BY DEF Ready
<1>2. PICK s \in Queues(d, v) : /\ v.parts = Dependants(Split(d, v, s))
                                /\ \A i \in DOMAIN Split(d, v, s) : Heard(d, U, Split(d, v, s)[i])
  BY <1>1 DEF Suits, Splits
<1> DEFINE parts == Split(d, v, s)
<1>3. parts \in Seq(PartsOf(v))
  BY SplitFacts
<1>4. s \in Queues(e, v) /\ Split(e, v, s) = parts
  BY <1>1, SplitSame
<1>5. parts \in Splits(e, v)
  BY <1>4 DEF Splits
<1>6. v.parts = Dependants(parts) /\ \A i \in DOMAIN parts : Heard(d, U, parts[i])
  BY <1>2
<1> HIDE DEF parts
<1>7. ASSUME NEW i \in DOMAIN parts PROVE Heard(e, V, parts[i])
  <2>1. parts[i] \in PartsOf(v)
    BY <1>3
  <2>2. /\ parts[i] \in Ops /\ parts[i].dep /\ parts[i].kind = "issue" /\ parts[i].id = v.id
    BY <2>1, PartsFields
  <2> QED
    BY <1>6, <2>2
<1>8. Suits(e, V, v)
  BY <1>5, <1>6, <1>7 DEF Suits
<1> QED
  BY <1>1, <1>8

(* What is stored here is the operations of documents, nobody counts.      *)
LEMMA PlacedPlain ==
  ASSUME Orderly, NEW R, Meant(R), NEW d, Sound(d), NEW U, Placed(d, U, R)
  PROVE  NoCounts(d)
<1>1. /\ \A r \in d.main : r.op \in Ops /\ Rooted(r.op, R)
      /\ \A p \in d.index : p \in Ops /\ Rooted(p, R)
  BY DatabaseFacts DEF Sound, Placed
<1> QED
  BY <1>1, RootedFacts DEF NoCounts

LEMMA FullFacts ==
  ASSUME Orderly, NEW R, Meant(R), NEW d, Sound(d), NEW U, Placed(d, U, R), U \subseteq Sane,
         NEW v \in OpsOf(d), Virtual(v)
  PROVE  v \in Sane /\ v \in Ops /\ Rooted(v, R) /\ v.kind = "issue" /\ v.qty > 0 /\ ~ v.dep
<1>1. v \in Sane /\ v \in Ops /\ Rooted(v, R) /\ Plain(v)
  BY OnTheWayOps DEF AllOps
<1> QED
  BY <1>1 DEF Plain, Virtual, Sane

(* Nothing is stored or removed.                                           *)
LEMMA SameReady ==
  ASSUME Orderly, NEW R, Meant(R), NEW d, Sound(d), NEW U, Placed(d, U, R), U \subseteq Sane,
         AllReady(d, U), NEW e, Sound(e), NEW V, Placed(e, V, R), e.main = d.main,
         \A v : Waiting(d, U, v) => Waiting(e, V, v),
         \A a \in Ops : a.dep /\ a.kind = "issue" /\ Heard(d, U, a) => Heard(e, V, a)
  PROVE  AllReady(e, V)
<1> SUFFICES ASSUME NEW v \in OpsOf(e), Virtual(v) PROVE Ready(e, V, v)
  BY DEF AllReady
<1>1. v \in OpsOf(d)
  BY DEF OpsOf
<1>2. v \in Sane /\ v \in Ops /\ v.qty > 0
  BY <1>1, FullFacts
<1>3. Pasts(e, v) = Pasts(d, v)
  BY DEF Pasts
<1>4. NoCounts(d) /\ NoCounts(e) /\ Careful
  BY PlacedPlain DEF Orderly
<1>5. /\ \A b \in Batches : OnHand(e, v, b) = OnHand(d, v, b)
      /\ Chained(d, v) => Chained(e, v)
  BY <1>2, <1>3, <1>4, SamePast
<1>6. Ready(d, U, v)
  BY <1>1 DEF AllReady
<1> QED
  BY <1>2, <1>5, <1>6, ReadyOn

LEMMA SkippedReady ==
  ASSUME Orderly, NEW R, Meant(R), NEW d, Sound(d), NEW U, Placed(d, U, R), U \subseteq Sane,
         AllReady(d, U), NEW o \in U,
         NEW e, Sound(e), Placed(e, U, R), e.main = d.main, e.front = d.front \ {o}
  PROVE  AllReady(e, U)
<1>1. \A v : Waiting(d, U, v) => Waiting(e, U, v)
  BY DEF Waiting, Unseen
<1>2. \A a : Heard(d, U, a) => Heard(e, U, a)
  BY SkippedHears
<1> QED
  BY <1>1, <1>2, SameReady

LEMMA ForgottenReady ==
  ASSUME Orderly, NEW R, Meant(R), NEW d, Sound(d), NEW U, Placed(d, U, R), U \subseteq Sane,
         AllReady(d, U), d.front = {}
  PROVE  AllReady(d, {})
<1>1. \A v : Waiting(d, U, v) => Waiting(d, {}, v)
  BY DEF Waiting
<1>2. \A a : Heard(d, U, a) => Heard(d, {}, a)
  BY ForgottenHears
<1>3. Placed(d, {}, R)
  BY DEF Placed
<1> QED
  BY <1>1, <1>2, <1>3, SameReady

LEMMA PutReady ==
  ASSUME Orderly, NEW R, Meant(R), NEW d, Sound(d), Placed(d, {}, R), d.front = {},
         AllReady(d, {}), NEW p \in Ops, ~ p.dep,
         NEW e, Sound(e), Placed(e, {}, R), e.main = d.main, e.front = {p}
  PROVE  AllReady(e, {})
<1>1. \A v : ~ Waiting(d, {}, v)
  BY DEF Waiting
<1>2. \A a \in Ops : a.dep /\ Heard(d, {}, a) => Heard(e, {}, a)
  <2> SUFFICES ASSUME NEW a \in Ops, a.dep, Heard(d, {}, a) PROVE Heard(e, {}, a)
    OBVIOUS
  <2>1. Key(p) # Key(a)
    BY KeyFacts
  <2> QED
    BY <2>1, PutHears
<1> QED
  BY <1>1, <1>2, SameReady

(* What comes sooner than the head of the front has not been looked at.    *)
LEMMA OrderedSooner ==
  ASSUME Orderly, NEW R, Meant(R), NEW d, NEW U, OnTheWay(d, U, R), NEW o \in d.front
  PROVE  SoonerIsUnseen(o, U \cup {o}, R)
<1>1. Sound(d) /\ U \subseteq Sane /\ Placed(d, U, R) /\ Ordered(d.front, U)
  BY DEF OnTheWay
<1>2. \A p \in AllOps(d) \cup U : p \in Ops /\ Plain(p)
  BY <1>1, OnTheWayOps
<1> SUFFICES ASSUME NEW p \in Ops, Rooted(p, R), Sooner(o, p), NEW u \in U \cup {o}
             PROVE  Key(u) # Key(p)
  BY DEF SoonerIsUnseen, Unseen
<1>3. o \in Ops /\ Plain(o) /\ Plain(p) /\ u \in Ops /\ Plain(u)
  BY <1>2, RootedFacts DEF AllOps
<1>4. CASE u \in U
  <2>1. Passed(u, o)
    BY <1>1, <1>4 DEF Ordered
  <2> QED
    BY <1>3, <2>1, SoonerUnseen
<1>5. CASE u = o
  BY <1>3, <1>5, SoonerApart
<1> QED
  BY <1>4, <1>5

(* Of v and an operation that is no virtual one, one comes first.          *)
LEMMA VirtualApart ==
  ASSUME Orderly, NEW R, Meant(R), NEW v \in Ops, Rooted(v, R), Virtual(v), v.kind = "issue",
         NEW o \in Ops, Rooted(o, R), ~ Virtual(o)
  PROVE  Less(Stamp(o), Stamp(v)) \/ Less(Stamp(v), Stamp(o))
<1> SUFFICES ASSUME Stamp(o) = Stamp(v) PROVE FALSE
  BY StampOrder
<1>1. Order(o) = Order(v) /\ Flag(o) = Flag(v) /\ o.id = v.id
  BY DEF Stamp
<1>2. Plain(o) /\ ~ v.dep
  BY RootedFacts DEF Virtual
<1>3. o.kind = "issue" /\ ~ o.dep
  BY <1>1, <1>2, OrderFacts DEF Plain
<1>4. Key(o) = Key(v)
  BY <1>1, <1>2, <1>3, SameIssue
<1> QED
  BY <1>4, KeyFacts

(* What is sent for is not after v, when v is after o.                     *)
LEMMA NextWaits ==
  ASSUME Orderly, NEW R, Meant(R), NEW d, Sound(d), NEW e, Sound(e), NEW V,
         NEW o \in Sane, Rooted(o, R), SoonerIsUnseen(o, V, R),
         NEW r \in d.main, r.op.store = o.store, r.op.batch = NoBatch, Less(Stamp(o), Stamp(r.op)),
         \A x \in d.main : Rooted(x.op, R),
         Later(d, Loose(o)) # {} => OnFront(e, Earliest(Later(d, Loose(o))).op)
  PROVE  Marked(e, V, Stamp(o), r.op) /\ Waiting(e, V, r.op)
<1> DEFINE u == Loose(o)
           x == Earliest(Later(d, u))
<1>1. u.store = o.store /\ u.batch = NoBatch /\ Stamp(u) = Stamp(o) /\ o \in Ops
  BY SaneFacts, LooseFacts
<1> HIDE DEF u
<1>2. r \in Later(d, u) /\ Later(d, u) \subseteq Chain(d, u)
  BY <1>1 DEF Later, Chain
<1>3. x \in Later(d, u) /\ (r = x \/ Less(Stamp(x.op), Stamp(r.op)))
  BY <1>2, ChainFacts
<1> HIDE DEF x
<1>4. /\ x \in d.main /\ x.op \in Ops /\ r.op \in Ops /\ Rooted(x.op, R)
      /\ x.op.store = o.store /\ x.op.batch = NoBatch /\ Less(Stamp(o), Stamp(x.op))
  <2>1. \A q \in d.main : q.op \in Ops
    BY DatabaseFacts DEF Sound
  <2> QED
    BY <1>1, <1>3, <2>1 DEF Later, Chain
<1>5. ~ Less(Stamp(r.op), Stamp(x.op))
  BY <1>3, <1>4, OneWay
<1>6. Unseen(V, x.op)
  <2>1. Behind(o, x.op)
    BY <1>4 DEF Behind
  <2> QED
    BY <1>1, <1>4, <2>1, BehindSooner DEF SoonerIsUnseen
<1>7. PICK p \in e.front : Key(p) = Key(x.op)
  BY <1>2 DEF OnFront, u, x
<1>8. p \in Ops
  BY DatabaseFacts DEF Sound
<1>9. p.store = x.op.store /\ p.batch = x.op.batch /\ Stamp(p) = Stamp(x.op)
  BY <1>4, <1>7, <1>8, KeyFacts
<1> QED
  BY <1>4, <1>5, <1>6, <1>7, <1>9 DEF Waiting, Marked, Unseen

LEMMA CalculatedReady ==
  ASSUME Orderly, NEW R, Meant(R), NEW d, NEW U, OnTheWay(d, U, R), AllReady(d, U),
         NEW o \in d.front, ~ Virtual(o), o.qty > 0,
         NEW rest, Sound(rest), rest.main = d.main, rest.index = d.index,
         rest.front = d.front \ {o},
         Sound(Calculated(rest, o)), Placed(Calculated(rest, o), U \cup {o}, R)
  PROVE  AllReady(Calculated(rest, o), U \cup {o})
<1> DEFINE e == Calculated(rest, o)
           V == U \cup {o}
           before == BalanceBefore(rest, o)
           c == Costed(before, o)
           b == Plus(before, Delta(c))
           n == [op |-> c, bal |-> b]
<1>1. Sound(d) /\ U \subseteq Sane /\ Placed(d, U, R) /\ Ordered(d.front, U)
  BY DEF OnTheWay
<1>2. o \in Sane /\ o \in Ops /\ Rooted(o, R) /\ Plain(o)
  BY <1>1, OnTheWayOps DEF AllOps
<1>3. /\ c \in Sane /\ Alike(c, o)
      /\ Replaced(rest, e, n)
      /\ (o.batch = NoBatch \/ After(rest, o) # b) /\ Later(rest, Loose(o)) # {}
           => OnFront(e, Earliest(Later(rest, Loose(o))).op)
  BY <1>2, CalculatedIs
<1>4. PICK k, F : Calculates(d, e, o, k, F)
  BY <1>2, TurnCalculates
<1>5. /\ Careful /\ NoCounts(d) /\ NoCounts(rest) /\ NoCounts(e)
  <2>1. Placed(rest, U, R)
    BY <1>1 DEF Placed
  <2> QED
    BY <1>1, <2>1, PlacedPlain DEF Orderly
<1>6. SoonerIsUnseen(o, V, R)
  BY OrderedSooner
<1>7. Sound(e) /\ b = Plus(BalanceBefore(rest, o), Delta(c)) /\ n.op = c /\ Placed(e, V, R)
  OBVIOUS
<1>8. /\ \A r \in d.main : r.op \in Ops /\ Rooted(r.op, R)
      /\ \A p \in d.front : p \in Ops /\ Rooted(p, R)
  BY <1>1, DatabaseFacts DEF Sound, Placed
<1>9. /\ Key(c) = Key(o) /\ Stamp(c) = Stamp(o) /\ c.store = o.store
  BY <1>3, AlikeFacts DEF Alike
<1> HIDE DEF e, c, b, n, before
<1> SUFFICES ASSUME NEW v \in OpsOf(e), Virtual(v) PROVE Ready(e, V, v)
  BY DEF AllReady, e
<1>10. v \in OpsOf(d)
  <2>1. ~ Virtual(k)
    BY <1>4, AlikeFacts DEF Calculates
  <2> QED
    BY <1>4, <2>1 DEF Calculates
<1>11. v \in Sane /\ v \in Ops /\ v.qty > 0 /\ v.batch = NoBatch /\ v.kind = "issue" /\ Rooted(v, R)
  BY <1>1, <1>10, FullFacts DEF Virtual
<1>12. PICK rv \in d.main : rv.op = v
  BY <1>10 DEF OpsOf
<1>13. ASSUME o.store = v.store, Less(Stamp(o), Stamp(v)), o.batch = NoBatch \/ After(rest, o) # b
       PROVE  Waiting(e, V, v)
  BY <1>2, <1>3, <1>6, <1>7, <1>8, <1>11, <1>12, <1>13, NextWaits
<1>14. ASSUME Waiting(d, U, v) PROVE Waiting(e, V, v)
  <2>1. PICK w \in d.front : /\ w.store = v.store /\ w.batch = NoBatch
                             /\ ~ Less(Stamp(v), Stamp(w)) /\ Unseen(U, w)
    BY <1>14 DEF Waiting
  <2>2. CASE w = o
    <3>1. Less(Stamp(o), Stamp(v))
      BY <1>2, <1>11, <2>1, <2>2, VirtualApart
    <3> QED
      BY <1>13, <2>1, <2>2, <3>1
  <2>3. CASE w # o
    <3>1. w \in Ops /\ Key(w) # Key(o) /\ \A p \in Ops : Key(p) = Key(w) =>
            p.store = w.store /\ p.batch = w.batch /\ Stamp(p) = Stamp(w)
      <4>1. Key(w) # Key(o)
        BY <1>1, <2>3 DEF Sound, IsKeyed, KeysApart
      <4> QED
        BY <1>8, <4>1, KeyFacts
    <3>2. \E p \in F : Key(p) = Key(w) /\ p \in Ops
      <4>1. Moving(k) => Arrival(k) \in Ops
        BY <1>4, SendsFacts DEF Calculates
      <4> QED
        BY <1>4, <2>3, <3>1, <4>1 DEF Calculates, Without
    <3>3. PICK p \in F : Key(p) = Key(w) /\ p \in Ops
      BY <3>2
    <3>4. p \in e.front
      BY <1>4, <3>3 DEF Calculates, Joins
    <3>5. Unseen(V, p)
      BY <2>1, <3>1, <3>3 DEF Unseen
    <3>6. p.store = v.store /\ p.batch = NoBatch /\ ~ Less(Stamp(v), Stamp(p))
      BY <2>1, <3>1, <3>3
    <3> QED
      BY <3>4, <3>5, <3>6 DEF Waiting
  <2> QED
    BY <2>2, <2>3
<1>15. /\ \A x \in Batches : OnHand(rest, v, x) = OnHand(d, v, x)
       /\ Chained(d, v) => Chained(rest, v)
  <2>1. Pasts(rest, v) = Pasts(d, v)
    BY DEF Pasts
  <2> QED
    BY <1>1, <1>5, <1>11, <2>1, SamePast
<1>16. \/ Waiting(e, V, v)
       \/ /\ \A x \in Batches : OnHand(e, v, x) = OnHand(d, v, x)
          /\ Chained(d, v) => Chained(e, v)
  <2>1. CASE o.store = v.store /\ Less(Stamp(o), Stamp(v))
    <3>1. CASE o.batch = NoBatch \/ After(rest, o) # b
      BY <1>13, <2>1, <3>1
    <3>2. CASE o.batch # NoBatch /\ After(rest, o) = b
      <4>1. Chained(rest, v) => /\ \A x \in Batches : OnHand(e, v, x) = OnHand(rest, v, x)
                                /\ Chained(e, v)
        BY <1>2, <1>3, <1>5, <1>7, <1>11, <2>1, <3>2, SwappedPast DEF n
      <4>2. CASE Chained(d, v)
        BY <1>15, <4>1, <4>2
      <4>3. CASE ~ Chained(d, v)
        <5>1. Ready(d, U, v)
          BY <1>10 DEF AllReady
        <5> QED
          BY <1>14, <4>3, <5>1 DEF Ready
      <4> QED
        BY <4>2, <4>3
    <3> QED
      BY <3>1, <3>2
  <2>2. CASE ~ (o.store = v.store /\ Less(Stamp(o), Stamp(v)))
    <3>1. o.store # v.store \/ Less(Stamp(v), Stamp(o))
      BY <1>2, <1>11, <2>2, VirtualApart
    <3>2. \A q \in d.main : Key(q.op) = Key(c) => q.op.store = o.store /\ Stamp(q.op) = Stamp(o)
      BY <1>2, <1>8, <1>9, KeyFacts
    <3>3. Pasts(e, v) = Pasts(d, v)
      <4>1. e.main = {q \in d.main : Key(q.op) # Key(c)} \cup {n}
        BY <1>3, <1>7 DEF Replaced
      <4> QED
        BY <1>7, <1>9, <3>1, <3>2, <4>1 DEF Pasts
    <3> QED
      BY <1>1, <1>5, <1>7, <1>11, <3>3, SamePast
  <2> QED
    BY <2>1, <2>2
<1>17. \A a \in Ops : a.dep /\ a.kind = "issue" /\ a.id = v.id /\ Heard(d, U, a) => Heard(e, V, a)
  BY <1>1, <1>4, CalculatedHears
<1>18. Ready(d, U, v)
  BY <1>10 DEF AllReady
<1> HIDE DEF V
<1> QED
  BY <1>1, <1>11, <1>14, <1>16, <1>17, <1>18, ReadyOn

(* What follows z without its record has another balance before it, and    *)
(* the next of no batch is sent for.                                       *)
LEMMA TakeOutWaits ==
  ASSUME Orderly, NEW R, Meant(R), NEW a, Sound(a),
         \A x \in a.main : Rooted(x.op, R) /\ x.op.qty > 0,
         NEW z \in Sane, Rooted(z, R), ~ Virtual(z), NEW V, SoonerIsUnseen(z, V, R),
         NEW v \in OpsOf(a), Virtual(v), Chained(a, v)
  PROVE  LET e == TakeOut(a, z)
         IN  v \in OpsOf(e) /\ (Pasts(e, v) = Pasts(a, v) \/ Marked(e, V, Stamp(z), v))
<1> DEFINE e == TakeOut(a, z)
           c == CutOut(a, z)
<1>1. /\ Sound(e) /\ e.main = {r \in a.main : Key(r.op) # Key(z)}
      /\ Sound(c) /\ c.main = a.main \ Stored(a, z)
  <2>1. Careful => ~ (Virtual(z) /\ z.kind = "issue")
    OBVIOUS
  <2>2. Sound(e) /\ Reduced(a, e, {Key(z)}, Next1(a, z))
    BY <2>1, TakeOutReduces
  <2>3. Sound(c) /\ c.main = a.main \ Stored(a, z)
    BY <2>1, CutOutSound
  <2> QED
    BY <2>2, <2>3 DEF Reduced
<1>2. e = IF BalanceBefore(a, z) = StoredBalance(a, z) THEN c ELSE PropagateBoth(c, z)
  BY TakeOutIs
<1> HIDE DEF e, c
<1>3. PICK rv \in a.main : rv.op = v
  BY DEF OpsOf
<1>4. \A r \in a.main : r.op \in Ops
  BY DatabaseFacts DEF Sound
<1>5. z \in Ops /\ v \in Ops /\ Rooted(v, R) /\ v.kind = "issue" /\ v.batch = NoBatch /\ Plain(z)
  <2>1. z \in Ops /\ v \in Ops /\ Rooted(v, R)
    BY <1>3, <1>4, SaneFacts
  <2>2. Plain(z) /\ Plain(v)
    BY <2>1, RootedFacts
  <2> QED
    BY <2>1, <2>2 DEF Virtual, Plain
<1>6. Key(v) # Key(z)
  BY <1>5, KeyFacts
<1>7. v \in OpsOf(e)
  BY <1>1, <1>3, <1>6 DEF OpsOf
<1>8. CASE \A r \in a.main : Key(r.op) = Key(z) => r \notin Pasts(a, v)
  BY <1>1, <1>7, <1>8 DEF Pasts, e
<1>9. CASE \E r \in a.main : Key(r.op) = Key(z) /\ r \in Pasts(a, v)
  <2>1. PICK q \in a.main : Key(q.op) = Key(z) /\ q \in Pasts(a, v)
    BY <1>9
  <2>2. /\ q.op.store = z.store /\ q.op.batch = z.batch /\ Stamp(q.op) = Stamp(z)
        /\ ~ Virtual(q.op) /\ q.op \in Ops /\ q.op.kind = z.kind
    BY <1>4, <1>5, <2>1, KeyFacts
  <2>3. z.store = v.store /\ Less(Stamp(z), Stamp(v))
    <3>1. z.store = v.store /\ ~ Less(Stamp(v), Stamp(z))
      BY <2>1, <2>2 DEF Pasts
    <3> QED
      BY <1>5, <3>1, VirtualApart
  <2>4. Continues(a, q)
    BY <2>2, <2>3 DEF Chained
  <2>5. q.bal = Plus(BalanceBefore(a, z), Delta(q.op))
    <3>1. BalanceBefore(a, q.op) = BalanceBefore(a, z)
      BY <2>2 DEF BalanceBefore, Earlier, Chain
    <3> QED
      BY <2>2, <2>4, <3>1 DEF Continues
  <2>6. BalanceBefore(a, z) # q.bal
    <3>1. Delta(q.op).qty # 0 /\ Delta(q.op).qty \in Int
      <4>1. q.op.qty > 0 /\ q.op.qty \in Int /\ q.op.kind # "inventory"
        BY <1>5, <2>1, <2>2 DEF Ops, Plain
      <4> QED
        BY <4>1 DEF Delta
    <3>2. BalanceBefore(a, z) \in Balance /\ Delta(q.op) \in Balance
      BY <2>2, BeforeType, OpDelta
    <3>3. /\ BalanceBefore(a, z).qty \in Int
          /\ Plus(BalanceBefore(a, z), Delta(q.op)).qty = BalanceBefore(a, z).qty + Delta(q.op).qty
      BY <3>2 DEF Balance, Plus
    <3> QED
      BY <2>5, <3>1, <3>3
  <2>7. StoredBalance(a, z) = q.bal
    <3>1. \A r \in Stored(a, z) : r = q
      BY <2>1, StoredFacts DEF Sound, IsKeyed
    <3>2. q \in Stored(a, z)
      BY <2>1, StoredFacts
    <3> QED
      BY <3>1, <3>2 DEF StoredBalance
  <2>8. e = PropagateBoth(c, z)
    BY <1>2, <2>6, <2>7
  <2>9. /\ Later(c, Loose(z)) # {} => OnFront(e, Earliest(Later(c, Loose(z))).op)
    BY <1>1, <2>8, BothJoin
  <2>10. rv \in c.main
    BY <1>1, <1>3, <1>6, StoredFacts
  <2>11. \A x \in c.main : Rooted(x.op, R)
    BY <1>1
  <2>12. Marked(e, V, Stamp(z), rv.op)
    BY <1>1, <1>3, <1>5, <2>3, <2>9, <2>10, <2>11, NextWaits
  <2> QED
    BY <1>3, <1>7, <2>12 DEF e
<1> QED
  BY <1>8, <1>9

LEMMA TakeOutLess ==
  ASSUME NEW d, Sound(d), NEW o \in Sane, ~ Virtual(o)
  PROVE  LET e == TakeOut(d, o)
         IN  /\ Sound(e) /\ e.main = {r \in d.main : Key(r.op) # Key(o)} /\ e.index \subseteq d.index
             /\ \A p \in d.front : Key(p) = Key(o) \/ p \in e.front
<1> DEFINE e == TakeOut(d, o)
           c == CutOut(d, o)
<1>1. Careful => ~ (Virtual(o) /\ o.kind = "issue")
  OBVIOUS
<1>2. Sound(e) /\ Reduced(d, e, {Key(o)}, Next1(d, o))
  BY <1>1, TakeOutReduces
<1>3. Sound(c) /\ c.index \subseteq d.index
  BY <1>1, CutOutSound
<1>4. PropagateBoth(c, o).index = c.index
  BY <1>3, BothJoin
<1>5. e.index \subseteq d.index
  BY <1>3, <1>4, TakeOutIs
<1> QED
  BY <1>2, <1>5 DEF Reduced

(* On the way from d, for v in another store than o.                       *)
Beside(d, o, V, v) ==
  LET t == <<o.date, 2, o.id, 1>>
  IN  {a \in Ledgers : /\ a.main \subseteq d.main /\ a.index \subseteq d.index /\ v \in OpsOf(a)
                       /\ Pasts(a, v) = Pasts(d, v) \/ Marked(a, V, t, v)}

(* Neither a dependant of o that is deleted, nor what arrives of it,       *)
(* changes the past of v unnoticed.                                        *)
LEMMA DeletedBeside ==
  ASSUME Orderly, NEW R, Meant(R), NEW d, Sound(d), NoCounts(d),
         \A x \in d.main : Rooted(x.op, R) /\ x.op.qty > 0,
         NEW o \in Sane, Rooted(o, R), Virtual(o), o.kind = "issue", NEW V, SoonerIsUnseen(o, V, R),
         NEW v, v \in OpsOf(d), Virtual(v), v.store # o.store, Chained(d, v),
         NEW a \in Beside(d, o, V, v), NEW x \in Batches
  PROVE  Delete(a, NoneOf(o, x)) \in Beside(d, o, V, v)
<1>0. \E u : u = NoneOf(o, x) /\ u \in Sane /\ u \in Ops /\ Rooted(u, R) /\ ~ Virtual(u)
             /\ u.dep = TRUE /\ u.kind = "issue" /\ u.id = o.id /\ u.date = o.date
             /\ u.store = o.store /\ u.into = o.into /\ u.batch = x
             /\ (Moving(u) <=> IsTransfer(o))
  BY NoneRooted
<1> DEFINE t == <<o.date, 2, o.id, 1>>
           z == NoneOf(o, x)
           y == Arrival(z)
           f == TakeOut(a, z)
           g == TakeOut(f, y)
<1>1. /\ Sound(a) /\ a.main \subseteq d.main /\ a.index \subseteq d.index /\ v \in OpsOf(a)
      /\ Pasts(a, v) = Pasts(d, v) \/ Marked(a, V, t, v)
  BY LedgerIsSound DEF Beside
<1>2. /\ z \in Sane /\ z \in Ops /\ Rooted(z, R) /\ ~ Virtual(z) /\ z.dep = TRUE
      /\ z.kind = "issue" /\ z.id = o.id /\ z.date = o.date /\ z.store = o.store
      /\ z.into = o.into /\ z.batch = x
      /\ Moving(z) <=> IsTransfer(o)
  <2> HIDE DEF z
  <2> QED
    BY <1>0 DEF z
<1>3. Delete(a, z) = IF IsTransfer(z) THEN g ELSE f
  BY DEF Delete
<1> HIDE DEF z
<1>4. /\ Sound(f) /\ f.main = {r \in a.main : Key(r.op) # Key(z)} /\ f.index \subseteq a.index
      /\ \A p \in a.front : Key(p) = Key(z) \/ p \in f.front
  BY <1>1, <1>2, TakeOutLess
<1> HIDE DEF f
<1>5. /\ \A r \in d.main : r.op \in Ops
      /\ \A p \in a.front : p \in Ops
      /\ \A p \in f.front : p \in Ops
  BY <1>1, <1>4, DatabaseFacts DEF Sound
<1>6. v \in Ops
  BY <1>5 DEF OpsOf
<1>7. \A p \in Ops : Key(p) = Key(z) => p.store = o.store
  BY <1>2, KeyFacts
<1>8. f \in Beside(d, o, V, v)
  <2>1. f.main \subseteq d.main /\ f.index \subseteq d.index
    BY <1>1, <1>4
  <2>2. v \in OpsOf(f)
    BY <1>1, <1>4, <1>6, <1>7 DEF OpsOf
  <2>3. Pasts(f, v) = Pasts(a, v)
    <3>1. \A r \in a.main : r.op.store = v.store => Key(r.op) # Key(z)
      BY <1>1, <1>5, <1>7
    <3> QED
      BY <1>4, <3>1 DEF Pasts
  <2>4. Marked(a, V, t, v) => Marked(f, V, t, v)
    <3>1. \A p \in a.front : p.store = v.store => p \in f.front
      BY <1>4, <1>5, <1>7
    <3> QED
      BY <3>1 DEF Marked
  <2> QED
    BY <1>1, <1>4, <2>1, <2>2, <2>3, <2>4, LedgerIsSound DEF Beside
<1>9. CASE ~ IsTransfer(z)
  BY <1>3, <1>8, <1>9 DEF z
<1>10. CASE IsTransfer(z)
  <2>1. Moving(z)
    BY <1>2, <1>10 DEF Moving
  <2>2. /\ y \in Sane /\ y \in Ops /\ ~ Virtual(y) /\ y.kind = "receive" /\ y.dep = TRUE
        /\ y.id = o.id /\ y.date = o.date
    BY <1>2, <2>1, SendsFacts
  <2>3. y.into = o.store
    BY <1>2, <1>10, ArrivalFields
  <2>4. Rooted(y, R)
    <3>1. Alike(z, z)
      BY DEF Alike
    <3> QED
      BY <1>2, <1>10, <3>1, ArrivalNew
  <2> HIDE DEF y, g
  <2>5. Stamp(y) = t
    BY <2>2, OrderFacts DEF Stamp
  <2>6. SoonerIsUnseen(y, V, R)
    <3> SUFFICES ASSUME NEW p \in Ops, Rooted(p, R), Sooner(y, p) PROVE Unseen(V, p)
      BY DEF SoonerIsUnseen
    <3>1. New(o, y)
      BY <2>2, <2>3 DEF New
    <3>2. p.kind \in {"issue", "receive"}
      BY RootedFacts DEF Plain
    <3>3. o \in Ops
      BY SaneFacts
    <3>4. Sooner(o, p)
      BY <2>2, <3>1, <3>2, <3>3, NewThenSooner
    <3> QED
      BY <3>4 DEF SoonerIsUnseen
  <2>7. /\ Sound(g) /\ g.main = {r \in f.main : Key(r.op) # Key(y)} /\ g.index \subseteq f.index
        /\ \A p \in f.front : Key(p) = Key(y) \/ p \in g.front
    BY <1>4, <2>2, TakeOutLess DEF g
  <2>8. /\ f.main \subseteq d.main /\ f.index \subseteq d.index /\ v \in OpsOf(f)
        /\ Pasts(f, v) = Pasts(d, v) \/ Marked(f, V, t, v)
    BY <1>8 DEF Beside
  <2>9. v \in OpsOf(g)
    <3>1. Key(v) # Key(y)
      BY <1>6, <2>2, KeyFacts
    <3> QED
      BY <2>7, <2>8, <3>1 DEF OpsOf
  <2>10. CASE Marked(f, V, t, v)
    <3>1. \A p \in f.front : Less(t, Stamp(p)) => Key(p) # Key(y)
      BY <1>5, <2>2, <2>5, KeyFacts, OneWay
    <3>2. Marked(g, V, t, v)
      BY <2>7, <2>10, <3>1 DEF Marked
    <3> QED
      BY <1>3, <1>10, <2>7, <2>8, <2>9, <3>2, LedgerIsSound DEF Beside, z
  <2>11. CASE Pasts(f, v) = Pasts(d, v)
    <3>1. NoCounts(f) /\ Careful
      BY <2>8 DEF NoCounts, Orderly
    <3>2. Chained(f, v)
      BY <1>4, <1>6, <2>11, <3>1, SamePast
    <3>3. \A r \in f.main : Rooted(r.op, R) /\ r.op.qty > 0
      BY <2>8
    <3>4. Pasts(g, v) = Pasts(f, v) \/ Marked(g, V, Stamp(y), v)
      BY <1>4, <2>2, <2>4, <2>6, <2>8, <3>2, <3>3, TakeOutWaits DEF g
    <3>5. Pasts(g, v) = Pasts(d, v) \/ Marked(g, V, t, v)
      BY <2>5, <2>11, <3>4
    <3> QED
      BY <1>3, <1>10, <2>7, <2>8, <2>9, <3>5, LedgerIsSound DEF Beside, z
  <2> QED
    BY <2>8, <2>10, <2>11
<1> QED
  BY <1>9, <1>10

LEMMA DroppedBeside ==
  ASSUME Orderly, NEW R, Meant(R), NEW d, Sound(d), NoCounts(d),
         \A x \in d.main : Rooted(x.op, R) /\ x.op.qty > 0,
         NEW o \in Sane, Rooted(o, R), Virtual(o), o.kind = "issue", NEW V, SoonerIsUnseen(o, V, R),
         NEW v, v \in OpsOf(d), Virtual(v), v.store # o.store, Chained(d, v),
         NEW parts
  PROVE  Dropped(d, o, parts) \in Beside(d, o, V, v)
<1> DEFINE G == Beside(d, o, V, v)
<1>1. d \in G
  BY LedgerIsSound DEF Beside
<1>2. ASSUME NEW e \in G, NEW i \in DOMAIN o.parts
      PROVE  Delete(e, Zero(o, o.parts[i])) \in G
  <2>1. /\ Zero(o, o.parts[i]) = Part(o, o.parts[i].batch, 0, 0)
        /\ o.parts[i].batch \in Batches
    BY ZeroFacts
  <2> QED
    BY <2>1, DeletedBeside DEF NoneOf
<1> HIDE DEF G
<1>3. Dropped(d, o, parts) \in G
  BY <1>1, <1>2, DroppedKeeps
<1> QED
  BY <1>3 DEF G

(* So does the whole distribution, which stores o in its own store.        *)
LEMMA DistributedBeside ==
  ASSUME Orderly, NEW R, Meant(R), NEW d, Sound(d), NoCounts(d),
         \A x \in d.main : Rooted(x.op, R) /\ x.op.qty > 0,
         NEW o \in Sane, Rooted(o, R), Virtual(o), o.kind = "issue", NEW V, SoonerIsUnseen(o, V, R),
         NEW s \in Queues(d, o),
         NEW v, v \in OpsOf(d), Virtual(v), v.store # o.store, Chained(d, v)
  PROVE  Pasts(Distributed(d, o, s), v) = Pasts(d, v) \/ Waiting(Distributed(d, o, s), V, v)
<1> DEFINE parts == Split(d, o, s)
           a == FoldLeft(Insert, d, parts)
           f == Dropped(a, o, parts)
           w == With(o, parts)
           b == OnHand(d, o, NoBatch)
           saved == Save(f, w, b)
           e == Distributed(d, o, s)
           t == <<o.date, 2, o.id, 1>>
<1>1. o \in Ops /\ o.qty > 0
  BY SaneFacts DEF Sane
<1>2. parts \in Seq(PartsOf(o)) /\ parts \in Seq(Made) /\ parts # <<>>
  BY <1>1, SplitFacts
<1>3. e = Propagate(saved, o)
  BY DEF Distributed, Remembered, Spread, With
<1>4. b \in Balance
  BY <1>1, BatchFacts, OnHandType
<1>5. f = Spread(d, o, parts)
  BY DEF Spread
<1> HIDE DEF parts
<1>6. /\ w \in Sane /\ Virtual(w) /\ w.parts # <<>> /\ Key(w) = Key(o) /\ Stamp(w) = Stamp(o)
      /\ w.store = o.store /\ w.batch = o.batch
  BY <1>2, WithFacts
<1> HIDE DEF w, b, e
<1>7. parts \in Seq(Sane)
  BY <1>2 DEF Made
<1>8. Sound(a) /\ a.main = d.main /\ a.index = d.index
  BY <1>7, InsertsIs
<1> HIDE DEF a, f
<1>9. Sound(f)
  BY <1>2, <1>5, SpreadSound
<1> DEFINE r0 == [op |-> w, bal |-> b]
<1>10. r0.op = w
  OBVIOUS
<1>11. Sound(saved) /\ Replaced(f, saved, r0) /\ saved.front = f.front
  BY <1>4, <1>6, <1>9, SaveReplaces
<1> HIDE DEF saved, r0
<1>12. Joins(saved.front, e.front, Next1(saved, o)) /\ e.main = saved.main
  BY <1>3, <1>11, PropagateJoins
<1>13. \A r \in d.main : r.op \in Ops
  BY DatabaseFacts DEF Sound
<1>14. v \in Ops
  BY <1>13 DEF OpsOf
<1>15. v \in OpsOf(a) /\ NoCounts(a) /\ Pasts(a, v) = Pasts(d, v) /\ Careful
  BY <1>8 DEF OpsOf, NoCounts, Pasts, Orderly
<1>16. Chained(a, v)
  BY <1>8, <1>14, <1>15, SamePast
<1>17. \A x \in a.main : Rooted(x.op, R) /\ x.op.qty > 0
  BY <1>8
<1>18. f \in Beside(a, o, V, v)
  BY <1>8, <1>15, <1>16, <1>17, DroppedBeside DEF f
<1>19. /\ f.main \subseteq d.main
       /\ Pasts(f, v) = Pasts(a, v) \/ Marked(f, V, t, v)
  BY <1>8, <1>18 DEF Beside
<1>20. CASE Marked(f, V, t, v)
  <2>1. f.front \subseteq e.front
    BY <1>11, <1>12 DEF Joins
  <2> QED
    BY <1>20, <2>1 DEF Marked, Waiting, e
<1>21. CASE Pasts(f, v) = Pasts(a, v)
  <2>1. e.main = {q \in f.main : Key(q.op) # Key(o)} \cup {r0}
    BY <1>6, <1>10, <1>11, <1>12 DEF Replaced
  <2>2. \A q \in f.main : q.op.store = v.store => Key(q.op) # Key(o)
    BY <1>1, <1>13, <1>19, KeyFacts
  <2>3. Pasts(e, v) = Pasts(f, v)
    BY <1>6, <1>10, <2>1, <2>2 DEF Pasts
  <2> QED
    BY <1>15, <1>21, <2>3 DEF e
<1> QED
  BY <1>19, <1>20, <1>21

(* Of its store, a virtual issue has before it what the front has before   *)
(* it, for it is alone on its day.                                         *)
LEMMA StampThenKey ==
  ASSUME Orderly, NEW R, Meant(R), NEW o \in Ops, Rooted(o, R), Virtual(o), o.kind = "issue",
         NEW p \in Ops, Rooted(p, R), p.store = o.store, Less(Stamp(p), Stamp(o))
  PROVE  Less(Key(p), Key(o))
<1>1. PICK e \in R : Belongs(o, e)
  BY DEF Rooted
<1>2. PICK f \in R : Belongs(p, f)
  BY DEF Rooted
<1>3. e \in Entries /\ e.kind = "issue" /\ e.store = o.store /\ Virtual(e) /\ e.date = o.date /\ e.id = o.id
  <2>1. e \in Entries /\ e.kind = "issue" /\ e.store = o.store /\ Virtual(e)
    BY <1>1, BelongsFacts DEF Virtual
  <2> QED
    BY <1>1, <2>1 DEF Belongs
<1>4. f \in Entries /\ f.date = p.date /\ f.id = p.id /\ p.kind \in {"issue", "receive"}
      /\ (p.kind = "issue" => f.kind = "issue" /\ f.store = p.store)
  <2>1. f \in Entries /\ p.kind \in {"issue", "receive"}
        /\ (p.kind = "issue" => f.kind = "issue" /\ f.store = p.store)
    BY <1>2, BelongsFacts
  <2> QED
    BY <1>2, <2>1 DEF Belongs
<1>5. CASE p.date # o.date
  BY <1>5, StampLess, KeyLess
<1>6. CASE p.date = o.date /\ p.kind = "receive"
  BY <1>6, OrderFacts, KeyLess
<1>7. CASE p.date = o.date /\ p.kind = "issue"
  <2>1. p.id = o.id
    BY <1>3, <1>4, <1>7 DEF Orderly
  <2>2. Flag(p) < Flag(o) /\ Flag(o) = 0 /\ Flag(p) \in Nat
    <3>1. Order(p) = 4 /\ Order(o) = 4 /\ Flag(o) = 0
      BY <1>7, OrderFacts DEF Virtual
    <3>2. Flag(p) \in Nat /\ p.date \in Nat /\ p.id \in Nat
      BY Numbers
    <3> QED
      BY <1>7, <2>1, <3>1, <3>2, StampLess
  <2> QED
    BY <2>2
<1> QED
  BY <1>4, <1>5, <1>6, <1>7

(* When its turn comes, nothing before it is pending.                      *)
LEMMA HeadIsChained ==
  ASSUME Orderly, NEW R, Meant(R), NEW d, NEW U, OnTheWay(d, U, R), NEW o \in d.front,
         \A q \in d.front : o = q \/ Less(Key(o), Key(q)), Virtual(o), o.kind = "issue"
  PROVE  Chained(d, o)
<1>1. Sound(d) /\ U \subseteq Sane /\ Placed(d, U, R) /\ Pending(d, {}, U)
  BY DEF OnTheWay
<1>2. \A p \in AllOps(d) : p \in Ops /\ Rooted(p, R)
  BY <1>1, OnTheWayOps
<1>3. o \in Ops /\ Rooted(o, R)
  BY <1>2 DEF AllOps
<1> SUFFICES ASSUME NEW r \in d.main, r.op.store = o.store, Less(Stamp(r.op), Stamp(o))
             PROVE  Continues(d, r)
  BY DEF Chained
<1>4. r.op \in Ops /\ Rooted(r.op, R)
  BY <1>2 DEF AllOps, OpsOf
<1>5. Less(Key(r.op), Key(o))
  BY <1>3, <1>4, StampThenKey
<1>6. ~ OnFront(d, r.op)
  <2> SUFFICES ASSUME NEW p \in d.front, Key(p) = Key(r.op) PROVE FALSE
    BY DEF OnFront
  <2>1. o = p \/ Less(Key(o), Key(p))
    OBVIOUS
  <2> QED
    BY <1>3, <1>4, <1>5, <2>1, OneWay
<1>7. Current(d, r)
  BY <1>1, <1>6 DEF Pending
<1> QED
  BY <1>7, CurrentContinues

(* What is dropped of o comes after it in its store, or arrives that day.  *)
LEMMA ShedAfter ==
  ASSUME Orderly, NEW R, Meant(R), NEW o \in Sane, Rooted(o, R), Virtual(o), o.kind = "issue",
         NEW parts \in Seq(PartsOf(o)), NEW p \in Ops, Rooted(p, R), Key(p) \in ShedKeys(o, parts)
  PROVE  /\ p.date = o.date
         /\ p.store = o.store => Less(Stamp(o), Stamp(p))
         /\ p.store # o.store => p.kind = "receive"
<1>1. p.dep /\ p.id = o.id /\ o \in Ops
  BY ShedFacts, SaneFacts
<1>2. PICK e \in R : Belongs(o, e)
  BY DEF Rooted
<1>3. PICK f \in R : Belongs(p, f)
  BY DEF Rooted
<1>4. e = f
  BY <1>1, <1>2, <1>3 DEF Belongs, Meant
<1>5. p.date = o.date
  BY <1>2, <1>3, <1>4 DEF Belongs
<1>6. e.store # e.into /\ o.store = e.store /\ p.kind \in {"issue", "receive"}
      /\ (p.kind = "issue" => p.store = e.store) /\ (p.kind = "receive" => p.store = e.into)
  BY <1>1, <1>2, <1>3, <1>4, BelongsFacts
<1>7. ASSUME p.kind = "issue" PROVE Less(Stamp(o), Stamp(p))
  <2>1. Order(o) = Order(p) /\ Flag(o) = 0 /\ Flag(p) = 1
    BY <1>1, <1>7, OrderFacts DEF Virtual
  <2> QED
    BY <1>1, <1>5, <2>1, StampLess
<1> QED
  BY <1>5, <1>6, <1>7

LEMMA StampUsesOnly ==
  ASSUME NEW d, NEW o, NEW v, v.store = o.store, v.date = o.date, Stamp(v) = Stamp(o)
  PROVE  /\ \A b : OnHand(d, v, b) = OnHand(d, o, b)
         /\ Chained(d, v) <=> Chained(d, o)
<1>1. Opening(d, v) = Opening(d, o)
  BY DEF Opening
<1>2. Applied(d, v) = Applied(d, o)
  BY <1>1 DEF Applied
<1>3. \A b : {p \in Applied(d, v) : p.batch = b} = {p \in Applied(d, o) : p.batch = b}
  BY <1>2
<1> QED
  BY <1>1, <1>3 DEF OnHand, Chained

(* The issue that is split suits what is on hand then.                     *)
LEMMA OwnReady ==
  ASSUME Orderly, NEW R, Meant(R), NEW d, NEW U, OnTheWay(d, U, R),
         NEW o \in d.front, Virtual(o), o.kind = "issue",
         NEW rest, Sound(rest), NoCounts(rest), rest.main = d.main, rest.front = d.front \ {o},
         Chained(rest, o), NEW s \in Queues(rest, o),
         NEW e, Sound(e), NoCounts(e), Distributes(rest, e, o, Split(rest, o, s))
  PROVE  Ready(e, U \cup {o}, With(o, Split(rest, o, s)))
<1> DEFINE parts == Split(rest, o, s)
           V == U \cup {o}
           v == With(o, parts)
<1>1. Sound(d) /\ U \subseteq Sane /\ Placed(d, U, R) /\ Ordered(d.front, U)
  BY DEF OnTheWay
<1>2. o \in Sane /\ o \in Ops /\ Rooted(o, R) /\ o.qty > 0
  <2>1. o \in Sane /\ o \in Ops /\ Rooted(o, R)
    BY <1>1, OnTheWayOps DEF AllOps
  <2> QED
    BY <2>1 DEF Sane
<1>3. /\ parts \in Seq(PartsOf(o)) /\ parts \in Seq(Made) /\ parts # <<>>
      /\ \A i, j \in DOMAIN parts : parts[i].batch = parts[j].batch => i = j
  BY <1>2, SplitFacts
<1>4. parts = Split(rest, o, s)
  OBVIOUS
<1> HIDE DEF parts
<1>5. /\ v.parts = Dependants(parts) /\ Key(v) = Key(o) /\ Stamp(v) = Stamp(o)
      /\ v.date = o.date /\ v.store = o.store /\ v.qty = o.qty
      /\ \A b, q, c : Part(v, b, q, c) = Part(o, b, q, c)
  BY <1>2, <1>3, WithFacts
<1> DEFINE r0 == [op |-> v, bal |-> OnHand(rest, o, NoBatch)]
           L == ShedKeys(o, parts)
<1>6. e.main = {r \in rest.main : Key(r.op) \notin L /\ Key(r.op) # Key(o)} \cup {r0}
  BY <1>4 DEF Distributes
<1>7. r0.op = v
  OBVIOUS
<1> HIDE DEF v, r0
<1>8. Pasts(e, o) = Pasts(rest, o)
  <2>1. ASSUME NEW r \in rest.main, Key(r.op) \in L, r.op.store = o.store
        PROVE  Less(Stamp(o), Stamp(r.op))
    <3>1. r.op \in Ops /\ Rooted(r.op, R)
      BY <1>1, OnTheWayOps DEF AllOps, OpsOf
    <3> QED
      BY <1>2, <1>3, <2>1, <3>1, ShedAfter
  <2> HIDE DEF L
  <2> QED
    BY <1>5, <1>6, <1>7, <2>1 DEF Pasts
<1>9. Careful
  BY DEF Orderly
<1>10. /\ \A b \in Batches : OnHand(e, o, b) = OnHand(rest, o, b)
       /\ Chained(e, o)
  BY <1>2, <1>8, <1>9, SamePast
<1>11. /\ \A b \in Batches : OnHand(e, v, b) = OnHand(rest, o, b)
       /\ Chained(e, v)
  BY <1>5, <1>10, StampUsesOnly
<1>12. s \in Queues(e, v) /\ Split(e, v, s) = parts
  BY <1>4, <1>5, <1>11, SplitSame
<1>13. \A i \in DOMAIN parts : Heard(e, V, parts[i])
  BY <1>1, <1>3, <1>4, OwnPartsHeard
<1>14. parts \in Splits(e, v)
  BY <1>12 DEF Splits
<1>15. Suits(e, V, v)
  BY <1>5, <1>13, <1>14 DEF Suits
<1> QED
  BY <1>4, <1>11, <1>15 DEF Ready, v

(* Of the others, those in its store that come later are sent for by it,   *)
(* those that come sooner keep their past.                                 *)
LEMMA OthersReady ==
  ASSUME Orderly, NEW R, Meant(R), NEW d, NEW U, OnTheWay(d, U, R),
         NEW o \in d.front, \A q \in d.front : o = q \/ Less(Key(o), Key(q)),
         Virtual(o), o.kind = "issue",
         NEW rest, Sound(rest), NoCounts(rest), rest.main = d.main, rest.front = d.front \ {o},
         \A x \in rest.main : Rooted(x.op, R) /\ x.op.qty > 0,
         NEW s \in Queues(rest, o), Sound(Distributed(rest, o, s)), NoCounts(Distributed(rest, o, s)),
         Placed(Distributed(rest, o, s), U \cup {o}, R),
         Distributes(rest, Distributed(rest, o, s), o, Split(rest, o, s)),
         NEW v \in OpsOf(d), v \in OpsOf(Distributed(rest, o, s)), Virtual(v), Key(v) # Key(o),
         Ready(d, U, v)
  PROVE  LET e == Distributed(rest, o, s)
             V == U \cup {o}
         IN  /\ Waiting(d, U, v) => Waiting(e, V, v)
             /\ \/ Waiting(e, V, v)
                \/ Pasts(e, v) = Pasts(d, v)
<1> DEFINE parts == Split(rest, o, s)
           e == Distributed(rest, o, s)
           V == U \cup {o}
           L == ShedKeys(o, parts)
           Q == ElemsOf(parts)
<1>1. Sound(d) /\ U \subseteq Sane /\ Placed(d, U, R) /\ Ordered(d.front, U)
  BY DEF OnTheWay
<1>2. \A p \in AllOps(d) \cup U : p \in Sane /\ p \in Ops /\ Rooted(p, R)
  BY <1>1, OnTheWayOps
<1>3. o \in Sane /\ o \in Ops /\ Rooted(o, R) /\ o.qty > 0 /\ o.batch = NoBatch
  <2>1. o \in Sane /\ o \in Ops /\ Rooted(o, R)
    BY <1>2 DEF AllOps
  <2> QED
    BY <2>1 DEF Sane, Virtual
<1>4. v \in Ops /\ Rooted(v, R) /\ v.batch = NoBatch
  BY <1>2 DEF AllOps, Virtual
<1>5. parts \in Seq(PartsOf(o))
  BY <1>3, SplitFacts
<1>6. Distributes(rest, e, o, parts)
  OBVIOUS
<1>7. SoonerIsUnseen(o, V, R)
  BY OrderedSooner
<1>8. /\ \A r \in d.main : r.op \in Ops /\ Rooted(r.op, R)
      /\ \A p \in d.front : p \in Ops /\ Rooted(p, R)
  BY <1>2 DEF AllOps, OpsOf
<1>9. \A p \in Ops : Rooted(p, R) /\ Key(p) \in L =>
         /\ p.date = o.date
         /\ p.store = o.store => Less(Stamp(o), Stamp(p))
         /\ p.store # o.store => p.kind = "receive"
  BY <1>3, <1>5, ShedAfter
<1>10. \A q \in Q : q \in Ops /\ q.store = o.store
  <2> SUFFICES ASSUME NEW q \in Q PROVE q \in Ops /\ q.store = o.store
    OBVIOUS
  <2>1. q \in PartsOf(o)
    BY <1>5 DEF ElemsOf
  <2> QED
    BY <1>3, <2>1, PartsFields
<1>11. /\ Sound(e) /\ NoCounts(e) /\ Placed(e, V, R) /\ v \in OpsOf(e)
  OBVIOUS
<1> HIDE DEF parts, V
<1>12. CASE v.store = o.store /\ Less(Stamp(o), Stamp(v))
  <2>1. PICK rv \in e.main : rv.op = v
    BY <1>11 DEF OpsOf
  <2> HIDE DEF e, L, Q
  <2>2. PICK w \in e.front : /\ w.store = o.store /\ w.batch = NoBatch
                             /\ Less(Stamp(o), Stamp(w)) /\ ~ Less(Stamp(v), Stamp(w))
    BY <1>4, <1>6, <1>12, <2>1 DEF Distributes
  <2>3. w \in Ops /\ Rooted(w, R)
    BY <1>11, <2>2, DatabaseFacts DEF Sound, Placed
  <2>4. Sooner(o, w)
    BY <1>3, <2>2, <2>3, BehindSooner DEF Behind
  <2>5. Unseen(V, w)
    BY <1>7, <2>3, <2>4 DEF SoonerIsUnseen
  <2>6. Waiting(e, V, v)
    BY <1>12, <2>2, <2>5 DEF Waiting
  <2> QED
    BY <2>6 DEF e, V
<1>13. CASE v.store = o.store /\ ~ Less(Stamp(o), Stamp(v))
  <2>1. Less(Stamp(v), Stamp(o))
    <3>1. Stamp(v) # Stamp(o)
      BY <1>3, <1>4, <1>13, KeyFacts
    <3> QED
      BY <1>3, <1>4, <1>13, <3>1, StampOrder
  <2>2. ~ Waiting(d, U, v)
    <3> SUFFICES ASSUME NEW w \in d.front, w.store = v.store, ~ Less(Stamp(v), Stamp(w)) PROVE FALSE
      BY DEF Waiting
    <3>1. Less(Stamp(w), Stamp(o))
      BY <1>3, <1>4, <1>8, <2>1, StampOrder
    <3>2. Less(Key(w), Key(o))
      BY <1>3, <1>8, <1>13, <3>1, StampThenKey
    <3>3. o = w \/ Less(Key(o), Key(w))
      OBVIOUS
    <3> QED
      BY <1>3, <1>8, <3>2, <3>3, OneWay
  <2>3. \A r \in d.main : r \in Pasts(d, v) => Key(r.op) \notin L /\ Key(r.op) # Key(o)
    <3> SUFFICES ASSUME NEW r \in d.main, r.op.store = o.store, ~ Less(Stamp(v), Stamp(r.op))
                 PROVE  Key(r.op) \notin L /\ Key(r.op) # Key(o)
      BY <1>13 DEF Pasts
    <3>1. Less(Stamp(r.op), Stamp(o))
      BY <1>3, <1>4, <1>8, <2>1, StampOrder
    <3> QED
      BY <1>3, <1>8, <1>9, <3>1, KeyFacts, OneWay
  <2>4. /\ Key(With(o, parts)) = Key(o) /\ Stamp(With(o, parts)) = Stamp(o)
    <3>1. parts # <<>> /\ parts \in Seq(Made)
      BY <1>3, SplitFacts DEF parts
    <3> QED
      BY <1>3, <3>1, WithFacts
  <2> HIDE DEF L, Q, e
  <2>5. Pasts(e, v) = Pasts(d, v)
    <3> DEFINE r0 == [op |-> With(o, parts), bal |-> OnHand(rest, o, NoBatch)]
    <3>1. e.main = {r \in d.main : Key(r.op) \notin L /\ Key(r.op) # Key(o)} \cup {r0}
      BY <1>6 DEF Distributes, L
    <3>2. r0.op = With(o, parts)
      OBVIOUS
    <3> HIDE DEF r0
    <3>3. r0 \notin Pasts(e, v)
      BY <2>1, <2>4, <3>2 DEF Pasts
    <3> QED
      BY <2>3, <3>1, <3>3 DEF Pasts
  <2> QED
    BY <2>2, <2>5 DEF e, V
<1>14. CASE v.store # o.store
  <2>1. ASSUME Waiting(d, U, v) PROVE Waiting(e, V, v)
    <3>1. PICK w \in d.front : /\ w.store = v.store /\ w.batch = NoBatch
                               /\ ~ Less(Stamp(v), Stamp(w)) /\ Unseen(U, w)
      BY <2>1 DEF Waiting
    <3>2. w \in Ops /\ Rooted(w, R) /\ w # o /\ w.store # o.store
      BY <1>8, <1>14, <3>1
    <3>3. Key(w) \notin L
      <4> SUFFICES ASSUME Key(w) \in L PROVE FALSE
        OBVIOUS
      <4>1. w.date = o.date /\ w.kind = "receive"
        BY <1>9, <3>2
      <4>2. Less(Key(w), Key(o))
        BY <1>3, <3>2, <4>1, OrderFacts, KeyLess
      <4>3. Less(Key(o), Key(w))
        BY <3>2
      <4> QED
        BY <1>3, <3>2, <4>2, <4>3, OneWay
    <3>4. \A q \in Q : Key(w) # Key(q)
      BY <1>10, <3>2, KeyFacts
    <3> HIDE DEF e, L, Q
    <3>5. w \in e.front
      BY <1>6, <3>1, <3>2, <3>3, <3>4 DEF Distributes, L, Q
    <3>6. Unseen(V, w)
      BY <1>3, <3>1, <3>2, KeyFacts DEF Unseen, V
    <3> QED
      BY <3>1, <3>5, <3>6 DEF Waiting
  <2>2. CASE Waiting(d, U, v)
    BY <2>1, <2>2 DEF V
  <2>3. CASE ~ Waiting(d, U, v)
    <3>1. Chained(d, v)
      BY <2>3 DEF Ready
    <3>2. NoCounts(d) /\ Careful
      BY <1>1, PlacedPlain DEF Orderly
    <3>3. Pasts(rest, v) = Pasts(d, v)
      BY DEF Pasts
    <3>4. Chained(rest, v)
      BY <1>1, <1>4, <3>1, <3>2, <3>3, SamePast
    <3>5. v \in OpsOf(rest)
      BY DEF OpsOf
    <3>6. Pasts(e, v) = Pasts(rest, v) \/ Waiting(e, V, v)
      BY <1>3, <1>7, <1>14, <3>4, <3>5, DistributedBeside
    <3> QED
      BY <2>3, <3>3, <3>6 DEF V
  <2> QED
    BY <2>2, <2>3
<1> QED
  BY <1>12, <1>13, <1>14

LEMMA DistributedReady ==
  ASSUME Orderly, NEW R, Meant(R), NEW d, NEW U, OnTheWay(d, U, R), Flowing(d, U), AllReady(d, U),
         NEW o \in d.front, \A q \in d.front : o = q \/ Less(Key(o), Key(q)),
         o \notin U, Virtual(o), o.kind = "issue",
         NEW rest, Sound(rest), rest.main = d.main, rest.index = d.index, rest.front = d.front \ {o},
         NEW s \in Queues(rest, o), Sound(Distributed(rest, o, s)),
         Placed(Distributed(rest, o, s), U \cup {o}, R)
  PROVE  AllReady(Distributed(rest, o, s), U \cup {o})
<1> DEFINE parts == Split(rest, o, s)
           e == Distributed(rest, o, s)
           V == U \cup {o}
<1>1. Sound(d) /\ U \subseteq Sane /\ Placed(d, U, R) /\ Ordered(d.front, U)
  BY DEF OnTheWay
<1>2. o \in Sane /\ o \in Ops /\ Rooted(o, R) /\ o.qty > 0
  <2>1. o \in Sane /\ o \in Ops /\ Rooted(o, R)
    BY <1>1, OnTheWayOps DEF AllOps
  <2> QED
    BY <2>1 DEF Sane
<1>3. NoCounts(d) /\ NoCounts(rest) /\ NoCounts(e) /\ Careful
  <2>1. Placed(rest, U, R)
    BY <1>1 DEF Placed
  <2> QED
    BY <1>1, <2>1, PlacedPlain DEF Orderly
<1>4. Distributes(rest, e, o, parts)
  BY <1>2, DistributedIs
<1>5. \A x \in rest.main : Rooted(x.op, R) /\ x.op.qty > 0
  BY <1>1 DEF Placed, Flowing, AllFull, AllOps, OpsOf
<1>6. Chained(rest, o)
  <2>1. Chained(d, o)
    BY HeadIsChained
  <2>2. Pasts(rest, o) = Pasts(d, o)
    BY DEF Pasts
  <2> QED
    BY <1>1, <1>2, <1>3, <2>1, <2>2, SamePast
<1>7. Sound(e) /\ Placed(e, V, R)
  OBVIOUS
<1>8. /\ parts \in Seq(PartsOf(o)) /\ parts \in Seq(Made) /\ parts # <<>>
  BY <1>2, SplitFacts
<1> SUFFICES ASSUME NEW v \in OpsOf(e), Virtual(v) PROVE Ready(e, V, v)
  BY DEF AllReady
<1>9. v = With(o, parts) \/ (v \in OpsOf(d) /\ Key(v) # Key(o))
  <2>1. PICK r \in e.main : r.op = v
    BY DEF OpsOf
  <2> HIDE DEF e, parts
  <2> QED
    BY <1>4, <2>1 DEF Distributes, OpsOf
<1>10. CASE v = With(o, parts)
  BY <1>3, <1>4, <1>6, <1>7, <1>10, OwnReady
<1>11. CASE v \in OpsOf(d) /\ Key(v) # Key(o)
  <2>1. v \in Sane /\ v \in Ops /\ Rooted(v, R) /\ v.kind = "issue" /\ v.qty > 0 /\ ~ v.dep
    BY <1>1, <1>11, FullFacts
  <2>2. Ready(d, U, v)
    BY <1>11 DEF AllReady
  <2>3. /\ Waiting(d, U, v) => Waiting(e, V, v)
        /\ Waiting(e, V, v) \/ Pasts(e, v) = Pasts(d, v)
    BY <1>3, <1>4, <1>5, <1>7, <1>11, <2>2, OthersReady
  <2>4. \/ Waiting(e, V, v)
        \/ /\ \A b \in Batches : OnHand(e, v, b) = OnHand(d, v, b)
           /\ Chained(d, v) => Chained(e, v)
    BY <1>1, <1>3, <1>7, <2>1, <2>3, SamePast
  <2>5. v.id # o.id
    BY <1>2, <1>11, <2>1, SameIssue DEF Virtual
  <2>6. \A a \in Ops : a.dep /\ a.kind = "issue" /\ a.id = v.id /\ Heard(d, U, a) => Heard(e, V, a)
    BY <1>1, <1>4, <1>8, <2>5, DistributedHears
  <2> HIDE DEF e, V, parts
  <2> QED
    BY <1>1, <2>1, <2>2, <2>3, <2>4, <2>6, ReadyOn
<1> QED
  BY <1>9, <1>10, <1>11

(* An operation that a document stood for is deleted.                      *)
LEMMA DeletedReady ==
  ASSUME Orderly, NEW R, Meant(R), NEW d, Sound(d), Placed(d, {}, R), d.front = {},
         \A x \in OpsOf(d) : x.qty > 0, AllReady(d, {}),
         NEW o \in Sane, Rooted(o, R), ~ Virtual(o), ~ o.dep
  PROVE  AllReady(Delete(d, o), {})
<1> DEFINE f == TakeOut(d, o)
           y == Arrival(o)
           g == TakeOut(f, y)
           e == Delete(d, o)
<1>1. e = IF IsTransfer(o) THEN g ELSE f
  BY DEF Delete
<1>2. /\ Sound(f) /\ f.main = {r \in d.main : Key(r.op) # Key(o)} /\ f.index \subseteq d.index
  BY TakeOutLess
<1>3. NoCounts(d) /\ Careful
  BY PlacedPlain DEF Orderly
<1>4. NoCounts(f)
  BY <1>2, <1>3 DEF NoCounts
<1>5. \A o1, V1 : V1 = {} => SoonerIsUnseen(o1, V1, R)
  BY DEF SoonerIsUnseen, Unseen
<1>6. \A r \in d.main : Rooted(r.op, R) /\ r.op.qty > 0
  BY DEF Placed, OpsOf
<1>7. \A r \in f.main : Rooted(r.op, R) /\ r.op.qty > 0
  BY <1>2, <1>6
<1>8. o \in Ops /\ Plain(o)
  BY SaneFacts, RootedFacts
<1>9. \E M : Reduced(d, e, GoneWith(o), M)
  BY DeleteReduces
<1> HIDE DEF f
<1>10. IsTransfer(o) => /\ y \in Sane /\ y \in Ops /\ ~ Virtual(y) /\ y.batch = o.batch
                        /\ o.batch # NoBatch /\ Rooted(y, R)
  <2> SUFFICES ASSUME IsTransfer(o) PROVE /\ y \in Sane /\ y \in Ops /\ ~ Virtual(y) /\ y.batch = o.batch
                        /\ o.batch # NoBatch /\ Rooted(y, R)
    OBVIOUS
  <2>1. /\ y \in Sane /\ y \in Ops /\ ~ Virtual(y) /\ y.batch = o.batch
    BY ArrivalFields
  <2>2. o.batch # NoBatch
    BY SendsFacts DEF Virtual, Moving
  <2>3. Rooted(y, R)
    <3>1. Alike(o, o)
      BY DEF Alike
    <3> QED
      BY <3>1, ArrivalNew
  <2> QED
    BY <2>1, <2>2, <2>3
<1>11. IsTransfer(o) => Sound(g) /\ g.index \subseteq f.index
                        /\ g.main = {r \in f.main : Key(r.op) # Key(y)}
                        /\ \A p \in f.front : Key(p) = Key(y) \/ p \in g.front
  BY <1>2, <1>10, TakeOutLess
<1> HIDE DEF e, g, y
<1>12. Sound(e) /\ NoCounts(e)
  BY <1>1, <1>2, <1>4, <1>11 DEF NoCounts
<1> SUFFICES ASSUME NEW v \in OpsOf(e), Virtual(v) PROVE Ready(e, {}, v)
  BY DEF AllReady, e
<1>13. v \in OpsOf(d)
  BY <1>9 DEF Reduced, OpsOf
<1>14. v \in Sane /\ v \in Ops /\ Rooted(v, R) /\ v.kind = "issue" /\ v.qty > 0
  BY <1>13, FullFacts
<1>15. ~ Waiting(d, {}, v)
  BY DEF Waiting
<1>16. Ready(d, {}, v) /\ Chained(d, v)
  BY <1>13, <1>15 DEF AllReady, Ready
<1>17. v \in OpsOf(f) /\ (Pasts(f, v) = Pasts(d, v) \/ Marked(f, {}, Stamp(o), v))
  BY <1>5, <1>6, <1>13, <1>16, TakeOutWaits DEF f
<1>18. Pasts(e, v) = Pasts(d, v) \/ Waiting(e, {}, v)
  <2>1. CASE ~ IsTransfer(o)
    BY <1>1, <1>17, <2>1 DEF Marked, Waiting
  <2>2. CASE IsTransfer(o) /\ Marked(f, {}, Stamp(o), v)
    <3>1. PICK w \in f.front : w.store = v.store /\ w.batch = NoBatch /\ ~ Less(Stamp(v), Stamp(w))
                               /\ Unseen({}, w)
      BY <2>2 DEF Marked
    <3>2. w \in Ops
      BY <1>2, DatabaseFacts DEF Sound
    <3>3. Key(w) # Key(y)
      BY <1>10, <2>2, <3>1, <3>2, KeyFacts
    <3>4. w \in g.front
      BY <1>11, <2>2, <3>3
    <3> QED
      BY <1>1, <2>2, <3>1, <3>4 DEF Waiting
  <2>3. CASE IsTransfer(o) /\ Pasts(f, v) = Pasts(d, v)
    <3>1. Chained(f, v)
      BY <1>2, <1>3, <1>4, <1>14, <1>16, <2>3, SamePast
    <3>2. Pasts(g, v) = Pasts(f, v) \/ Marked(g, {}, Stamp(y), v)
      BY <1>2, <1>5, <1>7, <1>10, <1>17, <2>3, <3>1, TakeOutWaits DEF g
    <3> QED
      BY <1>1, <2>3, <3>2 DEF Marked, Waiting
  <2> QED
    BY <1>17, <2>1, <2>2, <2>3
<1>19. \/ Waiting(e, {}, v)
       \/ /\ \A b \in Batches : OnHand(e, v, b) = OnHand(d, v, b)
          /\ Chained(d, v) => Chained(e, v)
  BY <1>3, <1>12, <1>14, <1>18, SamePast
<1>20. v.id # o.id
  <2>1. PICK e1 \in R : Belongs(v, e1)
    BY <1>14 DEF Rooted
  <2>2. PICK e2 \in R : Belongs(o, e2)
    BY DEF Rooted
  <2>3. e1.kind = "issue" /\ v.id = e1.id /\ Virtual(e1)
    BY <1>14, <2>1, BelongsFacts DEF Virtual, Belongs
  <2>4. o.id = e2.id /\ o.batch = e2.batch /\ o.kind = e2.kind
    <3>1. IsOwn(o, e2)
      BY <2>2 DEF Belongs, IsPart, IsArrival
    <3> QED
      BY <2>2, <3>1 DEF Belongs, IsOwn
  <2> QED
    BY <2>3, <2>4 DEF Meant, Virtual
<1>21. \A a \in Ops : a.dep /\ a.kind = "issue" /\ a.id = v.id /\ Heard(d, {}, a) => Heard(e, {}, a)
  BY <1>9, <1>20, DeletedHears
<1> QED
  BY <1>14, <1>15, <1>16, <1>19, <1>21, ReadyOn

LEMMA TurnReady ==
  ASSUME Orderly, NEW R, Meant(R), NEW d, NEW U, OnTheWay(d, U, R), Flowing(d, U), AllReady(d, U),
         NEW o \in d.front, \A q \in d.front : o = q \/ Less(Key(o), Key(q)),
         NEW rest, Sound(rest), rest.main = d.main, rest.index = d.index,
         rest.front = d.front \ {o}
  PROVE  /\ o \in U => OnTheWay(rest, U, R) /\ AllReady(rest, U)
         /\ o \notin U /\ ~ Virtual(o) =>
              OnTheWay(Calculated(rest, o), U \cup {o}, R) /\ AllReady(Calculated(rest, o), U \cup {o})
         /\ o \notin U /\ Virtual(o) =>
              \A s \in Queues(rest, o) : /\ OnTheWay(Distributed(rest, o, s), U \cup {o}, R)
                                         /\ AllReady(Distributed(rest, o, s), U \cup {o})
<1>1. Sound(d) /\ U \subseteq Sane /\ Placed(d, U, R)
  BY DEF OnTheWay
<1>2. /\ o \in U => OnTheWay(rest, U, R)
      /\ o \notin U /\ ~ Virtual(o) => OnTheWay(Calculated(rest, o), U \cup {o}, R)
      /\ o \notin U /\ Virtual(o) =>
           \A s \in Queues(rest, o) : OnTheWay(Distributed(rest, o, s), U \cup {o}, R)
  BY TurnStep
<1>3. o \in Sane /\ o \in Ops /\ Plain(o) /\ o.qty > 0
  <2>1. o \in AllOps(d)
    BY DEF AllOps
  <2> QED
    BY <1>1, <2>1, OnTheWayOps DEF Flowing, AllFull
<1>4. ASSUME o \in U PROVE AllReady(rest, U)
  <2>1. Placed(rest, U, R)
    BY <1>2, <1>4 DEF OnTheWay
  <2> QED
    BY <1>1, <1>4, <2>1, SkippedReady
<1>5. ASSUME o \notin U, ~ Virtual(o) PROVE AllReady(Calculated(rest, o), U \cup {o})
  <2>1. Sound(Calculated(rest, o)) /\ Placed(Calculated(rest, o), U \cup {o}, R)
    BY <1>2, <1>5 DEF OnTheWay
  <2> QED
    BY <1>3, <1>5, <2>1, CalculatedReady
<1>6. ASSUME o \notin U, Virtual(o), NEW s \in Queues(rest, o)
      PROVE  AllReady(Distributed(rest, o, s), U \cup {o})
  <2>1. Sound(Distributed(rest, o, s)) /\ Placed(Distributed(rest, o, s), U \cup {o}, R)
    BY <1>2, <1>6 DEF OnTheWay
  <2>2. o.kind = "issue"
    BY <1>3, <1>6 DEF Plain, Virtual
  <2> QED
    BY <1>6, <2>1, <2>2, DistributedReady
<1> QED
  BY <1>2, <1>4, <1>5, <1>6

(* The inductive invariant of splits.                                      *)
FifoOK == FlowOK /\ AllReady(db, uniq)

LEMMA TurnKeepsFifo ==
  ASSUME Orderly, FifoOK, Turn
  PROVE  FifoOK'
<1> DEFINE o == Foremost
           F == db.front \ {o}
           rest == [db EXCEPT !.front = F]
           U == uniq \cup {o}
           Good(e, V) == OnTheWay(e, V, Roots) /\ AllReady(e, V)
<1>1. FlowOK' /\ db.front # {} /\ OnTheWay(db, uniq, Roots) /\ LedgerOK /\ Flowing(db, uniq)
      /\ AllReady(db, uniq)
  BY TurnKeepsFlow DEF FifoOK, FlowOK, BalancesOK, Turn
<1>2. Meant(Roots) /\ Sound(db) /\ Placed(db, uniq, Roots)
  BY <1>1, RootsMeant DEF OnTheWay
<1>3. o \in db.front /\ \A q \in db.front : o = q \/ Less(Key(o), Key(q))
  BY <1>1, <1>2, FirstIsLeast DEF Foremost
<1>4. \/ o \in uniq /\ Leave(rest, uniq)
      \/ /\ o \notin uniq
         /\ Virtual(o)
         /\ \E s \in Queues(rest, o) :
              Leave(IF o.kind = "issue" THEN Distributed(rest, o, s) ELSE Counted(rest, o, s), U)
      \/ o \notin uniq /\ ~ Virtual(o) /\ Leave(Calculated(rest, o), U)
  BY DEF Turn
<1> HIDE DEF o
<1>5. Sound(rest) /\ rest.front = db.front \ {o} /\ rest.main = db.main /\ rest.index = db.index
  <2>1. F \in SUBSET Sane /\ IsFiniteSet(F) /\ KeysApart(F)
    BY <1>2, DatabaseFacts, FS_Subset DEF Sound, IsFinite, IsKeyed, KeysApart
  <2> HIDE DEF F
  <2>2. Sound(rest) /\ rest.front = F /\ rest.main = db.main /\ rest.index = db.index
    BY <1>2, <2>1, FrontSound
  <2> QED
    BY <2>2 DEF F
<1> HIDE DEF rest
<1>6. /\ o \in uniq => Good(rest, uniq)
      /\ o \notin uniq /\ ~ Virtual(o) => Good(Calculated(rest, o), U)
      /\ o \notin uniq /\ Virtual(o) => \A s \in Queues(rest, o) : Good(Distributed(rest, o, s), U)
  BY <1>1, <1>2, <1>3, <1>5, TurnReady
<1>7. Virtual(o) => o.kind = "issue"
  <2>1. Plain(o)
    BY <1>2, <1>3, DatabaseFacts, RootedFacts DEF Sound, Placed
  <2> QED
    BY <2>1 DEF Plain, Virtual
<1> HIDE DEF U, Good
<1>8. \E e, V : Good(e, V) /\ Leave(e, V)
  BY <1>4, <1>6, <1>7
<1>9. PICK e, V : Good(e, V) /\ db' = e /\ uniq' = IF e.front = {} THEN {} ELSE V
  BY <1>8 DEF Leave
<1>10. Sound(e) /\ V \subseteq Sane /\ Placed(e, V, Roots) /\ AllReady(e, V)
  BY <1>9 DEF Good, OnTheWay
<1>11. AllReady(db', uniq')
  <2>1. CASE e.front = {}
    BY <1>2, <1>9, <1>10, <2>1, ForgottenReady
  <2>2. CASE e.front # {}
    BY <1>9, <1>10, <2>2
  <2> QED
    BY <2>1, <2>2
<1> QED
  BY <1>1, <1>11 DEF FifoOK

LEMMA PutKeepsFifo ==
  ASSUME Orderly, FifoOK, FlowOK', NEW o \in Entries, queue = <<Put(o)>>, Record
  PROVE  FifoOK'
<1> DEFINE known == {r.op.parts : r \in Stored(db, o)}
           parts == IF known = {} THEN <<>> ELSE CHOOSE x \in known : TRUE
           p == [o EXCEPT !.parts = parts]
<1>1. /\ Head(queue) = Put(o) /\ Put(o).op = o /\ Put(o).what = "put" /\ "put" # "del"
      /\ Tail(queue) = <<>>
  BY DEF Put
<1>2. /\ db.front = {} /\ db' = Push(db, p) /\ queue' = <<>>
      /\ docs' = docs /\ uniq' = uniq
  BY <1>1 DEF Record
<1>3. /\ uniq = {} /\ LedgerOK /\ OnTheWay(db, {}, Roots) /\ Sound(db) /\ AllReady(db, {})
      /\ Placed(db, {}, Roots)
  BY <1>2 DEF FifoOK, FlowOK, BalancesOK, OnTheWay
<1>4. o \in Ops /\ o.dep = FALSE
  BY OpFacts, SaneFacts, LedgerAssumption DEF DocumentOps
<1> HIDE DEF parts
<1>5. p.dep = o.dep
  BY <1>4 DEF Ops
<1> HIDE DEF p
<1>6. db'.main = db.main /\ db'.front = {p}
  <2>1. db \in Databases
    BY <1>3 DEF Sound
  <2> QED
    BY <1>2, <2>1 DEF Push, Databases
<1>7. Roots' = Roots
  <2>1. \A i : Means(i) = docs[i] /\ Means(i)' = docs[i]
    BY <1>1, <1>2 DEF Means
  <2> QED
    BY <2>1 DEF Roots
<1>8. Sound(db') /\ Placed(db', {}, Roots)
  BY <1>2, <1>3, <1>7 DEF FlowOK, BalancesOK, OnTheWay
<1>9. p \in Ops
  BY <1>6, <1>8, DatabaseFacts DEF Sound
<1>10. Meant(Roots)
  BY <1>3, RootsMeant
<1>11. AllReady(db', {})
  BY <1>2, <1>3, <1>4, <1>5, <1>6, <1>8, <1>9, <1>10, PutReady
<1> QED
  BY <1>2, <1>3, <1>11 DEF FifoOK

LEMMA DelKeepsFifo ==
  ASSUME Orderly, FifoOK, FlowOK', NEW old \in Removable, Record, Head(queue) = Del(old), queue # <<>>
  PROVE  FifoOK'
<1>1. Del(old).op = old /\ Del(old).what = "del"
  BY DEF Del
<1>2. db.front = {} /\ db' = Delete(db, old) /\ uniq' = uniq
  BY <1>1 DEF Record
<1>3. uniq = {} /\ LedgerOK /\ OnTheWay(db, {}, Roots) /\ Flowing(db, {}) /\ AllReady(db, {})
  BY <1>2 DEF FifoOK, FlowOK, BalancesOK
<1>4. Meant(Roots) /\ Sound(db) /\ Placed(db, {}, Roots)
  BY <1>3, RootsMeant DEF OnTheWay
<1>5. old \in Entries /\ old \in Sane /\ ~ Virtual(old) /\ ~ old.dep
  <2>1. old \in Entries /\ old \in Sane /\ old.kind \in Kinds /\ old.dep = FALSE
    BY OpFacts, LedgerAssumption DEF DocumentOps
  <2>2. old.kind # "inventory" /\ Careful
    BY <2>1 DEF Orderly
  <2> QED
    BY <2>1, <2>2, LedgerAssumption DEF Careful, Virtual, Kinds
<1>6. Rooted(old, Roots)
  <2>1. old \in Roots
    BY <1>1, <1>5 DEF Roots, Means
  <2>2. IsOwn(old, old)
    <3>1. old.parts = <<>>
      BY <1>5, LedgerAssumption DEF DocumentOps
    <3>2. \A i : i \notin DOMAIN <<>>
      OBVIOUS
    <3> QED
      BY <1>5, <3>1, <3>2 DEF IsOwn
  <2> QED
    BY <2>1, <2>2 DEF Rooted, Belongs
<1>7. \A x \in OpsOf(db) : x.qty > 0
  BY <1>3 DEF Flowing, AllFull, AllOps
<1>8. AllReady(db', {})
  BY <1>2, <1>3, <1>4, <1>5, <1>6, <1>7, DeletedReady
<1> QED
  BY <1>2, <1>3, <1>8 DEF FifoOK

LEMMA RecordKeepsFifo ==
  ASSUME Orderly, FifoOK, Record
  PROVE  FifoOK'
<1>1. FlowOK' /\ QueueFits /\ queue # <<>>
  BY RecordKeepsFlow DEF FifoOK, FlowOK, BalancesOK, Record
<1>2. \A a, b : Head(<<a>>) = a /\ Head(<<a, b>>) = a
  OBVIOUS
<1>3. \/ \E o \in Entries : queue = <<Put(o)>>
      \/ \E old \in Removable : Head(queue) = Del(old)
  BY <1>1, <1>2 DEF QueueFits
<1> QED
  BY <1>1, <1>3, PutKeepsFifo, DelKeepsFifo

LEMMA FifoStays == Orderly => (Spec => []FifoOK)
<1> SUFFICES ASSUME Orderly PROVE Spec => []FifoOK
  OBVIOUS
<1>1. Init /\ FlowOK => FifoOK
  BY DEF Init, Empty, FifoOK, AllReady, OpsOf
<1>2. FifoOK /\ FlowOK' /\ [Next]_vars => FifoOK'
  <2> SUFFICES ASSUME FifoOK, FlowOK', [Next]_vars PROVE FifoOK'
    OBVIOUS
  <2>1. UNCHANGED <<db, uniq>> => FifoOK'
    BY DEF FifoOK
  <2>2. (\E o \in Entries : Enter(o)) => UNCHANGED <<db, uniq>>
    BY DEF Enter, Edit
  <2>3. (\E old, o \in Entries : old.id = o.id /\ Change(old, o)) => UNCHANGED <<db, uniq>>
    BY DEF Change, Edit
  <2>4. (\E old \in Entries : Withdraw(old)) => UNCHANGED <<db, uniq>>
    BY DEF Withdraw, Edit
  <2>5. (\E old, o \in Entries : old.id = o.id /\ Refile(old, o)) => UNCHANGED <<db, uniq>>
    BY DEF Refile, Edit
  <2>6. CASE Record
    BY <2>6, RecordKeepsFifo
  <2>7. CASE Turn
    BY <2>7, TurnKeepsFifo
  <2>8. UNCHANGED vars => UNCHANGED <<db, uniq>>
    BY DEF vars
  <2> QED
    BY <2>1, <2>2, <2>3, <2>4, <2>5, <2>6, <2>7, <2>8 DEF Next
<1>3. Spec => []FlowOK
  BY FlowsOn
<1> QED
  BY <1>1, <1>2, <1>3, PTL DEF Spec

(* Once an edit is recorded, every issue that names no batch is split as   *)
(* first in, first out demands of the stock before it, backdated changes   *)
(* included, and its parts are stored with their quantities.  So it is as  *)
(* long as documents are orderly.                                          *)
THEOREM SplitsStayFifo == Orderly => (Spec => []SplitsAreFifo)
<1> SUFFICES ASSUME Orderly PROVE Spec => []SplitsAreFifo
  OBVIOUS
<1>1. FifoOK => SplitsAreFifo
  <2> SUFFICES ASSUME FifoOK, Idle, NEW r \in db.main, Virtual(r.op), r.op.kind = "issue"
               PROVE  \E s \in Queues(db, r.op) :
                        LET parts == Split(db, r.op, s)
                        IN  /\ r.op.parts = Dependants(parts)
                            /\ \A i \in DOMAIN parts :
                                 \E p \in Stored(db, parts[i]) : p.op.qty = parts[i].qty
    BY DEF SplitsAreFifo
  <2> DEFINE v == r.op
  <2>1. db.front = {} /\ Sound(db) /\ v \in OpsOf(db) /\ AllReady(db, uniq)
    BY DEF Idle, FifoOK, FlowOK, BalancesOK, OnTheWay, OpsOf
  <2>2. v \in Sane /\ v.qty > 0
    <3>1. v \in Sane
      BY <2>1, DatabaseFacts DEF Sound
    <3>2. v.qty > 0
      BY <2>1 DEF FifoOK, FlowOK, Flowing, AllFull, AllOps
    <3> QED
      BY <3>1, <3>2
  <2>3. Suits(db, uniq, v)
    BY <2>1 DEF AllReady, Ready, Waiting
  <2>4. PICK s \in Queues(db, v) : /\ v.parts = Dependants(Split(db, v, s))
                                   /\ \A i \in DOMAIN Split(db, v, s) :
                                        Heard(db, uniq, Split(db, v, s)[i])
    BY <2>3 DEF Suits, Splits
  <2>5. Split(db, v, s) \in Seq(PartsOf(v))
    BY <2>1, <2>2, SplitFacts
  <2>6. ASSUME NEW i \in DOMAIN Split(db, v, s)
        PROVE  \E p \in Stored(db, Split(db, v, s)[i]) : p.op.qty = Split(db, v, s)[i].qty
    <3> DEFINE a == Split(db, v, s)[i]
    <3>1. a \in PartsOf(v) /\ Heard(db, uniq, a)
      BY <2>4, <2>5
    <3> HIDE DEF a
    <3>2. a \in Sane
      BY <2>2, <3>1, PartsFields
    <3>3. PICK q \in db.main : Key(q.op) = Key(a) /\ q.op.qty = a.qty
      BY <2>1, <3>1 DEF Heard, OnFront, OpsOf
    <3>4. q \in Stored(db, a)
      BY <2>1, <3>2, <3>3, StoredFacts
    <3> QED
      BY <3>3, <3>4 DEF a
  <2> QED
    BY <2>4, <2>6
<1>2. Spec => []FifoOK
  BY FifoStays
<1> QED
  BY <1>1, <1>2, PTL
=============================================================================
