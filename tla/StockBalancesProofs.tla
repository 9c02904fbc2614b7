------------------------- MODULE StockBalancesProofs -------------------------
(***************************************************************************)
(* Theorems about the stock ledger between edits: what a recording leaves  *)
(* behind when its front is empty again.                                   *)
(***************************************************************************)
EXTENDS StockLedgerProofs

(***************************************************************************)
(* The order of operations.                                                *)
(***************************************************************************)

LEMMA OneWay ==
  ASSUME NEW o \in Ops, NEW p \in Ops
  PROVE  /\ Less(Stamp(o), Stamp(p)) => ~ Less(Stamp(p), Stamp(o)) /\ Stamp(o) # Stamp(p)
         /\ Less(Key(o), Key(p)) => ~ Less(Key(p), Key(o)) /\ Key(o) # Key(p)
<1>1. /\ o.date \in Nat /\ o.id \in Nat /\ o.store \in Nat
      /\ o.batch.date \in Nat /\ o.batch.id \in Nat /\ Order(o) \in Nat /\ Flag(o) \in Nat
      /\ p.date \in Nat /\ p.id \in Nat /\ p.store \in Nat
      /\ p.batch.date \in Nat /\ p.batch.id \in Nat /\ Order(p) \in Nat /\ Flag(p) \in Nat
  BY Numbers
<1>2. Less(Stamp(o), Stamp(p)) => ~ Less(Stamp(p), Stamp(o)) /\ Stamp(o) # Stamp(p)
  <2> SUFFICES ASSUME Less(Stamp(o), Stamp(p))
               PROVE  ~ Less(Stamp(p), Stamp(o)) /\ Stamp(o) # Stamp(p)
    OBVIOUS
  <2>1. Stamp(o) = Stamp(p) => /\ o.date = p.date /\ Order(o) = Order(p)
                               /\ o.id = p.id /\ Flag(o) = Flag(p)
    BY DEF Stamp
  <2> QED
    BY <1>1, <2>1, StampLess
<1>3. Less(Key(o), Key(p)) => ~ Less(Key(p), Key(o)) /\ Key(o) # Key(p)
  <2> SUFFICES ASSUME Less(Key(o), Key(p))
               PROVE  ~ Less(Key(p), Key(o)) /\ Key(o) # Key(p)
    OBVIOUS
  <2>1. Key(o) = Key(p) => /\ o.date = p.date /\ Order(o) = Order(p) /\ o.store = p.store
                           /\ o.batch.date = p.batch.date /\ o.batch.id = p.batch.id
                           /\ o.id = p.id /\ Flag(o) = Flag(p)
    BY DEF Key
  <2>2. Key(o) # Key(p)
    BY <1>1, <2>1, KeyLess
  <2>3. ~ Less(Key(p), Key(o))
    BY <1>1, KeyLess
  <2> QED
    BY <2>2, <2>3
<1> QED
  BY <1>2, <1>3

(* What comes before all others is the earliest, and after all the latest. *)
LEMMA EndsOfChain ==
  ASSUME NEW d, Sound(d), NEW o, NEW S, S \subseteq Chain(d, o), NEW m \in S
  PROVE  /\ (\A s \in S : s = m \/ Less(Stamp(s.op), Stamp(m.op))) => Latest(S) = m
         /\ (\A s \in S : s = m \/ Less(Stamp(m.op), Stamp(s.op))) => Earliest(S) = m
<1>1. \A r \in S : r.op \in Ops
  BY DatabaseFacts DEF Sound, Chain
<1>2. /\ Earliest(S) \in S
      /\ \A s \in S : s = Earliest(S) \/ Less(Stamp(Earliest(S).op), Stamp(s.op))
      /\ Latest(S) \in S
      /\ \A s \in S : s = Latest(S) \/ Less(Stamp(s.op), Stamp(Latest(S).op))
  BY ChainFacts
<1> QED
  BY <1>1, <1>2, OneWay

-----------------------------------------------------------------------------
(***************************************************************************)
(* Current records, and what an exchange of one operation does to others.  *)
(***************************************************************************)

(* A record has the balance before it, changed by its operation at cost.   *)
Current(d, r) ==
  LET before == BalanceBefore(d, r.op)
  IN  IF Virtual(r.op) THEN r.bal = before ELSE r = Evaluated(before, r.op)

(* The balance that whatever follows o starts from. *)
After(d, o) ==
  IF Stored(d, o) = {} THEN BalanceBefore(d, o) ELSE StoredBalance(d, o)

(* d and e differ in what they hold for o, at most. *)
Apart(d, e, o) ==
  \A r : (\A s \in Stored(d, o) \cup Stored(e, o) : r # s) => (r \in d.main <=> r \in e.main)

LEMMA ApartFacts ==
  ASSUME NEW d, Sound(d), NEW e, Sound(e), NEW o \in Sane, Apart(d, e, o)
  PROVE  /\ \A r \in d.main : Key(r.op) # Key(o) => r \in e.main
         /\ \A r \in e.main : Key(r.op) # Key(o) => r \in d.main
  BY StoredFacts DEF Apart

(* Nobody but what follows o at once sees it; that starts from it.         *)
LEMMA OthersSame ==
  ASSUME NEW d, Sound(d), NEW e, Sound(e), NEW o \in Sane, Apart(d, e, o),
         NEW p \in Sane,
         \/ ~ (p.store = o.store /\ p.batch = o.batch)
         \/ ~ Less(Stamp(o), Stamp(p))
         \/ \E y \in Later(d, o) : Less(Stamp(y.op), Stamp(p))
  PROVE  BalanceBefore(e, p) = BalanceBefore(d, p)
<1>1. /\ \A r \in d.main : r.op \in Ops
      /\ \A r \in e.main : r.op \in Ops
      /\ o \in Ops /\ p \in Ops
  BY SaneFacts, DatabaseFacts DEF Sound
<1>2. /\ \A r \in d.main : Key(r.op) # Key(o) => r \in e.main
      /\ \A r \in e.main : Key(r.op) # Key(o) => r \in d.main
  BY ApartFacts
<1>3. CASE ~ (p.store = o.store /\ p.batch = o.batch) \/ ~ Less(Stamp(o), Stamp(p))
  <2>1. ASSUME NEW r, Less(Stamp(r.op), Stamp(p)), r.op.store = p.store, r.op.batch = p.batch,
               r.op \in Ops
        PROVE  Key(r.op) # Key(o)
    BY <1>1, <1>3, <2>1, KeyFacts
  <2>2. Earlier(e, p) = Earlier(d, p)
    BY <1>1, <1>2, <2>1 DEF Earlier, Chain
  <2> QED
    BY <2>2 DEF BalanceBefore
<1>4. CASE /\ p.store = o.store /\ p.batch = o.batch /\ Less(Stamp(o), Stamp(p))
           /\ \E y \in Later(d, o) : Less(Stamp(y.op), Stamp(p))
  <2>1. PICK y \in Later(d, o) : Less(Stamp(y.op), Stamp(p))
    BY <1>4
  <2>2. y \in d.main /\ y \in Chain(d, o) /\ Less(Stamp(o), Stamp(y.op)) /\ y \in Earlier(d, p)
    BY <1>4, <2>1 DEF Later, Chain, Earlier
  <2> DEFINE S == Earlier(d, p)
             T == Earlier(e, p)
             m == Latest(S)
  <2>3. S \subseteq Chain(d, p) /\ T \subseteq Chain(e, p) /\ S # {}
    BY <2>2 DEF Earlier
  <2>4. m \in S /\ \A s \in S : s = m \/ Less(Stamp(s.op), Stamp(m.op))
    BY <2>3, ChainFacts
  <2> HIDE DEF m
  <2>5. Less(Stamp(o), Stamp(m.op))
    <3>1. m \in d.main /\ (m = y \/ Less(Stamp(y.op), Stamp(m.op)))
      BY <2>2, <2>4 DEF Earlier, Chain
    <3> QED
      BY <1>1, <2>2, <3>1, StampOrder
  <2>6. m \in T
    <3>1. m \in d.main /\ m.op \in Ops
      BY <1>1, <2>4 DEF Earlier, Chain
    <3>2. Key(m.op) # Key(o)
      BY <1>1, <2>5, <3>1, OneWay, KeyFacts
    <3> QED
      BY <1>2, <2>4, <3>1, <3>2 DEF Earlier, Chain
  <2>7. \A t \in T : t = m \/ Less(Stamp(t.op), Stamp(m.op))
    <3> SUFFICES ASSUME NEW t \in T PROVE t = m \/ Less(Stamp(t.op), Stamp(m.op))
      OBVIOUS
    <3>1. t \in e.main /\ t.op \in Ops /\ t \in Chain(e, p)
      BY <1>1 DEF Earlier, Chain
    <3>2. CASE Key(t.op) = Key(o)
      BY <1>1, <2>5, <3>1, <3>2, KeyFacts
    <3>3. CASE Key(t.op) # Key(o)
      <4>1. t \in S
        BY <1>2, <3>1, <3>3 DEF Earlier, Chain
      <4> QED
        BY <2>4, <4>1
    <3> QED
      BY <3>2, <3>3
  <2>8. Latest(T) = m
    BY <2>3, <2>6, <2>7, EndsOfChain
  <2> QED
    BY <2>3, <2>6, <2>8 DEF BalanceBefore, m
<1> QED
  BY <1>3, <1>4


LEMMA NextStartsAfter ==
  ASSUME NEW d, Sound(d), NEW o \in Sane, NEW r \in Later(d, o),
         \A y \in Later(d, o) : ~ Less(Stamp(y.op), Stamp(r.op))
  PROVE  BalanceBefore(d, r.op) = After(d, o)
<1> DEFINE S == Earlier(d, r.op)
<1>1. /\ \A x \in d.main : x.op \in Ops
      /\ o \in Ops /\ r \in d.main /\ r.op \in Ops
      /\ r.op.store = o.store /\ r.op.batch = o.batch /\ Less(Stamp(o), Stamp(r.op))
  BY SaneFacts, DatabaseFacts DEF Sound, Later, Chain
<1>2. /\ \A x \in d.main : x \in Stored(d, o) <=> Key(x.op) = Key(o)
      /\ Stored(d, o) \subseteq d.main
  BY StoredFacts
<1>3. S = Earlier(d, o) \cup Stored(d, o)
  <2>1. ASSUME NEW x \in S PROVE x \in Earlier(d, o) \cup Stored(d, o)
    <3>1. x \in d.main /\ x.op.store = o.store /\ x.op.batch = o.batch /\ x.op \in Ops
          /\ Less(Stamp(x.op), Stamp(r.op))
      BY <1>1 DEF Earlier, Chain
    <3>2. ~ Less(Stamp(o), Stamp(x.op))
      BY <3>1 DEF Later, Chain
    <3>3. Stamp(o) = Stamp(x.op) \/ Less(Stamp(x.op), Stamp(o))
      BY <1>1, <3>1, <3>2, StampOrder
    <3> QED
      BY <3>1, <3>3 DEF Earlier, Stored, Chain
  <2>2. ASSUME NEW x \in Earlier(d, o) \cup Stored(d, o) PROVE x \in S
    <3>1. x \in d.main /\ x.op.store = o.store /\ x.op.batch = o.batch /\ x.op \in Ops
          /\ (Less(Stamp(x.op), Stamp(o)) \/ Stamp(x.op) = Stamp(o))
      BY <1>1 DEF Earlier, Stored, Chain
    <3>2. Less(Stamp(x.op), Stamp(r.op))
      BY <1>1, <3>1, StampOrder
    <3> QED
      BY <1>1, <3>1, <3>2 DEF Earlier, Chain
  <2> QED
    BY <2>1, <2>2
<1>4. CASE Stored(d, o) = {}
  BY <1>3, <1>4 DEF BalanceBefore, After
<1>5. CASE Stored(d, o) # {}
  <2> DEFINE m == CHOOSE x \in Stored(d, o) : TRUE
  <2>1. m \in Stored(d, o) /\ \A x \in Stored(d, o) : x = m
    BY <1>2, <1>5 DEF Sound, IsKeyed
  <2>2. StoredBalance(d, o) = m.bal
    BY <1>5 DEF StoredBalance
  <2> HIDE DEF m
  <2>3. m \in S /\ \A x \in S : x = m \/ Less(Stamp(x.op), Stamp(m.op))
    BY <1>3, <2>1 DEF Stored, Earlier
  <2>4. S \subseteq Chain(d, r.op)
    BY DEF Earlier
  <2>5. Latest(S) = m
    BY <2>3, <2>4, EndsOfChain
  <2> QED
    BY <1>5, <2>2, <2>3, <2>5 DEF BalanceBefore, After
<1> QED
  BY <1>4, <1>5

LEMMA BeforeSame ==
  ASSUME NEW d, Sound(d), NEW e, Sound(e), NEW o \in Sane, Apart(d, e, o)
  PROVE  BalanceBefore(e, o) = BalanceBefore(d, o) /\ Later(e, o) = Later(d, o)
<1>1. /\ \A x \in d.main : x.op \in Ops
      /\ \A x \in e.main : x.op \in Ops
      /\ o \in Ops
  BY SaneFacts, DatabaseFacts DEF Sound
<1>2. /\ \A r \in d.main : Key(r.op) # Key(o) => r \in e.main
      /\ \A r \in e.main : Key(r.op) # Key(o) => r \in d.main
  BY ApartFacts
<1>3. ~ Less(Stamp(o), Stamp(o))
  BY <1>1, OneWay
<1>4. BalanceBefore(e, o) = BalanceBefore(d, o)
  BY <1>3, OthersSame
<1>5. \A p \in Ops : Less(Stamp(o), Stamp(p)) => Key(p) # Key(o)
  BY <1>1, OneWay, KeyFacts
<1>6. Later(e, o) = Later(d, o)
  BY <1>1, <1>2, <1>5 DEF Later, Chain
<1> QED
  BY <1>4, <1>6

(* What was current stays so, but for what follows o at once, and that too *)
(* if it still starts from the same balance.                               *)
LEMMA Exchange ==
  ASSUME NEW d, Sound(d), NEW e, Sound(e), NEW o \in Sane, Apart(d, e, o),
         NEW r \in d.main, Key(r.op) # Key(o), Current(d, r)
  PROVE  \/ Current(e, r)
         \/ /\ After(d, o) # After(e, o)
            /\ Later(d, o) # {} /\ r = Earliest(Later(d, o))
<1>1. r.op \in Sane /\ r.op \in Ops /\ o \in Ops
  BY SaneFacts, DatabaseFacts DEF Sound
<1>2. CASE BalanceBefore(e, r.op) = BalanceBefore(d, r.op)
  BY <1>2 DEF Current
<1>3. CASE BalanceBefore(e, r.op) # BalanceBefore(d, r.op)
  <2>1. /\ r.op.store = o.store /\ r.op.batch = o.batch /\ Less(Stamp(o), Stamp(r.op))
        /\ \A y \in Later(d, o) : ~ Less(Stamp(y.op), Stamp(r.op))
    BY <1>1, <1>3, OthersSame
  <2>2. r \in Later(d, o) /\ r \in Later(e, o)
    BY <2>1, BeforeSame DEF Later, Chain
  <2>3. Later(e, o) = Later(d, o)
    BY BeforeSame
  <2>4. BalanceBefore(d, r.op) = After(d, o) /\ BalanceBefore(e, r.op) = After(e, o)
    BY <2>1, <2>2, <2>3, NextStartsAfter
  <2>5. r = Earliest(Later(d, o))
    <3>1. Later(d, o) \subseteq Chain(d, o)
      BY DEF Later
    <3>2. /\ Earliest(Later(d, o)) \in Later(d, o)
          /\ r = Earliest(Later(d, o)) \/ Less(Stamp(Earliest(Later(d, o)).op), Stamp(r.op))
      BY <2>2, <3>1, ChainFacts
    <3> QED
      BY <2>1, <3>2
  <2> QED
    BY <1>3, <2>2, <2>4, <2>5
<1> QED
  BY <1>2, <1>3

-----------------------------------------------------------------------------
(***************************************************************************)
(* The front holds what is not current.                                    *)
(***************************************************************************)

OnFront(d, o) == \E p \in d.front : Key(p) = Key(o)

(* Whatever is not current is on the front, and nobody has seen it yet who *)
(* is among U; keys of K excepted.                                         *)
Unseen(U, o) == \A u \in U : Key(u) # Key(o)

Pending(d, K, U) ==
  \A r \in d.main : \/ Current(d, r) \/ Key(r.op) \in K
                    \/ OnFront(d, r.op) /\ Unseen(U, r.op)

(* What p may be, that is next after o or next after o of no batch. *)
Behind(o, p) ==
  /\ p.store = o.store /\ (p.batch = o.batch \/ p.batch = NoBatch)
  /\ Less(Stamp(o), Stamp(p))

(* The front only grows, by operations that are stored behind o. *)
Pushed(d, e, o) ==
  /\ e.main = d.main /\ e.index = d.index
  /\ \A p \in d.front : p \in e.front
  /\ \A p \in e.front : p \in d.front \/ \E r \in d.main : r.op = p /\ Behind(o, p)

LEMMA PropagatePushes ==
  ASSUME NEW d, Sound(d), NEW o, NEW u, u.store = o.store,
         u.batch = o.batch \/ u.batch = NoBatch, Stamp(u) = Stamp(o)
  PROVE  /\ Pushed(d, Propagate(d, u), o)
         /\ Later(d, u) # {} => OnFront(Propagate(d, u), Earliest(Later(d, u)).op)
<1>1. CASE Later(d, u) = {}
  BY <1>1 DEF Propagate, Pushed
<1>2. CASE Later(d, u) # {}
  <2> DEFINE r == Earliest(Later(d, u))
             e == Push(d, r.op)
  <2>1. Later(d, u) \subseteq Chain(d, u)
    BY DEF Later
  <2>2. r \in Later(d, u)
    BY <1>2, <2>1, ChainFacts
  <2> HIDE DEF r
  <2>3. r \in d.main /\ r.op.store = u.store /\ r.op.batch = u.batch /\ Less(Stamp(u), Stamp(r.op))
    BY <2>2 DEF Later, Chain
  <2>4. Behind(o, r.op)
    BY <2>3 DEF Behind
  <2>5. Propagate(d, u) = e
    BY <1>2 DEF Propagate, r
  <2>6. d \in Databases
    BY DEF Sound
  <2>7. e.main = d.main /\ e.index = d.index
        /\ e.front = IF OnFront(d, r.op) THEN d.front ELSE d.front \cup {r.op}
    BY <2>6 DEF Push, OnFront, Databases
  <2> HIDE DEF e
  <2>8. Pushed(d, e, o)
    BY <2>3, <2>4, <2>7 DEF Pushed
  <2>9. OnFront(e, r.op)
    BY <2>7 DEF OnFront
  <2> QED
    BY <2>5, <2>8, <2>9 DEF r
<1> QED
  BY <1>1, <1>2

LEMMA PushedTwice ==
  ASSUME NEW d, NEW e, NEW f, NEW o, Pushed(d, e, o), Pushed(e, f, o)
  PROVE  Pushed(d, f, o)
BY DEF Pushed

LEMMA BothPush ==
  ASSUME NEW d, Sound(d), NEW o \in Sane
  PROVE  /\ Pushed(d, PropagateBoth(d, o), o)
         /\ Later(d, o) # {} => OnFront(PropagateBoth(d, o), Earliest(Later(d, o)).op)
<1> DEFINE u == [o EXCEPT !.batch = NoBatch]
           own == Propagate(d, o)
<1>1. /\ Pushed(d, own, o)
      /\ Later(d, o) # {} => OnFront(own, Earliest(Later(d, o)).op)
  BY PropagatePushes
<1>2. Sound(own)
  BY PropagateSound
<1> HIDE DEF own
<1>3. o \in Ops
  BY SaneFacts
<1>4. u.store = o.store /\ u.batch = NoBatch /\ Stamp(u) = Stamp(o)
  <2>1. u.date = o.date /\ u.kind = o.kind /\ u.id = o.id /\ u.store = o.store /\ u.batch = NoBatch
    BY <1>3 DEF Ops
  <2>2. u.dep = o.dep
    BY <1>3 DEF Ops
  <2> HIDE DEF u
  <2> QED
    BY <2>1, <2>2 DEF Stamp, Order, Flag
<1> HIDE DEF u
<1>5. Pushed(own, Propagate(own, u), o)
  BY <1>2, <1>4, PropagatePushes
<1>6. PropagateBoth(d, o) = IF o.batch = NoBatch THEN own ELSE Propagate(own, u)
  BY DEF PropagateBoth, own, u
<1>7. CASE o.batch = NoBatch
  BY <1>1, <1>6, <1>7
<1>8. CASE o.batch # NoBatch
  <2>1. Pushed(d, Propagate(own, u), o)
    BY <1>1, <1>5, PushedTwice
  <2>2. Later(d, o) # {} => OnFront(Propagate(own, u), Earliest(Later(d, o)).op)
    BY <1>1, <1>5 DEF Pushed, OnFront
  <2> QED
    BY <1>6, <1>8, <2>1, <2>2
<1> QED
  BY <1>7, <1>8

(* Once one operation is exchanged, what is not current is on the front or *)
(* is that operation, if what follows it is pushed as soon as it starts    *)
(* from another balance.                                                   *)
LEMMA PendingExchanged ==
  ASSUME NEW d, Sound(d), NEW e, Sound(e), NEW o \in Sane, Apart(d, e, o),
         NEW K, NEW U, Pending(d, K, U),
         \A p \in d.front : Key(p) = Key(o) \/ OnFront(e, p),
         After(d, o) # After(e, o) /\ Later(d, o) # {}
           => LET p == Earliest(Later(d, o)).op IN OnFront(e, p) /\ Unseen(U, p)
  PROVE  Pending(e, K \cup {Key(o)}, U)
<1> SUFFICES ASSUME NEW r \in e.main, Key(r.op) # Key(o), Key(r.op) \notin K,
                    ~ (OnFront(e, r.op) /\ Unseen(U, r.op))
             PROVE  Current(e, r)
  BY DEF Pending
<1>1. r \in d.main
  BY ApartFacts
<1>2. ~ (OnFront(d, r.op) /\ Unseen(U, r.op))
  BY DEF OnFront
<1>3. Current(d, r)
  BY <1>1, <1>2 DEF Pending
<1> QED
  BY <1>1, <1>3, Exchange

-----------------------------------------------------------------------------
(***************************************************************************)
(* Documents that can be told apart by the day.  Of two operations of one  *)
(* day, the propagation may need the one that comes later first: an issue  *)
(* that names no batch takes what another one of its store and day needs,  *)
(* a transfer arrives where an issue has been looked at already.  So, on   *)
(* one day: who issues from a store without naming a batch is alone to     *)
(* issue from it; transfers lead from lower to higher stores; and what     *)
(* arrives in a store is of a batch that nothing else brings there.        *)
(***************************************************************************)

Orderly ==
  /\ Careful
  /\ Refiled = {}
  /\ \A o \in Entries : o.kind # "inventory"
  /\ \A e, f \in Entries : e.date = f.date /\ e.id # f.id /\ e.kind = "issue" =>
       /\ f.kind = "issue" /\ f.store = e.store => ~ Virtual(e) /\ ~ Virtual(f)
       /\ f.kind = "issue" /\ f.store = e.into => e.store < f.store
       /\ IsTransfer(e) /\ (IF f.kind = "issue" THEN f.into ELSE f.store) = e.into =>
            ~ Virtual(e) /\ ~ Virtual(f) /\ e.batch # f.batch

(* What may be in the ledger on account of the document operation e: that  *)
(* itself, parts of it, and what arrives of them.                          *)
IsOwn(o, e) ==
  /\ ~ o.dep /\ o.kind = e.kind /\ o.store = e.store /\ o.batch = e.batch /\ o.into = e.into
  /\ \A i \in DOMAIN o.parts : o.parts[i].kind = "issue"

IsPart(o, e) ==
  /\ o.dep /\ o.kind = "issue" /\ o.store = e.store /\ o.into = e.into
  /\ Virtual(e) /\ e.kind = "issue"

IsArrival(o, e) ==
  /\ o.dep /\ o.kind = "receive" /\ o.store = e.into /\ o.into = e.store
  /\ IsTransfer(e) /\ (Virtual(e) \/ o.batch = e.batch)

Belongs(o, e) ==
  /\ o.id = e.id /\ o.date = e.date
  /\ IsOwn(o, e) \/ IsPart(o, e) \/ IsArrival(o, e)

(* The operations that documents stand for, one for each at most. *)
Meant(R) == R \subseteq Entries /\ \A e, f \in R : e.id = f.id => e = f

Rooted(o, R) == \E e \in R : Belongs(o, e)

(* An operation u that has been looked at, and one that waits on the front.*)
Passed(u, p) ==
  \/ u.date < p.date
  \/ /\ u.date = p.date
     /\ u.kind = "issue" /\ p.kind = "issue" => Less(Key(u), Key(p))
     /\ u.kind = "issue" /\ p.kind = "receive" => p.dep /\ u.store <= p.into
     /\ /\ u.kind = "receive" /\ p.kind = "receive"
        /\ u.store = p.store /\ u.batch = p.batch
        => Less(Key(u), Key(p)) \/ (Key(u) = Key(p) /\ p.dep)

(* What o may put on the front: it comes later in the order of the front,  *)
Sooner(o, p) ==
  \/ o.date < p.date
  \/ /\ o.date = p.date
     /\ o.kind = "issue" => p.kind = "issue" /\ Less(Key(o), Key(p))
     /\ o.kind = "receive" /\ p.kind = "issue" /\ o.dep => o.into < p.store
     /\ o.kind = "receive" /\ p.kind = "receive" =>
          /\ ~ o.dep /\ ~ p.dep /\ o.store = p.store /\ o.batch = p.batch
          /\ Less(Key(o), Key(p))

(* or it is what arrives of o.                                             *)
New(o, p) ==
  \/ Sooner(o, p)
  \/ /\ o.date = p.date /\ o.kind = "issue"
     /\ p.kind = "receive" /\ p.dep /\ p.into = o.store

LEMMA BelongsFacts ==
  ASSUME Orderly, NEW R, Meant(R), NEW o \in Ops, NEW e \in R, Belongs(o, e)
  PROVE  /\ o.kind \in {"issue", "receive"} /\ e.kind \in {"issue", "receive"}
         /\ e \in Entries /\ e.store # e.into /\ e.store \in Nat /\ e.into \in Nat
         /\ ~ e.dep
         /\ o.kind = "issue" => e.kind = "issue" /\ o.store = e.store /\ o.into = e.into
         /\ o.kind = "receive" /\ ~ o.dep => /\ e.kind = "receive" /\ o.store = e.store
                                            /\ o.batch = e.batch /\ o.batch # NoBatch
         /\ o.kind = "receive" /\ o.dep => /\ e.kind = "issue" /\ IsTransfer(e)
                                          /\ o.store = e.into /\ o.into = e.store
                                          /\ (Virtual(e) \/ o.batch = e.batch)
         /\ o.kind = "issue" /\ o.dep => Virtual(e)
         /\ o.kind = "issue" /\ ~ o.dep => o.batch = e.batch /\ Virtual(o) = Virtual(e)
         /\ o.kind = "issue" /\ o.batch = NoBatch => Virtual(e)
<1>1. e \in Entries /\ e \in DocumentOps
  BY LedgerAssumption DEF Meant
<1>2. /\ e.kind \in {"issue", "receive"} /\ e.store # e.into /\ e.store \in Nat
      /\ e.into \in Nat /\ ~ e.dep /\ (e.kind = "receive" => e.batch # NoBatch)
  <2>1. /\ e.kind \in Kinds /\ e.store \in Stores /\ e.into \in Stores \cup {NoStore}
        /\ e.dep \in {FALSE}
    BY <1>1 DEF DocumentOps
  <2>2. Stores \subseteq Nat /\ NoStore \in Nat
    BY LedgerAssumption DEF NoStore
  <2>3. e.into # e.store /\ (e.kind = "receive" => e.batch # NoBatch)
    BY <1>1, LedgerAssumption
  <2>4. e.kind # "inventory"
    BY <1>1 DEF Orderly
  <2> QED
    BY <2>1, <2>2, <2>3, <2>4 DEF Kinds
<1>3. IsTransfer(e) => e.kind = "issue"
  BY DEF IsTransfer
<1>4. IsOwn(o, e) => Virtual(o) = Virtual(e)
  BY <1>2 DEF IsOwn, Virtual
<1>5. e.kind = "issue" /\ e.batch = NoBatch => Virtual(e)
  BY <1>2 DEF Virtual
<1> QED
  BY <1>1, <1>2, <1>3, <1>4, <1>5 DEF Belongs, IsOwn, IsPart, IsArrival

(* One of one day arrives, or comes, where something else arrives only if  *)
(* both are of one transfer.                                               *)
LEMMA ReceivesMeet ==
  ASSUME Orderly, NEW R, Meant(R), NEW u \in Ops, NEW p \in Ops, Rooted(u, R), Rooted(p, R),
         u.kind = "receive", p.kind = "receive", u.date = p.date, u.store = p.store,
         u.dep \/ p.dep,
         \/ u.batch = p.batch
         \/ \E e \in R : Virtual(e) /\ (Belongs(u, e) \/ Belongs(p, e))
  PROVE  u.id = p.id /\ u.dep /\ p.dep
<1>1. PICK e \in R : Belongs(u, e)
  BY DEF Rooted
<1>2. PICK f \in R : Belongs(p, f)
  BY DEF Rooted
<1>3. /\ e \in Entries /\ f \in Entries
      /\ u.id = e.id /\ p.id = f.id /\ e.date = u.date /\ f.date = p.date
  BY <1>1, <1>2 DEF Belongs, Meant
<1>4. /\ e.kind = "receive" => ~ u.dep /\ u.store = e.store /\ u.batch = e.batch
      /\ e.kind = "issue" => u.dep /\ IsTransfer(e) /\ u.store = e.into
                             /\ (Virtual(e) \/ u.batch = e.batch)
      /\ e.kind \in {"issue", "receive"}
  BY <1>1, BelongsFacts
<1>5. /\ f.kind = "receive" => ~ p.dep /\ p.store = f.store /\ p.batch = f.batch
      /\ f.kind = "issue" => p.dep /\ IsTransfer(f) /\ p.store = f.into
                             /\ (Virtual(f) \/ p.batch = f.batch)
      /\ f.kind \in {"issue", "receive"}
  BY <1>2, BelongsFacts
<1>6. u.batch = p.batch \/ Virtual(e) \/ Virtual(f)
  <2>1. \A g \in R : Belongs(u, g) => g = e
    BY <1>1 DEF Meant, Belongs
  <2>2. \A g \in R : Belongs(p, g) => g = f
    BY <1>2 DEF Meant, Belongs
  <2> QED
    BY <2>1, <2>2
<1>7. CASE e.id = f.id
  BY <1>3, <1>4, <1>5, <1>7 DEF Meant
<1>8. CASE e.id # f.id
  <2>1. CASE e.kind = "issue"
    BY <1>3, <1>4, <1>5, <1>6, <1>8, <2>1 DEF Orderly
  <2>2. CASE f.kind = "issue"
    BY <1>3, <1>4, <1>5, <1>6, <1>8, <2>2 DEF Orderly
  <2> QED
    BY <1>4, <1>5, <2>1, <2>2
<1> QED
  BY <1>7, <1>8

(* What is next in its store and batch, or next of no batch there, comes   *)
(* later on the front too.                                                 *)
LEMMA BehindSooner ==
  ASSUME Orderly, NEW R, Meant(R), NEW o \in Ops, NEW p \in Ops, Rooted(o, R), Rooted(p, R),
         Behind(o, p)
  PROVE  Sooner(o, p)
<1>1. PICK e \in R : Belongs(o, e)
  BY DEF Rooted
<1>2. PICK f \in R : Belongs(p, f)
  BY DEF Rooted
<1>3. /\ e \in Entries /\ f \in Entries
      /\ o.id = e.id /\ p.id = f.id /\ e.date = o.date /\ f.date = p.date
      /\ (e.id = f.id => e = f)
  BY <1>1, <1>2 DEF Belongs, Meant
<1>4. p.store = o.store /\ (p.batch = o.batch \/ p.batch = NoBatch)
  BY DEF Behind
<1>5. \/ o.date < p.date
      \/ o.date = p.date /\ Order(o) < Order(p)
      \/ o.date = p.date /\ Order(o) = Order(p) /\ o.id < p.id
      \/ o.date = p.date /\ Order(o) = Order(p) /\ o.id = p.id /\ Flag(o) < Flag(p)
  BY StampLess DEF Behind
<1>6. /\ o.kind \in {"issue", "receive"} /\ p.kind \in {"issue", "receive"}
      /\ Order(o) = (IF o.kind = "issue" THEN 4 ELSE 2)
      /\ Order(p) = (IF p.kind = "issue" THEN 4 ELSE 2)
      /\ Flag(o) = (IF o.dep THEN 1 ELSE 0) /\ Flag(p) = (IF p.dep THEN 1 ELSE 0)
  BY <1>1, <1>2, BelongsFacts, OrderFacts DEF Flag
<1>7. o.date \in Nat /\ p.date \in Nat /\ o.id \in Nat /\ p.id \in Nat
  BY Numbers
<1>8. CASE o.date < p.date
  BY <1>8 DEF Sooner
<1>9. CASE o.date = p.date /\ o.kind = "issue"
  <2>1. p.kind = "issue" /\ (o.id < p.id \/ (o.id = p.id /\ ~ o.dep /\ p.dep))
    BY <1>5, <1>6, <1>7, <1>9
  <2>2. /\ e.kind = "issue" /\ o.store = e.store /\ f.kind = "issue" /\ p.store = f.store
        /\ (o.dep => Virtual(e)) /\ (p.dep => Virtual(f))
        /\ (p.batch = NoBatch => Virtual(f)) /\ (~ o.dep => Virtual(o) = Virtual(e))
    BY <1>1, <1>2, <1>9, <2>1, BelongsFacts
  <2>3. p.batch = o.batch
    <3> SUFFICES ASSUME p.batch = NoBatch, o.batch # NoBatch PROVE FALSE
      BY <1>4
    <3>1. Virtual(f)
      BY <2>2
    <3>2. e.id = f.id
      BY <1>3, <1>4, <1>9, <2>2, <3>1 DEF Orderly
    <3>3. ~ o.dep /\ Virtual(e)
      BY <1>3, <2>1, <3>1, <3>2, <1>7
    <3> QED
      BY <2>2, <3>3 DEF Virtual
  <2>4. Less(Key(o), Key(p))
    BY <1>4, <1>5, <1>9, <1>6, <2>1, <2>3, KeyLess
  <2> QED
    BY <1>9, <2>1, <2>4 DEF Sooner
<1>10. CASE o.date = p.date /\ o.kind = "receive" /\ p.kind = "issue"
  <2>1. o.dep => o.into < p.store
    <3> SUFFICES ASSUME o.dep PROVE o.into < p.store
      OBVIOUS
    <3>1. /\ e.kind = "issue" /\ o.store = e.into /\ o.into = e.store
          /\ f.kind = "issue" /\ p.store = f.store /\ e.store # e.into
      BY <1>1, <1>2, <1>10, BelongsFacts
    <3>2. e.id # f.id
      BY <1>3, <1>4, <3>1
    <3> QED
      BY <1>3, <1>4, <1>10, <3>1, <3>2 DEF Orderly
  <2> QED
    BY <1>10, <2>1 DEF Sooner
<1>11. CASE o.date = p.date /\ o.kind = "receive" /\ p.kind = "receive"
  <2>1. o.id < p.id \/ (o.id = p.id /\ ~ o.dep /\ p.dep)
    BY <1>5, <1>6, <1>7, <1>11
  <2>2. p.batch = NoBatch => p.dep /\ Virtual(f)
    <3>1. p.batch = NoBatch => p.dep
      BY <1>2, <1>11, BelongsFacts
    <3>2. f.kind = "issue" => ~ f.dep
      BY <1>2, BelongsFacts
    <3> QED
      BY <1>2, <1>11, <3>1, <3>2, BelongsFacts DEF Virtual
  <2>3. ~ ((o.dep \/ p.dep) /\ (o.batch = p.batch \/ Virtual(f)))
    <3> SUFFICES ASSUME o.dep \/ p.dep, o.batch = p.batch \/ Virtual(f) PROVE FALSE
      OBVIOUS
    <3>1. o.id = p.id /\ o.dep /\ p.dep
      BY <1>2, <1>4, <1>11, ReceivesMeet
    <3> QED
      BY <1>7, <2>1, <3>1
  <2>4. p.batch = o.batch /\ ~ o.dep /\ ~ p.dep
    BY <1>4, <2>2, <2>3
  <2>5. Less(Key(o), Key(p))
    BY <1>4, <1>5, <1>6, <1>11, <2>1, <2>4, KeyLess
  <2> QED
    BY <1>4, <1>11, <2>4, <2>5 DEF Sooner
<1> QED
  BY <1>5, <1>6, <1>8, <1>9, <1>10, <1>11

(* What comes after something that is new to o comes later than o too.     *)
LEMMA NewThenSooner ==
  ASSUME NEW o \in Ops, NEW z \in Ops, NEW p \in Ops, o.kind = "issue", z.dep,
         New(o, z), Sooner(z, p), z.kind \in {"issue", "receive"}, p.kind \in {"issue", "receive"}
  PROVE  Sooner(o, p)
<1>1. o.date \in Nat /\ p.date \in Nat /\ z.date \in Nat /\ o.date <= z.date /\ z.date <= p.date
  BY Numbers DEF New, Sooner
<1>2. CASE o.date < p.date
  BY <1>2 DEF Sooner
<1>3. CASE o.date = z.date /\ z.date = p.date
  <2>1. CASE z.kind = "issue"
    <3>1. p.kind = "issue" /\ Less(Key(o), Key(z)) /\ Less(Key(z), Key(p))
      BY <1>1, <1>3, <2>1 DEF New, Sooner
    <3> QED
      BY <1>3, <3>1, KeyOrder DEF Sooner
  <2>2. CASE z.kind = "receive"
    <3>1. z.into = o.store
      BY <1>1, <1>3, <2>2 DEF New, Sooner
    <3>2. p.kind = "issue" /\ o.store < p.store
      BY <1>1, <1>3, <2>2, <3>1 DEF Sooner
    <3>3. Order(o) = 4 /\ Order(p) = 4
      BY <3>2, OrderFacts
    <3>4. Less(Key(o), Key(p))
      BY <1>3, <3>2, <3>3, KeyLess
    <3> QED
      BY <1>3, <3>2, <3>4 DEF Sooner
  <2> QED
    BY <2>1, <2>2
<1> QED
  BY <1>1, <1>2, <1>3

LEMMA IntoNat == ASSUME NEW o \in Ops PROVE o.into \in Nat
<1>1. o.into \in Stores \cup {NoStore}
  BY DEF Ops
<1>2. Stores \subseteq Nat /\ NoStore \in Nat
  BY LedgerAssumption DEF NoStore
<1> QED
  BY <1>1, <1>2

Plain(o) == o.kind \in {"issue", "receive"}

LEMMA RootedFacts ==
  ASSUME Orderly, NEW R, Meant(R), NEW o \in Ops, Rooted(o, R)
  PROVE  Plain(o)
BY BelongsFacts DEF Rooted, Plain

(* The key of what comes later than o is none of what has been looked at.  *)
LEMMA SoonerUnseen ==
  ASSUME NEW u \in Ops, NEW o \in Ops, NEW p \in Ops, Plain(u), Plain(o), Plain(p),
         Passed(u, o), Sooner(o, p)
  PROVE  Key(u) # Key(p)
<1>1. u.date \in Nat /\ o.date \in Nat /\ p.date \in Nat /\ u.date <= o.date /\ o.date <= p.date
  BY Numbers DEF Passed, Sooner
<1> SUFFICES ASSUME Key(u) = Key(p) PROVE FALSE
  OBVIOUS
<1>2. u.date = p.date /\ u.kind = p.kind /\ u.store = p.store /\ u.batch = p.batch
  BY KeyFacts
<1>3. u.date = o.date /\ o.date = p.date
  BY <1>1, <1>2
<1>4. CASE o.kind = "issue"
  <2>1. p.kind = "issue" /\ Less(Key(o), Key(p)) /\ Less(Key(u), Key(o))
    BY <1>1, <1>2, <1>3, <1>4 DEF Sooner, Passed
  <2>2. Less(Key(u), Key(p))
    BY <2>1, KeyOrder
  <2> QED
    BY <2>2, OneWay
<1>5. CASE o.kind = "receive" /\ p.kind = "issue"
  <2>1. o.dep => o.into < p.store
    BY <1>1, <1>3, <1>5 DEF Sooner
  <2>2. o.dep /\ u.store <= o.into
    BY <1>1, <1>2, <1>3, <1>5 DEF Passed
  <2>3. o.into \in Nat /\ u.store \in Nat
    BY IntoNat, Numbers
  <2> QED
    BY <1>2, <2>1, <2>2, <2>3
<1>6. CASE o.kind = "receive" /\ p.kind = "receive"
  <2>1. ~ o.dep /\ o.store = p.store /\ o.batch = p.batch /\ Less(Key(o), Key(p))
    BY <1>1, <1>3, <1>6 DEF Sooner
  <2>2. Less(Key(u), Key(o))
    BY <1>1, <1>2, <1>3, <1>6, <2>1 DEF Passed
  <2>3. Less(Key(u), Key(p))
    BY <2>1, <2>2, KeyOrder
  <2> QED
    BY <2>3, OneWay
<1> QED
  BY <1>4, <1>5, <1>6 DEF Plain

LEMMA PassedNew ==
  ASSUME Orderly, NEW R, Meant(R), NEW u \in Ops, NEW o \in Ops, NEW p \in Ops,
         Rooted(u, R), Rooted(o, R), Rooted(p, R), Passed(u, o), New(o, p)
  PROVE  Passed(u, p)
<1>1. Plain(u) /\ Plain(o) /\ Plain(p)
  BY RootedFacts
<1>2. u.date \in Nat /\ o.date \in Nat /\ p.date \in Nat /\ u.date <= o.date /\ o.date <= p.date
  BY Numbers DEF Passed, New, Sooner
<1>3. CASE u.date < p.date
  BY <1>3 DEF Passed
<1>4. CASE u.date = o.date /\ o.date = p.date
  <2>1. ASSUME u.kind = "issue", p.kind = "issue" PROVE Less(Key(u), Key(p))
    <3>1. CASE o.kind = "issue"
      <4>1. Less(Key(u), Key(o)) /\ Less(Key(o), Key(p))
        BY <1>2, <1>4, <2>1, <3>1 DEF Passed, New, Sooner
      <4> QED
        BY <4>1, KeyOrder
    <3>2. CASE o.kind = "receive"
      <4>1. u.store <= o.into /\ o.into < p.store
        BY <1>2, <1>4, <2>1, <3>2 DEF Passed, New, Sooner
      <4>2. o.into \in Nat /\ u.store \in Nat /\ p.store \in Nat
        BY IntoNat, Numbers
      <4>3. u.store < p.store
        BY <4>1, <4>2
      <4>4. Order(u) = 4 /\ Order(p) = 4
        BY <2>1, OrderFacts
      <4> QED
        BY <1>4, <4>3, <4>4, KeyLess
    <3> QED
      BY <1>1, <3>1, <3>2 DEF Plain
  <2>2. ASSUME u.kind = "issue", p.kind = "receive" PROVE p.dep /\ u.store <= p.into
    <3>1. CASE o.kind = "issue"
      <4>1. Less(Key(u), Key(o)) /\ p.dep /\ p.into = o.store
        BY <1>2, <1>4, <2>2, <3>1 DEF Passed, New, Sooner
      <4>2. Order(u) = 4 /\ Order(o) = 4
        BY <2>2, <3>1, OrderFacts
      <4>3. u.store <= o.store
        BY <1>4, <4>1, <4>2, KeyLess, Numbers
      <4> QED
        BY <4>1, <4>3
    <3>2. CASE o.kind = "receive"
      BY <1>2, <1>4, <2>2, <3>2 DEF Passed, New, Sooner
    <3> QED
      BY <1>1, <3>1, <3>2 DEF Plain
  <2>3. ASSUME u.kind = "receive", p.kind = "receive", u.store = p.store, u.batch = p.batch
        PROVE  Less(Key(u), Key(p)) \/ (Key(u) = Key(p) /\ p.dep)
    <3>1. CASE o.kind = "issue"
      <4>1. p.dep
        BY <1>2, <1>4, <2>3, <3>1 DEF New, Sooner
      <4>2. u.id = p.id /\ u.dep /\ p.dep
        BY <1>4, <2>3, <4>1, ReceivesMeet
      <4>3. Key(u) = Key(p)
        BY <1>4, <2>3, <4>2 DEF Key, Order, Flag
      <4> QED
        BY <4>1, <4>3
    <3>2. CASE o.kind = "receive"
      <4>1. ~ o.dep /\ o.store = p.store /\ o.batch = p.batch /\ Less(Key(o), Key(p))
        BY <1>2, <1>4, <2>3, <3>2 DEF New, Sooner
      <4>2. Less(Key(u), Key(o))
        BY <1>2, <1>4, <2>3, <3>2, <4>1 DEF Passed
      <4> QED
        BY <4>1, <4>2, KeyOrder
    <3> QED
      BY <1>1, <3>1, <3>2 DEF Plain
  <2> QED
    BY <1>4, <2>1, <2>2, <2>3 DEF Passed
<1> QED
  BY <1>2, <1>3, <1>4

(* What is looked at has been passed by what is left, and by what it adds. *)
LEMMA FirstPassed ==
  ASSUME NEW o \in Ops, NEW p \in Ops, Plain(o), Plain(p), Less(Key(o), Key(p)) \/ New(o, p)
  PROVE  Passed(o, p)
<1>1. CASE Less(Key(o), Key(p))
  <2>1. o.date \in Nat /\ p.date \in Nat /\ (o.date < p.date \/ o.date = p.date)
    BY <1>1, KeyLess, Numbers
  <2>2. CASE o.date < p.date
    BY <2>2 DEF Passed
  <2>3. CASE o.date = p.date
    <3>1. ~ (o.kind = "issue" /\ p.kind = "receive")
      BY <1>1, <2>1, <2>3, KeyLess, OrderFacts
    <3> QED
      BY <1>1, <2>3, <3>1 DEF Passed
  <2> QED
    BY <2>1, <2>2, <2>3
<1>2. CASE New(o, p)
  <2>1. o.store \in Nat
    BY Numbers
  <2>2. o.store <= o.store
    BY <2>1
  <2> QED
    BY <1>2, <2>2 DEF New, Sooner, Passed
<1> QED
  BY <1>1, <1>2

-----------------------------------------------------------------------------
(***************************************************************************)
(* What is not current stays on the front while operations are taken out,  *)
(* put on the front and saved.                                             *)
(***************************************************************************)

(* Whatever may be next after o has not been seen. *)
NextUnseen(d, o, U) == \A r \in d.main : Behind(o, r.op) => Unseen(U, r.op)

LEMMA EarliestBehind ==
  ASSUME NEW d, Sound(d), NEW o, Later(d, o) # {}
  PROVE  /\ Earliest(Later(d, o)) \in d.main
         /\ Behind(o, Earliest(Later(d, o)).op)
<1>1. Later(d, o) \subseteq Chain(d, o)
  BY DEF Later
<1>2. Earliest(Later(d, o)) \in Later(d, o)
  BY <1>1, ChainFacts
<1> QED
  BY <1>2 DEF Later, Chain, Behind

LEMMA TakeOutKeeps ==
  ASSUME NEW d, Sound(d), NEW o \in Sane, Careful => ~ (Virtual(o) /\ o.kind = "issue"),
         NEW K, NEW U, Pending(d, K, U), NextUnseen(d, o, U)
  PROVE  LET e == TakeOut(d, o)
         IN  /\ Sound(e) /\ Pending(e, K, U)
             /\ e.main = d.main \ Stored(d, o) /\ e.index \subseteq d.index
             /\ \A p \in e.front : \/ p \in d.front /\ Key(p) # Key(o)
                                   \/ \E r \in e.main : r.op = p /\ Behind(o, p)
<1> DEFINE c == CutOut(d, o)
           e == TakeOut(d, o)
<1>1. /\ Sound(c) /\ c.main = d.main \ Stored(d, o) /\ c.index \subseteq d.index
      /\ c.front = Without(d.front, o)
  BY CutOutSound
<1>2. e = IF BalanceBefore(d, o) = StoredBalance(d, o) THEN c ELSE PropagateBoth(c, o)
  BY TakeOutIs
<1>3. Sound(e)
  BY TakeOutSound
<1> HIDE DEF c, e
<1>4. /\ Pushed(c, PropagateBoth(c, o), o)
      /\ Later(c, o) # {} => OnFront(PropagateBoth(c, o), Earliest(Later(c, o)).op)
  BY <1>1, BothPush
<1>5. Pushed(c, e, o)
  BY <1>2, <1>4 DEF Pushed
<1>6. e.main = d.main \ Stored(d, o) /\ e.index \subseteq d.index
  BY <1>1, <1>5 DEF Pushed
<1>7. Apart(d, c, o) /\ Apart(d, e, o)
  BY <1>1, <1>6 DEF Apart
<1>8. Later(c, o) = Later(d, o)
  BY <1>1, <1>7, BeforeSame
<1>9. BalanceBefore(e, o) = BalanceBefore(d, o)
  BY <1>3, <1>7, BeforeSame
<1>10. Stored(e, o) = {}
  BY <1>6 DEF Stored, Chain
<1>11. After(e, o) = BalanceBefore(d, o)
  BY <1>9, <1>10 DEF After
<1>12. After(d, o) # After(e, o) => BalanceBefore(d, o) # StoredBalance(d, o)
  BY <1>11 DEF After
<1>13. After(d, o) # After(e, o) /\ Later(d, o) # {}
         => LET p == Earliest(Later(d, o)).op IN OnFront(e, p) /\ Unseen(U, p)
  <2> SUFFICES ASSUME After(d, o) # After(e, o), Later(d, o) # {}
               PROVE  OnFront(e, Earliest(Later(d, o)).op) /\ Unseen(U, Earliest(Later(d, o)).op)
    OBVIOUS
  <2>1. e = PropagateBoth(c, o)
    BY <1>2, <1>12
  <2>2. OnFront(e, Earliest(Later(d, o)).op)
    BY <1>4, <1>8, <2>1
  <2>3. Unseen(U, Earliest(Later(d, o)).op)
    BY EarliestBehind DEF NextUnseen
  <2> QED
    BY <2>2, <2>3
<1>14. \A p \in d.front : Key(p) = Key(o) \/ OnFront(e, p)
  BY <1>1, <1>5 DEF Without, Pushed, OnFront
<1>15. Pending(e, K \cup {Key(o)}, U)
  BY <1>3, <1>7, <1>13, <1>14, PendingExchanged
<1>16. \A r \in e.main : Key(r.op) # Key(o)
  BY <1>6, StoredFacts
<1>17. Pending(e, K, U)
  BY <1>15, <1>16 DEF Pending
<1>18. \A p \in e.front : \/ p \in d.front /\ Key(p) # Key(o)
                          \/ \E r \in e.main : r.op = p /\ Behind(o, p)
  BY <1>1, <1>5 DEF Pushed, Without
<1> QED
  BY <1>3, <1>6, <1>17, <1>18 DEF e

(* An insertion replaces at most what has its key. *)
LEMMA InsertShape ==
  ASSUME NEW d, Sound(d), NEW o \in Sane
  PROVE  LET e == Insert(d, o)
         IN  /\ Sound(e) /\ e.main = d.main /\ e.index = d.index
             /\ \A p \in e.front : p \in d.front \/ p = o
             /\ \A p \in d.front : OnFront(e, p)
             /\ OnFront(e, o)
<1> DEFINE F == Without(d.front, o) \cup {o}
<1>1. Insert(d, o) = [d EXCEPT !.front = F]
  BY DEF Insert
<1>2. d \in Databases
  BY DEF Sound
<1>3. Insert(d, o).main = d.main /\ Insert(d, o).index = d.index /\ Insert(d, o).front = F
  BY <1>1, <1>2 DEF Databases
<1>4. Sound(Insert(d, o))
  BY InsertSound
<1> QED
  BY <1>3, <1>4 DEF Without, OnFront

LEMMA InsertPending ==
  ASSUME NEW d, Sound(d), NEW o \in Sane, NEW K, NEW U, Pending(d, K, U)
  PROVE  Pending(Insert(d, o), K, U)
<1> DEFINE e == Insert(d, o)
<1>1. e.main = d.main /\ \A p \in d.front : OnFront(e, p)
  BY InsertShape
<1> HIDE DEF e
<1>2. \A r : Current(d, r) <=> Current(e, r)
  BY <1>1 DEF Current, BalanceBefore, Earlier, Chain
<1>3. Pending(e, K, U)
  BY <1>1, <1>2 DEF Pending, OnFront
<1> QED
  BY <1>3 DEF e

(* Saving exchanges what is stored under the key. *)
LEMMA SaveShape ==
  ASSUME NEW d, Sound(d), NEW o \in Sane, NEW b \in Balance,
         Virtual(o) /\ o.kind = "issue" => o.parts # <<>>
  PROVE  LET e == Save(d, o, b)
             gone == IsZero(o) /\ o.parts = <<>>
         IN  /\ Sound(e) /\ Apart(d, e, o) /\ e.front = d.front
             /\ \A p \in e.index : p \in d.index \/ p = o
             /\ \A r \in e.main : r \in d.main \/ r = [op |-> o, bal |-> b]
             /\ gone => Stored(e, o) = {}
             /\ ~ gone => Stored(e, o) = {[op |-> o, bal |-> b]}
<1> DEFINE gone   == IsZero(o) /\ o.parts = <<>>
           r0     == [op |-> o, bal |-> b]
           main   == IF gone THEN d.main \ Stored(d, o) ELSE (d.main \ Stored(d, o)) \cup {r0}
           index  == IF o.parts # <<>> \/ (gone /\ Stored(d, o) = {}) THEN d.index
                     ELSE Without(d.index, o) \cup (IF gone THEN {} ELSE {o})
           s      == [d EXCEPT !.main = main, !.index = index]
           x      == Minus(Delta(o), StoredDelta(d, o))
           e      == Save(d, o, b)
<1>1. Sound(e) /\ d \in Databases /\ o \in Ops
  BY SaveSound, SaneFacts DEF Sound
<1>2. e = IF o.parts # <<>> THEN s ELSE Post(s, o, x)
  BY DEF Save
<1>3. /\ s.main = main /\ s.index = index /\ s.front = d.front
      /\ s.chk = d.chk /\ s.latest = d.latest
  BY <1>1 DEF Databases
<1>4. \A p \in index : p \in d.index \/ p = o
  BY DEF Without
<1>5. \A r \in main : r \in d.main \/ r = r0
  <2> HIDE DEF r0
  <2> QED
    OBVIOUS
<1>6. main \in SUBSET [op : Sane, bal : Balance]
  <2>1. r0 \in [op : Sane, bal : Balance]
    OBVIOUS
  <2>2. d.main \subseteq [op : Sane, bal : Balance]
    BY <1>1 DEF Databases
  <2> HIDE DEF r0, main
  <2> QED
    BY <1>5, <2>1, <2>2
<1>7. index \in SUBSET Sane
  <2>1. d.index \subseteq Sane
    BY <1>1 DEF Databases
  <2> HIDE DEF index
  <2> QED
    BY <1>4, <2>1
<1>8. s \in Databases
  <2> HIDE DEF main, index
  <2> QED
    BY <1>1, <1>6, <1>7 DEF Databases
<1>9. x \in Balance
  BY <1>1, OpDelta, StoredFacts, BalanceFacts
<1> HIDE DEF s, x
<1>10. Post(s, o, x).main = s.main /\ Post(s, o, x).index = s.index
       /\ Post(s, o, x).front = s.front
  BY <1>1, <1>8, <1>9, PostShape
<1>11. e.main = main /\ e.index = index /\ e.front = d.front
  BY <1>2, <1>3, <1>10
<1> HIDE DEF e
<1>12. r0.op = o
  OBVIOUS
<1> HIDE DEF r0, gone
<1>13. r0 \in Stored(e, o) <=> r0 \in e.main
  BY <1>12 DEF Stored, Chain
<1>14. ~ gone => r0 \in e.main
  BY <1>11
<1>15. \A r \in Stored(e, o) : r = r0 /\ ~ gone
  <2> TAKE r \in Stored(e, o)
  <2>1. r \in e.main /\ r.op.store = o.store /\ r.op.batch = o.batch /\ Stamp(r.op) = Stamp(o)
    BY DEF Stored, Chain
  <2>2. r \in d.main => r \in Stored(d, o)
    BY <2>1 DEF Stored, Chain
  <2> QED
    BY <1>11, <2>1, <2>2
<1>16. Apart(d, e, o)
  <2> SUFFICES ASSUME NEW r, \A q \in Stored(d, o) \cup Stored(e, o) : r # q
               PROVE  r \in d.main <=> r \in e.main
    BY DEF Apart
  <2>1. r \in e.main => r \in d.main
    BY <1>5, <1>11, <1>13
  <2>2. r \in d.main => r \in e.main
    BY <1>11
  <2> QED
    BY <2>1, <2>2
<1>17. \A p \in e.index : p \in d.index \/ p = o
  BY <1>4, <1>11
<1>18. \A r \in e.main : r \in d.main \/ r = r0
  BY <1>5, <1>11
<1>19. gone => Stored(e, o) = {}
  BY <1>15
<1>20. ~ gone => Stored(e, o) = {r0}
  BY <1>13, <1>14, <1>15
<1> QED
  BY <1>1, <1>11, <1>16, <1>17, <1>18, <1>19, <1>20 DEF e, r0, gone

(* The same operation, at any cost. *)
Alike(p, o) ==
  /\ p.id = o.id /\ p.date = o.date /\ p.store = o.store /\ p.into = o.into
  /\ p.batch = o.batch /\ p.kind = o.kind /\ p.qty = o.qty
  /\ p.auto = o.auto /\ p.dep = o.dep /\ p.parts = o.parts

LEMMA AlikeFacts ==
  ASSUME NEW p, NEW o, Alike(p, o)
  PROVE  /\ Key(p) = Key(o) /\ Stamp(p) = Stamp(o) /\ (Virtual(p) <=> Virtual(o))
         /\ (IsTransfer(p) <=> IsTransfer(o))
         /\ \A d : /\ Stored(d, p) = Stored(d, o) /\ Later(d, p) = Later(d, o)
                   /\ BalanceBefore(d, p) = BalanceBefore(d, o)
         /\ \A e : Belongs(p, e) <=> Belongs(o, e)
<1>1. Key(p) = Key(o) /\ Stamp(p) = Stamp(o)
  BY DEF Alike, Key, Stamp, Order, Flag
<1>2. \A d : Chain(d, p) = Chain(d, o)
  BY DEF Alike, Chain
<1>3. \A d : /\ Stored(d, p) = Stored(d, o) /\ Later(d, p) = Later(d, o)
             /\ BalanceBefore(d, p) = BalanceBefore(d, o)
  <2> TAKE d
  <2>1. Earlier(d, p) = Earlier(d, o)
    BY <1>1, <1>2 DEF Earlier
  <2>2. BalanceBefore(d, p) = BalanceBefore(d, o)
    BY <2>1 DEF BalanceBefore
  <2> QED
    BY <1>1, <1>2, <2>2 DEF Stored, Later
<1>4. \A e : Belongs(p, e) <=> Belongs(o, e)
  BY DEF Alike, Belongs, IsOwn, IsPart, IsArrival
<1> QED
  BY <1>1, <1>3, <1>4 DEF Alike, Virtual, IsTransfer

LEMMA CostedFacts ==
  ASSUME NEW o \in Sane, NEW b \in Balance
  PROVE  /\ Costed(b, o) \in Sane /\ Alike(Costed(b, o), o)
         /\ Costed(b, Costed(b, o)) = Costed(b, o)
<1> DEFINE x == IssueCost(b, o.qty)
           p == [o EXCEPT !.cost = x]
<1>1. o \in Ops /\ o.qty \in Int
  BY SaneFacts DEF Ops
<1>2. x \in Int
  BY <1>1, MoneyFacts
<1>3. Costed(b, o) = IF o.kind = "issue" /\ o.auto THEN p ELSE o
  BY DEF Costed
<1> HIDE DEF x
<1>4. p \in Ops
  BY <1>1, <1>2 DEF Ops
<1>5. /\ p.id = o.id /\ p.date = o.date /\ p.store = o.store /\ p.into = o.into
      /\ p.batch = o.batch /\ p.kind = o.kind /\ p.qty = o.qty
  BY <1>1 DEF Ops
<1>6. p.auto = o.auto /\ p.dep = o.dep
  BY <1>1 DEF Ops
<1>7. p.parts = o.parts /\ p.cost = x
  BY <1>1 DEF Ops
<1>8. [p EXCEPT !.cost = x] = p
  BY <1>4, <1>7 DEF Ops
<1> HIDE DEF p
<1>9. Alike(p, o) /\ Alike(o, o)
  BY <1>5, <1>6, <1>7 DEF Alike
<1>10. p \in Sane
  <2>1. Virtual(p) <=> Virtual(o)
    BY <1>9, AlikeFacts
  <2> QED
    BY <1>4, <1>5, <1>7, <2>1 DEF Sane
<1>11. IssueCost(b, p.qty) = x
  BY <1>5 DEF x
<1>12. Costed(b, p) = IF o.kind = "issue" /\ o.auto THEN p ELSE p
  BY <1>5, <1>6, <1>8, <1>11 DEF Costed
<1>13. CASE o.kind = "issue" /\ o.auto
  BY <1>3, <1>9, <1>10, <1>12, <1>13
<1>14. CASE ~ (o.kind = "issue" /\ o.auto)
  BY <1>3, <1>9, <1>14
<1> QED
  BY <1>13, <1>14

LEMMA BeforeType ==
  ASSUME NEW d, Sound(d), NEW o
  PROVE  BalanceBefore(d, o) \in Balance
<1>1. Earlier(d, o) \subseteq Chain(d, o) /\ Chain(d, o) \subseteq d.main
  BY DEF Earlier, Chain
<1>2. Earlier(d, o) # {} => Latest(Earlier(d, o)) \in d.main
  BY <1>1, ChainFacts
<1>3. \A r \in d.main : r.bal \in Balance
  BY DatabaseFacts DEF Sound
<1> QED
  BY <1>2, <1>3, BalanceFacts DEF BalanceBefore

(* What becomes of an operation that moves stock itself. *)
LEMMA CalculatedKeeps ==
  ASSUME NEW d, Sound(d), NEW o \in Sane, ~ Virtual(o), Plain(o),
         NEW U, Pending(d, {Key(o)}, U), NextUnseen(d, o, U)
  PROVE  LET e == Calculated(d, o)
         IN  /\ Sound(e) /\ Pending(e, {}, U)
             /\ \A r \in e.main : r \in d.main \/ Alike(r.op, o)
             /\ \A p \in e.index : p \in d.index \/ Alike(p, o)
             /\ \A p \in e.front : \/ p \in d.front
                                   \/ \E r \in d.main : r.op = p /\ Behind(o, p)
                                   \/ \E c \in Sane : /\ Alike(c, o) /\ IsTransfer(c)
                                                      /\ p = Arrival(c)
<1> DEFINE before == BalanceBefore(d, o)
           c == Costed(before, o)
           b == Plus(before, Delta(c))
           now == [op |-> c, bal |-> b]
           saved == Save(d, c, b)
           done == IF Stored(d, o) = {now} THEN d
                   ELSE IF IsTransfer(o) THEN Insert(saved, Arrival(c)) ELSE saved
           e == Calculated(d, o)
           gone == IsZero(c) /\ c.parts = <<>>
<1>1. before \in Balance
  BY BeforeType
<1>2. c \in Sane /\ c \in Ops /\ Alike(c, o) /\ Costed(before, c) = c
  BY <1>1, CostedFacts, SaneFacts
<1>3. Evaluated(before, o) = now
  BY DEF Evaluated
<1>4. Sound(e)
  BY CalculatedSound
<1>5. e = IF o.batch = NoBatch \/ After(d, o) # b THEN PropagateBoth(done, o) ELSE done
  <2>1. now.op = c /\ now.bal = b
    OBVIOUS
  <2> HIDE DEF c, b, now
  <2> QED
    BY <1>3, <2>1 DEF Calculated, After
<1>6. b \in Balance
  BY <1>1, <1>2, OpDelta, BalanceFacts
<1>7. /\ Key(c) = Key(o) /\ ~ Virtual(c) /\ Stored(d, c) = Stored(d, o)
      /\ (IsTransfer(c) <=> IsTransfer(o))
  BY <1>2, AlikeFacts
<1>8. Evaluated(before, c) = now
  BY <1>2 DEF Evaluated
<1>9. gone => b = before
  <2>1. c.kind = "issue" \/ c.kind = "receive"
    BY <1>2 DEF Alike, Plain
  <2>2. c.kind \in Kinds /\ c.qty \in Int /\ c.cost \in Int
    BY <1>2 DEF Ops
  <2>3. gone => Delta(c) = Nothing
    BY <2>1, <2>2, DeltaFacts DEF IsZero
  <2> QED
    BY <1>1, <2>3, BalanceFacts
<1> HIDE DEF before, c, b, e
<1>10. /\ Sound(saved) /\ Apart(d, saved, c) /\ saved.front = d.front
       /\ \A p \in saved.index : p \in d.index \/ p = c
       /\ \A r \in saved.main : r \in d.main \/ r = now
       /\ gone => Stored(saved, c) = {}
       /\ ~ gone => Stored(saved, c) = {now}
  BY <1>2, <1>6, <1>7, SaveShape
<1>11. Stored(saved, c) = Stored(saved, o) /\ Apart(d, saved, o)
  <2>1. Stored(saved, c) = Stored(saved, o)
    BY <1>2, AlikeFacts
  <2> QED
    BY <1>7, <1>10, <2>1 DEF Apart
<1>12. now.op = c /\ now.bal = b
  OBVIOUS
<1> HIDE DEF gone, now, saved
(* What the operation was put, or left, in place by. *)
<1>13. /\ Sound(done) /\ Apart(d, done, o)
       /\ \A r \in done.main : r \in d.main \/ r = now
       /\ \A p \in done.index : p \in d.index \/ p = c
       /\ Stored(done, o) = {now} \/ (Stored(done, o) = {} /\ gone)
       /\ \A p \in d.front : OnFront(done, p)
       /\ \A p \in done.front : p \in d.front \/ (IsTransfer(c) /\ p = Arrival(c))
  <2>1. CASE Stored(d, o) = {now}
    BY <2>1 DEF Apart, OnFront
  <2>2. CASE Stored(d, o) # {now} /\ ~ IsTransfer(o)
    <3>1. done = saved
      BY <2>2
    <3> QED
      BY <1>10, <1>11, <3>1 DEF OnFront
  <2>3. CASE Stored(d, o) # {now} /\ IsTransfer(o)
    <3>1. done = Insert(saved, Arrival(c))
      BY <2>3
    <3>2. Arrival(c) \in Sane
      BY <1>2, <1>7, <2>3, ArrivalFacts
    <3>3. /\ Sound(done) /\ done.main = saved.main /\ done.index = saved.index
          /\ \A p \in done.front : p \in saved.front \/ p = Arrival(c)
          /\ \A p \in saved.front : OnFront(done, p)
      BY <1>10, <3>1, <3>2, InsertShape
    <3> HIDE DEF done
    <3>4. Stored(done, o) = Stored(saved, o)
      BY <3>3 DEF Stored, Chain
    <3>5. Apart(d, done, o)
      BY <1>11, <3>3, <3>4 DEF Apart
    <3> QED
      BY <1>7, <1>10, <1>11, <2>3, <3>3, <3>4, <3>5
  <2> QED
    BY <2>1, <2>2, <2>3
<1> HIDE DEF done
<1>14. /\ Pushed(done, PropagateBoth(done, o), o)
       /\ Later(done, o) # {} => OnFront(PropagateBoth(done, o), Earliest(Later(done, o)).op)
  BY <1>13, BothPush
<1>15. Pushed(done, e, o)
  BY <1>5, <1>14 DEF Pushed
<1>16. Stored(e, o) = Stored(done, o) /\ Apart(d, e, o) /\ e.main = done.main
  <2>1. Stored(e, o) = Stored(done, o) /\ e.main = done.main
    BY <1>15 DEF Pushed, Stored, Chain
  <2> QED
    BY <1>13, <2>1 DEF Apart
<1>17. Later(done, o) = Later(d, o) /\ BalanceBefore(e, o) = before
  <2>1. Later(done, o) = Later(d, o)
    BY <1>13, BeforeSame
  <2>2. BalanceBefore(e, o) = BalanceBefore(d, o)
    BY <1>4, <1>16, BeforeSame
  <2> QED
    BY <2>1, <2>2 DEF before
<1>18. After(e, o) = b
  <2>1. CASE Stored(e, o) = {now}
    <3>1. StoredBalance(e, o) = now.bal
      BY <2>1 DEF StoredBalance
    <3> QED
      BY <1>12, <2>1, <3>1 DEF After
  <2>2. CASE Stored(e, o) = {} /\ gone
    BY <1>9, <1>17, <2>2 DEF After
  <2> QED
    BY <1>13, <1>16, <2>1, <2>2
<1>19. After(d, o) # After(e, o) /\ Later(d, o) # {}
         => LET p == Earliest(Later(d, o)).op IN OnFront(e, p) /\ Unseen(U, p)
  <2> SUFFICES ASSUME After(d, o) # After(e, o), Later(d, o) # {}
               PROVE  OnFront(e, Earliest(Later(d, o)).op) /\ Unseen(U, Earliest(Later(d, o)).op)
    OBVIOUS
  <2>1. e = PropagateBoth(done, o)
    BY <1>5, <1>18
  <2>2. OnFront(e, Earliest(Later(d, o)).op)
    BY <1>14, <1>17, <2>1
  <2>3. Unseen(U, Earliest(Later(d, o)).op)
    BY EarliestBehind DEF NextUnseen
  <2> QED
    BY <2>2, <2>3
<1>20. \A p \in d.front : Key(p) = Key(o) \/ OnFront(e, p)
  BY <1>13, <1>15 DEF Pushed, OnFront
<1>21. Pending(e, {Key(o)}, U)
  <2>1. Pending(e, {Key(o)} \cup {Key(o)}, U)
    BY <1>4, <1>16, <1>19, <1>20, PendingExchanged
  <2> QED
    BY <2>1 DEF Pending
<1>22. \A r \in e.main : Key(r.op) = Key(o) => Current(e, r)
  <2> SUFFICES ASSUME NEW r \in e.main, Key(r.op) = Key(o) PROVE Current(e, r)
    OBVIOUS
  <2>1. r \in Stored(e, o)
    BY <1>4, StoredFacts
  <2>2. r = now
    BY <1>13, <1>16, <2>1
  <2>3. BalanceBefore(e, c) = before
    BY <1>2, <1>17, AlikeFacts
  <2> QED
    BY <1>7, <1>8, <1>12, <2>2, <2>3 DEF Current
<1>23. Pending(e, {}, U)
  BY <1>21, <1>22 DEF Pending
<1>24. \A r \in e.main : r \in d.main \/ Alike(r.op, o)
  BY <1>2, <1>12, <1>13, <1>16
<1>25. \A p \in e.index : p \in d.index \/ Alike(p, o)
  BY <1>2, <1>13, <1>15 DEF Pushed
<1>26. \A p \in e.front : \/ p \in d.front
                          \/ \E r \in d.main : r.op = p /\ Behind(o, p)
                          \/ \E q \in Sane : Alike(q, o) /\ IsTransfer(q) /\ p = Arrival(q)
  <2> SUFFICES ASSUME NEW p \in e.front, p \notin done.front
               PROVE  \E r \in d.main : r.op = p /\ Behind(o, p)
    BY <1>2, <1>13
  <2>1. PICK r \in done.main : r.op = p /\ Behind(o, p)
    BY <1>15 DEF Pushed
  <2>2. r # now
    <3>1. Stamp(c) = Stamp(o)
      BY <1>2, AlikeFacts
    <3>2. ~ Less(Stamp(o), Stamp(o))
      BY SaneFacts, OneWay
    <3> QED
      BY <1>12, <2>1, <3>1, <3>2 DEF Behind
  <2> QED
    BY <1>13, <2>1, <2>2
<1> QED
  BY <1>4, <1>23, <1>24, <1>25, <1>26 DEF e

-----------------------------------------------------------------------------
(***************************************************************************)
(* A balance that is current is the sum of what the index has before it.   *)
(***************************************************************************)

(* What the index has of the store and batch of o before it. *)
Preceding(d, o) ==
  {p \in d.index : /\ p.store = o.store /\ p.batch = o.batch
                   /\ Less(Stamp(p), Stamp(o))}

(* Nobody has counted. *)
NoCounts(d) == (\A r \in d.main : Plain(r.op)) /\ (\A p \in d.index : Plain(p))

LEMMA IndexedFacts ==
  ASSUME NEW d, Sound(d), NoCounts(d)
  PROVE  /\ \A p \in d.index : (\E r \in d.main : r.op = p) /\ ~ Virtual(p)
         /\ \A r \in d.main : ~ Virtual(r.op) => r.op \in d.index
<1>1. /\ \A p \in d.index : p \in Sane /\ Plain(p)
      /\ \A r \in d.main : r.op \in Sane /\ Plain(r.op)
  BY DatabaseFacts DEF Sound, NoCounts
<1>2. \A p \in d.index : p.parts = <<>> /\ \E r \in d.main : r.op = p
  BY <1>1 DEF Sound, Mirrors, Plain
<1>3. \A p \in d.index : ~ Virtual(p)
  <2> SUFFICES ASSUME NEW p \in d.index, Virtual(p) PROVE FALSE
    OBVIOUS
  <2>1. p.kind = "issue"
    BY <1>1 DEF Plain, Virtual
  <2> QED
    BY <1>2, <2>1 DEF Sound, HasTaken
<1>4. \A r \in d.main : ~ Virtual(r.op) => r.op \in d.index
  <2> SUFFICES ASSUME NEW r \in d.main, ~ Virtual(r.op) PROVE r.op \in d.index
    OBVIOUS
  <2>1. r.op.parts = <<>>
    BY <1>1, SaneFacts
  <2> QED
    BY <1>1, <2>1 DEF Sound, Mirrors, Plain
<1> QED
  BY <1>2, <1>3, <1>4

LEMMA BeforeFacts ==
  ASSUME NEW d, Sound(d), NEW o
  PROVE  Preceding(d, o) \subseteq Ops /\ IsFiniteSet(Preceding(d, o)) /\ Preceding(d, o) \subseteq d.index
<1>1. d.index \subseteq Ops /\ IsFiniteSet(d.index)
  BY DatabaseFacts DEF Sound, IsFinite
<1>2. Preceding(d, o) \subseteq d.index
  BY DEF Preceding
<1> QED
  BY <1>1, <1>2, FS_Subset

(* It is so of o if it is of all that comes before. *)
LEMMA SumGoesOn ==
  ASSUME NEW d, Sound(d), NoCounts(d), NEW o \in Ops,
         \A r \in Earlier(d, o) :
           Current(d, r) /\ BalanceBefore(d, r.op) = SumOf(Preceding(d, r.op))
  PROVE  BalanceBefore(d, o) = SumOf(Preceding(d, o))
<1> DEFINE S == Earlier(d, o)
           m == Latest(S)
<1>1. /\ \A r \in d.main : r.op \in Ops /\ r.op \in Sane
      /\ \A r, s \in d.main : Key(r.op) = Key(s.op) => r = s
  BY DatabaseFacts DEF Sound, IsKeyed
<1>2. \A p \in Preceding(d, o) : \E r \in S : r.op = p
  BY IndexedFacts DEF Preceding, Earlier, Chain
<1>3. CASE S = {}
  <2>1. Preceding(d, o) = {}
    BY <1>2, <1>3
  <2>2. SumOf({}) = Nothing
    BY SumUnfolds, FS_EmptySet
  <2> QED
    BY <1>3, <2>1, <2>2 DEF BalanceBefore
<1>4. CASE S # {}
  <2>1. S \subseteq Chain(d, o)
    BY DEF Earlier
  <2>2. m \in S /\ \A s \in S : s = m \/ Less(Stamp(s.op), Stamp(m.op))
    BY <1>4, <2>1, ChainFacts
  <2>3. BalanceBefore(d, o) = m.bal
    BY <1>4 DEF BalanceBefore
  <2> HIDE DEF m
  <2>4. /\ m \in d.main /\ m.op \in Ops /\ m.op.store = o.store /\ m.op.batch = o.batch
        /\ Less(Stamp(m.op), Stamp(o))
    BY <1>1, <2>2 DEF Earlier, Chain
  <2>5. Current(d, m) /\ BalanceBefore(d, m.op) = SumOf(Preceding(d, m.op))
    BY <2>2
  <2>6. \A p \in Preceding(d, o) : p = m.op \/ p \in Preceding(d, m.op)
    <3> TAKE p \in Preceding(d, o)
    <3>1. PICK r \in S : r.op = p
      BY <1>2
    <3> QED
      BY <2>2, <2>4, <3>1 DEF Preceding
  <2>7. \A p \in Preceding(d, m.op) : p \in Preceding(d, o) /\ p # m.op
    <3> TAKE p \in Preceding(d, m.op)
    <3>1. p \in Ops
      BY BeforeFacts
    <3>2. Less(Stamp(p), Stamp(o)) /\ p # m.op
      BY <2>4, <3>1, StampOrder, OneWay DEF Preceding
    <3> QED
      BY <2>4, <3>2 DEF Preceding
  <2>8. CASE Virtual(m.op)
    <3>1. m.op \notin Preceding(d, o)
      BY <2>8, IndexedFacts DEF Preceding
    <3>2. Preceding(d, o) = Preceding(d, m.op)
      BY <2>6, <2>7, <3>1
    <3> QED
      BY <2>3, <2>5, <2>8, <3>2 DEF Current
  <2>9. CASE ~ Virtual(m.op)
    <3>1. m.op \in Preceding(d, o)
      BY <2>4, <2>9, IndexedFacts DEF Preceding
    <3>2. Preceding(d, o) \ {m.op} = Preceding(d, m.op)
      BY <2>6, <2>7, <3>1
    <3>3. SumOf(Preceding(d, o)) = Plus(SumOf(Preceding(d, m.op)), Delta(m.op))
      BY <3>1, <3>2, BeforeFacts, SumWith
    <3>4. m.bal = Plus(BalanceBefore(d, m.op), Delta(m.op))
      <4>1. m = Evaluated(BalanceBefore(d, m.op), m.op)
        BY <2>5, <2>9 DEF Current
      <4>2. /\ m.op = Costed(BalanceBefore(d, m.op), m.op)
            /\ m.bal = Plus(BalanceBefore(d, m.op), Delta(Costed(BalanceBefore(d, m.op), m.op)))
        BY <4>1 DEF Evaluated
      <4> QED
        BY <4>2
    <3> QED
      BY <2>3, <2>5, <3>3, <3>4
  <2> QED
    BY <2>8, <2>9
<1> QED
  BY <1>3, <1>4

LEMMA BalanceIsSum ==
  ASSUME NEW d, Sound(d), NoCounts(d), NEW o \in Ops,
         \A r \in Earlier(d, o) : Current(d, r)
  PROVE  BalanceBefore(d, o) = SumOf(Preceding(d, o))
<1> DEFINE S == Earlier(d, o)
           Bad == {r \in S : BalanceBefore(d, r.op) # SumOf(Preceding(d, r.op))}
<1>1. /\ \A r \in d.main : r.op \in Ops
      /\ S \subseteq Chain(d, o) /\ S \subseteq d.main /\ Bad \subseteq Chain(d, o)
  BY DatabaseFacts DEF Sound, Earlier, Chain
<1>2. Bad = {}
  <2> SUFFICES ASSUME Bad # {} PROVE FALSE
    OBVIOUS
  <2> DEFINE r == Earliest(Bad)
  <2>1. r \in Bad /\ \A s \in Bad : s = r \/ Less(Stamp(r.op), Stamp(s.op))
    BY <1>1, ChainFacts
  <2> HIDE DEF r
  <2>2. r \in S /\ r.op \in Ops
    BY <1>1, <2>1
  <2>3. \A s \in Earlier(d, r.op) : s \in S /\ s \notin Bad
    <3> TAKE s \in Earlier(d, r.op)
    <3>1. s \in d.main /\ s.op \in Ops /\ Less(Stamp(s.op), Stamp(r.op))
      BY <1>1 DEF Earlier, Chain
    <3>2. s \in S
      BY <1>1, <2>2, <3>1, StampOrder DEF Earlier, Chain
    <3>3. s \notin Bad
      BY <2>1, <2>2, <3>1, OneWay
    <3> QED
      BY <3>2, <3>3
  <2>4. \A s \in Earlier(d, r.op) :
          Current(d, s) /\ BalanceBefore(d, s.op) = SumOf(Preceding(d, s.op))
    BY <2>3
  <2>5. BalanceBefore(d, r.op) = SumOf(Preceding(d, r.op))
    BY <2>2, <2>4, SumGoesOn
  <2> QED
    BY <2>1, <2>5
<1>3. \A r \in S : Current(d, r) /\ BalanceBefore(d, r.op) = SumOf(Preceding(d, r.op))
  BY <1>2
<1> QED
  BY <1>3, SumGoesOn

(* What an issue of no batch finds on hand of no batch is that sum too.    *)
LEMMA OnHandIsSum ==
  ASSUME Careful, NEW d, Sound(d), NoCounts(d), NEW o \in Ops, Virtual(o)
  PROVE  OnHand(d, o, NoBatch) = SumOf(Preceding(d, o))
<1> DEFINE n == Opening(d, o)
           k == <<o.store, NoBatch>>
           A == At(d.index, n, k)
           B == {p \in Applied(d, o) : p.batch = NoBatch}
           S == Preceding(d, o)
<1>1. /\ d.index \subseteq Ops /\ o.batch = NoBatch
      /\ Sums(d, d.index) /\ d.latest \in Months
  BY DatabaseFacts DEF Sound, Virtual
<1>2. MonthOf[o.date] \in Nat /\ d.latest \in Nat
  BY <1>1, Numbers, OpFacts DEF Months
<1>3. n \in Months /\ n \in Nat /\ n <= MonthOf[o.date] /\ n <= d.latest
  <2>1. n = IF MonthOf[o.date] <= d.latest THEN MonthOf[o.date] ELSE d.latest
    BY <1>2 DEF Opening, Min
  <2> QED
    BY <1>1, <1>2, <2>1, OpFacts DEF Months
<1>4. k \in Stores \X Batches
  BY BatchFacts DEF Ops
<1>5. d.chk[n][k] = SumOf(A)
  BY <1>1, <1>2, <1>3, <1>4, OpFacts DEF Sums, Months
<1> HIDE DEF n
<1>6. B \subseteq S
  <2> SUFFICES ASSUME NEW p \in B PROVE p \in S
    OBVIOUS
  <2>1. p \in d.index /\ p \in Ops /\ p.store = o.store /\ p.batch = o.batch
        /\ ~ Less(Stamp(o), Stamp(p))
    BY <1>1 DEF Applied
  <2>2. Stamp(o) # Stamp(p)
    <3>1. ~ Virtual(p)
      BY <2>1, IndexedFacts
    <3> QED
      BY <2>1, <3>1, KeyFacts
  <2>3. Less(Stamp(p), Stamp(o))
    BY <2>1, <2>2, StampOrder
  <2> QED
    BY <2>1, <2>3 DEF Preceding
<1>7. A \subseteq S /\ A \cap B = {}
  <2>1. ASSUME NEW p \in A PROVE p \in S /\ p \notin B
    <3>1. p \in d.index /\ p \in Ops /\ p.store = o.store /\ p.batch = o.batch
          /\ MonthOf[p.date] < n
      BY <1>1 DEF At
    <3>2. MonthOf[p.date] \in Nat /\ p.date \in Nat /\ o.date \in Nat
          /\ p.date \in Dates /\ o.date \in Dates
      <4>1. MonthOf[p.date] \in Nat
        BY <3>1, Numbers, OpFacts
      <4>2. p.date \in Nat /\ o.date \in Nat
        BY <3>1, Numbers
      <4>3. p.date \in Dates /\ o.date \in Dates
        BY <3>1 DEF Ops
      <4> QED
        BY <4>1, <4>2, <4>3
    <3>3. ~ (o.date <= p.date)
      <4>1. o.date <= p.date => MonthOf[o.date] <= MonthOf[p.date]
        BY <3>2, LedgerAssumption DEF Dates
      <4> QED
        BY <1>2, <1>3, <3>1, <3>2, <4>1
    <3>4. Less(Stamp(p), Stamp(o))
      BY <3>1, <3>2, <3>3, StampLess
    <3>5. p \notin B
      BY <1>2, <1>3, <3>1, <3>2 DEF Applied, n
    <3> QED
      BY <3>1, <3>4, <3>5 DEF Preceding
  <2> QED
    BY <2>1
<1>8. S \subseteq A \cup B
  <2> SUFFICES ASSUME NEW p \in S, p \notin A PROVE p \in B
    OBVIOUS
  <2>1. p \in d.index /\ p \in Ops /\ p.store = o.store /\ p.batch = o.batch
        /\ Less(Stamp(p), Stamp(o))
    BY <1>1 DEF Preceding
  <2>2. MonthOf[p.date] \in Nat
    BY <2>1, Numbers, OpFacts
  <2>3. ~ (MonthOf[p.date] < n)
    BY <1>1, <2>1 DEF At
  <2>4. n <= MonthOf[p.date]
    BY <1>2, <1>3, <2>2, <2>3, OpFacts DEF Months
  <2>5. ~ Less(Stamp(o), Stamp(p))
    BY <2>1, OneWay
  <2> QED
    BY <1>1, <2>1, <2>4, <2>5 DEF Applied, n
<1>9. S \ B = A /\ B \in SUBSET S
  BY <1>6, <1>7, <1>8
<1>10. SumOf(S) = Plus(SumOf(A), SumOf(B))
  <2>1. S \subseteq Ops /\ IsFiniteSet(S)
    BY BeforeFacts
  <2> HIDE DEF S, A, B
  <2> QED
    BY <1>9, <2>1, SumUnion
<1> QED
  BY <1>5, <1>10 DEF OnHand, n

-----------------------------------------------------------------------------
(***************************************************************************)
(* What becomes of an issue that names no batch.                           *)
(***************************************************************************)

LEMMA PartsHave ==
  ASSUME NEW o, NEW b \in Batches, NEW q \in Int, NEW c \in Int
  PROVE  Part(o, b, q, c) \in PartsOf(o)
BY DEF PartsOf

LEMMA PartNew ==
  ASSUME Orderly, NEW R, Meant(R), NEW o \in Sane, Rooted(o, R), Virtual(o),
         o.kind = "issue", NEW p \in PartsOf(o)
  PROVE  /\ p \in Sane /\ p \in Ops /\ p.dep /\ p.kind = "issue" /\ p.store = o.store
         /\ p.into = o.into /\ p.date = o.date
         /\ Rooted(p, R) /\ New(o, p) /\ Less(Stamp(o), Stamp(p))
<1>1. o \in Ops
  BY SaneFacts
<1>2. PICK b \in Batches, q \in Int, c \in Int : p = Part(o, b, q, c)
  BY DEF PartsOf
<1>3. p \in Sane /\ p \in Ops /\ p.kind = "issue"
  BY <1>2, PartFacts, SaneFacts
<1>4. p.store = o.store /\ p.into = o.into /\ p.date = o.date /\ p.id = o.id /\ p.batch = b
  BY <1>1, <1>2 DEF Part, Ops
<1>5. p.dep
  BY <1>1, <1>2 DEF Part, Ops
<1>6. PICK e \in R : Belongs(o, e)
  BY DEF Rooted
<1>7. ~ o.dep /\ o.batch = NoBatch
  BY DEF Virtual
<1>8. Rooted(p, R)
  <2>1. e.kind = "issue" /\ o.store = e.store /\ o.into = e.into /\ Virtual(e)
    <3>1. IsOwn(o, e)
      BY <1>6, <1>7 DEF Belongs, IsPart, IsArrival
    <3>2. ~ e.dep
      BY <1>1, <1>6, BelongsFacts
    <3> QED
      BY <1>7, <3>1, <3>2 DEF IsOwn, Virtual
  <2>2. IsPart(p, e)
    BY <1>3, <1>4, <1>5, <2>1 DEF IsPart
  <2> QED
    BY <1>4, <1>6, <2>2 DEF Rooted, Belongs
<1>9. Flag(o) = 0 /\ Flag(p) = 1 /\ Order(o) = 4 /\ Order(p) = 4
  BY <1>1, <1>3, <1>5, <1>7, OrderFacts
<1>10. Less(Stamp(o), Stamp(p))
  BY <1>1, <1>3, <1>4, <1>9, StampLess
<1>11. Less(Key(o), Key(p))
  <2>1. o.batch.date = 0 /\ o.batch.id = 0
    BY <1>7 DEF NoBatch
  <2>2. p.batch.date \in Nat /\ p.batch.id \in Nat
    BY <1>3, Numbers
  <2> QED
    BY <1>1, <1>3, <1>4, <1>9, <2>1, <2>2, KeyLess
<1>12. New(o, p)
  BY <1>3, <1>4, <1>11 DEF New, Sooner
<1> QED
  BY <1>3, <1>4, <1>5, <1>8, <1>10, <1>12

(* What has been seen is not what comes later than o. *)
SoonerIsUnseen(o, U, R) ==
  \A p \in Ops : Rooted(p, R) /\ Sooner(o, p) => Unseen(U, p)

(* On the way from d, before o itself is saved. *)
Stages(d, o, U, R) ==
  {a \in Databases :
     /\ Sound(a) /\ a.main \subseteq d.main /\ a.index \subseteq d.index
     /\ Pending(a, {Key(o)}, U)
     /\ Earlier(a, o) = Earlier(d, o)
     /\ \A p \in a.front : p \in d.front \/ (Rooted(p, R) /\ New(o, p))}

LEMMA TakeOutStage ==
  ASSUME Orderly, NEW R, Meant(R), NEW o \in Sane, Rooted(o, R), o.kind = "issue",
         NEW U, SoonerIsUnseen(o, U, R),
         NEW d, \A r \in d.main : Rooted(r.op, R),
         NEW a \in Stages(d, o, U, R),
         NEW z \in Sane, z.dep, Rooted(z, R), New(o, z),
         z.store # o.store \/ Less(Stamp(o), Stamp(z))
  PROVE  TakeOut(a, z) \in Stages(d, o, U, R)
<1>1. /\ Sound(a) /\ a.main \subseteq d.main /\ a.index \subseteq d.index
      /\ Pending(a, {Key(o)}, U)
      /\ Earlier(a, o) = Earlier(d, o)
      /\ \A p \in a.front : p \in d.front \/ (Rooted(p, R) /\ New(o, p))
  BY DEF Stages
<1>2. \A r \in a.main : r.op \in Ops /\ Rooted(r.op, R) /\ Plain(r.op)
  BY <1>1, DatabaseFacts, RootedFacts DEF Sound
<1>3. o \in Ops /\ z \in Ops /\ Plain(z)
  BY SaneFacts, RootedFacts
<1>4. \A r \in a.main : Behind(z, r.op) => Sooner(o, r.op)
  <2> SUFFICES ASSUME NEW r \in a.main, Behind(z, r.op) PROVE Sooner(o, r.op)
    OBVIOUS
  <2>1. Sooner(z, r.op)
    BY <1>2, <1>3, BehindSooner
  <2> QED
    BY <1>2, <1>3, <2>1, NewThenSooner DEF Plain
<1>5. NextUnseen(a, z, U)
  BY <1>2, <1>4 DEF NextUnseen, SoonerIsUnseen
<1>6. ~ Virtual(z)
  BY DEF Virtual
<1> DEFINE e == TakeOut(a, z)
<1>7. /\ Sound(e) /\ Pending(e, {Key(o)}, U)
      /\ e.main = a.main \ Stored(a, z) /\ e.index \subseteq a.index
      /\ \A p \in e.front : \/ p \in a.front /\ Key(p) # Key(z)
                            \/ \E r \in e.main : r.op = p /\ Behind(z, p)
  BY <1>1, <1>5, <1>6, TakeOutKeeps
<1> HIDE DEF e
<1>8. Earlier(e, o) = Earlier(a, o)
  <2>1. ASSUME NEW r \in Earlier(a, o) PROVE r \notin Stored(a, z)
    <3>1. r \in a.main /\ r.op \in Ops /\ r.op.store = o.store /\ Less(Stamp(r.op), Stamp(o))
      BY <1>2 DEF Earlier, Chain
    <3> QED
      BY <1>3, <3>1, OneWay DEF Stored, Chain
  <2> QED
    BY <1>7, <2>1 DEF Earlier, Chain
<1>9. \A p \in e.front : p \in d.front \/ (Rooted(p, R) /\ New(o, p))
  <2> TAKE p \in e.front
  <2>1. CASE p \in a.front
    BY <1>1, <2>1
  <2>2. ASSUME NEW r \in e.main, r.op = p, Behind(z, p) PROVE Rooted(p, R) /\ New(o, p)
    BY <1>2, <1>4, <1>7, <2>2 DEF New
  <2> QED
    BY <1>7, <2>1, <2>2
<1>10. e \in Databases /\ e.main \subseteq d.main /\ e.index \subseteq d.index
  BY <1>1, <1>7 DEF Sound
<1> QED
  BY <1>1, <1>7, <1>8, <1>9, <1>10 DEF Stages, e

LEMMA SpreadStage ==
  ASSUME Orderly, NEW R, Meant(R), NEW o \in Sane, Rooted(o, R), Virtual(o), o.kind = "issue",
         NEW U, SoonerIsUnseen(o, U, R),
         NEW d, \A r \in d.main : Rooted(r.op, R), d \in Stages(d, o, U, R),
         NEW parts \in Seq(PartsOf(o))
  PROVE  Spread(d, o, parts) \in Stages(d, o, U, R)
<1> DEFINE G == Stages(d, o, U, R)
<1>1. o \in Ops /\ parts \in Seq(Sane) /\ \A i \in DOMAIN parts : parts[i] \in PartsOf(o)
  <2>1. PartsOf(o) \subseteq Sane
    BY PartsMade DEF Made
  <2>2. \A i \in DOMAIN parts : parts[i] \in PartsOf(o)
    OBVIOUS
  <2>3. parts \in Seq(Sane)
    <3>1. parts \in [1 .. Len(parts) -> Sane]
      BY <2>1, <2>2
    <3> QED
      BY <3>1
  <2> QED
    BY <2>2, <2>3, SaneFacts
<1>2. \A a \in G, i \in DOMAIN parts : Insert(a, parts[i]) \in G
  <2> TAKE a \in G, i \in DOMAIN parts
  <2> DEFINE p == parts[i]
             e == Insert(a, p)
  <2>1. p \in Sane /\ Rooted(p, R) /\ New(o, p)
    BY <1>1, PartNew
  <2> HIDE DEF p
  <2>2. /\ Sound(a) /\ a.main \subseteq d.main /\ a.index \subseteq d.index
        /\ Pending(a, {Key(o)}, U)
        /\ Earlier(a, o) = Earlier(d, o)
        /\ \A q \in a.front : q \in d.front \/ (Rooted(q, R) /\ New(o, q))
    BY DEF Stages
  <2>3. /\ Sound(e) /\ e.main = a.main /\ e.index = a.index
        /\ \A q \in e.front : q \in a.front \/ q = p
    BY <2>1, <2>2, InsertShape
  <2>4. Pending(e, {Key(o)}, U)
    BY <2>1, <2>2, InsertPending
  <2> HIDE DEF e
  <2>5. Earlier(e, o) = Earlier(a, o) /\ e \in Databases
    BY <2>3 DEF Earlier, Chain, Sound
  <2>6. e \in G
    BY <2>1, <2>2, <2>3, <2>4, <2>5 DEF Stages
  <2> QED
    BY <2>6 DEF e, p
<1>3. FoldLeft(Insert, d, parts) \in G
  <2>1. d \in G
    OBVIOUS
  <2> HIDE DEF G
  <2> QED
    BY <1>1, <1>2, <2>1, InsertsKeep
<1>4. \A a \in G, i \in DOMAIN o.parts : Delete(a, Zero(o, o.parts[i])) \in G
  <2> TAKE a \in G, i \in DOMAIN o.parts
  <2> DEFINE x == o.parts[i]
             z == Zero(o, x)
             y == Arrival(z)
  <2>1. x \in Deps /\ x.batch \in Batches
    <3>1. o.parts \in Seq(Deps)
      BY SaneFacts
    <3>2. x \in Deps
      BY <3>1
    <3> QED
      BY <3>2 DEF Deps
  <2>2. PICK e \in R : Belongs(o, e)
    BY DEF Rooted
  <2>3. /\ e.kind = "issue" /\ o.store = e.store /\ o.into = e.into /\ Virtual(e)
        /\ x.kind = "issue" /\ e.store # e.into
    <3>1. ~ o.dep /\ IsOwn(o, e)
      BY <2>2 DEF Virtual, Belongs, IsPart, IsArrival
    <3> QED
      BY <1>1, <2>2, <3>1, BelongsFacts DEF IsOwn
  <2> HIDE DEF x
  <2>4. z = Part(o, x.batch, 0, 0) /\ z \in PartsOf(o)
    <3>1. Part(o, x.batch, 0, 0) \in PartsOf(o)
      <4>1. 0 \in Int
        OBVIOUS
      <4> QED
        BY <2>1, <4>1, PartsHave
    <3>2. Part(o, x.batch, 0, 0) \in Ops /\ Part(o, x.batch, 0, 0).kind = "issue"
      BY <3>1, PartNew
    <3>3. [Part(o, x.batch, 0, 0) EXCEPT !.kind = "issue"] = Part(o, x.batch, 0, 0)
      BY <3>2 DEF Ops
    <3> QED
      BY <2>3, <3>1, <3>3 DEF Zero
  <2> HIDE DEF z
  <2>5. /\ z \in Sane /\ z \in Ops /\ z.dep /\ z.store = o.store /\ z.into = o.into
        /\ z.date = o.date /\ Rooted(z, R) /\ New(o, z) /\ Less(Stamp(o), Stamp(z))
    BY <2>4, PartNew
  <2>6. TakeOut(a, z) \in G
    BY <2>5, TakeOutStage
  <2>7. ASSUME IsTransfer(z) PROVE TakeOut(TakeOut(a, z), y) \in G
    <3>1. y \in Sane
      BY <2>5, <2>7, ArrivalFacts
    <3>2. /\ y.id = z.id /\ y.date = z.date /\ y.store = z.into /\ y.into = z.store
          /\ y.kind = "receive" /\ y.dep = TRUE
      BY <2>5 DEF Arrival, Ops
    <3> HIDE DEF y
    <3>3. z.id = o.id
      <4>1. Part(o, x.batch, 0, 0).id = o.id
        BY <1>1 DEF Part, Ops
      <4> QED
        BY <2>4, <4>1
    <3>4. IsTransfer(e)
      BY <2>3, <2>5, <2>7 DEF IsTransfer
    <3>5. Rooted(y, R)
      <4>1. IsArrival(y, e)
        BY <2>3, <2>5, <3>2, <3>4 DEF IsArrival
      <4> QED
        BY <2>2, <2>5, <3>2, <3>3, <4>1 DEF Rooted, Belongs
    <3>6. New(o, y)
      BY <2>5, <3>2 DEF New
    <3>7. y.store # o.store
      BY <2>3, <2>5, <3>2
    <3> QED
      BY <2>6, <3>1, <3>2, <3>5, <3>6, <3>7, TakeOutStage
  <2>8. Delete(a, z) \in G
    <3> HIDE DEF y, G
    <3> QED
      BY <2>6, <2>7 DEF Delete, y
  <2> QED
    BY <2>8 DEF z, x
<1>5. Dropped(FoldLeft(Insert, d, parts), o, parts) \in G
  <2> HIDE DEF G
  <2> QED
    BY <1>3, <1>4, DroppedKeeps
<1> QED
  BY <1>5 DEF Spread

LEMMA DistributedKeeps ==
  ASSUME Orderly, NEW R, Meant(R), NEW o \in Sane, Rooted(o, R), Virtual(o), o.kind = "issue",
         NEW U, SoonerIsUnseen(o, U, R),
         NEW d, Sound(d), NoCounts(d), \A r \in d.main : Rooted(r.op, R),
         Pending(d, {Key(o)}, U), \A r \in Earlier(d, o) : Current(d, r),
         NEW s \in Queues(d, o)
  PROVE  LET e == Distributed(d, o, s)
         IN  /\ Sound(e) /\ Pending(e, {}, U)
             /\ \A r \in e.main : r \in d.main \/ Rooted(r.op, R)
             /\ \A p \in e.index : p \in d.index \/ Rooted(p, R)
             /\ \A p \in e.front : p \in d.front \/ (Rooted(p, R) /\ New(o, p))
<1> DEFINE parts == Split(d, o, s)
           a == Spread(d, o, parts)
           q == [o EXCEPT !.parts = Dependants(parts)]
           b == OnHand(d, o, NoBatch)
           r0 == [op |-> q, bal |-> b]
           saved == Save(a, q, b)
           e == Distributed(d, o, s)
<1>1. o \in Ops /\ Plain(o) /\ Plain(o)
  BY SaneFacts, RootedFacts
<1>2. parts \in Seq(PartsOf(o)) /\ parts \in Seq(Made) /\ parts # <<>>
  BY SplitType DEF Sane
<1>3. e = Propagate(saved, o)
  BY DEF Distributed, Remembered
<1>4. Sound(e)
  BY DistributedSound
<1>5. b \in Balance /\ b = SumOf(Preceding(d, o))
  BY <1>1, BatchFacts, OnHandType, OnHandIsSum DEF Orderly
<1>6. BalanceBefore(d, o) = b
  BY <1>1, <1>5, BalanceIsSum
<1> HIDE DEF parts
<1>7. Dependants(parts) \in Seq(Deps) /\ Dependants(parts) # <<>>
      /\ \A i \in DOMAIN Dependants(parts) : Dependants(parts)[i].kind = "issue"
  <2>1. \A i \in DOMAIN parts : parts[i] \in PartsOf(o)
    BY <1>2
  <2>2. \A p \in PartsOf(o) : p.kind = "issue"
    BY PartNew
  <2> QED
    BY <1>2, <2>1, <2>2, DependantsType DEF Dependants
<1>8. /\ q.id = o.id /\ q.date = o.date /\ q.store = o.store /\ q.into = o.into
      /\ q.batch = o.batch /\ q.kind = o.kind /\ q.qty = o.qty
  BY <1>1 DEF Ops
<1>9. q.dep = o.dep /\ q.parts = Dependants(parts)
  BY <1>1 DEF Ops
<1>10. q \in Ops
  BY <1>1, <1>7 DEF Ops
<1> HIDE DEF q, b, saved, e
<1>11. Key(q) = Key(o) /\ Stamp(q) = Stamp(o) /\ Virtual(q)
  BY <1>8, <1>9 DEF Key, Stamp, Order, Flag, Virtual
<1>12. q \in Sane
  BY <1>8, <1>10, <1>11 DEF Sane
<1>13. Rooted(q, R)
  <2>1. PICK f \in R : Belongs(o, f)
    BY DEF Rooted
  <2>2. IsOwn(o, f)
    BY <2>1 DEF Belongs, IsPart, IsArrival, Virtual
  <2>3. IsOwn(q, f)
    BY <1>7, <1>8, <1>9, <2>2 DEF IsOwn
  <2> QED
    BY <1>8, <2>1, <2>3 DEF Rooted, Belongs
<1>14. \A x : /\ Chain(x, q) = Chain(x, o) /\ Stored(x, q) = Stored(x, o)
              /\ Earlier(x, q) = Earlier(x, o)
  <2>1. \A x : Chain(x, q) = Chain(x, o)
    BY <1>8 DEF Chain
  <2> QED
    BY <1>11, <2>1 DEF Stored, Earlier
<1>15. a \in Stages(d, o, U, R)
  <2>1. d \in Stages(d, o, U, R)
    BY DEF Stages, Sound
  <2> QED
    BY <1>2, <2>1, SpreadStage
<1> HIDE DEF a
<1>16. /\ Sound(a) /\ a.main \subseteq d.main /\ a.index \subseteq d.index
       /\ Pending(a, {Key(o)}, U)
       /\ Earlier(a, o) = Earlier(d, o)
       /\ \A p \in a.front : p \in d.front \/ (Rooted(p, R) /\ New(o, p))
  BY <1>15 DEF Stages
<1>17. /\ Sound(saved) /\ Apart(a, saved, q) /\ saved.front = a.front
       /\ \A p \in saved.index : p \in a.index \/ p = q
       /\ \A r \in saved.main : r \in a.main \/ r = r0
       /\ Stored(saved, q) = {r0}
  BY <1>5, <1>7, <1>9, <1>12, <1>16, SaveShape DEF saved
<1>18. Stored(saved, o) = {r0} /\ Apart(a, saved, o)
  BY <1>14, <1>17 DEF Apart
<1>19. r0.op = q /\ r0.bal = b
  OBVIOUS
<1> HIDE DEF r0
<1>20. /\ Pushed(saved, e, o)
       /\ Later(saved, o) # {} => OnFront(e, Earliest(Later(saved, o)).op)
  BY <1>3, <1>17, PropagatePushes
<1>21. Stored(e, o) = {r0} /\ Apart(a, e, o) /\ e.main = saved.main
  <2>1. Stored(e, o) = Stored(saved, o) /\ e.main = saved.main
    BY <1>20 DEF Pushed, Stored, Chain
  <2> QED
    BY <1>18, <2>1 DEF Apart
<1>22. Later(saved, o) = Later(a, o)
  BY <1>16, <1>17, <1>18, BeforeSame
<1>23. BalanceBefore(e, o) = b
  <2>1. BalanceBefore(e, o) = BalanceBefore(a, o)
    BY <1>4, <1>16, <1>21, BeforeSame
  <2> QED
    BY <1>6, <1>16, <2>1 DEF BalanceBefore
<1>24. \A r \in d.main : Behind(o, r.op) => Sooner(o, r.op) /\ Unseen(U, r.op)
  <2> SUFFICES ASSUME NEW r \in d.main, Behind(o, r.op)
               PROVE  Sooner(o, r.op) /\ Unseen(U, r.op)
    OBVIOUS
  <2>1. r.op \in Ops /\ Rooted(r.op, R)
    BY DatabaseFacts DEF Sound
  <2>2. Sooner(o, r.op)
    BY <1>1, <2>1, BehindSooner
  <2> QED
    BY <2>1, <2>2 DEF SoonerIsUnseen
<1>25. Later(a, o) # {}
         => LET p == Earliest(Later(a, o)).op IN OnFront(e, p) /\ Unseen(U, p)
  <2> SUFFICES ASSUME Later(a, o) # {}
               PROVE  OnFront(e, Earliest(Later(a, o)).op) /\ Unseen(U, Earliest(Later(a, o)).op)
    OBVIOUS
  <2>1. /\ Earliest(Later(a, o)) \in a.main
        /\ Behind(o, Earliest(Later(a, o)).op)
    BY <1>16, EarliestBehind
  <2> QED
    BY <1>16, <1>20, <1>22, <1>24, <2>1
<1>26. \A p \in a.front : Key(p) = Key(o) \/ OnFront(e, p)
  BY <1>17, <1>20 DEF Pushed, OnFront
<1>27. Pending(e, {Key(o)}, U)
  <2>1. Pending(e, {Key(o)} \cup {Key(o)}, U)
    BY <1>4, <1>16, <1>21, <1>25, <1>26, PendingExchanged
  <2> QED
    BY <2>1 DEF Pending
<1>28. Pending(e, {}, U)
  <2>1. ASSUME NEW r \in e.main, Key(r.op) = Key(o) PROVE Current(e, r)
    <3>1. r \in Stored(e, o)
      BY <1>4, <2>1, StoredFacts
    <3>2. r = r0
      BY <1>21, <3>1
    <3>3. BalanceBefore(e, q) = b
      BY <1>14, <1>23 DEF BalanceBefore
    <3> QED
      BY <1>11, <1>19, <3>2, <3>3 DEF Current
  <2> QED
    BY <1>27, <2>1 DEF Pending
<1>29. \A r \in e.main : r \in d.main \/ Rooted(r.op, R)
  BY <1>13, <1>16, <1>17, <1>19, <1>21
<1>30. \A p \in e.index : p \in d.index \/ Rooted(p, R)
  BY <1>13, <1>16, <1>17, <1>20 DEF Pushed
<1>31. \A p \in e.front : p \in d.front \/ (Rooted(p, R) /\ New(o, p))
  <2> SUFFICES ASSUME NEW p \in e.front, p \notin a.front
               PROVE  Rooted(p, R) /\ New(o, p)
    BY <1>16
  <2>1. PICK r \in saved.main : r.op = p /\ Behind(o, p)
    BY <1>17, <1>20 DEF Pushed
  <2>2. r # r0
    <3>1. ~ Less(Stamp(o), Stamp(o))
      BY <1>1, OneWay
    <3> QED
      BY <1>11, <1>19, <2>1, <3>1 DEF Behind
  <2>3. r \in d.main
    BY <1>16, <1>17, <2>1, <2>2
  <2> QED
    BY <1>24, <2>1, <2>3 DEF New
<1> QED
  BY <1>4, <1>28, <1>29, <1>30, <1>31 DEF e

-----------------------------------------------------------------------------
(***************************************************************************)
(* One turn: o is the first of the front, rest is what else there is.      *)
(***************************************************************************)

LEMMA SoonerApart ==
  ASSUME NEW o \in Ops, NEW p \in Ops, Plain(o), Plain(p), Sooner(o, p)
  PROVE  Key(o) # Key(p)
<1> SUFFICES ASSUME Key(o) = Key(p) PROVE FALSE
  OBVIOUS
<1>1. o.date = p.date /\ o.kind = p.kind /\ o.date \in Nat
  BY KeyFacts, Numbers
<1>2. Less(Key(o), Key(p))
  BY <1>1 DEF Sooner, Plain
<1> QED
  BY <1>2, OneWay

LEMMA StampKeyLess ==
  ASSUME NEW o \in Ops, NEW p \in Ops, o.store = p.store, o.batch = p.batch,
         Less(Stamp(o), Stamp(p))
  PROVE  Less(Key(o), Key(p))
BY StampLess, KeyLess

LEMMA ArrivalNew ==
  ASSUME Orderly, NEW R, Meant(R), NEW o \in Sane, Rooted(o, R), ~ Virtual(o),
         NEW c \in Sane, Alike(c, o), IsTransfer(c)
  PROVE  /\ Arrival(c) \in Sane /\ Rooted(Arrival(c), R) /\ New(o, Arrival(c))
<1> DEFINE y == Arrival(c)
<1>1. y \in Sane /\ c \in Ops /\ o \in Ops
  BY ArrivalFacts, SaneFacts
<1>2. /\ y.id = c.id /\ y.date = c.date /\ y.store = c.into /\ y.into = c.store
      /\ y.batch = c.batch
  BY <1>1 DEF Arrival, Ops
<1>3. y.kind = "receive" /\ y.dep = TRUE
  BY <1>1 DEF Arrival, Ops
<1> HIDE DEF y
<1>4. /\ c.id = o.id /\ c.date = o.date /\ c.store = o.store /\ c.into = o.into
      /\ c.batch = o.batch /\ c.kind = o.kind
  BY DEF Alike
<1>5. o.kind = "issue" /\ o.into # NoStore
  BY <1>4 DEF IsTransfer
<1>6. PICK e \in R : Belongs(o, e)
  BY DEF Rooted
<1>7. e.kind = "issue" /\ o.store = e.store /\ o.into = e.into
  BY <1>1, <1>5, <1>6, BelongsFacts
<1>8. Virtual(e) \/ o.batch = e.batch
  BY <1>5, <1>6 DEF Belongs, IsOwn, IsPart, IsArrival
<1>9. IsArrival(y, e)
  BY <1>2, <1>3, <1>4, <1>5, <1>7, <1>8 DEF IsArrival, IsTransfer
<1>10. Rooted(y, R)
  BY <1>2, <1>4, <1>6, <1>9 DEF Rooted, Belongs
<1>11. New(o, y)
  BY <1>2, <1>3, <1>4, <1>5 DEF New
<1> QED
  BY <1>1, <1>10, <1>11 DEF y

(* The queue of operations to be looked at is in order.                    *)
Ordered(F, U) == \A u \in U, p \in F : Passed(u, p)

(* Every operation is one that documents stand for, or comes of such. *)
Placed(d, U, R) ==
  /\ \A r \in d.main : Rooted(r.op, R)
  /\ \A p \in d.index : Rooted(p, R)
  /\ \A p \in d.front : Rooted(p, R)
  /\ \A u \in U : Rooted(u, R)

(* A ledger on the way, with what has been looked at. *)
OnTheWay(d, U, R) ==
  Sound(d) /\ U \subseteq Sane /\ Placed(d, U, R) /\ Pending(d, {}, U) /\ Ordered(d.front, U)

LEMMA TurnStep ==
  ASSUME Orderly, NEW R, Meant(R), NEW d, NEW U, OnTheWay(d, U, R),
         NEW o \in d.front, \A q \in d.front : o = q \/ Less(Key(o), Key(q)),
         NEW rest, Sound(rest), rest.main = d.main, rest.index = d.index,
         rest.front = d.front \ {o}
  PROVE  /\ o \in U => OnTheWay(rest, U, R)
         /\ o \notin U /\ ~ Virtual(o) => OnTheWay(Calculated(rest, o), U \cup {o}, R)
         /\ o \notin U /\ Virtual(o) =>
              \A s \in Queues(rest, o) : OnTheWay(Distributed(rest, o, s), U \cup {o}, R)
<1> DEFINE V == U \cup {o}
<1>1. /\ Sound(d) /\ U \subseteq Sane /\ Placed(d, U, R) /\ Pending(d, {}, U)
      /\ Ordered(d.front, U)
  BY DEF OnTheWay
<1>2. o \in Sane /\ o \in Ops /\ Rooted(o, R) /\ Plain(o) /\ V \subseteq Sane
  <2>1. o \in Sane /\ o \in Ops /\ Rooted(o, R)
    BY <1>1, DatabaseFacts, SaneFacts DEF Sound, Placed
  <2> QED
    BY <1>1, <2>1, RootedFacts
<1>3. /\ \A r \in d.main : r.op \in Ops /\ Rooted(r.op, R) /\ Plain(r.op)
      /\ \A p \in d.front : p \in Ops /\ Rooted(p, R) /\ Plain(p)
      /\ \A u \in U : u \in Ops /\ Rooted(u, R) /\ Plain(u)
      /\ \A p \in d.index : p \in Ops /\ Rooted(p, R) /\ Plain(p)
  BY <1>1, DatabaseFacts, SaneFacts, RootedFacts DEF Sound, Placed
<1>4. \A r : Current(d, r) <=> Current(rest, r)
  BY DEF Current, BalanceBefore, Earlier, Chain
<1>5. KeysApart(d.front)
  BY <1>1 DEF Sound, IsKeyed
<1>6. \A u \in U, p \in d.front : Passed(u, p)
  BY <1>1 DEF Ordered
<1>7. ASSUME o \in U PROVE OnTheWay(rest, U, R)
  <2>1. Pending(rest, {}, U)
    <3> SUFFICES ASSUME NEW r \in d.main, ~ Current(rest, r)
                 PROVE  OnFront(rest, r.op) /\ Unseen(U, r.op)
      BY DEF Pending
    <3>1. OnFront(d, r.op) /\ Unseen(U, r.op)
      BY <1>1, <1>4 DEF Pending
    <3>2. Key(o) # Key(r.op)
      BY <1>7, <3>1 DEF Unseen
    <3> QED
      BY <3>1, <3>2 DEF OnFront
  <2>2. Placed(rest, U, R) /\ Ordered(rest.front, U)
    BY <1>1 DEF Placed, Ordered
  <2> QED
    BY <1>1, <2>1, <2>2 DEF OnTheWay
<1>8. SoonerIsUnseen(o, V, R)
  <2> SUFFICES ASSUME NEW p \in Ops, Rooted(p, R), Sooner(o, p), NEW u \in V
               PROVE  Key(u) # Key(p)
    BY DEF SoonerIsUnseen, Unseen
  <2>1. Plain(p)
    BY RootedFacts
  <2>2. CASE u \in U
    BY <1>2, <1>3, <1>6, <2>1, <2>2, SoonerUnseen
  <2>3. CASE u = o
    BY <1>2, <2>1, <2>3, SoonerApart
  <2> QED
    BY <2>2, <2>3
<1>9. Pending(rest, {Key(o)}, V)
  <2> SUFFICES ASSUME NEW r \in d.main, ~ Current(rest, r), Key(r.op) # Key(o)
               PROVE  OnFront(rest, r.op) /\ Unseen(V, r.op)
    BY DEF Pending
  <2>1. OnFront(d, r.op) /\ Unseen(U, r.op)
    BY <1>1, <1>4 DEF Pending
  <2> QED
    BY <2>1 DEF OnFront, Unseen
<1>10. \A r \in rest.main : Behind(o, r.op) => Sooner(o, r.op) /\ Unseen(V, r.op)
  <2> SUFFICES ASSUME NEW r \in rest.main, Behind(o, r.op)
               PROVE  Sooner(o, r.op) /\ Unseen(V, r.op)
    OBVIOUS
  <2>1. Sooner(o, r.op)
    BY <1>2, <1>3, BehindSooner
  <2> QED
    BY <1>3, <1>8, <2>1 DEF SoonerIsUnseen
<1>11. \A r \in Earlier(rest, o) : Current(rest, r)
  <2> SUFFICES ASSUME NEW r \in Earlier(rest, o), ~ Current(rest, r) PROVE FALSE
    OBVIOUS
  <2>1. /\ r \in rest.main /\ r.op \in Ops /\ r.op.store = o.store /\ r.op.batch = o.batch
        /\ Less(Stamp(r.op), Stamp(o))
    BY <1>3 DEF Earlier, Chain
  <2>2. Less(Key(r.op), Key(o))
    BY <1>2, <2>1, StampKeyLess
  <2>3. Key(r.op) # Key(o) /\ ~ Less(Key(o), Key(r.op))
    BY <1>2, <2>1, <2>2, OneWay
  <2>4. PICK p \in rest.front : Key(p) = Key(r.op)
    BY <1>9, <2>1, <2>3 DEF Pending, OnFront
  <2> QED
    BY <2>3, <2>4
<1>12. NoCounts(rest)
  BY <1>3 DEF NoCounts
(* What comes of looking at o, either way. *)
<1>13. ASSUME NEW e, Sound(e), Pending(e, {}, V),
              \A r \in e.main : r \in d.main \/ Rooted(r.op, R),
              \A p \in e.index : p \in d.index \/ Rooted(p, R),
              \A p \in e.front : p \in rest.front \/ (Rooted(p, R) /\ New(o, p))
       PROVE  OnTheWay(e, V, R)
  <2>1. Placed(e, V, R)
    BY <1>2, <1>3, <1>13 DEF Placed
  <2>2. Ordered(e.front, V)
    <3> SUFFICES ASSUME NEW u \in V, NEW p \in e.front PROVE Passed(u, p)
      BY DEF Ordered
    <3>1. p \in Ops /\ Rooted(p, R) /\ Plain(p)
      BY <1>13, <2>1, DatabaseFacts, RootedFacts DEF Sound, Placed
    <3>2. CASE p \in rest.front /\ u \in U
      BY <1>6, <3>2
    <3>3. CASE p \in rest.front /\ u = o
      BY <1>2, <3>1, <3>3, FirstPassed
    <3>4. CASE New(o, p) /\ u \in U
      BY <1>2, <1>3, <1>6, <3>1, <3>4, PassedNew
    <3>5. CASE New(o, p) /\ u = o
      BY <1>2, <3>1, <3>5, FirstPassed
    <3> QED
      BY <1>13, <3>2, <3>3, <3>4, <3>5
  <2> QED
    BY <1>2, <1>13, <2>1, <2>2 DEF OnTheWay
<1> HIDE DEF V
<1>14. ASSUME ~ Virtual(o) PROVE OnTheWay(Calculated(rest, o), V, R)
  <2> DEFINE e == Calculated(rest, o)
  <2>1. NextUnseen(rest, o, V)
    BY <1>10 DEF NextUnseen
  <2>2. /\ Sound(e) /\ Pending(e, {}, V)
        /\ \A r \in e.main : r \in rest.main \/ Alike(r.op, o)
        /\ \A p \in e.index : p \in rest.index \/ Alike(p, o)
        /\ \A p \in e.front : \/ p \in rest.front
                              \/ \E r \in rest.main : r.op = p /\ Behind(o, p)
                              \/ \E c \in Sane : /\ Alike(c, o) /\ IsTransfer(c)
                                                 /\ p = Arrival(c)
    BY <1>2, <1>9, <1>14, <2>1, CalculatedKeeps
  <2> HIDE DEF e
  <2>3. \A p : Alike(p, o) => Rooted(p, R)
    BY <1>2, AlikeFacts DEF Rooted
  <2>4. \A c \in Sane : Alike(c, o) /\ IsTransfer(c)
                        => Rooted(Arrival(c), R) /\ New(o, Arrival(c))
    BY <1>2, <1>14, ArrivalNew
  <2>5. \A r \in rest.main : Behind(o, r.op) => Rooted(r.op, R) /\ New(o, r.op)
    BY <1>3, <1>10 DEF New
  <2>6. \A p \in e.front : p \in rest.front \/ (Rooted(p, R) /\ New(o, p))
    BY <2>2, <2>4, <2>5
  <2>7. OnTheWay(e, V, R)
    BY <1>13, <2>2, <2>3, <2>6
  <2> QED
    BY <2>7 DEF e
<1>15. ASSUME Virtual(o), NEW s \in Queues(rest, o)
       PROVE  OnTheWay(Distributed(rest, o, s), V, R)
  <2> DEFINE e == Distributed(rest, o, s)
  <2>1. o.kind = "issue"
    BY <1>2, <1>15 DEF Plain, Virtual
  <2>2. \A r \in rest.main : Rooted(r.op, R)
    BY <1>3
  <2>3. /\ Sound(e) /\ Pending(e, {}, V)
        /\ \A r \in e.main : r \in rest.main \/ Rooted(r.op, R)
        /\ \A p \in e.index : p \in rest.index \/ Rooted(p, R)
        /\ \A p \in e.front : p \in rest.front \/ (Rooted(p, R) /\ New(o, p))
    BY <1>2, <1>8, <1>9, <1>11, <1>12, <1>15, <2>1, <2>2, DistributedKeeps
  <2> HIDE DEF e
  <2>4. OnTheWay(e, V, R)
    BY <1>13, <2>3
  <2> QED
    BY <2>4 DEF e
<1> QED
  BY <1>7, <1>14, <1>15 DEF V

-----------------------------------------------------------------------------
(***************************************************************************)
(* The ledger and the documents.                                           *)
(***************************************************************************)

(* What document i stands for as far as the ledger has been told: until it *)
(* is deleted there, the old version.                                      *)
Means(i) ==
  IF queue # <<>> /\ Head(queue).what = "del" /\ Head(queue).op.id = i
  THEN {Head(queue).op} ELSE docs[i]

Roots == {o \in Entries : o \in Means(o.id)}

(* What an edit leaves to be recorded. *)
QueueFits ==
  \/ queue = <<>>
  \/ \E o \in Entries : queue = <<Put(o)>> /\ docs[o.id] = {o}
  \/ \E old \in Removable : queue = <<Del(old)>> /\ docs[old.id] = {}
  \/ \E old \in Removable, o \in Entries :
       old.id = o.id /\ queue = <<Del(old), Put(o)>> /\ docs[o.id] = {o}

(* The inductive invariant of orderly ledgers. *)
BalancesOK ==
  /\ LedgerOK
  /\ QueueFits
  /\ OnTheWay(db, uniq, Roots)
  /\ db.front = {} => uniq = {}

LEMMA RootsMeant == ASSUME LedgerOK PROVE Meant(Roots)
<1>1. docs \in [Ids -> {{}} \cup {{o} : o \in Entries}]
  BY DEF LedgerOK, DocsOK
<1>2. \A e \in Entries : e.id \in Ids
  BY DEF Ids
<1>3. \A i \in Ids : \A e, f \in Means(i) : e = f
  BY <1>1 DEF Means
<1> QED
  BY <1>2, <1>3 DEF Meant, Roots

(* What belongs to something of R belongs to something of S. *)
LEMMA PlacedAlso ==
  ASSUME NEW R, NEW S, \A e \in R : \E f \in S : \A p : Belongs(p, e) => Belongs(p, f),
         NEW d, NEW U, Placed(d, U, R)
  PROVE  Placed(d, U, S)
<1>1. \A p : Rooted(p, R) => Rooted(p, S)
  BY DEF Rooted
<1> QED
  BY <1>1 DEF Placed

(* An edit is made of a ledger that is not on the way. *)
LEMMA EditKeepsBalances ==
  ASSUME BalancesOK, LedgerOK', NEW i, NEW new, NEW mutations, Edit(i, new, mutations),
         QueueFits',
         \A e \in Roots : \E f \in Roots' : \A p : Belongs(p, e) => Belongs(p, f)
  PROVE  BalancesOK'
<1>1. db' = db /\ uniq' = uniq /\ db.front = {} /\ uniq = {}
  BY DEF Edit, Idle, BalancesOK
<1>2. Sound(db) /\ Placed(db, {}, Roots) /\ Pending(db, {}, {})
  BY <1>1 DEF BalancesOK, OnTheWay
<1>3. Placed(db, {}, Roots')
  BY <1>2, PlacedAlso
<1>4. OnTheWay(db, {}, Roots')
  BY <1>1, <1>2, <1>3 DEF OnTheWay, Ordered
<1> QED
  BY <1>1, <1>4 DEF BalancesOK

LEMMA EnterKeepsBalances ==
  ASSUME Orderly, BalancesOK, NEW o \in Entries, Enter(o)
  PROVE  BalancesOK'
<1>1. /\ Edit(o.id, {o}, <<Put(o)>>) /\ docs[o.id] = {} /\ queue = <<>>
      /\ docs' = [docs EXCEPT ![o.id] = {o}] /\ queue' = <<Put(o)>>
      /\ docs \in [Ids -> {{}} \cup {{p} : p \in Entries}]
      /\ LedgerOK
  BY DEF Enter, Edit, Idle, BalancesOK, LedgerOK, DocsOK
<1>2. LedgerOK'
  BY <1>1, EnterKeeps
<1>3. o.id \in Ids
  BY DEF Ids
<1>4. QueueFits'
  BY <1>1, <1>3 DEF QueueFits
<1>5. \A e \in Roots : e \in Roots'
  <2> SUFFICES ASSUME NEW e \in Entries, e \in docs[e.id] PROVE e \in Means(e.id)'
    BY <1>1 DEF Roots, Means
  <2>1. e.id # o.id /\ e.id \in Ids
    BY <1>1 DEF Ids
  <2>2. docs'[e.id] = docs[e.id]
    BY <1>1, <2>1
  <2>3. Head(queue').what # "del"
    BY <1>1 DEF Put
  <2> QED
    BY <2>2, <2>3 DEF Means
<1> QED
  BY <1>1, <1>2, <1>4, <1>5, EditKeepsBalances

(* The operation of a document that stays in its place still has the same  *)
(* dependants.                                                             *)
LEMMA SamePlaceBelongs ==
  ASSUME NEW old \in Entries, NEW o \in Entries, old.id = o.id, old.kind = o.kind,
         SamePlace(old, o)
  PROVE  \A p : Belongs(p, old) => Belongs(p, o)
<1>1. old.dep = FALSE /\ o.dep = FALSE
  BY LedgerAssumption DEF DocumentOps
<1>2. Virtual(old) <=> Virtual(o)
  BY <1>1 DEF Virtual, SamePlace
<1>3. IsTransfer(old) <=> IsTransfer(o)
  BY DEF IsTransfer, SamePlace
<1> QED
  BY <1>2, <1>3 DEF Belongs, IsOwn, IsPart, IsArrival, SamePlace

LEMMA ChangeKeepsBalances ==
  ASSUME Orderly, BalancesOK, NEW old \in Entries, NEW o \in Entries, old.id = o.id,
         Change(old, o)
  PROVE  BalancesOK'
<1> DEFINE ms == IF SamePlace(old, o) THEN <<Put(o)>> ELSE <<Del(old), Put(o)>>
<1>1. /\ Edit(o.id, {o}, ms) /\ docs[o.id] = {old} /\ queue = <<>>
      /\ docs' = [docs EXCEPT ![o.id] = {o}] /\ queue' = ms
      /\ docs \in [Ids -> {{}} \cup {{p} : p \in Entries}]
      /\ LedgerOK /\ old.kind = o.kind /\ (SamePlace(old, o) \/ old \in Removable)
  BY DEF Change, Edit, Idle, BalancesOK, LedgerOK, DocsOK
<1>2. LedgerOK'
  BY <1>1, ChangeKeeps
<1>3. o.id \in Ids
  BY DEF Ids
<1>4. QueueFits'
  BY <1>1, <1>3 DEF QueueFits
<1>5. \A e \in Entries : e \in docs[e.id] /\ e # old => e \in docs'[e.id] /\ e.id # o.id
  <2> SUFFICES ASSUME NEW e \in Entries, e \in docs[e.id], e # old
               PROVE  e \in docs'[e.id] /\ e.id # o.id
    OBVIOUS
  <2>1. e.id # o.id
    BY <1>1
  <2> QED
    BY <1>1, <2>1 DEF Ids
<1>6. \A e \in Roots : \E f \in Roots' : \A p : Belongs(p, e) => Belongs(p, f)
  <2> SUFFICES ASSUME NEW e \in Entries, e \in docs[e.id]
               PROVE  \E f \in Entries : /\ f \in Means(f.id)'
                                         /\ \A p : Belongs(p, e) => Belongs(p, f)
    BY <1>1 DEF Roots, Means
  <2>1. CASE SamePlace(old, o)
    <3>1. Head(queue').what # "del"
      BY <1>1, <2>1 DEF Put
    <3>2. \A f \in Entries : f \in docs'[f.id] => f \in Means(f.id)'
      BY <3>1 DEF Means
    <3>3. CASE e = old
      <4>1. o \in Means(o.id)'
        BY <1>1, <1>3, <3>2
      <4> QED
        BY <1>1, <2>1, <3>3, <4>1, SamePlaceBelongs
    <3>4. CASE e # old
      BY <1>5, <3>2, <3>4
    <3> QED
      BY <3>3, <3>4
  <2>2. CASE ~ SamePlace(old, o)
    <3>1. Head(queue') = Del(old) /\ queue' # <<>>
      BY <1>1, <2>2
    <3>2. Del(old).what = "del" /\ Del(old).op = old
      BY DEF Del
    <3>3. old \in Means(old.id)'
      BY <3>1, <3>2 DEF Means
    <3>4. e # old => e \in Means(e.id)'
      BY <1>5, <3>1, <3>2 DEF Means
    <3> QED
      BY <3>3, <3>4
  <2> QED
    BY <2>1, <2>2
<1> HIDE DEF ms
<1> QED
  BY <1>1, <1>2, <1>4, <1>6, EditKeepsBalances

LEMMA WithdrawKeepsBalances ==
  ASSUME Orderly, BalancesOK, NEW old \in Entries, Withdraw(old)
  PROVE  BalancesOK'
<1>1. /\ Edit(old.id, {}, <<Del(old)>>) /\ docs[old.id] = {old} /\ queue = <<>>
      /\ docs' = [docs EXCEPT ![old.id] = {}] /\ queue' = <<Del(old)>>
      /\ docs \in [Ids -> {{}} \cup {{p} : p \in Entries}]
      /\ LedgerOK /\ old \in Removable
  BY DEF Withdraw, Edit, Idle, BalancesOK, LedgerOK, DocsOK
<1>2. LedgerOK'
  BY <1>1, WithdrawKeeps
<1>3. old.id \in Ids
  BY DEF Ids
<1>4. QueueFits'
  BY <1>1, <1>3 DEF QueueFits
<1>5. \A e \in Roots : e \in Roots'
  <2> SUFFICES ASSUME NEW e \in Entries, e \in docs[e.id] PROVE e \in Means(e.id)'
    BY <1>1 DEF Roots, Means
  <2>1. Head(queue') = Del(old) /\ queue' # <<>> /\ Del(old).what = "del" /\ Del(old).op = old
    BY <1>1 DEF Del
  <2>2. CASE e.id = old.id
    BY <1>1, <2>1, <2>2 DEF Means
  <2>3. CASE e.id # old.id
    <3>1. docs'[e.id] = docs[e.id]
      BY <1>1, <2>3 DEF Ids
    <3> QED
      BY <2>1, <2>3, <3>1 DEF Means
  <2> QED
    BY <2>2, <2>3
<1> QED
  BY <1>1, <1>2, <1>4, <1>5, EditKeepsBalances

(* A ledger that is not on the way, and what is left when the operation o  *)
(* is deleted there.                                                       *)
LEMMA DeleteKeeps ==
  ASSUME NEW d, Sound(d), d.front = {}, Pending(d, {}, {}), NEW o \in Sane, ~ Virtual(o)
  PROVE  LET e == Delete(d, o)
         IN  /\ Sound(e) /\ Pending(e, {}, {})
             /\ e.main \subseteq d.main /\ e.index \subseteq d.index
             /\ \A r \in e.main : /\ Key(r.op) # Key(o)
                                  /\ IsTransfer(o) => Key(r.op) # Key(Arrival(o))
             /\ \A p \in e.front : \E r \in e.main : r.op = p
<1> DEFINE g == TakeOut(d, o)
<1>1. \A f : NextUnseen(f, o, {}) /\ NextUnseen(f, Arrival(o), {})
  BY DEF NextUnseen, Unseen
<1>2. /\ Sound(g) /\ Pending(g, {}, {}) /\ g.main = d.main \ Stored(d, o)
      /\ g.index \subseteq d.index
      /\ \A p \in g.front : \/ p \in d.front /\ Key(p) # Key(o)
                            \/ \E r \in g.main : r.op = p /\ Behind(o, p)
  BY <1>1, TakeOutKeeps
<1>3. Delete(d, o) = IF IsTransfer(o) THEN TakeOut(g, Arrival(o)) ELSE g
  BY DEF Delete
<1> HIDE DEF g
<1>4. \A r \in g.main : r \in d.main /\ Key(r.op) # Key(o)
  BY <1>2, StoredFacts
<1>5. \A p \in g.front : \E r \in g.main : r.op = p
  BY <1>2
<1>6. CASE ~ IsTransfer(o)
  BY <1>2, <1>3, <1>4, <1>5, <1>6
<1>7. CASE IsTransfer(o)
  <2> DEFINE z == Arrival(o)
             e == TakeOut(g, z)
  <2>1. z \in Sane /\ ~ Virtual(z)
    BY <1>7, ArrivalFacts
  <2>2. NextUnseen(g, z, {})
    BY <1>1
  <2> HIDE DEF z
  <2>3. /\ Sound(e) /\ Pending(e, {}, {}) /\ e.main = g.main \ Stored(g, z)
        /\ e.index \subseteq g.index
        /\ \A p \in e.front : \/ p \in g.front /\ Key(p) # Key(z)
                              \/ \E r \in e.main : r.op = p /\ Behind(z, p)
    BY <1>2, <2>1, <2>2, TakeOutKeeps
  <2> HIDE DEF e
  <2>4. \A r \in g.main : r \in Stored(g, z) <=> Key(r.op) = Key(z)
    BY <1>2, <2>1, StoredFacts
  <2>5. \A p \in e.front : \E r \in e.main : r.op = p
    BY <1>5, <2>3, <2>4
  <2>6. e.index \subseteq d.index /\ \A r \in e.main : r \in d.main /\ Key(r.op) # Key(o) /\ Key(r.op) # Key(z)
    BY <1>2, <1>4, <2>3, <2>4
  <2> QED
    BY <1>3, <1>7, <2>3, <2>5, <2>6 DEF e, z
<1> QED
  BY <1>6, <1>7

(* What belongs to an operation that names its batch has its key, or that  *)
(* of what arrives of it.                                                  *)
LEMMA BelongsKeys ==
  ASSUME NEW o \in Entries, ~ Virtual(o), NEW p \in Ops, Belongs(p, o)
  PROVE  Key(p) = Key(o) \/ (IsTransfer(o) /\ Key(p) = Key(Arrival(o)))
<1>1. o \in Ops /\ o.dep = FALSE
  BY OpFacts, SaneFacts, LedgerAssumption DEF DocumentOps
<1>2. p.id = o.id /\ p.date = o.date /\ (IsOwn(p, o) \/ IsArrival(p, o))
  BY DEF Belongs, IsPart
<1>3. CASE IsOwn(p, o)
  BY <1>1, <1>2, <1>3 DEF IsOwn, Key, Order, Flag
<1>4. CASE IsArrival(p, o)
  <2> DEFINE y == Arrival(o)
  <2>1. /\ y.id = o.id /\ y.date = o.date /\ y.store = o.into /\ y.batch = o.batch
        /\ y.kind = "receive"
    BY <1>1 DEF Arrival, Ops
  <2>2. y.dep = TRUE
    BY <1>1 DEF Arrival, Ops
  <2> HIDE DEF y
  <2>3. Key(p) = Key(y)
    BY <1>2, <1>4, <2>1, <2>2 DEF IsArrival, Key, Order, Flag
  <2> QED
    BY <1>4, <2>3 DEF IsArrival, y
<1> QED
  BY <1>2, <1>3, <1>4

(* A new version of a document's operation keeps the dependants of the old *)
(* one.                                                                    *)
LEMMA PutKeepsBalances ==
  ASSUME Orderly, BalancesOK, LedgerOK', NEW o \in Entries, queue = <<Put(o)>>,
         docs[o.id] = {o}, Record
  PROVE  BalancesOK'
<1> DEFINE known == {r.op.parts : r \in Stored(db, o)}
           parts == IF known = {} THEN <<>> ELSE CHOOSE x \in known : TRUE
           p == [o EXCEPT !.parts = parts]
<1>1. /\ Head(queue) = Put(o) /\ Put(o).op = o /\ Put(o).what = "put" /\ "put" # "del"
      /\ Tail(queue) = <<>>
  BY DEF Put
<1>2. /\ db.front = {} /\ db' = Push(db, p) /\ queue' = <<>>
      /\ docs' = docs /\ uniq' = uniq
  BY <1>1 DEF Record
<1>3. uniq = {} /\ LedgerOK /\ OnTheWay(db, {}, Roots)
  BY <1>2 DEF BalancesOK
<1>4. Roots' = Roots /\ o \in Roots
  <2>1. \A i : Means(i) = docs[i] /\ Means(i)' = docs[i]
    BY <1>1, <1>2 DEF Means
  <2> QED
    BY <2>1 DEF Roots
<1>5. Meant(Roots) /\ Sound(db) /\ Placed(db, {}, Roots) /\ Pending(db, {}, {})
  BY <1>3, RootsMeant DEF OnTheWay
<1>6. o \in Sane /\ o \in Ops /\ o.dep = FALSE
  BY OpFacts, SaneFacts, LedgerAssumption DEF DocumentOps
<1>7. \A i \in DOMAIN parts : parts[i].kind = "issue"
  <2>1. ASSUME NEW r \in Stored(db, o), NEW i \in DOMAIN r.op.parts
        PROVE  r.op.parts[i].kind = "issue"
    <3>1. r \in db.main /\ Key(r.op) = Key(o) /\ r.op \in Ops
      BY <1>5, <1>6, StoredFacts, DatabaseFacts DEF Sound
    <3>2. ~ r.op.dep
      BY <1>6, <3>1, KeyFacts
    <3>3. PICK e \in Roots : Belongs(r.op, e)
      BY <1>5, <3>1 DEF Placed, Rooted
    <3> QED
      BY <3>2, <3>3 DEF Belongs, IsOwn, IsPart, IsArrival
  <2>2. \A x \in known : \A i \in DOMAIN x : x[i].kind = "issue"
    BY <2>1
  <2>3. known = {} => parts = <<>>
    OBVIOUS
  <2>4. known # {} => parts \in known
    OBVIOUS
  <2> HIDE DEF known, parts
  <2> QED
    BY <2>2, <2>3, <2>4
<1> HIDE DEF parts
<1>8. /\ p.id = o.id /\ p.date = o.date /\ p.kind = o.kind /\ p.store = o.store
      /\ p.batch = o.batch /\ p.into = o.into /\ p.dep = o.dep
  BY <1>6 DEF Ops
<1>9. p.parts = parts
  BY <1>6 DEF Ops
<1> HIDE DEF p
<1>10. Rooted(p, Roots)
  <2>1. Belongs(p, o)
    BY <1>6, <1>7, <1>8, <1>9 DEF Belongs, IsOwn
  <2> QED
    BY <1>4, <2>1 DEF Rooted
<1>11. db'.main = db.main /\ db'.index = db.index /\ db'.front \subseteq {p} /\ db'.front # {}
  <2>1. db \in Databases
    BY <1>5 DEF Sound
  <2> QED
    BY <1>2, <2>1 DEF Push, Databases
<1>12. Sound(db')
  BY DEF LedgerOK
<1>13. Placed(db', {}, Roots)
  BY <1>5, <1>10, <1>11 DEF Placed
<1>14. Pending(db', {}, {})
  <2>1. \A r : Current(db', r) <=> Current(db, r)
    BY <1>11 DEF Current, BalanceBefore, Earlier, Chain
  <2>2. \A r \in db.main : Current(db, r)
    BY <1>2, <1>5 DEF Pending, OnFront
  <2> QED
    BY <1>11, <2>1, <2>2 DEF Pending
<1>15. OnTheWay(db', uniq', Roots')
  BY <1>2, <1>3, <1>4, <1>12, <1>13, <1>14 DEF OnTheWay, Ordered
<1> QED
  BY <1>2, <1>3, <1>15 DEF BalancesOK, QueueFits

(* Nothing that belongs to a deleted operation is left.                    *)
LEMMA DelKeepsBalances ==
  ASSUME Orderly, BalancesOK, LedgerOK', NEW old \in Removable, Record,
         Head(queue) = Del(old), queue # <<>>,
         QueueFits', queue' = <<>> \/ \E o : queue' = <<Put(o)>>
  PROVE  BalancesOK'
<1>1. Del(old).op = old /\ Del(old).what = "del"
  BY DEF Del
<1>2. /\ db.front = {} /\ db' = Delete(db, old) /\ queue' = Tail(queue)
      /\ docs' = docs /\ uniq' = uniq
  BY <1>1 DEF Record
<1>3. uniq = {} /\ LedgerOK /\ OnTheWay(db, {}, Roots)
  BY <1>2 DEF BalancesOK
<1>4. Meant(Roots) /\ Sound(db) /\ Placed(db, {}, Roots) /\ Pending(db, {}, {})
  BY <1>3, RootsMeant DEF OnTheWay
<1>5. old \in Entries /\ old \in Sane /\ ~ Virtual(old)
  <2>1. old \in Entries /\ old \in Sane /\ old.kind \in Kinds
    BY OpFacts, LedgerAssumption DEF DocumentOps
  <2>2. old.kind # "inventory" /\ Careful
    BY <2>1 DEF Orderly
  <2> QED
    BY <2>1, <2>2 DEF Careful, Virtual, Kinds
<1>6. /\ Sound(db') /\ Pending(db', {}, {})
      /\ db'.main \subseteq db.main /\ db'.index \subseteq db.index
      /\ \A r \in db'.main : /\ Key(r.op) # Key(old)
                             /\ IsTransfer(old) => Key(r.op) # Key(Arrival(old))
      /\ \A p \in db'.front : \E r \in db'.main : r.op = p
  BY <1>2, <1>4, <1>5, DeleteKeeps
<1>7. \A r \in db'.main : Rooted(r.op, Roots')
  <2> SUFFICES ASSUME NEW r \in db'.main PROVE Rooted(r.op, Roots')
    OBVIOUS
  <2>1. r \in db.main /\ r.op \in Ops
    BY <1>4, <1>6, DatabaseFacts DEF Sound
  <2>2. PICK e \in Roots : Belongs(r.op, e)
    BY <1>4, <2>1 DEF Placed, Rooted
  <2>3. e # old
    BY <1>5, <1>6, <2>1, <2>2, BelongsKeys
  <2>4. \A i : Means(i) = IF old.id = i THEN {old} ELSE docs[i]
    BY <1>1 DEF Means
  <2>5. e \in Entries /\ e.id # old.id /\ e \in docs[e.id]
    BY <2>2, <2>3, <2>4 DEF Roots
  <2>6. Head(queue').what # "del" \/ queue' = <<>>
    <3>1. queue' = <<>> \/ \E o : queue' = <<Put(o)>>
      OBVIOUS
    <3> QED
      BY <3>1 DEF Put
  <2>7. e \in Roots'
    BY <1>2, <2>5, <2>6 DEF Roots, Means
  <2> QED
    BY <2>2, <2>7 DEF Rooted
<1>8. NoCounts(db')
  <2>1. \A r \in db.main : Plain(r.op)
    BY <1>4, DatabaseFacts, RootedFacts DEF Sound, Placed
  <2>2. \A p \in db.index : Plain(p)
    BY <1>4, DatabaseFacts, RootedFacts DEF Sound, Placed
  <2> QED
    BY <1>6, <2>1, <2>2 DEF NoCounts
<1>9. \A p \in db'.index : \E r \in db'.main : r.op = p
  BY <1>6, <1>8, IndexedFacts
<1>10. Placed(db', {}, Roots')
  BY <1>6, <1>7, <1>9 DEF Placed
<1>11. OnTheWay(db', uniq', Roots')
  BY <1>2, <1>3, <1>6, <1>10 DEF OnTheWay, Ordered
<1> QED
  BY <1>2, <1>3, <1>11 DEF BalancesOK

LEMMA RecordKeepsBalances ==
  ASSUME Orderly, BalancesOK, Record
  PROVE  BalancesOK'
<1>1. LedgerOK'
  BY RecordKeeps DEF BalancesOK
<1>2. queue # <<>> /\ queue' = Tail(queue) /\ docs' = docs /\ QueueFits
  BY DEF Record, BalancesOK
<1>3. \A a, b : /\ Tail(<<a>>) = <<>> /\ Tail(<<a, b>>) = <<b>>
                /\ Head(<<a>>) = a /\ Head(<<a, b>>) = a
  OBVIOUS
<1>4. ASSUME NEW o \in Entries, queue = <<Put(o)>>, docs[o.id] = {o}
      PROVE  BalancesOK'
  BY <1>1, <1>4, PutKeepsBalances
<1>5. ASSUME NEW old \in Removable, queue = <<Del(old)>>
      PROVE  BalancesOK'
  <2>1. Head(queue) = Del(old) /\ queue' = <<>>
    BY <1>2, <1>3, <1>5
  <2>2. QueueFits'
    BY <2>1 DEF QueueFits
  <2> QED
    BY <1>1, <1>2, <2>1, <2>2, DelKeepsBalances
<1>6. ASSUME NEW old \in Removable, NEW o \in Entries, queue = <<Del(old), Put(o)>>,
             docs[o.id] = {o}
      PROVE  BalancesOK'
  <2>1. Head(queue) = Del(old) /\ queue' = <<Put(o)>>
    BY <1>2, <1>3, <1>6
  <2>2. QueueFits'
    BY <1>2, <1>6, <2>1 DEF QueueFits
  <2> QED
    BY <1>1, <1>2, <2>1, <2>2, DelKeepsBalances
<1> QED
  BY <1>2, <1>4, <1>5, <1>6 DEF QueueFits

(* The least of the front is there, and least.                             *)
LEMMA FirstIsLeast ==
  ASSUME NEW d, Sound(d), d.front # {}
  PROVE  LET o == CHOOSE p \in d.front : \A q \in d.front : p = q \/ Less(Key(p), Key(q))
         IN  o \in d.front /\ \A q \in d.front : o = q \/ Less(Key(o), Key(q))
<1> DEFINE F == d.front
           R == {q \in F \X F : Less(Key(q[1]), Key(q[2]))}
<1>1. F \subseteq Ops /\ IsFiniteSet(F) /\ F # {} /\ \A p, q \in F : Key(p) = Key(q) => p = q
  BY DatabaseFacts DEF Sound, IsFinite, IsKeyed, KeysApart
<1>2. \A x, y \in F : <<x, y>> \in R <=> Less(Key(x), Key(y))
  OBVIOUS
<1> HIDE DEF F, R
<1>3. \A x, y \in F : x = y \/ Less(Key(x), Key(y)) \/ Less(Key(y), Key(x))
  BY <1>1, KeyOrder
<1>4. \A x, y, z \in F : Less(Key(x), Key(y)) /\ Less(Key(y), Key(z)) => Less(Key(x), Key(z))
  BY <1>1, KeyOrder
<1>5. \E x \in F : \A y \in F : x = y \/ <<x, y>> \in R
  BY <1>1, <1>2, <1>3, <1>4, LeastExists
<1>6. \E x \in F : \A y \in F : x = y \/ Less(Key(x), Key(y))
  BY <1>2, <1>5
<1> QED
  BY ONLY <1>6 DEF F

LEMMA TurnKeepsBalances ==
  ASSUME Orderly, BalancesOK, Turn
  PROVE  BalancesOK'
<1> DEFINE o == Foremost
           F == db.front \ {o}
           rest == [db EXCEPT !.front = F]
           U == uniq \cup {o}
<1>1. LedgerOK /\ LedgerOK' /\ UNCHANGED <<docs, queue>> /\ db.front # {}
      /\ OnTheWay(db, uniq, Roots) /\ QueueFits
  BY TurnKeeps DEF BalancesOK, Turn
<1>2. Meant(Roots) /\ Sound(db) /\ Placed(db, uniq, Roots)
  BY <1>1, RootsMeant DEF OnTheWay
<1>3. o \in db.front /\ \A q \in db.front : o = q \/ Less(Key(o), Key(q))
  BY <1>1, <1>2, FirstIsLeast DEF Foremost
<1>4. \/ o \in uniq /\ Leave(rest, uniq)
      \/ /\ o \notin uniq
         /\ Virtual(o)
         /\ \E s \in Queues(rest, o) :
              Leave(IF o.kind = "issue" THEN Distributed(rest, o, s) ELSE Counted(rest, o, s), U)
      \/ o \notin uniq /\ ~ Virtual(o) /\ Leave(Calculated(rest, o), U)
  BY DEF Turn
<1> HIDE DEF o
<1>5. /\ Sound(rest) /\ rest.front = db.front \ {o}
      /\ rest.main = db.main /\ rest.index = db.index
  <2>1. F \in SUBSET Sane /\ IsFiniteSet(F) /\ KeysApart(F)
    BY <1>2, DatabaseFacts, FS_Subset DEF Sound, IsFinite, IsKeyed, KeysApart
  <2> HIDE DEF F
  <2>2. /\ Sound(rest) /\ rest.front = F /\ rest.main = db.main /\ rest.index = db.index
    BY <1>2, <2>1, FrontSound
  <2> QED
    BY <2>2 DEF F
<1> HIDE DEF rest
<1>6. /\ o \in uniq => OnTheWay(rest, uniq, Roots)
      /\ o \notin uniq /\ ~ Virtual(o) => OnTheWay(Calculated(rest, o), U, Roots)
      /\ o \notin uniq /\ Virtual(o) =>
           \A s \in Queues(rest, o) : OnTheWay(Distributed(rest, o, s), U, Roots)
  BY <1>1, <1>2, <1>3, <1>5, TurnStep
<1>7. Virtual(o) => o.kind = "issue"
  <2>1. Plain(o)
    BY <1>2, <1>3, DatabaseFacts, RootedFacts DEF Sound, Placed
  <2> QED
    BY <2>1 DEF Plain, Virtual
<1> HIDE DEF U
<1>8. \E e, V : OnTheWay(e, V, Roots) /\ Leave(e, V)
  BY <1>4, <1>6, <1>7
<1>9. PICK e, V : OnTheWay(e, V, Roots) /\ db' = e /\ uniq' = IF e.front = {} THEN {} ELSE V
  BY <1>8 DEF Leave
<1>10. e.front = {} => OnTheWay(e, {}, Roots)
  BY <1>9 DEF OnTheWay, Placed, Pending, OnFront, Ordered
<1>11. OnTheWay(db', uniq', Roots)
  BY <1>9, <1>10
<1>12. Roots' = Roots /\ QueueFits'
  BY <1>1 DEF Roots, Means, QueueFits
<1> QED
  BY <1>1, <1>9, <1>11, <1>12 DEF BalancesOK

LEMMA BalancesStay == Orderly => (Spec => []BalancesOK)
<1> SUFFICES ASSUME Orderly PROVE Spec => []BalancesOK
  OBVIOUS
<1>1. Init => BalancesOK
  <2> SUFFICES ASSUME Init PROVE BalancesOK
    OBVIOUS
  <2>1. LedgerOK
    BY EmptySound DEF Init, LedgerOK, DocsOK, QueueOK
  <2>2. db = Empty /\ db.main = {} /\ db.index = {} /\ db.front = {} /\ uniq = {} /\ queue = <<>>
    BY DEF Init, Empty
  <2>3. OnTheWay(db, uniq, Roots)
    BY <2>1, <2>2 DEF OnTheWay, Placed, Pending, Ordered, LedgerOK
  <2> QED
    BY <2>1, <2>2, <2>3 DEF BalancesOK, QueueFits
<1>2. BalancesOK /\ [Next]_vars => BalancesOK'
  <2> SUFFICES ASSUME BalancesOK, [Next]_vars PROVE BalancesOK'
    OBVIOUS
  <2>1. CASE UNCHANGED vars
    BY <2>1 DEF vars, BalancesOK, LedgerOK, DocsOK, QueueOK, QueueFits, Roots, Means
  <2>2. ASSUME NEW o \in Entries, Enter(o) PROVE BalancesOK'
    BY <2>2, EnterKeepsBalances
  <2>3. ASSUME NEW old \in Entries, NEW o \in Entries, old.id = o.id, Change(old, o)
        PROVE  BalancesOK'
    BY <2>3, ChangeKeepsBalances
  <2>4. ASSUME NEW old \in Entries, Withdraw(old) PROVE BalancesOK'
    BY <2>4, WithdrawKeepsBalances
  <2>5. ASSUME NEW old \in Entries, NEW o \in Entries, Refile(old, o) PROVE BalancesOK'
    BY <2>5 DEF Orderly, Refile
  <2>6. CASE Record
    BY <2>6, RecordKeepsBalances
  <2>7. CASE Turn
    BY <2>7, TurnKeepsBalances
  <2> QED
    BY <2>1, <2>2, <2>3, <2>4, <2>5, <2>6, <2>7 DEF Next
<1> QED
  BY <1>1, <1>2, PTL DEF Spec

(* Once an edit is recorded, every stored balance is the one before it     *)
(* changed by its operation at cost, whatever was entered, changed or      *)
(* withdrawn at whatever date: the front reaches all that it has to, and   *)
(* skips nothing for having been looked at before.  So it is as long as    *)
(* documents are orderly.                                                  *)
THEOREM BalancesStayCurrent == Orderly => (Spec => []BalancesAreCurrent)
<1> SUFFICES ASSUME Orderly PROVE Spec => []BalancesAreCurrent
  OBVIOUS
<1>1. BalancesOK => BalancesAreCurrent
  <2> SUFFICES ASSUME BalancesOK, Idle, NEW r \in db.main
               PROVE  IF Virtual(r.op) THEN r.bal = BalanceBefore(db, r.op)
                      ELSE r = Evaluated(BalanceBefore(db, r.op), r.op)
    BY DEF BalancesAreCurrent
  <2>1. Current(db, r)
    BY DEF BalancesOK, OnTheWay, Pending, OnFront, Idle
  <2> QED
    BY <2>1 DEF Current
<1>2. Spec => []BalancesOK
  BY BalancesStay
<1> QED
  BY <1>1, <1>2, PTL
=============================================================================
