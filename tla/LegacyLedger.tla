---------------------------- MODULE LegacyLedger ----------------------------
(***************************************************************************)
(* The older stock ledger, of the animo memory.  Changes of documents come *)
(* with what the client takes for their state before; they are written to  *)
(* the core at once, and the difference is then worked out from a snapshot *)
(* and committed in one batch: the operation itself, the memos, that is    *)
(* balances of a store at the end of a day, and the checkpoints, that is   *)
(* the totals of a store and goods at the beginning of a month.  Nothing   *)
(* is locked in between, and nothing is read back from the batch.          *)
(*                                                                         *)
(* The database holds                                                      *)
(*   <<"op", kind, store, goods, day>>   amount of the operation           *)
(*   <<"memo", store, day>>              balance of a store                *)
(*   <<"point", month>>                  a checkpoint that exists          *)
(*   <<"sum", month, store, goods>>      its totals                        *)
(* where quantity and cost, which never part, are one amount.  A document  *)
(* is a record of its kind, store, goods, day and amount, or None.         *)
(***************************************************************************)
EXTENDS Integers, FiniteSetsExt, SequencesExt, Functions, TLC

CONSTANTS
  Threads,     \* requests at a time
  Versions,    \* Versions[d]: what document d may be, None apart
  None,        \* no document; nothing to do
  Gone,        \* a key that a batch deletes
  Days,        \* days, 0 .. some n
  Asked,       \* the stores and days whose balances are asked for
  MonthLength, \* days of a month
  MaxChanges   \* bound on the changes of documents

Docs   == DOMAIN Versions
Places == {<<v.store, v.goods>> : v \in UNION Range(Versions)}
Stores == {p[1] : p \in Places}

ASSUME LegacyAssumption ==
  /\ MonthLength \in Nat \ {0} /\ MaxChanges \in Nat /\ Asked \subseteq Stores \X Days
  /\ \A d \in Docs, v \in UNION Range(Versions) :
       v # None /\ v.kind \in {"in", "out"} /\ v.day \in Days

Month(day) == day \div MonthLength

VARIABLES
  core,    \* core[d]: document d
  db,      \* the database: a function of the keys in it
  doing,   \* doing[t]: None, what thread t saw of documents, or what it will commit
  astray,  \* history: keys whose values need not be right
  changes  \* number of changes

vars == <<core, db, doing, astray, changes>>

(***************************************************************************)
(* Keys.                                                                   *)
(***************************************************************************)

OpKey(v)    == <<"op", v.kind, v.store, v.goods, v.day>>
Memo(s, t)  == <<"memo", s, t>>
Point(m)    == <<"point", m>>
SumKey(m, p) == <<"sum", m, p[1], p[2]>>
Place(v)    == <<v.store, v.goods>>

Months  == 0 .. Month(Max(Days)) + 1
Points  == {m \in Months : Point(m) \in DOMAIN db}
NextPoint(day) == Month(day) + 1

(***************************************************************************)
(* Amounts and totals.                                                     *)
(***************************************************************************)

Signed(v) == IF v = None THEN 0 ELSE IF v.kind = "in" THEN v.amount ELSE -v.amount

Through(v, kind) == IF v # None /\ v.kind = kind THEN v.amount ELSE 0

(* What a difference adds to the totals; the balance is incoming less      *)
(* outgoing, in the code it is added up beside them.                       *)
Total(b, a) ==
  [ops      |-> (IF a = None THEN 0 ELSE 1) - (IF b = None THEN 0 ELSE 1),
   incoming |-> Through(a, "in") - Through(b, "in"),
   outgoing |-> Through(a, "out") - Through(b, "out")]

NoTotal   == Total(None, None)
Plus(x, y) == [f \in DOMAIN x |-> x[f] + y[f]]
InStock(x) == x.incoming - x.outgoing
IsZero(x)  == x.ops = 0 /\ InStock(x) = 0

(***************************************************************************)
(* The batch of a difference, [before, after]; it is placed where it is    *)
(* after, if it is there at all.                                           *)
(***************************************************************************)

Where(x) == IF x.after # None THEN x.after ELSE x.before

(* What the difference adds to a balance. *)
Delta(x) == Signed(x.after) - Signed(x.before)

(* Mutant: the memo of the day itself is left out. *)
OpAndMemos_DaysAfter(x) ==
  LET w     == Where(x)
      memos == {Memo(w.store, t) : t \in {u \in Days : u > w.day}} \cap DOMAIN db
  IN  (OpKey(w) :> (IF x.after # None THEN w.amount ELSE Gone)) @@
      [k \in memos |-> db[k] + Delta(x)]

(* write_ops: the operation, and every memo of the store from its day on.  *)
OpAndMemos(x) ==
  LET w     == Where(x)
      memos == {Memo(w.store, t) : t \in {u \in Days : u >= w.day}} \cap DOMAIN db
  IN  (OpKey(w) :> (IF x.after # None THEN w.amount ELSE Gone)) @@
      [k \in memos |-> db[k] + Delta(x)]

(* Mutant: a month is only opened, not carried forward. *)
Carried_Nothing(m, prev) == <<>>

(* A new checkpoint begins with the totals of the one before. *)
Carried(m, prev) ==
  LET kept == {p \in Places : SumKey(prev, p) \in DOMAIN db}
  IN  [k \in {SumKey(m, p) : p \in kept} |-> db[SumKey(prev, <<k[3], k[4]>>)]]

(* The totals of one checkpoint: read from the snapshot, where those just  *)
(* carried forward are not.                                                *)
Posted(x, m) ==
  LET k   == SumKey(m, Place(Where(x)))
      sum == IF k \in DOMAIN db THEN Plus(db[k], Total(x.before, x.after))
                                ELSE Total(x.before, x.after)
  IN  k :> (IF k \in DOMAIN db /\ IsZero(sum) THEN Gone ELSE sum)

(* on_operation: every checkpoint after the day; if there is none, a new   *)
(* one at the beginning of the next month.                                 *)
Later(day)  == {m \in Points : m > Month(day)}
Before(day) == {m \in Points : m <= Month(day)}
Opens(x)    == Later(Where(x).day) = {}

(* Mutant: a checkpoint that is opened first is not registered. *)
PointAndSums_NoPoint(x) ==
  LET day == Where(x).day
      new == NextPoint(day)
  IN  IF ~Opens(x)
      THEN FoldSet(LAMBDA m, b : Posted(x, m) @@ b, <<>>, Later(day))
      ELSE Posted(x, new) @@
           (IF Before(day) = {} THEN <<>> ELSE Carried(new, Max(Before(day))))

PointAndSums(x) ==
  LET day == Where(x).day
      new == NextPoint(day)
  IN  IF ~Opens(x)
      THEN FoldSet(LAMBDA m, b : Posted(x, m) @@ b, <<>>, Later(day))
      ELSE Posted(x, new) @@ (Point(new) :> TRUE) @@
           (IF Before(day) = {} THEN <<>> ELSE Carried(new, Max(Before(day))))

(* The differences of one request in some order: what comes later          *)
(* overwrites, all read the same snapshot.  Operations come first.         *)
Batch(xs) ==
  FoldLeft(LAMBDA b, x : PointAndSums(x) @@ b,
           FoldLeft(LAMBDA b, x : OpAndMemos(x) @@ b, <<>>, xs), xs)

Written(batch) ==
  LET new == batch @@ db
  IN  Restrict(new, {k \in DOMAIN new : new[k] # Gone})

(***************************************************************************)
(* History: what a request reads or writes, and what it leaves wrong.      *)
(***************************************************************************)

From(v) ==
  {Memo(v.store, t) : t \in {u \in Days : u >= v.day}} \cup
  {SumKey(m, Place(v)) : m \in {n \in Months : n > Month(v.day)}}

FromOn(v) == IF v = None THEN {} ELSE From(v)

Touched(x) ==
  From(Where(x)) \cup
  (IF Opens(x) THEN {SumKey(m, p) : m \in {n \in Months : n >= NextPoint(Where(x).day)}, p \in Places}
               ELSE {})

(* A document that moves leaves what it was where it was, and brings no    *)
(* more than the difference; right are the keys both places reach.         *)
Moved(x) ==
  IF x.before = None \/ x.after = None THEN {}
  ELSE (From(x.before) \cup From(x.after)) \ (From(x.before) \cap From(x.after))

(* Two documents of one kind, store, goods and day share one operation:    *)
(* with the first of them it is gone.                                      *)
Unshared(d, x) ==
  IF x.after = None /\ \E e \in Docs \ {d} : core[e] # None /\ OpKey(core[e]) = OpKey(x.before)
  THEN {k \in From(x.before) : k[1] = "memo"} ELSE {}

(* The key for which a checkpoint is opened loses what it had; the others  *)
(* are as right as they were.                                              *)
Overwritten(x) ==
  LET w    == Where(x)
      prev == Max(Before(w.day))
      lost == {p \in Places : \/ p = Place(w) /\ SumKey(prev, p) \in DOMAIN db
                              \/ SumKey(prev, p) \in astray}
  IN  IF ~Opens(x) \/ Before(w.day) = {} THEN {}
      ELSE {SumKey(m, p) : m \in {n \in Months : n >= NextPoint(w.day)}, p \in lost}

(* A difference to what the document no longer was. *)
Outdated(d, x) ==
  IF core[d] = x.before THEN {}
  ELSE FromOn(core[d]) \cup FromOn(x.before) \cup FromOn(x.after)

(***************************************************************************)
(* Requests.                                                               *)
(***************************************************************************)

Init ==
  /\ core = [d \in Docs |-> None]
  /\ db = <<>>
  /\ doing = [t \in Threads |-> None]
  /\ astray = {}
  /\ changes = 0

Idle(t)     == doing[t] = None
InFlight(t) == ~Idle(t) /\ "batch" \in DOMAIN doing[t]

(* A client reads the documents, some of which it is going to change. *)
Look(t) ==
  /\ Idle(t) /\ changes < MaxChanges
  /\ doing' = [doing EXCEPT ![t] = [saw |-> core]]
  /\ UNCHANGED <<core, db, astray, changes>>

(* A document before and after, as the client who saw it says: all of it   *)
(* is sent with a change, so that nothing is taken from the snapshot.      *)
Resolved(t, d, after) == [before |-> doing[t].saw[d], after |-> after]

(* AnimoDB::modify up to the commit: the core is written whatever it held. *)
Modify(t, after) ==
  /\ ~Idle(t) /\ ~InFlight(t)
  /\ LET D == DOMAIN after
         x == [d \in D |-> Resolved(t, d, after[d])]
     IN  /\ \A d \in D : x[d].before # x[d].after
         /\ changes + Cardinality(D) <= MaxChanges
         /\ changes' = changes + Cardinality(D)
         /\ core' = after @@ core
         /\ \E order \in SetToSeqs(D) :
              doing' = [doing EXCEPT ![t] =
                [batch   |-> Batch([i \in DOMAIN order |-> x[order[i]]]),
                 touched |-> UNION {Touched(x[d]) : d \in D}]]
         /\ astray' = astray \cup
              UNION {Moved(x[d]) \cup Unshared(d, x[d]) \cup Overwritten(x[d]) \cup
                     Outdated(d, x[d]) : d \in D} \cup
              UNION {Touched(x[p[1]]) \cap Touched(x[p[2]]) :
                       p \in {q \in D \X D : q[1] # q[2]}}
  /\ UNCHANGED db

(* balance_tx: a memo is kept of a balance that was asked for.  Operations *)
(* cannot be read back (from_bytes is todo!()), so a balance after which   *)
(* something happened panics and is not kept.                              *)
Balance(t, s, day) ==
  LET memos == {u \in Days : u <= day /\ Memo(s, u) \in DOMAIN db}
      since == IF memos = {} THEN -1 ELSE Max(memos)
  IN  /\ Idle(t)
      /\ since # day
      /\ ~\E k \in DOMAIN db : k[1] = "op" /\ k[3] = s /\ k[5] > since /\ k[5] <= day
      /\ doing' = [doing EXCEPT ![t] =
           [batch   |-> Memo(s, day) :> (IF memos = {} THEN 0 ELSE db[Memo(s, since)]),
            touched |-> {Memo(s, day)}]]
      /\ astray' = IF memos # {} /\ Memo(s, since) \in astray
                   THEN astray \cup {Memo(s, day)} ELSE astray
      /\ UNCHANGED <<core, db, changes>>

Commit(t) ==
  /\ InFlight(t)
  /\ db' = Written(doing[t].batch)
  /\ astray' = astray \cup
       UNION {doing[t].touched \cap doing[u].touched : u \in {v \in Threads \ {t} : InFlight(v)}}
  /\ doing' = [doing EXCEPT ![t] = None]
  /\ UNCHANGED <<core, changes>>

(* The process ends; what was not committed never is. *)
Crash ==
  /\ \E t \in Threads : InFlight(t)
  /\ astray' = astray \cup UNION {doing[t].touched : t \in {u \in Threads : InFlight(u)}}
  /\ doing' = [t \in Threads |-> None]
  /\ UNCHANGED <<core, db, changes>>

Afters(D) == {f \in [D -> UNION Range(Versions) \cup {None}] :
                \A d \in D : f[d] \in Versions[d] \cup {None}}

Next ==
  \/ \E t \in Threads : Look(t)
  \/ \E t \in Threads, D \in (SUBSET Docs) \ {{}} : \E after \in Afters(D) : Modify(t, after)
  \/ \E t \in Threads, q \in Asked : Balance(t, q[1], q[2])
  \/ \E t \in Threads : Commit(t)
  \/ Crash

Spec == Init /\ [][Next]_vars

(***************************************************************************)
(* stores_turnover: what came and went between two checkpoints, less what  *)
(* did outside the interval; but operations cannot be read back, and the   *)
(* request panics if there are any.  Those of the day after the interval   *)
(* are not looked for: they are kept at the beginning of their day, and    *)
(* the search starts at the end of it.                                     *)
(***************************************************************************)

(* Mutant: only what came before the interval is looked for. *)
Outside_BeforeOnly(s, from, till) ==
  {k \in DOMAIN db : /\ k[1] = "op" /\ k[3] = s
                     /\ k[5] >= Month(from) * MonthLength /\ k[5] < from}

Outside(s, from, till) ==
  {k \in DOMAIN db : /\ k[1] = "op" /\ k[3] = s
                     /\ \/ k[5] >= Month(from) * MonthLength /\ k[5] < from
                        \/ k[5] > till + 1 /\ k[5] < NextPoint(till) * MonthLength}

SumsAt(s, m) == {k \in DOMAIN db : k[1] = "sum" /\ k[2] = m /\ k[3] = s}

Turnover(s, from, till) ==
  LET at(m)    == FoldSet(LAMBDA k, x : Plus(db[k], x), NoTotal, SumsAt(s, m))
      passed   == {m \in Months : Month(from) < m /\ m <= NextPoint(till)}
  IN  [open  |-> InStock(at(Month(from))),
       ops   |-> FoldSet(LAMBDA m, x : Plus(at(m), x), NoTotal, passed),
       close |-> InStock(at(NextPoint(till)))]

Named(from, till) ==
  {s \in Stores : \E m \in Month(from) .. NextPoint(till) : SumsAt(s, m) # {}}

Answers(from, till) == \A s \in Named(from, till) : Outside(s, from, till) = {}

(***************************************************************************)
(* Properties.                                                             *)
(***************************************************************************)

Pending == UNION {doing[t].touched : t \in {u \in Threads : InFlight(u)}}

BalanceAt(s, day) ==
  MapThenSumSet(LAMBDA d : Signed(core[d]),
                {d \in Docs : core[d] # None /\ core[d].store = s /\ core[d].day <= day})

TotalBefore(p, m) ==
  FoldSet(LAMBDA d, x : Plus(Total(None, core[d]), x), NoTotal,
          {d \in Docs : core[d] # None /\ Place(core[d]) = p /\ Month(core[d].day) < m})

TypeOK ==
  /\ \A d \in Docs : core[d] \in Versions[d] \cup {None}
  /\ \A k \in DOMAIN db : k[1] = "sum" => k[2] \in Points
  /\ astray \subseteq {Memo(s, t) : s \in Stores, t \in Days} \cup
                     {SumKey(m, p) : m \in Months, p \in Places}

(* A memo is the balance of all documents of the store up to its day, in   *)
(* whatever order of days they come, go and change, unless a document      *)
(* moved across its day, two differences for it were worked out from one   *)
(* snapshot, or one from an outdated document, or one was not committed.   *)
MemosFollowDocuments ==
  \A s \in Stores, t \in Days :
    Memo(s, t) \in DOMAIN db \ (astray \cup Pending) => db[Memo(s, t)] = BalanceAt(s, t)

(* The totals of every checkpoint there is are those of the documents      *)
(* before it, also if months were skipped or documents are dated back      *)
(* before checkpoints; with the same exceptions, and that of a key which   *)
(* had something when it opened a later month.                             *)
CheckpointsFollowDocuments ==
  \A m \in Points, p \in Places :
    LET k == SumKey(m, p)
    IN  k \notin astray \cup Pending =>
          (IF k \in DOMAIN db THEN db[k] ELSE NoTotal) = TotalBefore(p, m)

(* What the turnover should have looked for, too: an operation of the day  *)
(* after the interval, in the same month.                                  *)
Overlooked(s, till) ==
  {k \in DOMAIN db : /\ k[1] = "op" /\ k[3] = s
                     /\ k[5] = till + 1 /\ Month(till + 1) = Month(till)}

(* A turnover that is answered opens with the stock before the interval    *)
(* and closes with the stock at its end, at the end of a month too, when   *)
(* something happened on the first day of the next; only with an operation *)
(* of the day after, in the same month, it closes with the stock of that   *)
(* day.  The code means to take off "operations between (till,             *)
(* checkpoint_till]": the exception is where it does not.  An interval     *)
(* that begins or ends where a month has no checkpoint counts nothing      *)
(* there, whatever the stock, and is not spoken of; before the first month *)
(* there is nothing.                                                       *)
TurnoversAreBounded ==
  \A from \in Days, till \in Days :
    /\ from <= till /\ Answers(from, till)
    /\ Month(from) \in Points \cup {0} /\ NextPoint(till) \in Points
    => \A s \in Named(from, till) :
        LET r == Turnover(s, from, till)
            known == /\ \A d \in Docs : core[d] # None => OpKey(core[d]) \in DOMAIN db
                     /\ \A p \in Places, m \in Months :
                          p[1] = s => SumKey(m, p) \notin astray \cup Pending
        IN  known => /\ r.open = BalanceAt(s, from - 1)
                     /\ r.close = BalanceAt(s, IF Overlooked(s, till) = {} THEN till ELSE till + 1)
=============================================================================
