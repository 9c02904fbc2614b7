-------------------------- MODULE CheckpointsProofs --------------------------
(***************************************************************************)
(* Proofs about the checkpoint update, for any keys, months and deltas.    *)
(*                                                                         *)
(* The invariant is IInv of module Checkpoints.  Its heart is KeyOK, which *)
(* states the sum a checkpoint stands for by differences: consecutive      *)
(* checkpoints differ by the turnover of the month between them.  Settled  *)
(* takes the running update out again, so that only SetLatest changes what *)
(* KeyOK speaks of.                                                        *)
(***************************************************************************)
EXTENDS Checkpoints, TLAPS

(***************************************************************************)
(* Types.                                                                  *)
(***************************************************************************)

(* The fields of an operation. *)
LEMMA OpFields ==
  ASSUME NEW o \in Ops
  PROVE  /\ o.month \in 0 .. Horizon - 1
         /\ o.month \in Int
         /\ o.month \in Months
         /\ o.month + 1 \in Months
         /\ o.key \in Keys
         /\ o.delta \in Int
<1>1. o.month \in 0 .. Horizon - 1 /\ o.key \in Keys /\ o.delta \in Deltas
  BY DEF Ops
<1>2. o.month \in Int /\ o.month \in 0 .. Horizon /\ o.month + 1 \in 0 .. Horizon
  BY <1>1, CheckpointsAssumption
<1>3. o.delta \in Int
  BY <1>1, CheckpointsAssumption
<1> QED
  BY <1>1, <1>2, <1>3 DEF Months

(* The fields of a copy still to be written. *)
LEMMA CopyFields ==
  ASSUME TypeOK, NEW c \in todo
  PROVE  c.month \in Months /\ c.key \in Keys
  BY DEF TypeOK, Copies

(* Checkpoints and turnovers are integers. *)
LEMMA Balances ==
  ASSUME TypeOK, NEW m \in Months, NEW k \in Keys
  PROVE  chk[m][k] \in Int /\ turnover[m][k] \in Int
  BY DEF TypeOK

(* The initial state satisfies the invariant. *)
LEMMA InitIInv == Init => IInv
<1> SUFFICES ASSUME Init PROVE IInv
  OBVIOUS
<1>1. 0 \in Months
  BY CheckpointsAssumption DEF Months
<1>2. Zero \in [Months -> [Keys -> Int]]
  BY DEF Zero
<1>3. TypeOK
  BY <1>1, <1>2 DEF Init, TypeOK
<1>4. UpdateOK
  BY DEF Init, UpdateOK
<1>5. ASSUME NEW k \in Keys PROVE KeyOK(k)
  <2>1. \A m \in Months : chk[m][k] = 0 /\ turnover[m][k] = 0
    BY <1>5 DEF Init, Zero
  <2>2. \A m \in Months : ~(m < latest)
    BY DEF Init, Months
  <2> QED
    BY <1>1, <2>1, <2>2 DEF Init, KeyOK
<1> QED
  BY <1>3, <1>4, <1>5 DEF IInv

(* Every step keeps the types. *)
LEMMA TypeStep == TypeOK /\ UpdateOK /\ [Next]_vars => TypeOK'
<1> SUFFICES ASSUME TypeOK, UpdateOK, [Next]_vars PROVE TypeOK'
  OBVIOUS
<1>1. ASSUME NEW o \in Ops, Begin(o) PROVE TypeOK'
  <2>1. last' \in Months /\ at' \in Months
    BY <1>1, OpFields DEF Begin, TypeOK
  <2>2. todo' \subseteq Copies
    BY <1>1 DEF Begin, ToCopy
  <2>3. busy' \in BOOLEAN /\ op' \in Ops /\ posts' \in Nat
    BY <1>1 DEF Begin, TypeOK
  <2> QED
    BY <1>1, <2>1, <2>2, <2>3 DEF Begin, TypeOK
<1>2. ASSUME NEW c \in todo, CopyForward(c) PROVE TypeOK'
  <2>1. c.month \in Months /\ c.key \in Keys /\ chk[latest][c.key] \in Int
    BY <1>2, CopyFields, Balances DEF TypeOK
  <2>2. chk' \in [Months -> [Keys -> Int]]
    BY <1>2, <2>1 DEF CopyForward, TypeOK
  <2> QED
    BY <1>2, <2>2 DEF CopyForward, TypeOK
<1>3. CASE Bump
  <2>1. at + 1 \in Months
    BY <1>3, CheckpointsAssumption DEF Bump, TypeOK, Months
  <2>2. op.key \in Keys /\ op.delta \in Int
    BY OpFields DEF TypeOK
  <2>3. chk[at + 1][op.key] + op.delta \in Int
    BY <2>1, <2>2, Balances
  <2>4. chk' \in [Months -> [Keys -> Int]]
    BY <1>3, <2>1, <2>2, <2>3 DEF Bump, TypeOK
  <2> QED
    BY <1>3, <2>1, <2>4 DEF Bump, TypeOK
<1>4. CASE SetLatest
  <2>1. op.month \in Months /\ op.key \in Keys /\ op.delta \in Int
    BY OpFields DEF TypeOK
  <2>2. turnover[op.month][op.key] + op.delta \in Int
    BY <2>1, Balances
  <2>3. turnover' \in [Months -> [Keys -> Int]]
    BY <1>4, <2>1, <2>2 DEF SetLatest, TypeOK
  <2> QED
    BY <1>4, <2>3 DEF SetLatest, TypeOK
<1>5. CASE Crash
  <2>1. op.key \in Keys
    BY OpFields DEF TypeOK
  <2>2. suspect' \subseteq Keys
    BY <1>5, <2>1 DEF Crash, Residue, TypeOK
  <2> QED
    BY <1>5, <2>2 DEF Crash, TypeOK
<1>6. CASE UNCHANGED vars
  BY <1>6 DEF vars, TypeOK
<1> QED
  BY <1>1, <1>2, <1>3, <1>4, <1>5, <1>6 DEF Next, Step

(* Every step keeps the control state of the update right. *)
LEMMA UpdateStep == TypeOK /\ UpdateOK /\ [Next]_vars => UpdateOK'
<1> SUFFICES ASSUME TypeOK, UpdateOK, [Next]_vars PROVE UpdateOK'
  OBVIOUS
<1>1. ASSUME NEW o \in Ops, Begin(o) PROVE UpdateOK'
  <2>1. o.month \in Int /\ latest \in Int
    BY OpFields DEF TypeOK, Months
  <2>2. op.month' = o.month /\ at' = o.month /\ latest' = latest /\ busy'
    BY <1>1 DEF Begin
  <2>3. last' = IF latest <= o.month THEN o.month + 1 ELSE latest
    BY <1>1 DEF Begin
  <2>4. \A c \in todo' : latest < c.month /\ c.month <= last' /\ latest <= o.month
    BY <1>1, <2>3 DEF Begin, ToCopy
  <2> QED
    BY <2>1, <2>2, <2>3, <2>4 DEF UpdateOK
<1>2. ASSUME NEW c \in todo, CopyForward(c) PROVE UpdateOK'
  BY <1>2 DEF CopyForward, UpdateOK
<1>3. CASE Bump
  <2>1. op.month \in Int /\ at \in Int /\ last \in Int
    BY OpFields DEF TypeOK, Months
  <2> QED
    BY <1>3, <2>1 DEF Bump, UpdateOK
<1>4. CASE SetLatest
  BY <1>4 DEF SetLatest, UpdateOK
<1>5. CASE Crash
  BY <1>5 DEF Crash, UpdateOK
<1>6. CASE UNCHANGED vars
  BY <1>6 DEF vars, UpdateOK
<1> QED
  BY <1>1, <1>2, <1>3, <1>4, <1>5, <1>6 DEF Next, Step

(***************************************************************************)
(* What each action does to the settled balances.                          *)
(***************************************************************************)

(* Starting an update settles nothing: it has added nothing yet. *)
LEMMA BeginSettled ==
  ASSUME TypeOK, NEW o \in Ops, Begin(o), NEW m \in Months, NEW k \in Keys
  PROVE  Settled(m, k)' = chk[m][k] /\ Settled(m, k) = chk[m][k]
<1>1. m \in Int /\ o.month \in Int
  BY OpFields DEF Months
<1>2. Bumped(m, k)' = 0 /\ Bumped(m, k) = 0
  BY <1>1 DEF Begin, Bumped
<1>3. chk[m][k] \in Int /\ chk' = chk
  BY Balances DEF Begin
<1> QED
  BY <1>2, <1>3 DEF Settled

(* While there are copies to write nothing is bumped. *)
LEMMA CopySettled ==
  ASSUME TypeOK, UpdateOK, NEW c \in todo, CopyForward(c),
         NEW m \in Months, NEW k \in Keys
  PROVE  Settled(m, k)' = chk'[m][k] /\ Settled(m, k) = chk[m][k]
<1>1. m \in Int /\ op.month \in Int /\ at = op.month
  BY OpFields DEF CopyForward, UpdateOK, TypeOK, Months
<1>2. Bumped(m, k)' = 0 /\ Bumped(m, k) = 0
  BY <1>1 DEF CopyForward, Bumped
<1>3. TypeOK'
  BY TypeStep DEF Next, Step
<1>4. chk'[m][k] \in Int /\ chk[m][k] \in Int
  BY <1>3 DEF TypeOK
<1> QED
  BY <1>2, <1>4 DEF Settled

(* A bump adds to a checkpoint and to what has been bumped alike. *)
LEMMA BumpSettled ==
  ASSUME TypeOK, UpdateOK, Bump, NEW m \in Months, NEW k \in Keys
  PROVE  Settled(m, k)' = Settled(m, k)
<1>1. op.key \in Keys /\ op.delta \in Int /\ op.month \in Int /\ op' = op
  BY OpFields DEF TypeOK, Bump
<1>2. at \in Int /\ m \in Int /\ op.month <= at /\ chk[m][k] \in Int
  BY Balances DEF TypeOK, UpdateOK, Bump, Months
<1>3. at + 1 \in Months /\ busy /\ busy' /\ at' = at + 1
  BY CheckpointsAssumption DEF Bump, TypeOK, Months, UpdateOK
<1>4. CASE m = at + 1 /\ k = op.key
  <2>1. chk'[m][k] = chk[m][k] + op.delta
    BY <1>4, <1>3 DEF TypeOK, Bump
  <2>2. Bumped(m, k)' = op.delta /\ Bumped(m, k) = 0
    BY <1>1, <1>2, <1>3, <1>4 DEF Bumped
  <2> QED
    BY <1>1, <1>2, <2>1, <2>2 DEF Settled
<1>5. CASE ~(m = at + 1 /\ k = op.key)
  <2>1. chk'[m][k] = chk[m][k]
    BY <1>5, <1>3 DEF TypeOK, Bump
  <2>2. Bumped(m, k)' = Bumped(m, k)
    BY <1>1, <1>2, <1>3, <1>5 DEF Bumped
  <2> QED
    BY <2>1, <2>2 DEF Settled
<1> QED
  BY <1>4, <1>5

(***************************************************************************)
(* The checkpoints of one key.                                             *)
(***************************************************************************)

(* Starting an update: nothing lies beyond the latest date, so a month     *)
(* that is not to be copied already equals the empty latest checkpoint.    *)
LEMMA KeyBegin ==
  ASSUME TypeOK, NEW k \in Keys, KeyOK(k), NEW o \in Ops, Begin(o)
  PROVE  KeyOK(k)'
<1>1. \A m \in Months : Settled(m, k)' = chk[m][k] /\ Settled(m, k) = chk[m][k]
  BY BeginSettled
<1>2. latest' = latest /\ turnover' = turnover /\ chk' = chk /\ ~busy
  BY DEF Begin
<1>3. latest \in Months /\ Months \subseteq Int /\ o.month \in Int
  BY OpFields DEF TypeOK, Months
<1>4. \A m \in Months : m < latest => m + 1 \in Months
  BY <1>3, CheckpointsAssumption DEF Months
<1>5. \A m \in Months : m < latest =>
        Settled(m + 1, k)' = Settled(m, k)' + turnover'[m][k]
  BY <1>1, <1>2, <1>4 DEF KeyOK
<1>6. ASSUME NEW m \in Months, m > latest, m <= last',
             [key |-> k, month |-> m] \notin todo'
      PROVE  Settled(m, k)' = Settled(latest, k)'
  <2>1. latest <= o.month /\ m <= o.month + 1
    BY <1>3, <1>6 DEF Begin
  <2>2. chk[latest][k] = 0
    BY <1>6, <2>1 DEF Begin, ToCopy, Copies
  <2>3. chk[m][k] = 0
    BY <1>2, <1>6 DEF KeyOK
  <2> QED
    BY <1>1, <1>2, <1>3, <2>2, <2>3
<1> QED
  BY <1>2, <1>5, <1>6 DEF KeyOK

(* Writing a copy: only the copied record changes, beyond the latest date. *)
LEMMA KeyCopy ==
  ASSUME TypeOK, UpdateOK, NEW k \in Keys, KeyOK(k),
         NEW c \in todo, CopyForward(c)
  PROVE  KeyOK(k)'
<1>1. \A m \in Months : Settled(m, k)' = chk'[m][k] /\ Settled(m, k) = chk[m][k]
  BY CopySettled
<1>2. /\ latest' = latest /\ turnover' = turnover /\ last' = last
      /\ busy /\ busy'
  BY DEF CopyForward
<1>3. latest \in Months /\ Months \subseteq Int
  BY DEF TypeOK, Months
<1>4. /\ c.month \in Months /\ c.key \in Keys
      /\ latest < c.month /\ c.month <= last
  BY <1>2, CopyFields DEF UpdateOK
<1>5. \A m \in Months :
        chk'[m][k] = IF m = c.month /\ k = c.key THEN chk[latest][k] ELSE chk[m][k]
  BY <1>4 DEF CopyForward, TypeOK
<1>6. \A m \in Months : m <= latest => chk'[m][k] = chk[m][k]
  BY <1>3, <1>4, <1>5
<1>7. \A m \in Months : m < latest => m + 1 \in Months /\ m + 1 <= latest
  BY <1>3, CheckpointsAssumption DEF Months
<1>8. \A m \in Months : m < latest =>
        Settled(m + 1, k)' = Settled(m, k)' + turnover'[m][k]
  BY <1>1, <1>2, <1>3, <1>6, <1>7 DEF KeyOK
<1>9. ASSUME NEW m \in Months, m > latest, m <= last,
             [key |-> k, month |-> m] \notin todo'
      PROVE  Settled(m, k)' = Settled(latest, k)'
  <2>1. chk'[latest][k] = chk[latest][k]
    BY <1>3, <1>6
  <2>2. CASE m = c.month /\ k = c.key
    BY <1>1, <1>2, <1>3, <1>5, <2>1, <2>2
  <2>3. CASE ~(m = c.month /\ k = c.key)
    <3>1. [key |-> k, month |-> m] \notin todo
      BY <1>9, <2>3 DEF CopyForward
    <3>2. chk[m][k] = chk[latest][k]
      BY <1>1, <1>2, <1>3, <1>9, <3>1 DEF KeyOK
    <3> QED
      BY <1>1, <1>2, <1>3, <1>5, <2>1, <2>3, <3>2
  <2> QED
    BY <2>2, <2>3
<1>10. ASSUME NEW m \in Months, m > latest, ~(m <= last)
       PROVE  chk'[m][k] = 0
  <2>1. m # c.month
    BY <1>4, <1>10
  <2> QED
    BY <1>2, <1>5, <1>10, <2>1 DEF KeyOK
<1>11. chk'[0][k] = 0
  BY <1>3, <1>6, CheckpointsAssumption DEF KeyOK, Months
<1> QED
  BY <1>2, <1>8, <1>9, <1>10, <1>11 DEF KeyOK

(* A bump leaves the settled balances alone and stays within the update.   *)
LEMMA KeyBump ==
  ASSUME TypeOK, UpdateOK, NEW k \in Keys, KeyOK(k), Bump
  PROVE  KeyOK(k)'
<1>1. \A m \in Months : Settled(m, k)' = Settled(m, k)
  BY BumpSettled
<1>2. /\ latest' = latest /\ turnover' = turnover /\ last' = last
      /\ busy /\ busy' /\ todo' = todo
  BY DEF Bump
<1>3. latest \in Months /\ Months \subseteq Int /\ last \in Int
  BY DEF TypeOK, Months
<1>4. /\ at + 1 \in Months /\ at + 1 <= last /\ at + 1 > 0
      /\ op.key \in Keys
  BY OpFields, CheckpointsAssumption DEF Bump, TypeOK, Months
<1>5. \A m \in Months : m # at + 1 => chk'[m][k] = chk[m][k]
  BY <1>4 DEF Bump, TypeOK
<1>6. \A m \in Months : m < latest => m + 1 \in Months
  BY <1>3, CheckpointsAssumption DEF Months
<1>7. \A m \in Months : m < latest =>
        Settled(m + 1, k)' = Settled(m, k)' + turnover'[m][k]
  BY <1>1, <1>2, <1>6 DEF KeyOK
<1>8. \A m \in Months : m > latest /\ ~(m <= last) => chk'[m][k] = 0
  BY <1>2, <1>3, <1>4, <1>5 DEF KeyOK
<1>9. chk'[0][k] = 0
  <2>1. 0 \in Months
    BY CheckpointsAssumption DEF Months
  <2> QED
    BY <1>4, <1>5, <2>1 DEF KeyOK
<1>10. \A m \in Months : m > latest /\ m <= last =>
         ([key |-> k, month |-> m] \notin todo' =>
            Settled(m, k)' = Settled(latest, k)')
  BY <1>1, <1>2, <1>3 DEF KeyOK
<1> QED
  BY <1>2, <1>7, <1>8, <1>9, <1>10 DEF KeyOK

(* The end of an update: the deltas that were bumped become turnover.      *)
LEMMA KeySetLatest ==
  ASSUME TypeOK, UpdateOK, NEW k \in Keys, KeyOK(k), SetLatest
  PROVE  KeyOK(k)'
<1>1. /\ latest' = last /\ at = last /\ chk' = chk /\ last' = last
      /\ todo = {} /\ busy /\ ~busy'
  BY DEF SetLatest, TypeOK
<1>2. /\ latest \in Months /\ last \in Months
      /\ Months \subseteq Int /\ op.delta \in Int /\ op.month \in Months
      /\ op.key \in Keys
      /\ latest \in Int /\ last \in Int /\ op.month \in Int
  BY OpFields DEF TypeOK, Months
<1>3. /\ last = IF latest <= op.month THEN op.month + 1 ELSE latest
      /\ op.month <= last
  BY <1>1 DEF UpdateOK
<1>4. \A m \in Months : m < last => m + 1 \in Months
  BY <1>2, CheckpointsAssumption DEF Months
<1>5. \A m \in Months : /\ chk[m][k] \in Int /\ turnover[m][k] \in Int
                        /\ Bumped(m, k) \in Int
                        /\ Settled(m, k) \in Int
                        /\ Settled(m, k)' = Settled(m, k) + Bumped(m, k)
  <2>1. ASSUME NEW m \in Months
        PROVE  /\ chk[m][k] \in Int /\ turnover[m][k] \in Int
               /\ Bumped(m, k) \in Int
               /\ Bumped(m, k)' = 0
    BY <1>1, <1>2, Balances DEF Bumped
  <2> QED
    BY <1>1, <2>1 DEF Settled
<1>6. \A m \in Months : turnover'[m][k] =
        turnover[m][k] + (IF m = op.month /\ k = op.key THEN op.delta ELSE 0)
  BY <1>2, <1>5 DEF SetLatest, TypeOK
<1>7. ASSUME NEW m \in Months, m < last
      PROVE  Bumped(m + 1, k) =
        Bumped(m, k) + (IF m = op.month /\ k = op.key THEN op.delta ELSE 0)
  <2>1. m \in Int /\ m + 1 <= at /\ m <= at
    BY <1>1, <1>2, <1>7
  <2>2. CASE m = op.month
    BY <1>1, <1>2, <2>1, <2>2 DEF Bumped
  <2>3. CASE m # op.month
    BY <1>1, <1>2, <2>1, <2>3 DEF Bumped
  <2> QED
    BY <2>2, <2>3
<1>8. ASSUME NEW m \in Months, m < last
      PROVE  Settled(m + 1, k) = Settled(m, k) + turnover[m][k]
  <2>1. CASE m < latest
    BY <2>1 DEF KeyOK
  <2>2. CASE ~(m < latest)
    <3>1. turnover[m][k] = 0
      BY <1>2, <2>2 DEF KeyOK
    <3>2. Settled(m + 1, k) = Settled(latest, k)
      BY <1>1, <1>2, <1>4, <1>8, <2>2 DEF KeyOK
    <3>3. Settled(m, k) = Settled(latest, k)
      BY <1>1, <1>2, <1>8, <2>2 DEF KeyOK
    <3> QED
      BY <1>5, <3>1, <3>2, <3>3
  <2> QED
    BY <2>1, <2>2
<1>9. ASSUME NEW m \in Months, m < last
      PROVE  Settled(m + 1, k)' = Settled(m, k)' + turnover'[m][k]
  <2>1. m + 1 \in Months
    BY <1>4, <1>9
  <2> QED
    BY <1>2, <1>5, <1>6, <1>7, <1>8, <1>9, <2>1
<1>10. ASSUME NEW m \in Months, m >= last
       PROVE  turnover'[m][k] = 0
  <2>1. m >= latest /\ turnover[m][k] = 0
    BY <1>2, <1>3, <1>10 DEF KeyOK
  <2>2. m # op.month
    BY <1>2, <1>3, <1>10
  <2> QED
    BY <1>6, <2>1, <2>2
<1>11. ASSUME NEW m \in Months, m > last
       PROVE  chk[m][k] = 0
  <2>1. m \in Int /\ m > latest /\ ~(m <= last)
    BY <1>2, <1>3, <1>11
  <2> QED
    BY <2>1 DEF KeyOK
<1>12. chk[0][k] = 0
  BY DEF KeyOK
<1> QED
  BY <1>1, <1>9, <1>10, <1>11, <1>12 DEF KeyOK

(* A crash: a key it does not make suspect has lost nothing.               *)
LEMMA KeyCrash ==
  ASSUME TypeOK, UpdateOK, NEW k \in Keys, KeyOK(k), Crash, k \notin suspect'
  PROVE  KeyOK(k)'
<1>1. /\ k # op.key /\ k \notin Residue /\ busy /\ ~busy'
      /\ chk' = chk /\ turnover' = turnover /\ latest' = latest
  BY DEF Crash
<1>2. \A m \in Months : m > latest => chk[m][k] = 0
  BY <1>1 DEF Residue
<1>3. \A m \in Months : Settled(m, k)' = Settled(m, k)
  BY <1>1 DEF Settled, Bumped
<1>4. latest \in Months /\ Months \subseteq Int
  BY DEF TypeOK, Months
<1>5. \A m \in Months : m < latest => m + 1 \in Months
  BY <1>4, CheckpointsAssumption DEF Months
<1>6. \A m \in Months : m < latest =>
        Settled(m + 1, k)' = Settled(m, k)' + turnover'[m][k]
  BY <1>1, <1>3, <1>5 DEF KeyOK
<1> QED
  BY <1>1, <1>2, <1>6 DEF KeyOK

(***************************************************************************)
(* The invariant and what follows from it.                                 *)
(***************************************************************************)

(* Every step, a crash included, keeps the invariant. *)
LEMMA StepIInv == IInv /\ [Next]_vars => IInv'
<1> SUFFICES ASSUME IInv, [Next]_vars PROVE IInv'
  OBVIOUS
<1>1. TypeOK /\ UpdateOK /\ TypeOK' /\ UpdateOK'
  BY TypeStep, UpdateStep DEF IInv
<1>2. suspect \subseteq suspect'
  BY DEF Next, Step, Begin, CopyForward, Bump, SetLatest, Crash, vars
<1>3. ASSUME NEW k \in Keys, k \notin suspect' PROVE KeyOK(k)'
  <2>1. KeyOK(k)
    BY <1>2, <1>3 DEF IInv
  <2>2. ASSUME NEW o \in Ops, Begin(o) PROVE KeyOK(k)'
    BY <1>1, <2>1, <2>2, KeyBegin
  <2>3. ASSUME NEW c \in todo, CopyForward(c) PROVE KeyOK(k)'
    BY <1>1, <2>1, <2>3, KeyCopy
  <2>4. CASE Bump
    BY <1>1, <2>1, <2>4, KeyBump
  <2>5. CASE SetLatest
    BY <1>1, <2>1, <2>5, KeySetLatest
  <2>6. CASE Crash
    BY <1>1, <1>3, <2>1, <2>6, KeyCrash
  <2>7. CASE UNCHANGED vars
    BY <2>1, <2>7 DEF vars, KeyOK, Settled, Bumped
  <2> QED
    BY <2>2, <2>3, <2>4, <2>5, <2>6, <2>7 DEF Next, Step
<1> QED
  BY <1>1, <1>3 DEF IInv

(* The invariant of the update holds always, whatever crashes interrupt    *)
(* it: types, control state, and the sums of every key left intact.        *)
THEOREM InvariantHolds == Spec => []IInv
<1>1. Init => IInv
  BY InitIInv
<1>2. IInv /\ [Next]_vars => IInv'
  BY StepIInv
<1> QED
  BY <1>1, <1>2, PTL DEF Spec

(* Between updates the stored checkpoints of every key that no interrupted *)
(* update wrote differ month by month by exactly what was posted.          *)
THEOREM SumsAreKept == Spec => []CrashDamageContained
<1>1. IInv => CrashDamageContained
  <2> SUFFICES ASSUME IInv, ~busy, NEW k \in Keys \ suspect, NEW m \in Months
               PROVE  IF m < latest THEN chk[m + 1][k] - chk[m][k] = turnover[m][k]
                      ELSE turnover[m][k] = 0 /\ (m > latest => chk[m][k] = 0)
    BY DEF CrashDamageContained
  <2>1. KeyOK(k) /\ TypeOK /\ k \in Keys
    BY DEF IInv
  <2>2. latest \in Int /\ m \in Int
    BY <2>1 DEF TypeOK, Months
  <2>3. \A n \in Months : Settled(n, k) = chk[n][k] /\ chk[n][k] \in Int
    BY <2>1, Balances DEF Settled, Bumped
  <2>4. CASE m < latest
    <3>1. m + 1 \in Months
      BY <2>1, <2>4, CheckpointsAssumption DEF TypeOK, Months
    <3>2. chk[m + 1][k] = chk[m][k] + turnover[m][k]
      BY <2>1, <2>3, <2>4, <3>1 DEF KeyOK
    <3>3. turnover[m][k] \in Int
      BY <2>1, Balances
    <3> QED
      BY <2>3, <2>4, <3>1, <3>2, <3>3
  <2>5. CASE ~(m < latest)
    BY <2>1, <2>2, <2>5 DEF KeyOK
  <2> QED
    BY <2>4, <2>5
<1> QED
  BY <1>1, InvariantHolds, PTL

(***************************************************************************)
(* The past, and the abstract book.                                        *)
(***************************************************************************)

(* An update leaves every checkpoint dated on or before the first day of   *)
(* its operation's month as it was.                                        *)
THEOREM PastStaysClosed == Spec => PastIsImmutable
<1>1. IInv /\ [Next]_vars =>
        [busy => \A m \in Months : m <= op.month /\ m <= latest =>
                                     chk'[m] = chk[m]]_vars
  <2> SUFFICES ASSUME IInv, Next, busy, NEW m \in Months,
                      m <= op.month, m <= latest
               PROVE  chk'[m] = chk[m]
    OBVIOUS
  <2>1. TypeOK /\ UpdateOK
    BY DEF IInv
  <2>2. m \in Int /\ latest \in Int /\ op.month \in Int /\ at \in Int
    BY <2>1, OpFields DEF TypeOK, Months
  <2>3. ASSUME NEW o \in Ops, Begin(o) PROVE chk'[m] = chk[m]
    BY <2>3 DEF Begin
  <2>4. ASSUME NEW c \in todo, CopyForward(c) PROVE chk'[m] = chk[m]
    <3>1. c.month \in Int /\ m # c.month
      BY <2>1, <2>2, <2>4, CopyFields DEF UpdateOK, Months
    <3> QED
      BY <2>1, <2>4, <3>1 DEF CopyForward, TypeOK
  <2>5. CASE Bump
    <3>1. m # at + 1
      BY <2>1, <2>2, <2>5 DEF UpdateOK, Bump
    <3> QED
      BY <2>1, <2>5, <3>1 DEF Bump, TypeOK
  <2>6. CASE SetLatest \/ Crash
    BY <2>6 DEF SetLatest, Crash
  <2> QED
    BY <2>3, <2>4, <2>5, <2>6 DEF Next, Step
<1> QED
  BY <1>1, InvariantHolds, PTL DEF Spec, PastIsImmutable

(* A reader never looks beyond the latest date.                            *)
LEMMA ActualMonths ==
  ASSUME TypeOK, NEW m \in Months
  PROVE  ActualMonth(m) \in Months /\ ActualMonth(m) <= latest
  BY DEF ActualMonth, TypeOK, Months

(* What a reader finds depends only on settled balances up to the latest.  *)
LEMMA SameView ==
  ASSUME TypeOK, UNCHANGED <<latest, suspect>>,
         \A m \in Months, k \in Keys : m <= latest => Settled(m, k)' = Settled(m, k)
  PROVE  UNCHANGED <<View, suspect>>
<1>1. ASSUME NEW m \in Months, NEW k \in Keys
      PROVE  Settled(ActualMonth(m), k)' = Settled(ActualMonth(m), k)
  <2>1. ActualMonth(m) \in Months /\ ActualMonth(m) <= latest
    BY ActualMonths
  <2>2. ActualMonth(m)' = ActualMonth(m)
    BY DEF ActualMonth
  <2>3. Settled(ActualMonth(m), k)' =
          (chk'[ActualMonth(m)][k] - Bumped(ActualMonth(m), k)')
    BY <2>2 DEF Settled
  <2> QED
    BY <2>1, <2>2, <2>3 DEF Settled, Bumped
<1> QED
  BY <1>1 DEF View

(* Seen by the readers, the end of an update posts its operation at once.  *)
LEMMA SetLatestPosts ==
  ASSUME IInv, SetLatest
  PROVE  Book!Post(op.month, op.key, op.delta)
<1>1. /\ TypeOK /\ UpdateOK /\ busy /\ ~busy' /\ todo = {}
      /\ latest' = last /\ at = last /\ chk' = chk
  BY DEF IInv, SetLatest
<1>2. /\ latest \in Months /\ last \in Months /\ Months \subseteq Int
      /\ latest \in Int /\ last \in Int /\ op.month \in Int
      /\ op.delta \in Int
  BY <1>1, OpFields DEF TypeOK, Months
<1>3. last > op.month /\ latest <= last
  BY <1>1, <1>2 DEF UpdateOK
<1>4. ASSUME NEW n \in Months, NEW j \in Keys, j \notin suspect
      PROVE  Settled(ActualMonth(n), j)' =
               IF n > op.month /\ j = op.key
               THEN Settled(ActualMonth(n), j) + op.delta
               ELSE Settled(ActualMonth(n), j)
  <2> DEFINE a == IF n > last THEN last ELSE n
  <2>1. KeyOK(j)
    BY <1>4 DEF IInv
  <2>2. a \in Months /\ a <= last /\ n \in Int
    BY <1>2
  <2>3. ActualMonth(n)' = a
    BY <1>1 DEF ActualMonth
  <2>4. Settled(ActualMonth(n), j)' = chk[a][j]
    <3>1. Bumped(ActualMonth(n), j)' = 0
      BY <1>1 DEF Bumped
    <3>2. chk[a][j] \in Int
      BY <1>1, <2>2, Balances
    <3> QED
      BY <1>1, <2>3, <3>1, <3>2 DEF Settled
  <2>5. Settled(a, j) = Settled(ActualMonth(n), j)
    <3>1. CASE a <= latest
      <4>1. ActualMonth(n) = a
        BY <1>2, <1>3, <2>2, <3>1 DEF ActualMonth
      <4> QED
        BY <4>1
    <3>2. CASE ~(a <= latest)
      <4>1. ActualMonth(n) = latest
        BY <1>2, <1>3, <2>2, <3>2 DEF ActualMonth
      <4>2. a > latest
        BY <1>2, <2>2, <3>2
      <4>3. Settled(a, j) = Settled(latest, j)
        BY <1>1, <2>1, <2>2, <4>2 DEF KeyOK
      <4> QED
        BY <4>1, <4>3
    <3> QED
      BY <3>1, <3>2
  <2>6. chk[a][j] = Settled(a, j) + Bumped(a, j)
    <3>1. chk[a][j] \in Int /\ Bumped(a, j) \in Int
      BY <1>1, <1>2, <2>2, Balances DEF Bumped
    <3> QED
      BY <3>1 DEF Settled
  <2>7. Bumped(a, j) = IF n > op.month /\ j = op.key THEN op.delta ELSE 0
    BY <1>1, <1>2, <1>3, <2>2 DEF Bumped
  <2>8. Settled(ActualMonth(n), j) \in Int
    <3>1. chk[a][j] \in Int /\ Bumped(a, j) \in Int
      BY <1>1, <1>2, <2>2, Balances DEF Bumped
    <3> QED
      BY <2>5, <3>1 DEF Settled
  <2> QED
    BY <2>4, <2>5, <2>6, <2>7, <2>8
<1>5. suspect' = suspect
  BY DEF SetLatest
<1> QED
  BY <1>4, <1>5 DEF Book!Post, Book!Months, View, Months

(* Seen by the readers, a crash forgets the keys it may have damaged.      *)
LEMMA CrashForgets ==
  ASSUME IInv, Crash
  PROVE  Book!Forget({op.key} \cup Residue)
<1>1. /\ busy' = FALSE /\ UNCHANGED <<chk, latest>>
      /\ suspect' = suspect \cup ({op.key} \cup Residue)
  BY DEF Crash
<1>2. ASSUME NEW n \in Months, NEW j \in Keys, j # op.key
      PROVE  Settled(ActualMonth(n), j)' = Settled(ActualMonth(n), j)
  BY <1>1, <1>2 DEF Settled, Bumped, ActualMonth
<1> QED
  BY <1>1, <1>2 DEF Book!Forget, Book!Months, View, Months

(* Through the readers' rule the update implements the abstract book: all  *)
(* its writes are invisible but the last, which posts the whole operation; *)
(* a crash makes it forget the keys whose records may be damaged.          *)
THEOREM UpdateImplementsBook == Spec => ReadsAsOneBook
<1>1. Init => Book!Init
  <2> SUFFICES ASSUME Init PROVE View = [m \in Months |-> [k \in Keys |-> 0]]
    BY DEF Init, Book!Init, Book!Months, Months
  <2>1. ASSUME NEW m \in Months, NEW k \in Keys
        PROVE  Settled(ActualMonth(m), k) = 0
    <3>1. TypeOK
      BY InitIInv DEF IInv
    <3>2. ActualMonth(m) \in Months
      BY <3>1, ActualMonths
    <3> QED
      BY <3>2 DEF Init, Zero, Settled, Bumped
  <2> QED
    BY <2>1 DEF View
<1>2. IInv /\ [Next]_vars => [Book!Next]_<<View, suspect>>
  <2> SUFFICES ASSUME IInv, [Next]_vars
               PROVE  Book!Next \/ UNCHANGED <<View, suspect>>
    OBVIOUS
  <2>1. TypeOK /\ UpdateOK
    BY DEF IInv
  <2>2. ASSUME NEW o \in Ops, Begin(o) PROVE UNCHANGED <<View, suspect>>
    <3>1. \A m \in Months, k \in Keys : Settled(m, k)' = Settled(m, k)
      BY <2>1, <2>2, BeginSettled
    <3> QED
      BY <2>1, <2>2, <3>1, SameView DEF Begin
  <2>3. ASSUME NEW c \in todo, CopyForward(c) PROVE UNCHANGED <<View, suspect>>
    <3>1. c.month > latest /\ c.month \in Int /\ latest \in Int
      BY <2>1, <2>3, CopyFields DEF UpdateOK, CopyForward, TypeOK, Months
    <3>2. \A m \in Months : m <= latest => chk'[m] = chk[m]
      BY <2>1, <2>3, <3>1 DEF CopyForward, TypeOK, Months
    <3>3. \A m \in Months, k \in Keys : m <= latest => Settled(m, k)' = Settled(m, k)
      BY <2>1, <2>3, <3>2, CopySettled
    <3> QED
      BY <2>1, <2>3, <3>3, SameView DEF CopyForward
  <2>4. CASE Bump
    <3>1. \A m \in Months, k \in Keys : Settled(m, k)' = Settled(m, k)
      BY <2>1, <2>4, BumpSettled
    <3> QED
      BY <2>1, <2>4, <3>1, SameView DEF Bump
  <2>5. CASE SetLatest
    <3>1. Book!Post(op.month, op.key, op.delta)
      BY <2>5, SetLatestPosts
    <3>2. op.month \in 0 .. Horizon - 1 /\ op.key \in Keys /\ op.delta \in Deltas
      BY <2>1, OpFields DEF TypeOK, Ops
    <3>3. op.month \in Book!Months \ {Horizon}
      BY <3>2, CheckpointsAssumption DEF Book!Months
    <3> QED
      BY <3>1, <3>2, <3>3 DEF Book!Next
  <2>6. CASE Crash
    <3>1. {op.key} \cup Residue \subseteq Keys
      BY <2>1, OpFields DEF Residue, TypeOK
    <3>2. Book!Forget({op.key} \cup Residue)
      BY <2>6, CrashForgets
    <3> QED
      BY <3>1, <3>2 DEF Book!Next
  <2>7. CASE UNCHANGED vars
    BY <2>7 DEF vars, View, Settled, Bumped, ActualMonth
  <2> QED
    BY <2>2, <2>3, <2>4, <2>5, <2>6, <2>7 DEF Next, Step
<1> QED
  BY <1>1, <1>2, InvariantHolds, PTL DEF Spec, ReadsAsOneBook, Book!Spec
=============================================================================
