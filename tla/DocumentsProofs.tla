--------------------------- MODULE DocumentsProofs ---------------------------
(***************************************************************************)
(* Theorems about Documents, for any documents, versions, catalog, drugs   *)
(* and words.                                                              *)
(*                                                                         *)
(* An operation of a line carries the id of the line, and so does its      *)
(* place: what a save deletes and puts are entries of that line alone      *)
(* (OthersStay).  A line means one operation at most (OneOperation).  So   *)
(* the entries of a line are the one operation given by its id and the one *)
(* given by its uuid, or only the later of the two, as long as what a save *)
(* takes for the operation before is the one that the ledger was given.    *)
(***************************************************************************)
EXTENDS Documents, SequenceTheorems, TLAPS

(* Every name that a drug may be given, as indexed too, and the entries of the indexes. *)
GivenNames == {NoName} \cup UNION {{NameOf(c) : c \in Versions[d]} : d \in Drugs}

Entries == [drug : Drugs, name : {Plainly(n) : n \in GivenNames}]

(* Shapes of the index, and of the documents. *)
IndexInv ==
  /\ DOMAIN sim = Drugs
  /\ pending \in Seq(Entries)
  /\ committed \in Seq(Entries)

DocsInv ==
  /\ DOMAIN docs = Docs \cup DOMAIN Catalog
  /\ DOMAIN copies = Docs
  /\ \A d \in Docs : docs[d] \in Versions[d] \cup {None}
  /\ saves \in 0 .. MaxSaves

(* What the ledger was given last for a line, either way, is an operation  *)
(* of that line, one at most.                                              *)
MeantInv ==
  /\ last \in [Docs -> How]
  /\ DOMAIN meant = Docs /\ \A d \in Docs : DOMAIN meant[d] = How
  /\ \A d \in Docs, h \in How : \A o, p \in meant[d][h] : o = p
  /\ \A d \in Docs, h \in How : \A o \in meant[d][h] : o.id = d
  /\ \A d \in Docs : copies[d] = None => meant[d]["uuid"] = {} /\ last[d] = "id"

(* An entry is of a line and complete, and alone in its place. *)
LedgerInv ==
  /\ \A o \in ledger : o.id \in Docs /\ None \notin {o.date, o.store, o.goods}
  /\ \A o, p \in ledger : Place(o) = Place(p) => o = p

DInv == IndexInv /\ DocsInv /\ MeantInv /\ LedgerInv /\ LedgerIsOfLastSave

-----------------------------------------------------------------------------
(***************************************************************************)
(* The operations of a line.                                               *)
(***************************************************************************)

(* A line means one operation at most, and it is its own. *)
LEMMA OneOperation ==
  ASSUME NEW d, NEW c
  PROVE  /\ \A o, p \in Operations(d, c) : o = p
         /\ \A o \in Operations(d, c) : o.id = d /\ None \notin {o.date, o.store, o.goods}
<1>1. CASE HasOp(c)
  <2>1. Operations(d, c) = {Operation(d, c)}
    BY <1>1 DEF Operations
  <2>2. Operation(d, c).id = d /\ Operation(d, c).date = DateOf(c)
        /\ Operation(d, c).store = StoreOf(c) /\ Operation(d, c).goods = GoodsOf(c)
    BY DEF Operation
  <2>3. DateOf(c) # None /\ StoreOf(c) # None /\ GoodsOf(c) # None
    BY <1>1 DEF HasOp, Complete
  <2> QED
    BY <2>1, <2>2, <2>3
<1>2. CASE ~HasOp(c)
  BY <1>2 DEF Operations
<1> QED
  BY <1>1, <1>2

(* A save keeps the entries of every other line. *)
LEMMA OthersStay ==
  ASSUME NEW d, NEW e, e # d, NEW before, NEW after,
         \A o \in before \cup after : o.id = d
  PROVE  {o \in Mutated(before, after) : o.id = e} = {o \in ledger : o.id = e}
<1>1. ASSUME NEW o, NEW p \in before \cup after, o.id = e
      PROVE  Place(o) # Place(p)
  BY <1>1 DEF Place
<1> QED
  BY <1>1 DEF Mutated

(* Operations of one line in the same place have the same place in the     *)
(* ledger.                                                                 *)
LEMMA SamePlaceIsPlace ==
  ASSUME NEW o, NEW p, o.id = p.id, SamePlace(o, p)
  PROVE  Place(o) = Place(p)
BY DEF SamePlace, Place

(* A save takes back what was given before the same way, puts what is      *)
(* meant now, and touches nothing else in another place.                   *)
LEMMA OwnReplaced ==
  ASSUME NEW d, NEW before, NEW after,
         \A o \in before \cup after : o.id = d,
         \A o, p \in before : o = p
  PROVE  /\ after \subseteq Mutated(before, after)
         /\ Mutated(before, after) \subseteq (ledger \ before) \cup after
<1> DEFINE kept == \E o \in before, p \in after : SamePlace(o, p)
           gone == after \cup (IF kept THEN {} ELSE before)
<1>1. ASSUME NEW o \in before
      PROVE  \E p \in gone : Place(o) = Place(p)
  <2>1. CASE kept
    <3>1. PICK q \in before, p \in after : SamePlace(q, p)
      BY <2>1
    <3>2. q = o /\ q.id = p.id
      OBVIOUS
    <3>3. Place(o) = Place(p)
      BY <3>1, <3>2, SamePlaceIsPlace
    <3> QED
      BY <3>3
  <2>2. CASE ~kept
    BY <2>2
  <2> QED
    BY <2>1, <2>2
<1>2. Mutated(before, after) = {o \in ledger : \A p \in gone : Place(o) # Place(p)} \cup after
  BY DEF Mutated
<1> HIDE DEF gone
<1> QED
  BY <1>1, <1>2

(* No two entries of one place after a save. *)
LEMMA PlacesApart ==
  ASSUME NEW before, NEW after,
         \A o, p \in after : o = p,
         \A o, p \in ledger : Place(o) = Place(p) => o = p
  PROVE  \A o, p \in Mutated(before, after) : Place(o) = Place(p) => o = p
<1> DEFINE gone == after \cup
             (IF \E o \in before, p \in after : SamePlace(o, p) THEN {} ELSE before)
<1>1. Mutated(before, after) = {o \in ledger : \A p \in gone : Place(o) # Place(p)} \cup after
  BY DEF Mutated
<1>2. after \subseteq gone
  OBVIOUS
<1> HIDE DEF gone
<1> QED
  BY <1>1, <1>2

-----------------------------------------------------------------------------
(***************************************************************************)
(* The invariant.                                                          *)
(***************************************************************************)

LEMMA InitInv == Init => DInv
<1> SUFFICES ASSUME Init PROVE DInv
  OBVIOUS
<1> USE DocumentsAssumption
<1>1. IndexInv
  BY DEF Init, IndexInit, IndexInv
<1>2. DocsInv
  BY DEF Init, DocsInv
<1>3. MeantInv /\ LedgerInv /\ LedgerIsOfLastSave
  BY DEF Init, MeantInv, LedgerInv, LedgerIsOfLastSave, How
<1> QED
  BY <1>1, <1>2, <1>3 DEF DInv

(* The names that a drug may be given are names of the index. *)
LEMMA NameGiven ==
  ASSUME NEW d \in Drugs
  PROVE  \A c \in Versions[d] : NameOf(c) \in GivenNames
BY DEF GivenNames

(* Changes of a name keep the shape of the index. *)
LEMMA NameKeepsIndex ==
  ASSUME IndexInv, NEW d \in Drugs, NEW before, NEW after \in GivenNames,
         NameChanged(d, before, after)
  PROVE  IndexInv'
<1> DEFINE e == Entry(d, Plainly(after))
<1>1. e \in Entries
  BY DEF Entry, Entries
<1> HIDE DEF e
<1>2. ASSUME NEW w \in Seq(Entries), NEW v \in Seq(Entries), Add(w, v, e)
      PROVE  pending' \in Seq(Entries) /\ committed' \in Seq(Entries)
  <2>1. Append(w, e) \in Seq(Entries)
    BY <1>1
  <2>2. v \o Append(w, e) \in Seq(Entries)
    BY <2>1, ConcatProperties
  <2>3. <<>> \in Seq(Entries)
    OBVIOUS
  <2> QED
    BY <1>2, <2>1, <2>2, <2>3 DEF Add
<1>3. committed \o pending \in Seq(Entries) /\ <<>> \in Seq(Entries)
  BY ConcatProperties DEF IndexInv
<1>4. CASE UNCHANGED index
  BY <1>4 DEF index, IndexInv
<1>5. CASE CreateName(d, after)
  BY <1>5, <1>2 DEF CreateName, IndexInv, e
<1>6. CASE DeleteName(d)
  BY <1>6, <1>3 DEF DeleteName, Deleted, IndexInv
<1>7. CASE ChangeName(d, after)
  BY <1>7, <1>2, <1>3 DEF ChangeName, Deleted, IndexInv, e
<1> QED
  BY <1>4, <1>5, <1>6, <1>7 DEF NameChanged

(* The ledger after a save, as far as it was given anything: a save by the *)
(* id leaves the copy alone, one by the uuid leaves a copy.                *)
LEMMA ReceiveKeepsLedger ==
  ASSUME MeantInv, LedgerInv, LedgerIsOfLastSave,
         NEW d \in Docs, NEW how \in How, NEW before, NEW after,
         ReceiveData(d, how, before, after),
         \A e \in Docs : e # d => copies'[e] = copies[e],
         how = "id" => copies'[d] = copies[d],
         how = "uuid" => copies'[d] # None
  PROVE  MeantInv' /\ LedgerInv' /\ LedgerIsOfLastSave'
<1> DEFINE old == Operations(d, before)
           new == Operations(d, after)
<1>1. /\ \A o, p \in old : o = p
      /\ \A o, p \in new : o = p
      /\ \A o \in old \cup new : o.id = d /\ None \notin {o.date, o.store, o.goods}
  BY OneOperation
<1>a. "id" \in How /\ "uuid" \in How /\ \A h \in How : h = "id" \/ h = "uuid"
  BY DEF How
<1>b. \A e \in Docs : copies'[e] = None => copies[e] = None /\ (e = d => how = "id")
  BY <1>a
<1>2. CASE UNCHANGED <<ledger, meant, last, astray>>
  BY <1>2, <1>b DEF MeantInv, LedgerInv, LedgerIsOfLastSave, Place
<1>3. CASE /\ ledger' = Mutated(old, new)
           /\ meant' = [meant EXCEPT ![d][how] = new]
           /\ last' = [last EXCEPT ![d] = how]
           /\ astray' = IF old = meant[d][how] THEN astray ELSE astray \cup {d}
  <2> HIDE DEF old, new
  <2>a. /\ meant'[d][how] = new
        /\ \A h \in How : h # how => meant'[d][h] = meant[d][h]
        /\ \A e \in Docs : e # d => meant'[e] = meant[e]
        /\ DOMAIN meant' = Docs /\ \A e \in Docs : DOMAIN meant'[e] = How
    BY <1>3 DEF MeantInv
  <2>b. /\ last'[d] = how /\ last' \in [Docs -> How]
        /\ \A e \in Docs : e # d => last'[e] = last[e]
    BY <1>3 DEF MeantInv
  <2>1. MeantInv'
    <3>1. \A e \in Docs, h \in How : \A o, p \in meant'[e][h] : o = p
      BY <1>1, <2>a DEF MeantInv
    <3>2. \A e \in Docs, h \in How : \A o \in meant'[e][h] : o.id = e
      BY <1>1, <2>a DEF MeantInv
    <3>3. ASSUME NEW e \in Docs, copies'[e] = None
          PROVE  meant'[e]["uuid"] = {} /\ last'[e] = "id"
      BY <1>a, <1>b, <2>a, <2>b, <3>3 DEF MeantInv
    <3> QED
      BY <2>a, <2>b, <3>1, <3>2, <3>3 DEF MeantInv
  <2>2. \A o, p \in ledger' : Place(o) = Place(p) => o = p
    BY ONLY <1>1, <1>3, PlacesApart, LedgerInv DEF LedgerInv
  <2>3. \A o \in ledger' : o.id \in Docs /\ None \notin {o.date, o.store, o.goods}
    BY <1>1, <1>3 DEF Mutated, LedgerInv
  <2>4. ASSUME NEW e \in Docs \ astray'
        PROVE  LET held == {o \in ledger' : o.id = e}
               IN  /\ meant'[e][last'[e]] \subseteq held
                   /\ held \subseteq meant'[e]["id"] \cup meant'[e]["uuid"]
                   /\ copies'[e] = None => held = meant'[e]["id"]
    <3>1. CASE e = d
      <4>1. old = meant[d][how] /\ d \notin astray
        BY <1>3, <2>4, <3>1
      <4>2. /\ new \subseteq Mutated(old, new)
            /\ Mutated(old, new) \subseteq (ledger \ old) \cup new
        <5>1. (\A o \in old \cup new : o.id = d) /\ (\A o, p \in old : o = p)
          BY ONLY <1>1
        <5> QED
          BY ONLY <5>1, OwnReplaced
      <4>3. {o \in ledger : o.id = d} \subseteq meant[d]["id"] \cup meant[d]["uuid"]
        BY <4>1 DEF LedgerIsOfLastSave
      <4>4. new \subseteq {o \in ledger' : o.id = d}
        BY <1>1, <1>3, <4>2
      <4>5. {o \in ledger' : o.id = d} \subseteq meant'[d]["id"] \cup meant'[d]["uuid"]
        <5>1. ASSUME NEW o \in ledger', o.id = d, o \notin new
              PROVE  \E h \in How : h # how /\ o \in meant[d][h]
          BY <1>3, <1>a, <4>1, <4>2, <4>3, <5>1
        <5> QED
          BY <1>a, <2>a, <5>1
      <4>6. copies'[d] = None => meant'[d]["uuid"] = {} /\ how = "id"
        BY <1>b, <2>1 DEF MeantInv
      <4> QED
        BY <2>a, <2>b, <3>1, <4>4, <4>5, <4>6
    <3>2. CASE e # d
      <4>1. {o \in ledger' : o.id = e} = {o \in ledger : o.id = e}
        BY <1>1, <1>3, <3>2, OthersStay
      <4>2. e \in Docs \ astray
        BY <1>3, <2>4
      <4> QED
        BY <2>a, <2>b, <3>2, <4>1, <4>2 DEF LedgerIsOfLastSave
    <3> QED
      BY <3>1, <3>2
  <2> QED
    BY <2>1, <2>2, <2>3, <2>4 DEF LedgerInv, LedgerIsOfLastSave, Place
<1> QED
  BY <1>2, <1>3 DEF ReceiveData

(* A save, by the id or by the uuid. *)
LEMMA SaveInv ==
  ASSUME DInv, NEW d \in Docs, NEW c \in Versions[d], Save(d, c) \/ SaveByUuid(d, c)
  PROVE  DInv'
<1>1. PICK how \in How :
        /\ SaveData(d, how, c)
        /\ how = "id" => docs' = [docs EXCEPT ![d] = c] /\ copies' = copies
        /\ how = "uuid" => docs' = docs /\ copies' = [copies EXCEPT ![d] = c]
  BY DEF Save, SaveByUuid, How
<1>2. how = "id" \/ how = "uuid"
  BY DEF How
<1>3. IndexInv'
  <2>1. CASE d \in Drugs
    <3>1. NameOf(c) \in GivenNames
      BY <2>1, NameGiven
    <3> QED
      BY <1>1, <2>1, <3>1, NameKeepsIndex DEF DInv, SaveData
  <2>2. CASE d \notin Drugs
    BY <1>1, <2>2 DEF DInv, SaveData, IndexInv, index
  <2> QED
    BY <2>1, <2>2
<1>4. DocsInv'
  BY <1>1, <1>2, DocumentsAssumption DEF DInv, DocsInv, SaveData
<1>5. c # None /\ DOMAIN copies = Docs
  BY DocumentsAssumption DEF DInv, DocsInv
<1>6. /\ \A e \in Docs : e # d => copies'[e] = copies[e]
      /\ how = "id" => copies'[d] = copies[d]
      /\ how = "uuid" => copies'[d] # None
  BY <1>1, <1>2, <1>5
<1>7. MeantInv' /\ LedgerInv' /\ LedgerIsOfLastSave'
  BY <1>1, <1>6, ReceiveKeepsLedger DEF DInv, SaveData
<1> QED
  BY <1>3, <1>4, <1>7 DEF DInv

LEMMA RestartInv ==
  ASSUME DInv, Restart
  PROVE  DInv'
<1>1. IndexInv'
  BY DEF DInv, IndexInv, Restart, Load
<1>2. DocsInv'
  BY DEF DInv, DocsInv, Restart
<1>3. MeantInv' /\ LedgerInv' /\ LedgerIsOfLastSave'
  BY DEF DInv, MeantInv, LedgerInv, LedgerIsOfLastSave, Restart, Place
<1> QED
  BY <1>1, <1>2, <1>3 DEF DInv

LEMMA InvHolds == Spec => []DInv
<1>1. DInv /\ [Next]_vars => DInv'
  <2> SUFFICES ASSUME DInv, [Next]_vars PROVE DInv'
    OBVIOUS
  <2>1. CASE UNCHANGED vars
    BY <2>1 DEF vars, index, DInv, IndexInv, DocsInv, MeantInv, LedgerInv,
                LedgerIsOfLastSave, Place
  <2>2. CASE Next
    BY <2>2, SaveInv, RestartInv DEF Next
  <2> QED
    BY <2>1, <2>2
<1> QED
  BY <1>1, InitInv, PTL DEF Spec

-----------------------------------------------------------------------------
(* The shapes of all variables; an entry of the ledger says when, where    *)
(* and what, and no two entries are in one place.                          *)
THEOREM DocumentsTypes == Spec => []TypeOK
<1>1. DInv => TypeOK
  <2> SUFFICES ASSUME DInv PROVE TypeOK
    OBVIOUS
  <2>1. pending \o committed \in Seq(Entries)
    BY ConcatProperties DEF DInv, IndexInv
  <2>2. \A e \in ToSet(pending \o committed) : e.drug \in Drugs
    <3>1. PICK s \in Seq(Entries) : s = pending \o committed
      BY <2>1
    <3>2. \A i \in DOMAIN s : s[i] \in Entries
      OBVIOUS
    <3>3. \A e \in ToSet(s) : e \in Entries
      BY <3>2 DEF ToSet
    <3> QED
      BY <3>1, <3>3 DEF Entries
  <2> QED
    BY <2>2 DEF DInv, IndexInv, DocsInv, MeantInv, LedgerInv, TypeOK
<1> QED
  BY <1>1, InvHolds, PTL

(* Whatever is changed, in any order, in the headers, orders and catalog   *)
(* that a line refers to: the ledger holds for a line saved by its id what *)
(* it meant when it was last saved, and nothing else; for one saved by its *)
(* uuid too what the last save of all meant, and beside it at most what    *)
(* the last save the other way did; unless it was once saved while the     *)
(* version it replaced no longer meant what it did.                        *)
THEOREM LedgerOfLastSave == Spec => []LedgerIsOfLastSave
<1>1. DInv => LedgerIsOfLastSave
  BY DEF DInv
<1> QED
  BY <1>1, InvHolds, PTL
=============================================================================
