------------------------------ MODULE Documents ------------------------------
(***************************************************************************)
(* What the documents of the memories mean to the stock ledger.  A line    *)
(* says what moved; where and when it moved stands in the header it names, *)
(* and what an order produced in the order, its area and its product.      *)
(* Saving a line gives the ledger the difference of what it meant before   *)
(* and what it means now, both worked out from the other documents as they *)
(* are now.  A drug is saved like a line, and its name is indexed.         *)
(*                                                                         *)
(* A document is saved by its id, or by its uuid: then a copy is written   *)
(* that only a later save by the uuid is compared with.  Other documents   *)
(* refer to it by either and find the document, never the copy.            *)
(*                                                                         *)
(* A save is one step: Memories has its parts, and saves by uuid that      *)
(* leave the uuid out of what they save.  A document is its fields, None   *)
(* where there is none; a document found under a field is not asked for    *)
(* its kind, as in the code.  An entry of the ledger is an operation it    *)
(* was given, whatever StockLedger makes of it: the arrival of a transfer, *)
(* the parts of an issue.                                                  *)
(***************************************************************************)
EXTENDS TextSearch, FiniteSets, TLC

CONSTANTS
  None,      \* no field; no document
  Malformed, \* a batch whose uuid or date cannot be read
  Catalog,   \* documents saved before and not changed
  Versions,  \* Versions[d]: what document d may be saved as
  MaxSaves   \* bound on the number of saves

Docs == DOMAIN Versions

(* What a save is addressed to. *)
How == {"id", "uuid"}

ASSUME DocumentsAssumption ==
  /\ MaxSaves \in Nat
  /\ DOMAIN Catalog \cap Docs = {} /\ Drugs \subseteq Docs
  /\ \A d \in Docs : None \notin Versions[d]

VARIABLES
  docs,    \* docs[d]: the latest version of document d
  copies,  \* copies[d]: what was last saved by the uuid of d
  ledger,  \* the entries of the ledger
  meant,   \* history: meant[d][h], the operations the last save of d by h gave
  last,    \* history: last[d], how the last operations of d were given
  astray,  \* history: documents whose earlier operations could not be told
  saves    \* number of saves

vars == <<index, docs, copies, ledger, meant, last, astray, saves>>

(***************************************************************************)
(* json_to_ops: the operations of a document, none or one.                 *)
(***************************************************************************)

Find(ref) == IF ref \in DOMAIN docs THEN docs[ref] ELSE None

(* A field of a document, or of none. *)
In(doc, field) == IF doc # None /\ field \in DOMAIN doc THEN doc[field] ELSE None

OpType(ctx) ==
  CASE ctx \in {"receive", "produce", "produced"} -> "receive"
    [] ctx \in {"dispatch", "used"}               -> "dispatch"
    [] ctx = "transfer"                           -> "transfer"
    [] ctx = "inventory"                          -> "inventory"
    [] OTHER                                      -> None

(* The header, or the order: both are under "document" here. *)
HeaderOf(c) == Find(In(c, "document"))

DateOf(c) == In(IF c.ctx = "produce" THEN c ELSE HeaderOf(c), "date")

(* resolve_store: a storage that is there. *)
ResolveStore(doc, field) == IF Find(In(doc, field)) = None THEN None ELSE In(doc, field)

(* Where it comes from, for a transfer: the line may have its own.  What   *)
(* an order used is taken from its "storage_into".                         *)
StoreOf(c) ==
  CASE c.ctx = "transfer" ->
         IF In(c, "from") = None THEN ResolveStore(HeaderOf(c), "from")
                                 ELSE ResolveStore(c, "from")
    [] c.ctx \in {"produced", "used"} -> ResolveStore(c, "into")
    [] c.ctx = "produce" -> ResolveStore(Find(In(HeaderOf(c), "area")), "storage")
    [] OTHER -> ResolveStore(HeaderOf(c), "storage")

StoreInto(c) ==
  IF c.ctx # "transfer" THEN None
  ELSE IF In(c, "into") = None THEN ResolveStore(HeaderOf(c), "into")
                               ELSE ResolveStore(c, "into")

GoodsOf(c) ==
  LET ref == IF c.ctx = "produce" THEN In(Find(In(HeaderOf(c), "product")), "goods")
                                  ELSE In(c, "goods")
  IN  IF Find(ref) = None THEN None ELSE ref

(* Goods received are a batch of their own, those of an order one of the   *)
(* order; goods issued are of the batch named, which is copied there.      *)
BatchOf(d, c) ==
  CASE c.ctx = "produce"            -> [id |-> c.document, date |-> DateOf(c)]
    [] OpType(c.ctx) = "receive"    -> [id |-> d, date |-> DateOf(c)]
    [] OTHER                        -> In(c, "batch")

MarkedDeleted(c) == In(c, "status") = "deleted"

(* Mutant: goods that are not there are no reason to stop. *)
Complete_AnyGoods(c) ==
  /\ HeaderOf(c) # None
  /\ DateOf(c) # None
  /\ StoreOf(c) # None
  /\ c.ctx = "transfer" => StoreInto(c) # None
  /\ In(c, "qty") # None \/ In(c, "cost") # None

Complete(c) ==
  /\ HeaderOf(c) # None
  /\ DateOf(c) # None
  /\ StoreOf(c) # None
  /\ c.ctx = "transfer" => StoreInto(c) # None
  /\ GoodsOf(c) # None
  /\ In(c, "qty") # None \/ In(c, "cost") # None

HasOp(c) == c # None /\ ~MarkedDeleted(c) /\ OpType(c.ctx) # None /\ Complete(c)

(* Without a cost an issue or an inventory is costed by the ledger. *)
Operation(d, c) ==
  [id |-> d, kind |-> OpType(c.ctx), date |-> DateOf(c), goods |-> GoodsOf(c),
   store |-> StoreOf(c), into |-> StoreInto(c), batch |-> BatchOf(d, c),
   qty |-> In(c, "qty"), cost |-> In(c, "cost"),
   auto |-> OpType(c.ctx) # "receive" /\ In(c, "cost") = None]

Operations(d, c) == IF HasOp(c) THEN {Operation(d, c)} ELSE {}

(* A batch that cannot be read is an error, and not a line of no meaning. *)
Readable(d, c) == HasOp(c) => BatchOf(d, c) # Malformed

(***************************************************************************)
(* receive_data.                                                           *)
(***************************************************************************)

(* Mutant: a transfer to another storage counts as one in the same place. *)
SamePlace_AnyInto(o, p) ==
  o.store = p.store /\ o.goods = p.goods /\ o.batch = p.batch /\ o.date = p.date

SamePlace(o, p) ==
  /\ o.store = p.store /\ o.goods = p.goods /\ o.batch = p.batch
  /\ o.date = p.date /\ o.into = p.into

(* One entry of the ledger: the operation and where it arrives. *)
Place(o) == <<o.id, o.date, o.store, o.into, o.goods, o.batch>>

(* What was meant before is deleted, unless it is changed in its place;    *)
(* what is meant now replaces what is there.                               *)
Mutated(before, after) ==
  LET kept == \E o \in before, p \in after : SamePlace(o, p)
      gone == after \cup (IF kept THEN {} ELSE before)
  IN  {o \in ledger : \A p \in gone : Place(o) # Place(p)} \cup after

(* If either cannot be read the ledger is left as it is, and the document  *)
(* is saved all the same.                                                  *)
ReceiveData(d, how, before, after) ==
  LET old == Operations(d, before)
      new == Operations(d, after)
  IN  IF Readable(d, before) /\ Readable(d, after)
      THEN /\ ledger' = Mutated(old, new)
           /\ meant' = [meant EXCEPT ![d][how] = new]
           /\ last' = [last EXCEPT ![d] = how]
           /\ astray' = IF old = meant[d][how] THEN astray ELSE astray \cup {d}
      ELSE UNCHANGED <<ledger, meant, last, astray>>

(***************************************************************************)
(* The service.                                                            *)
(***************************************************************************)

Init ==
  /\ IndexInit
  /\ docs = [d \in Docs \cup DOMAIN Catalog |-> IF d \in Docs THEN None ELSE Catalog[d]]
  /\ copies = [d \in Docs |-> None]
  /\ ledger = {}
  /\ meant = [d \in Docs |-> [h \in How |-> {}]]
  /\ last = [d \in Docs |-> "id"]
  /\ astray = {}
  /\ saves = 0

NameOf(c) == IF In(c, "name") = None THEN NoName ELSE In(c, "name")

(* What a save finds where it is about to write. *)
Before(d, how) == IF how = "id" THEN docs[d] ELSE copies[d]

(* save_data: the name of a drug is indexed before anything else. *)
SaveData(d, how, c) ==
  /\ saves < MaxSaves
  /\ saves' = saves + 1
  /\ IF d \in Drugs THEN NameChanged(d, NameOf(Before(d, how)), NameOf(c)) ELSE UNCHANGED index
  /\ ReceiveData(d, how, Before(d, how), c)

(* By the id, which the first save gives. *)
Save(d, c) ==
  /\ SaveData(d, "id", c)
  /\ docs' = [docs EXCEPT ![d] = c]
  /\ UNCHANGED copies

(* By the uuid: the folder is built of what the request names, whatever    *)
(* the document was read by.                                               *)
SaveByUuid(d, c) ==
  /\ docs[d] # None
  /\ SaveData(d, "uuid", c)
  /\ copies' = [copies EXCEPT ![d] = c]
  /\ UNCHANGED docs

(* The names that a start may load for a drug: a copy is listed if its     *)
(* uuid looks like a year, and before or after the document.               *)
NamesOf(d) == {NameOf(c) : c \in {docs[d]} \cup ({copies[d]} \ {None})}

(* A start fails if there is a drug without a name. *)
Restart ==
  /\ \A d \in Drugs : docs[d] # None => NameOf(docs[d]) # NoName
  /\ \E names \in [Drugs -> Names \cup {NoName}] :
       /\ \A d \in Drugs : /\ names[d] \in NamesOf(d)
                           /\ docs[d] # None => names[d] # NoName
       /\ Load(names)
  /\ UNCHANGED <<docs, copies, ledger, meant, last, astray, saves>>

Next ==
  \/ \E d \in Docs : \E c \in Versions[d] : Save(d, c)
  \/ \E d \in Docs : \E c \in Versions[d] : SaveByUuid(d, c)
  \/ Restart

Spec == Init /\ [][Next]_vars

(***************************************************************************)
(* Properties.                                                             *)
(***************************************************************************)

TypeOK ==
  /\ DOMAIN docs = Docs \cup DOMAIN Catalog /\ DOMAIN copies = Docs
  /\ last \in [Docs -> How]
  /\ \A o \in ledger : o.id \in Docs /\ None \notin {o.date, o.store, o.goods}
  /\ \A o, p \in ledger : Place(o) = Place(p) => o = p
  /\ DOMAIN sim = Drugs /\ \A e \in ToSet(pending \o committed) : e.drug \in Drugs
  /\ saves \in 0 .. MaxSaves

(* Of a line that is always saved by its id the ledger holds what it meant *)
(* when it was last saved, not what it means now: a header that is changed *)
(* in between, in any way and back again, changes nothing.  Of a line that *)
(* is saved by its uuid too it holds what the last save of all meant, and  *)
(* may hold what the last save the other way did.  Only a line saved again *)
(* while it means something else than then can leave any other operation   *)
(* behind; and it is the only one concerned.                               *)
LedgerIsOfLastSave ==
  \A d \in Docs \ astray :
    LET held == {o \in ledger : o.id = d}
    IN  /\ meant[d][last[d]] \subseteq held
        /\ held \subseteq meant[d]["id"] \cup meant[d]["uuid"]
        /\ copies[d] = None => held = meant[d]["id"]

(* A drug saved by its id only is found by its name from the moment it is  *)
(* saved, also after a start that lost what was not committed, but for the *)
(* words with a letter that the start left as it is; and as long as it has *)
(* the name it was first given, it is not found by another, and not twice. *)
(* Pages show all that is found.                                           *)
DrugsAreFound ==
  /\ PagesShowAll
  /\ \A q \in Queries :
    LET found == FoundByWord(q) \o FoundAlike(q)
        own   == {d \in Drugs : copies[d] = None}
        name  == [d \in own |-> NameOf(docs[d])]
        known == [d \in own |-> name[d] \cup
                                IF sim[d] = Plainly(sim[d]) THEN Plainly(name[d]) ELSE {}]
        added == committed \o pending
        once  == {d \in own :
                    LET of == {i \in DOMAIN added : added[i].drug = d}
                    IN  /\ Cardinality(of) <= 1
                        /\ \A i \in of : added[i].name = Plainly(name[d])}
    IN  /\ {d \in own : known[d] \cap q # {}} \subseteq ToSet(found)
        /\ \A d \in ToSet(found) \cap once : Plainly(name[d]) \cap q # {}
        /\ \A d \in once : Cardinality({i \in DOMAIN found : found[i] = d}) <= 1

(* check_edit_document changes the storage of a header and expects the     *)
(* goods received under it to be in the new one, by the latest save of the *)
(* header either way.                                                      *)
StockFollowsHeaders ==
  \A o \in ledger :
    LET line   == docs[o.id]
        header == IF last[line.document] = "uuid" THEN copies[line.document]
                                                  ELSE docs[line.document]
    IN  line.ctx = "receive" => o.store = header.storage
=============================================================================
