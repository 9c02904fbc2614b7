------------------------------ MODULE Memories ------------------------------
(***************************************************************************)
(* The memories service: documents kept as folders of version files, with  *)
(* a symbolic link latest.json to one of them, and the stock ledger that   *)
(* is to say the same.                                                     *)
(*                                                                         *)
(* Requests run on several threads.  create takes the global LOCK to       *)
(* reserve an id, releases it, and takes it again to save; update and      *)
(* patch take it to save; patch reads the document before that, without    *)
(* it.  A save reads the version the link names, posts the difference to   *)
(* the ledger, writes the new version and moves the link in two steps.     *)
(* Any step may fail and end the request, posting may also panic, and the  *)
(* process may end between any two steps.                                  *)
(*                                                                         *)
(* A folder is named by the time of its creation; here documents are       *)
(* numbered in that order.  A document has a uuid too, and a request may   *)
(* name it by either.  What is read is found by both; but what is saved    *)
(* goes to a folder built from the string the request came with, so that   *)
(* requests by uuid save a copy of the document, in a folder of its own:   *)
(* Shadow(d).  A version is named by the time of its request, and only the *)
(* version that the link names is ever read: link[f] is its content, and   *)
(* the other versions are not kept; two requests of one millisecond that   *)
(* write one file are left out.                                            *)
(* What a document says is reduced to the place and quantity of its one    *)
(* operation; the header of the document it belongs to does not change.    *)
(* Readers other than patch change nothing: they are operators, get and    *)
(* find, and what they see while a save is under way is not told apart.    *)
(***************************************************************************)
EXTENDS Integers, FiniteSets, SequencesExt

CONSTANTS
  Threads,     \* the threads that serve requests
  Free,        \* the lock is free
  Poisoned,    \* a thread panicked while it held the lock
  MaxDocs,     \* bound on the number of documents
  MaxRequests, \* bound on the number of requests
  Places,      \* numbers: the store and goods of an operation
  Qtys,        \* numbers: 0 for a document marked as deleted
  Digits,      \* documents whose uuid begins with four decimal digits
  Fails,       \* whether steps of a request may fail
  Panics,      \* whether the ledger may panic
  Crashes      \* whether the process may end

ASSUME MemoriesAssumption ==
  /\ Free \notin Threads /\ Poisoned \notin Threads /\ Free # Poisoned
  /\ MaxDocs \in Nat /\ MaxRequests \in Nat
  /\ Places \subseteq Nat \ {0} /\ Qtys \subseteq Nat
  /\ Digits \subseteq 1 .. MaxDocs
  /\ Fails \in BOOLEAN /\ Panics \in BOOLEAN /\ Crashes \in BOOLEAN

VARIABLES
  lock,     \* who holds LOCK
  pc,       \* pc[t]: what thread t does next
  req,      \* req[t]: its request, see NoRequest
  folders,  \* the folders there are
  link,     \* link[f]: content of the version latest.json names, or Null
  index,    \* documents whose uuid leads to their folder
  ledger,   \* the stored operations
  known,    \* documents whose id was given to a client
  damaged,  \* history: documents with a save that did not finish
  asked     \* number of requests so far

vars == <<lock, pc, req, folders, link, index, ledger, known, damaged, asked>>
store == <<folders, link, index, ledger, known>>

Docs     == 1 .. MaxDocs
NoUuid   == 0

(* The folder of document d, by its id, is d, and its uuid is d too; the   *)
(* folder built from its uuid is another one.                              *)
Shadow(d) == MaxDocs + d
Folders   == Docs \cup {Shadow(d) : d \in Docs}
Owner(f)  == IF f > MaxDocs THEN f - MaxDocs ELSE f

Null     == [uuid |-> NoUuid, place |-> 0, qty |-> 0]
Payloads == [uuid : Docs \cup {NoUuid}, place : Places, qty : Qtys]

(* at is the folder that the id or uuid of the request leads to. *)
NoRequest == [kind |-> "none", at |-> 0, data |-> Null, todo |-> <<>>]

Saving == {"posting", "unlinking", "relinking", "indexing"}

Init ==
  /\ lock = Free
  /\ pc = [t \in Threads |-> "idle"]
  /\ req = [t \in Threads |-> NoRequest]
  /\ folders = {}
  /\ link = [f \in Folders |-> Null]
  /\ index = {}
  /\ ledger = {}
  /\ known = {}
  /\ damaged = {}
  /\ asked = 0

(***************************************************************************)
(* The ledger.                                                             *)
(***************************************************************************)

(* json_to_ops: nothing without a uuid or when marked as deleted. *)
OpsOf(c) == IF c.uuid = NoUuid \/ c.qty = 0 THEN {} ELSE {c}

SameKey(o, p) == o.uuid = p.uuid /\ o.place = p.place

Put(o) == [what |-> "put", op |-> o]
Del(o) == [what |-> "del", op |-> o]

(* receive_data: what the version before and the new one differ in. *)
Mutations(before, after) ==
  LET old == OpsOf(before)
      new == OpsOf(after)
      kept == \E o \in old, p \in new : SameKey(o, p)
      deletions == IF kept \/ old = {} THEN <<>> ELSE <<Del(before)>>
  IN  deletions \o (IF new = {} THEN <<>> ELSE <<Put(after)>>)

Applied(m) ==
  {o \in ledger : ~SameKey(o, m.op)} \cup (IF m.what = "put" THEN {m.op} ELSE {})

(***************************************************************************)
(* Requests.                                                               *)
(***************************************************************************)

Asked(t, kind, f, data, step) ==
  /\ pc[t] = "idle"
  /\ asked < MaxRequests
  /\ asked' = asked + 1
  /\ req' = [req EXCEPT ![t] = [kind |-> kind, at |-> f, data |-> data, todo |-> <<>>]]
  /\ pc' = [pc EXCEPT ![t] = step]
  /\ UNCHANGED <<lock, store, damaged>>

(* Within the bound on documents there is an id for every creation. *)
AskCreate(t) ==
  /\ Cardinality(folders \cap Docs) + Cardinality({u \in Threads : pc[u] = "reserving"}) < MaxDocs
  /\ \E p \in Places, q \in Qtys \ {0} :
       Asked(t, "create", 0, [uuid |-> NoUuid, place |-> p, qty |-> q], "reserving")

(* Mutant: the lock is kept for the save. *)
Reserve_KeepsLock(t) ==
  /\ pc[t] = "reserving"
  /\ lock = Free
  /\ lock' = t
  /\ \E d \in Docs \ folders :
       /\ \A e \in Docs \ folders : d <= e
       /\ folders' = folders \cup {d}
       /\ req' = [req EXCEPT ![t].at = d, ![t].data.uuid = d]
  /\ pc' = [pc EXCEPT ![t] = "waiting"]
  /\ UNCHANGED <<link, index, ledger, known, damaged, asked>>

(* The first free id from now on, under the lock; an empty first version   *)
(* keeps it when the lock is released.                                     *)
Reserve(t) ==
  /\ pc[t] = "reserving"
  /\ lock = Free
  /\ \E d \in Docs \ folders :
       /\ \A e \in Docs \ folders : d <= e
       /\ folders' = folders \cup {d}
       /\ req' = [req EXCEPT ![t].at = d, ![t].data.uuid = d]
  /\ pc' = [pc EXCEPT ![t] = "waiting"]
  /\ UNCHANGED <<lock, link, index, ledger, known, damaged, asked>>

(* The client sends the whole document, with its uuid or without, to its   *)
(* id or to its uuid.                                                      *)
AskUpdate(t) ==
  \E d \in known : \E c \in Payloads, f \in {d, Shadow(d)} :
    c.uuid \in {d, NoUuid} /\ Asked(t, "update", f, c, "waiting")

(* The client sends one field, to its id or to its uuid. *)
AskPatch(t) ==
  \E d \in known : \E f \in {d, Shadow(d)} :
    \/ \E p \in Places : Asked(t, "patch place", f, [Null EXCEPT !.place = p], "reading")
    \/ \E q \in Qtys : Asked(t, "patch qty", f, [Null EXCEPT !.qty = q], "reading")

Merged(c, r) ==
  IF r.kind = "patch place" THEN [c EXCEPT !.place = r.data.place]
                            ELSE [c EXCEPT !.qty = r.data.qty]

Idle(t) ==
  /\ pc' = [pc EXCEPT ![t] = "idle"]
  /\ req' = [req EXCEPT ![t] = NoRequest]

(* get: by its id, which is its folder, or by its uuid. *)
ResolveId(d)   == IF d \in folders THEN link[d] ELSE Null
ResolveUuid(u) == IF u \in index THEN link[u] ELSE Null

(* The document is read without the lock; it may just be without a link.   *)
(* A uuid leads to the document, not to the copy that is saved by uuid.    *)
ReadForPatch(t) ==
  /\ pc[t] = "reading"
  /\ LET f == req[t].at
         latest == IF f \in Docs THEN ResolveId(f) ELSE ResolveUuid(Owner(f))
     IN  IF latest = Null
         THEN Idle(t)
         ELSE /\ req' = [req EXCEPT ![t].data = Merged(latest, req[t])]
              /\ pc' = [pc EXCEPT ![t] = "waiting"]
  /\ UNCHANGED <<lock, store, damaged, asked>>

(***************************************************************************)
(* Readers: the folders of a context, newest first or last, a page at a    *)
(* time.  A copy is listed only where its first letters pass for a year;   *)
(* that it comes after the documents stands for any place among them.      *)
(***************************************************************************)

Listed == {f \in folders : f \in Docs \/ Owner(f) \in Digits}

List(reverse) ==
  SetToSortSeq(Listed, LAMBDA d, e : IF reverse THEN d < e ELSE d > e)

Part(s, skip, limit) == SubSeq(s, skip + 1, IF skip + limit < Len(s) THEN skip + limit ELSE Len(s))

(* Without a filter one document that cannot be read is an error for all   *)
(* of its page.                                                            *)
FindAll(reverse, skip, limit) ==
  LET page == Part(List(reverse), skip, limit)
  IN  IF \E i \in DOMAIN page : link[page[i]] = Null
      THEN [total |-> 0, data |-> <<>>, error |-> TRUE]
      ELSE [total |-> Len(List(reverse)), data |-> page, error |-> FALSE]

(* Receipts, transfers and issues are shown when they are deleted too.     *)
Shown(d, showDeleted) == link[d] # Null /\ (showDeleted \/ link[d].qty # 0)

(* With a filter the total is known only when no page is left.             *)
FindWhere(Fit, showDeleted, reverse, skip, limit) ==
  LET hits == SelectSeq(List(reverse), LAMBDA d : Shown(d, showDeleted) /\ d \in Fit)
      page == Part(hits, skip, limit)
  IN  [total |-> IF page = <<>> THEN Len(hits) ELSE -1, data |-> page]

(***************************************************************************)
(* save_data.                                                              *)
(***************************************************************************)

KeepIds(before, c) ==
  IF before.uuid = NoUuid THEN c ELSE [c EXCEPT !.uuid = before.uuid]

(* Mutant: the ids of the stored document are not kept. *)
Enter_ForeignIds(t) ==
  /\ pc[t] = "waiting"
  /\ lock = Free
  /\ lock' = t
  /\ req' = [req EXCEPT ![t].todo = Mutations(link[req[t].at], req[t].data)]
  /\ pc' = [pc EXCEPT ![t] = "posting"]
  /\ UNCHANGED <<store, damaged, asked>>

(* Mutant: nothing is locked. *)
Enter_Unlocked(t) ==
  /\ pc[t] = "waiting"
  /\ LET before == link[req[t].at]
         data   == KeepIds(before, req[t].data)
     IN  req' = [req EXCEPT ![t].data = data, ![t].todo = Mutations(before, data)]
  /\ pc' = [pc EXCEPT ![t] = "posting"]
  /\ UNCHANGED <<lock, store, damaged, asked>>

(* The lock is taken and the version before is read; its ids are kept.     *)
(* Any error of reading it counts as if there were none.                   *)
Enter(t) ==
  /\ pc[t] = "waiting"
  /\ lock = Free
  /\ lock' = t
  /\ \E before \in {link[req[t].at]} \cup (IF Fails THEN {Null} ELSE {}) :
       LET data == KeepIds(before, req[t].data)
       IN  /\ req' = [req EXCEPT ![t].data = data, ![t].todo = Mutations(before, data)]
           /\ damaged' = damaged \cup
                (IF before = link[req[t].at] THEN {} ELSE {Owner(req[t].at)})
  /\ pc' = [pc EXCEPT ![t] = "posting"]
  /\ UNCHANGED <<store, asked>>

(* One mutation is recorded in the ledger. *)
Post(t) ==
  /\ pc[t] = "posting"
  /\ req[t].todo # <<>>
  /\ ledger' = Applied(Head(req[t].todo))
  /\ req' = [req EXCEPT ![t].todo = Tail(@)]
  /\ UNCHANGED <<lock, pc, folders, link, index, known, damaged, asked>>

(* The new version is written; nothing reads it before the link names it. *)
Save(t) ==
  /\ pc[t] = "posting"
  /\ req[t].todo = <<>>
  /\ folders' = folders \cup {req[t].at}
  /\ pc' = [pc EXCEPT ![t] = "unlinking"]
  /\ UNCHANGED <<lock, req, link, index, ledger, known, damaged, asked>>

Unlink(t) ==
  /\ pc[t] = "unlinking"
  /\ link' = [link EXCEPT ![req[t].at] = Null]
  /\ pc' = [pc EXCEPT ![t] = "relinking"]
  /\ UNCHANGED <<lock, req, folders, index, ledger, known, damaged, asked>>

Relink(t) ==
  /\ pc[t] = "relinking"
  /\ link' = [link EXCEPT ![req[t].at] = req[t].data]
  /\ pc' = [pc EXCEPT ![t] = "indexing"]
  /\ UNCHANGED <<lock, req, folders, index, ledger, known, damaged, asked>>

(* Mutant: a new document is not indexed. *)
Finish_Unindexed(t) ==
  /\ pc[t] = "indexing"
  /\ known' = known \cup {Owner(req[t].at)}
  /\ index' = index \cup ({req[t].data.uuid} \cap known)
  /\ lock' = Free
  /\ Idle(t)
  /\ UNCHANGED <<folders, link, ledger, damaged, asked>>

(* Mutant: a document without a uuid is indexed too. *)
Finish_AnyUuid(t) ==
  /\ pc[t] = "indexing"
  /\ known' = known \cup {Owner(req[t].at)}
  /\ index' = index \cup {req[t].data.uuid}
  /\ lock' = Free
  /\ Idle(t)
  /\ UNCHANGED <<folders, link, ledger, damaged, asked>>

(* The uuid is indexed, the lock released and the client answered.  What   *)
(* is saved by uuid is indexed already, and stays with its document.       *)
Finish(t) ==
  /\ pc[t] = "indexing"
  /\ known' = known \cup {Owner(req[t].at)}
  /\ index' = index \cup ({req[t].data.uuid} \ {NoUuid})
  /\ lock' = Free
  /\ Idle(t)
  /\ UNCHANGED <<folders, link, ledger, damaged, asked>>

(***************************************************************************)
(* What may go wrong.                                                      *)
(***************************************************************************)

(* A step of a save fails: what it did so far stays. *)
Fail(t) ==
  /\ Fails
  /\ pc[t] \in Saving
  /\ lock' = Free
  /\ damaged' = damaged \cup {Owner(req[t].at)}
  /\ Idle(t)
  /\ UNCHANGED <<store, asked>>

(* A reservation fails, with or without a folder left behind. *)
FailReserve(t) ==
  /\ Fails
  /\ pc[t] = "reserving"
  /\ lock = Free
  /\ \/ UNCHANGED <<folders, damaged>>
     \/ \E d \in Docs \ folders :
          /\ \A e \in Docs \ folders : d <= e
          /\ folders' = folders \cup {d}
          /\ damaged' = damaged \cup {d}
  /\ Idle(t)
  /\ UNCHANGED <<lock, link, index, ledger, known, asked>>

(* The ledger panics: the lock is poisoned. *)
Panic(t) ==
  /\ Panics
  /\ pc[t] = "posting"
  /\ lock' = Poisoned
  /\ damaged' = damaged \cup {Owner(req[t].at)}
  /\ Idle(t)
  /\ UNCHANGED <<store, asked>>

(* To take a poisoned lock is a panic again, which ends the request. *)
Refused(t) ==
  /\ pc[t] \in {"reserving", "waiting"}
  /\ lock = Poisoned
  /\ damaged' = damaged \cup ({Owner(req[t].at)} \ (known \cup {0}))
  /\ Idle(t)
  /\ UNCHANGED <<lock, store, asked>>

(* The process ends and starts again; there is nothing it repairs. *)
Crash ==
  /\ Crashes
  /\ \E t \in Threads : pc[t] # "idle"
  /\ lock' = Free
  /\ pc' = [t \in Threads |-> "idle"]
  /\ req' = [t \in Threads |-> NoRequest]
  /\ damaged' = damaged \cup
       {Owner(req[t].at) : t \in {u \in Threads : pc[u] \in Saving}}
         \cup ((folders \cap Docs) \ known)
  /\ UNCHANGED <<store, asked>>

Work(t) ==
  \/ Reserve(t) \/ ReadForPatch(t)
  \/ Enter(t) \/ Post(t) \/ Save(t) \/ Unlink(t) \/ Relink(t) \/ Finish(t)
  \/ Refused(t)

Next ==
  \/ \E t \in Threads :
       \/ AskCreate(t) \/ AskUpdate(t) \/ AskPatch(t)
       \/ Work(t)
       \/ Fail(t) \/ FailReserve(t) \/ Panic(t)
  \/ Crash

Spec == Init /\ [][Next]_vars

(* A thread goes on, and one that waits for the lock gets it when it is    *)
(* free often enough.                                                      *)
FairSpec == Spec /\ \A t \in Threads : SF_vars(Work(t))

(***************************************************************************)
(* Properties.                                                             *)
(***************************************************************************)

Contents == Payloads \cup {Null}

TypeOK ==
  /\ lock \in Threads \cup {Free, Poisoned}
  /\ pc \in [Threads -> Saving \cup {"idle", "reserving", "reading", "waiting"}]
  /\ \A t \in Threads : req[t].at \in Folders \cup {0} /\ req[t].data.uuid \in Docs \cup {NoUuid}
  /\ link \in [Folders -> Contents]
  /\ folders \subseteq Folders /\ index \subseteq Docs /\ known \subseteq folders \cap Docs
  /\ \A o, p \in ledger : SameKey(o, p) => o = p

(* A document and the copy of it that was saved by its uuid, if any. *)
Copies(d) == {d} \cup {f \in {Shadow(d)} : link[f] # Null}

(* While no document is being saved, the ledger holds for each document    *)
(* exactly the operation of its latest version, whatever creations,        *)
(* updates and patches met: also patches that read an older version.  Only *)
(* one that was saved by its uuid too may have the operation of its copy   *)
(* in place of its own, or both, for the copy knows nothing of what the    *)
(* document said before; but never an operation of an older version of     *)
(* either, and one of the two is always there.  A save that fails or is    *)
(* cut short, or cannot read the version before, can put only its own      *)
(* document wrong.                                                         *)
LedgerFollowsDocuments ==
  (\A t \in Threads : pc[t] \notin Saving) =>
    \A d \in Docs \ damaged :
      LET held == {o \in ledger : o.uuid = d}
      IN  /\ \E f \in Copies(d) : OpsOf(link[f]) \subseteq held
          /\ \A o \in held : \E f \in Copies(d) : o \in OpsOf(link[f])

(* A document is found by its id and by its uuid alike, also one that was  *)
(* saved by its uuid: what it finds is the document, never the copy.       *)
FoundAlike ==
  \A d \in (folders \cap Docs) \ damaged :
    ResolveId(d) # Null /\ ResolveUuid(d) = ResolveId(d)

(* While nothing is being done, every document is found by its id and by   *)
(* its uuid alike; a client that filters and asks for page after page gets *)
(* each document that fits, and gets it once unless it has a copy that is  *)
(* listed too, whatever became of others; and without a filter it gets all *)
(* there are, unless a save was cut short.                                 *)
DocumentsReadable ==
  (\A t \in Threads : pc[t] = "idle") =>
    /\ FoundAlike
    /\ \A limit \in 1 .. MaxDocs, reverse \in BOOLEAN :
         LET Shows(p, n) == FindWhere({f \in folders : link[f].place = p}, FALSE, reverse, (n - 1) * limit, limit)
             All(n) == FindAll(reverse, (n - 1) * limit, limit)
             Pages == 1 .. Cardinality(Folders) + 1
         IN  /\ \A p \in Places :
                  LET shown == FlattenSeq([n \in Pages |-> Shows(p, n).data])
                  IN  /\ IsInjective(shown)
                      /\ \A i, j \in DOMAIN shown :
                           i # j /\ Owner(shown[i]) = Owner(shown[j]) => Owner(shown[i]) \in Digits
                      /\ {d \in (folders \cap Docs) \ damaged : link[d].place = p /\ link[d].qty # 0}
                           \subseteq ToSet(shown)
                      /\ \E n \in Pages : Shows(p, n).total = Len(shown)
             /\ (\A f \in Listed : Owner(f) \notin damaged) =>
                  /\ \A n \in Pages : ~All(n).error /\ All(n).total = Cardinality(Listed)
                  /\ ToSet(FlattenSeq([n \in Pages |-> All(n).data])) = Listed

(* Two creations never get the same id, and none gets that of a document   *)
(* that a client knows; and the latest version of a document always        *)
(* carries the uuid it was created with, also when clients send none,      *)
(* unless a save of it was cut short, which may leave the next one without *)
(* a version to tell, or could not read it.                                *)
IdentityStays ==
  /\ \A t, u \in Threads :
       req[t].kind = "create" /\ req[t].at # 0 =>
         /\ req[t].at \notin known
         /\ t # u /\ req[u].kind = "create" => req[u].at # req[t].at
  /\ \A d \in Docs \ damaged : link[d] # Null => link[d].uuid = d

(* Every request comes to an end: no thread waits for ever for the lock.   *)
RequestsEnd == \A t \in Threads : pc[t] # "idle" ~> pc[t] = "idle"
=============================================================================
