--------------------------- MODULE MemoriesProofs ---------------------------
(***************************************************************************)
(* For any threads, documents, places and quantities, and with steps that  *)
(* fail, panics and crashes: ids and uuids of documents stay, the ledger   *)
(* follows the documents, and a document is found by its id and its uuid.  *)
(***************************************************************************)
EXTENDS Memories, SequenceTheorems, TLAPS

Data      == [uuid : Docs \cup {NoUuid}, place : Nat, qty : Nat]
Mutation  == [what : {"put", "del"}, op : Payloads]
Patches   == {"patch place", "patch qty"}
Request   == [kind : Patches \cup {"none", "create", "update"},
              at : Folders \cup {0}, data : Data, todo : Seq(Mutation)]
LedgerOf(d)  == {o \in ledger : o.uuid = d}
Saves(t, d)  == pc[t] \in Saving /\ Owner(req[t].at) = d
Peer(f)      == IF f > MaxDocs THEN f - MaxDocs ELSE Shadow(f)
Elsewhere(f) == OpsOf(link[Peer(f)])

(* What a request is of, and what it brings, at each step of its thread.   *)
RequestOK(p, r) ==
  /\ p = "idle" => r = NoRequest
  /\ p = "reserving" =>
       r.kind = "create" /\ r.at = 0 /\ r.data.place \in Places /\ r.data.qty \in Qtys
  /\ p = "reading" =>
       /\ r.kind \in Patches /\ r.at \in Folders /\ Owner(r.at) \in known
       /\ r.kind = "patch place" => r.data.place \in Places
       /\ r.kind = "patch qty" => r.data.qty \in Qtys
  /\ p \in Saving \cup {"waiting"} =>
       /\ r.at \in Folders /\ r.data \in Payloads /\ r.data.uuid \in {Owner(r.at), NoUuid}
       /\ r.kind = "create" =>
            r.at \in folders /\ r.at \in Docs /\ r.at \notin known /\ r.data.uuid = r.at
       /\ r.kind # "create" => Owner(r.at) \in known

Requests ==
  /\ req \in [Threads -> Request]
  /\ \A t \in Threads : RequestOK(pc[t], req[t])

(* Who saves holds the lock. *)
OneSaves == \A t \in Threads : pc[t] \in Saving => lock = t

(* No two creations are of one document. *)
OneCreates ==
  \A t, u \in Threads :
    req[t].kind = "create" /\ req[u].kind = "create" /\ req[t].at = req[u].at /\ req[t].at # 0
      => t = u

(* A reserved id is that of a document, of a creation or of a damage. *)
Reserved ==
  \A d \in (folders \cap Docs) \ (known \cup damaged) :
    \E t \in Threads : req[t].kind = "create" /\ req[t].at = d

(* A version carries the uuid of its document or none, and none only after *)
(* a save was cut short or in a copy; and the link of a document is        *)
(* missing only while it is moved.                                         *)
Versions ==
  /\ \A f \in Folders : link[f].uuid \in {Owner(f), NoUuid}
  /\ \A d \in Docs :
    /\ d \notin damaged /\ link[d] # Null => link[d].uuid = d
    /\ d \in known \ damaged =>
         /\ d \in index
         /\ link[d] # Null \/ \E t \in Threads : pc[t] = "relinking" /\ req[t].at = d

(* How far a save is. *)
SaveOK(p, r) ==
  /\ r.at \in Docs \ damaged => r.data.uuid = r.at
  /\ p # "posting" => r.todo = <<>>
  /\ p = "indexing" => link[r.at] = r.data

Saved == \A t \in Threads : pc[t] \in Saving => SaveOK(pc[t], req[t])

(* What is left to post is of the document, and leaves in the ledger just  *)
(* the operation of the new version and what is held of the other copy.    *)
Owes(r) ==
  LET d == Owner(r.at)
  IN  \/ /\ r.todo = <<>>
         /\ d \notin damaged =>
              /\ OpsOf(r.data) \subseteq LedgerOf(d)
              /\ \A o \in LedgerOf(d) : o \in OpsOf(r.data) \/ o \in Elsewhere(r.at)
      \/ /\ r.todo = <<Put(r.data)>>
         /\ r.data.uuid = d /\ OpsOf(r.data) = {r.data}
         /\ d \notin damaged =>
              \A o \in LedgerOf(d) : SameKey(o, r.data) \/ o \in Elsewhere(r.at)
      \/ \E b \in Payloads :
           /\ b.uuid = d
           /\ \/ r.todo = <<Del(b)>> /\ OpsOf(r.data) = {}
              \/ r.todo = <<Del(b), Put(r.data)>> /\ r.data.uuid = d /\ OpsOf(r.data) = {r.data}
           /\ d \notin damaged => \A o \in LedgerOf(d) : SameKey(o, b) \/ o \in Elsewhere(r.at)

Posts == \A t \in Threads : pc[t] \in Saving => Owes(req[t])

(* What the property says of one document. *)
Follows(d) ==
  /\ \E f \in Copies(d) : OpsOf(link[f]) \subseteq LedgerOf(d)
  /\ \A o \in LedgerOf(d) : \E f \in Copies(d) : o \in OpsOf(link[f])

LedgerOK ==
  /\ ledger \subseteq Payloads
  /\ \A o \in ledger : o.uuid \in Docs
  /\ \A d \in Docs \ damaged : (\A t \in Threads : ~Saves(t, d)) => Follows(d)

MInv ==
  /\ TypeOK /\ Requests /\ OneSaves /\ OneCreates /\ Reserved
  /\ Versions /\ Saved /\ Posts /\ LedgerOK

(* A step of thread t leaves the other threads where they are. *)
Alone(t) ==
  /\ t \in Threads
  /\ pc' \in [Threads -> Saving \cup {"idle", "reserving", "reading", "waiting"}]
  /\ req' \in [Threads -> Request]
  /\ \A u \in Threads : u # t => pc'[u] = pc[u] /\ req'[u] = req[u]

(***************************************************************************)
(* Facts about requests and versions.                                      *)
(***************************************************************************)

(* What is known of the contents. *)
LEMMA ContentFacts ==
  /\ Payloads \subseteq Data /\ Null \in Data /\ Null \notin Payloads
  /\ Null.uuid = NoUuid /\ NoUuid \notin Docs /\ NoUuid = 0
  /\ OpsOf(Null) = {}
<1>1. Payloads \subseteq Data /\ Null \in Data
  BY MemoriesAssumption DEF Payloads, Data, Null, NoUuid, Docs
<1>2. Null \notin Payloads
  BY MemoriesAssumption DEF Payloads, Null
<1>3. Null.uuid = NoUuid /\ NoUuid \notin Docs /\ NoUuid = 0 /\ OpsOf(Null) = {}
  BY DEF Null, NoUuid, Docs, OpsOf
<1> QED
  BY <1>1, <1>2, <1>3

(* A document has two folders: by its id and by its uuid. *)
LEMMA FolderFacts ==
  /\ \A f \in Folders : /\ Owner(f) \in Docs /\ Peer(f) \in Folders /\ Peer(f) # f
                        /\ Owner(Peer(f)) = Owner(f) /\ f # 0 /\ f \in Nat
                        /\ {f, Peer(f)} = {Owner(f), Shadow(Owner(f))}
  /\ \A d \in Docs : /\ Owner(d) = d /\ d \in Folders /\ d # 0
                     /\ Shadow(d) \in Folders /\ Owner(Shadow(d)) = d /\ Shadow(d) \notin Docs
  /\ \A f \in Folders : f \notin Docs => f = Shadow(Owner(f))
  BY MemoriesAssumption DEF Folders, Docs, Owner, Peer, Shadow

LEMMA RequestFacts ==
  /\ NoRequest \in Request
  /\ NoRequest.kind = "none" /\ NoRequest.at = 0
  BY ContentFacts DEF NoRequest, Request

(* What the property says, by the two folders of a document.               *)
LEMMA FollowsForm ==
  ASSUME link \in [Folders -> Contents], NEW f \in Folders
  PROVE  /\ Follows(Owner(f)) =>
              \A o \in LedgerOf(Owner(f)) : o \in OpsOf(link[f]) \/ o \in Elsewhere(f)
         /\ /\ f \in Docs \/ link[f] # Null
            /\ OpsOf(link[f]) \subseteq LedgerOf(Owner(f))
            /\ \A o \in LedgerOf(Owner(f)) : o \in OpsOf(link[f]) \/ o \in Elsewhere(f)
            => Follows(Owner(f))
<1> DEFINE d == Owner(f)
<1>1. /\ d \in Docs /\ {f, Peer(f)} = {d, Shadow(d)} /\ (f \in Docs => f = d)
  BY FolderFacts
<1>2. \A g \in {d, Shadow(d)} : OpsOf(link[g]) # {} => g \in Copies(d)
  BY ContentFacts DEF Copies
<1>3. \A g \in Copies(d) : g \in {f, Peer(f)}
  BY <1>1 DEF Copies
<1>4. f \in Docs \/ link[f] # Null => f \in Copies(d)
  BY <1>1 DEF Copies
<1> QED
  BY <1>1, <1>2, <1>3, <1>4 DEF Follows, Elsewhere

(* Only one thread saves at a time. *)
LEMMA Exclusion ==
  ASSUME OneSaves, NEW t \in Threads, NEW u \in Threads, pc[t] \in Saving, pc[u] \in Saving
  PROVE  t = u
  BY DEF OneSaves

(* A request of a waiting or saving thread is of a document. *)
LEMMA RequestDoc ==
  ASSUME TypeOK, Requests, NEW t \in Threads, pc[t] \in Saving \cup {"waiting"}
  PROVE  /\ req[t].at \in Folders /\ req[t].at # 0 /\ Owner(req[t].at) \in Docs
         /\ Owner(req[t].at) \in folders
         /\ req[t].at \in Docs => req[t].at \in folders
         /\ req[t].data \in Payloads /\ req[t].data # Null
         /\ req[t].data.uuid \in {Owner(req[t].at), NoUuid}
         /\ req[t].kind = "create" => req[t].at \notin known /\ req[t].at \in Docs
         /\ req[t].kind # "create" => Owner(req[t].at) \in known
<1>1. RequestOK(pc[t], req[t]) /\ folders \subseteq Folders /\ known \subseteq folders
  BY DEF Requests, TypeOK
<1> QED
  BY <1>1, ContentFacts, FolderFacts DEF RequestOK

(* A creation with an id waits or saves. *)
LEMMA CreateDoc ==
  ASSUME TypeOK, Requests, NEW t \in Threads, req[t].kind = "create", req[t].at # 0
  PROVE  /\ pc[t] \in Saving \cup {"waiting"}
         /\ req[t].at \in folders /\ req[t].at \in Docs /\ Owner(req[t].at) = req[t].at
<1>1. RequestOK(pc[t], req[t])
  BY DEF Requests
<1>2. pc[t] \in Saving \cup {"idle", "reserving", "reading", "waiting"}
  BY DEF TypeOK
<1>3. pc[t] # "idle" /\ pc[t] # "reserving" /\ pc[t] # "reading"
  BY <1>1, RequestFacts DEF RequestOK, Patches
<1> QED
  BY <1>1, <1>2, <1>3, FolderFacts DEF RequestOK

(* Steps of one thread do not disturb the requests of the others. *)
LEMMA OthersRequests ==
  ASSUME TypeOK, Requests, OneCreates, NEW t, Alone(t),
         folders \subseteq folders',
         \/ known' = known
         \/ pc[t] \in Saving /\ known' = known \cup {Owner(req[t].at)}
  PROVE  \A u \in Threads : u # t => RequestOK(pc[u], req[u])'
<1> SUFFICES ASSUME NEW u \in Threads, u # t PROVE RequestOK(pc[u], req[u])'
  OBVIOUS
<1>1. pc'[u] = pc[u] /\ req'[u] = req[u] /\ t \in Threads
  BY DEF Alone
<1>2. RequestOK(pc[u], req[u]) /\ RequestOK(pc[t], req[t])
  BY <1>1 DEF Requests
<1>3. known \subseteq known'
  OBVIOUS
<1>4. pc[u] \in Saving \cup {"waiting"} /\ req[u].kind = "create" => req[u].at \notin known'
  <2> SUFFICES ASSUME pc[u] \in Saving \cup {"waiting"}, req[u].kind = "create",
                      pc[t] \in Saving, known' = known \cup {Owner(req[t].at)},
                      req[u].at = Owner(req[t].at)
               PROVE FALSE
    BY <1>2 DEF RequestOK
  <2>1. req[u].at \notin known
    BY <1>2 DEF RequestOK
  <2>2. req[t].kind = "create"
    BY <1>2, <2>1 DEF RequestOK
  <2>3. req[t].at # 0 /\ Owner(req[t].at) = req[t].at
    BY <1>1, <2>2, RequestDoc, FolderFacts
  <2> QED
    BY <1>1, <2>2, <2>3 DEF OneCreates
<1> QED
  BY <1>1, <1>2, <1>3, <1>4 DEF RequestOK
(* Steps outside of a save and of damages: what is stored stays. *)
LEMMA Outside ==
  ASSUME MInv, NEW t, Alone(t), UNCHANGED <<link, index, ledger, known, damaged>>,
         pc[t] \notin Saving, pc'[t] \notin Saving,
         lock' = lock \/ lock' = t
  PROVE  Versions' /\ Saved' /\ Posts' /\ LedgerOK'
<1> USE DEF MInv
<1>1. t \in Threads /\ \A u \in Threads : u # t => pc'[u] = pc[u] /\ req'[u] = req[u]
  BY DEF Alone
<1>2. \A u \in Threads : pc'[u] \in Saving => u # t /\ pc[u] \in Saving
  BY <1>1
<1>3. Versions'
  BY <1>1 DEF Versions, Saving
<1>4. Saved'
  BY <1>1, <1>2 DEF Saved, SaveOK
<1>5. Posts'
  <2> SUFFICES ASSUME NEW u \in Threads, pc'[u] \in Saving PROVE Owes(req[u])'
    BY DEF Posts
  <2>1. Owes(req[u]) /\ req'[u] = req[u]
    BY <1>1, <1>2 DEF Posts
  <2>2. \A d : LedgerOf(d)' = LedgerOf(d)
    BY DEF LedgerOf
  <2> QED
    BY <2>1, <2>2 DEF Owes, Elsewhere
<1>6. \A d \in Docs, u \in Threads : Saves(u, d)' <=> Saves(u, d)
  BY <1>1 DEF Saves
<1>7. LedgerOK'
  BY <1>6 DEF LedgerOK, Follows, Copies, LedgerOf
<1> QED
  BY <1>3, <1>4, <1>5, <1>7

(***************************************************************************)
(* Every action keeps the invariant.                                       *)
(***************************************************************************)

(* Nothing is stored in the beginning. *)
LEMMA InitMInv == Init => MInv
<1> SUFFICES ASSUME Init PROVE MInv
  OBVIOUS
<1> USE DEF Init
<1>1. TypeOK
  BY ContentFacts, RequestFacts DEF TypeOK, Contents, NoRequest, Folders
<1>2. Requests
  BY RequestFacts DEF Requests, RequestOK, Saving
<1>3. OneSaves /\ Saved /\ Posts
  BY DEF OneSaves, Saved, Posts, Saving
<1>4. OneCreates /\ Reserved
  BY RequestFacts DEF OneCreates, Reserved
<1>5. Versions
  BY ContentFacts, FolderFacts DEF Versions
<1>6. LedgerOK
  BY ContentFacts, FolderFacts DEF LedgerOK, Follows, Copies, LedgerOf
<1> QED
  BY <1>1, <1>2, <1>3, <1>4, <1>5, <1>6 DEF MInv

(* A request begins. *)
LEMMA AskedStep ==
  ASSUME MInv, NEW t \in Threads, NEW kind, NEW f \in Folders \cup {0}, NEW data \in Data,
         NEW step \in {"reserving", "reading", "waiting"},
         Asked(t, kind, f, data, step),
         kind \in Patches \cup {"create", "update"},
         kind = "create" => f = 0,
         RequestOK(step, [kind |-> kind, at |-> f, data |-> data, todo |-> <<>>])
  PROVE  MInv'
<1> DEFINE r == [kind |-> kind, at |-> f, data |-> data, todo |-> <<>>]
<1> USE DEF MInv
<1>1. /\ pc[t] = "idle" /\ req[t] = NoRequest
      /\ req' = [req EXCEPT ![t] = r] /\ pc' = [pc EXCEPT ![t] = step]
      /\ UNCHANGED <<lock, folders, link, index, ledger, known, damaged>>
  BY DEF Asked, store, Requests, RequestOK
<1>2. r \in Request /\ r.kind = kind /\ r.at = f /\ RequestOK(step, r)
  BY DEF Request
<1> HIDE DEF r
<1>3. Alone(t) /\ pc'[t] = step /\ req'[t] = r
  BY <1>1, <1>2 DEF Alone, Requests, TypeOK
<1>4. Requests'
  <2>1. \A u \in Threads : u # t => RequestOK(pc[u], req[u])'
    BY <1>1, <1>3, OthersRequests
  <2>2. RequestOK(pc[t], req[t])'
    <3>1. pc'[t] = step /\ req'[t] = r /\ folders' = folders /\ known' = known
      BY <1>1, <1>3
    <3> QED
      BY ONLY <1>2, <3>1 DEF RequestOK
  <2> QED
    BY <1>3, <2>1, <2>2 DEF Requests, Alone
<1>5. TypeOK'
  BY <1>1, <1>3 DEF TypeOK, Alone, Request, Data
<1>6. OneSaves' /\ OneCreates'
  BY <1>1, <1>2, <1>3 DEF OneSaves, OneCreates, Alone, Saving
<1>7. Reserved'
  BY <1>1, <1>3, RequestFacts DEF Reserved, Alone
<1>8. Versions' /\ Saved' /\ Posts' /\ LedgerOK'
  BY <1>1, <1>3, Outside DEF Saving
<1> QED
  BY <1>4, <1>5, <1>6, <1>7, <1>8

(* A creation is asked for. *)
LEMMA AskCreateStep ==
  ASSUME MInv, NEW t \in Threads, AskCreate(t) PROVE MInv'
<1>1. PICK p \in Places, q \in Qtys \ {0} :
        Asked(t, "create", 0, [uuid |-> NoUuid, place |-> p, qty |-> q], "reserving")
  BY DEF AskCreate
<1>2. [uuid |-> NoUuid, place |-> p, qty |-> q] \in Data
  BY MemoriesAssumption DEF Data
<1> QED
  BY <1>1, <1>2, AskedStep DEF RequestOK, Saving

(* An update is asked for. *)
LEMMA AskUpdateStep ==
  ASSUME MInv, NEW t \in Threads, AskUpdate(t) PROVE MInv'
<1>1. PICK d \in known : \E c \in Payloads, f \in {d, Shadow(d)} :
        c.uuid \in {d, NoUuid} /\ Asked(t, "update", f, c, "waiting")
  BY DEF AskUpdate
<1>0. PICK c \in Payloads, f \in {d, Shadow(d)} :
        c.uuid \in {d, NoUuid} /\ Asked(t, "update", f, c, "waiting")
  BY <1>1
<1>2. f \in Folders /\ Owner(f) = d /\ c \in Data
  BY ContentFacts, FolderFacts DEF MInv, TypeOK
<1> QED
  BY <1>0, <1>2, AskedStep DEF RequestOK, Saving

(* A patch is asked for. *)
LEMMA AskPatchStep ==
  ASSUME MInv, NEW t \in Threads, AskPatch(t) PROVE MInv'
<1>0. PICK d \in known : \E f \in {d, Shadow(d)} :
        \/ \E p \in Places : Asked(t, "patch place", f, [Null EXCEPT !.place = p], "reading")
        \/ \E q \in Qtys : Asked(t, "patch qty", f, [Null EXCEPT !.qty = q], "reading")
  BY DEF AskPatch
<1>1. PICK f \in {d, Shadow(d)} :
        \/ \E p \in Places : Asked(t, "patch place", f, [Null EXCEPT !.place = p], "reading")
        \/ \E q \in Qtys : Asked(t, "patch qty", f, [Null EXCEPT !.qty = q], "reading")
  BY <1>0
<1>2. f \in Folders /\ Owner(f) = d
  BY FolderFacts DEF MInv, TypeOK
<1>3. ASSUME NEW p \in Places, Asked(t, "patch place", f, [Null EXCEPT !.place = p], "reading")
      PROVE  MInv'
  <2>1. [Null EXCEPT !.place = p] \in Data /\ [Null EXCEPT !.place = p].place = p
    BY MemoriesAssumption DEF Data, Null
  <2> QED
    BY <1>2, <1>3, <2>1, AskedStep DEF RequestOK, Saving, Patches
<1>4. ASSUME NEW q \in Qtys, Asked(t, "patch qty", f, [Null EXCEPT !.qty = q], "reading")
      PROVE  MInv'
  <2>1. [Null EXCEPT !.qty = q] \in Data /\ [Null EXCEPT !.qty = q].qty = q
    BY MemoriesAssumption DEF Data, Null
  <2> QED
    BY <1>2, <1>4, <2>1, AskedStep DEF RequestOK, Saving, Patches
<1> QED
  BY <1>1, <1>3, <1>4

(* An id is reserved: no other creation has it. *)
LEMMA ReserveStep ==
  ASSUME MInv, NEW t \in Threads, Reserve(t) PROVE MInv'
<1> USE DEF MInv
<1>1. PICK d \in Docs \ folders :
        /\ folders' = folders \cup {d}
        /\ req' = [req EXCEPT ![t].at = d, ![t].data.uuid = d]
  BY DEF Reserve
<1> DEFINE r == [req[t] EXCEPT !.at = d, !.data.uuid = d]
<1>2. /\ pc[t] = "reserving" /\ pc' = [pc EXCEPT ![t] = "waiting"]
      /\ UNCHANGED <<lock, link, index, ledger, known, damaged, asked>>
  BY DEF Reserve
<1>3. req' = [req EXCEPT ![t] = r]
  BY <1>1 DEF Requests
<1>4. /\ req[t].kind = "create" /\ req[t].at = 0 /\ req[t] \in Request
      /\ req[t].data.place \in Places /\ req[t].data.qty \in Qtys
  BY <1>2 DEF Requests, RequestOK
<1>5. /\ r \in Request /\ r.kind = "create" /\ r.at = d
      /\ r.data \in Payloads /\ r.data.uuid = d
      /\ d \in Folders /\ Owner(d) = d
  BY <1>4, FolderFacts DEF Request, Data, Payloads
<1> HIDE DEF r
<1>6. Alone(t) /\ pc'[t] = "waiting" /\ req'[t] = r
  BY <1>2, <1>3, <1>5 DEF Alone, Requests, TypeOK
<1>7. Requests'
  <2>1. \A u \in Threads : u # t => RequestOK(pc[u], req[u])'
    BY <1>1, <1>2, <1>6, OthersRequests
  <2>2. r.at \in folders' /\ r.at \in Docs /\ r.at \in Folders /\ r.at \notin known' /\ Owner(r.at) = d
    BY <1>1, <1>2, <1>5 DEF TypeOK
  <2>3. RequestOK(pc[t], req[t])'
    BY ONLY <1>5, <1>6, <2>2 DEF RequestOK, Saving
  <2> QED
    BY <1>6, <2>1, <2>3 DEF Requests, Alone
<1>8. TypeOK'
  BY <1>1, <1>2, <1>5, <1>6 DEF TypeOK, Alone, Request, Data
<1>9. OneCreates'
  BY <1>1, <1>5, <1>6, CreateDoc DEF OneCreates, Alone
<1>10. OneSaves'
  BY <1>2, <1>6 DEF OneSaves, Alone, Saving
<1>11. Reserved'
  <2> SUFFICES ASSUME NEW e \in (folders' \cap Docs) \ (known \cup damaged)
               PROVE  \E u \in Threads : req'[u].kind = "create" /\ req'[u].at = e
    BY <1>2 DEF Reserved
  <2>1. CASE e = d
    BY <1>5, <1>6, <2>1
  <2>2. CASE e # d
    <3>1. PICK u \in Threads : req[u].kind = "create" /\ req[u].at = e
      BY <1>1, <2>2 DEF Reserved
    <3>2. u # t
      BY <1>1, <1>4, <3>1, ContentFacts DEF TypeOK
    <3> QED
      BY <1>6, <3>1, <3>2 DEF Alone
  <2> QED
    BY <2>1, <2>2
<1>12. Versions' /\ Saved' /\ Posts' /\ LedgerOK'
  BY <1>2, <1>6, Outside DEF Saving
<1> QED
  BY <1>7, <1>8, <1>9, <1>10, <1>11, <1>12

(* The end of a request of a thread: its request is no more. *)
LEMMA IdleStep ==
  ASSUME MInv, NEW t \in Threads, Idle(t),
         UNCHANGED <<folders, link, index, ledger>>,
         damaged \subseteq damaged', lock' \in Threads \cup {Free, Poisoned},
         \/ known' = known
         \/ pc[t] \in Saving /\ known' = known \cup {Owner(req[t].at)},
         req[t].kind = "create" /\ req[t].at # 0 => req[t].at \in known' \cup damaged',
         \A u \in Threads : u # t /\ pc[u] \in Saving => lock' = u
  PROVE  /\ Alone(t) /\ pc'[t] = "idle" /\ req'[t] = NoRequest
         /\ TypeOK' /\ Requests' /\ OneSaves' /\ OneCreates' /\ Reserved' /\ Saved' /\ Posts'
<1> USE DEF MInv
<1>1. pc' = [pc EXCEPT ![t] = "idle"] /\ req' = [req EXCEPT ![t] = NoRequest]
  BY DEF Idle
<1>2. Alone(t) /\ pc'[t] = "idle" /\ req'[t] = NoRequest
  BY <1>1, RequestFacts DEF Alone, Requests, TypeOK
<1>3. Requests'
  <2>1. \A u \in Threads : u # t => RequestOK(pc[u], req[u])'
    BY <1>2, OthersRequests
  <2>2. RequestOK(pc[t], req[t])'
    BY ONLY <1>2 DEF RequestOK, Saving
  <2> QED
    BY <1>2, <2>1, <2>2 DEF Requests, Alone
<1>4. TypeOK'
  <2>1. known' \subseteq folders \cap Docs
    BY RequestDoc DEF TypeOK
  <2> QED
    BY <1>2, <2>1 DEF TypeOK, Alone, Request, Data
<1>5. OneCreates' /\ OneSaves'
  BY <1>2, RequestFacts DEF OneCreates, OneSaves, Alone, Saving
<1>6. Reserved'
  <2> SUFFICES ASSUME NEW e \in folders \cap Docs, e \notin known' \cup damaged'
               PROVE  \E u \in Threads : req'[u].kind = "create" /\ req'[u].at = e
    BY DEF Reserved
  <2>1. PICK u \in Threads : req[u].kind = "create" /\ req[u].at = e
    BY DEF Reserved
  <2>2. u # t
    BY <2>1, ContentFacts DEF TypeOK
  <2> QED
    BY <1>2, <2>1, <2>2 DEF Alone
<1>7. Saved' /\ Posts'
  <2> SUFFICES ASSUME NEW u \in Threads, pc'[u] \in Saving
               PROVE  SaveOK(pc[u], req[u])' /\ Owes(req[u])'
    BY DEF Saved, Posts
  <2>1. pc[u] \in Saving /\ pc'[u] = pc[u] /\ req'[u] = req[u]
    BY <1>2 DEF Alone, Saving
  <2>2. SaveOK(pc[u], req[u]) /\ Owes(req[u])
    BY <2>1 DEF Saved, Posts
  <2>3. \A d : LedgerOf(d)' = LedgerOf(d)
    BY DEF LedgerOf
  <2>4. SaveOK(pc[u], req[u])'
    BY <2>1, <2>2 DEF SaveOK
  <2>5. Owes(req[u])'
    BY <2>1, <2>2, <2>3 DEF Owes, Elsewhere
  <2> QED
    BY <2>4, <2>5
<1> QED
  BY <1>2, <1>3, <1>4, <1>5, <1>6, <1>7

(* A request ends without an effect: what it saved so far is a damage. *)
LEMMA AbortStep ==
  ASSUME MInv, NEW t \in Threads, Idle(t), UNCHANGED store,
         damaged \subseteq damaged', lock' \in Threads \cup {Free, Poisoned},
         pc[t] \in Saving => Owner(req[t].at) \in damaged',
         pc[t] = "waiting" => Owner(req[t].at) \in known \cup damaged',
         \A u \in Threads : u # t /\ pc[u] \in Saving => lock' = u
  PROVE  MInv'
<1> USE DEF MInv
<1>1. UNCHANGED <<folders, link, index, ledger, known>>
  BY DEF store
<1>2. req[t].kind = "create" /\ req[t].at # 0 => req[t].at \in known' \cup damaged'
  BY <1>1, CreateDoc
<1>3. /\ Alone(t) /\ pc'[t] = "idle" /\ req'[t] = NoRequest
      /\ TypeOK' /\ Requests' /\ OneSaves' /\ OneCreates' /\ Reserved' /\ Saved' /\ Posts'
  BY <1>1, <1>2, IdleStep
<1>4. Versions'
  <2> SUFFICES ASSUME NEW d \in known \ damaged', NEW u \in Threads,
                      pc[u] = "relinking", req[u].at = d
               PROVE  \E v \in Threads : pc'[v] = "relinking" /\ req'[v].at = d
    BY <1>1 DEF Versions
  <2>0. Owner(d) = d
    BY FolderFacts DEF TypeOK
  <2>1. u # t
    BY <2>0 DEF Saving
  <2> QED
    BY <1>3, <2>1 DEF Alone
<1>5. LedgerOK'
  <2>1. \A d \in Docs \ damaged', u \in Threads : Saves(u, d) => Saves(u, d)'
    BY <1>3 DEF Saves, Alone
  <2> QED
    BY <1>1, <2>1 DEF LedgerOK, Follows, Copies, LedgerOf
<1> QED
  BY <1>3, <1>4, <1>5

(* A step of a save fails. *)
LEMMA FailStep ==
  ASSUME MInv, NEW t \in Threads, Fail(t) PROVE MInv'
<1>1. \A u \in Threads : pc[u] \in Saving => u = t
  BY Exclusion DEF Fail, MInv
<1>2. pc[t] # "waiting"
  BY DEF Fail, Saving
<1> QED
  BY <1>1, <1>2, AbortStep DEF Fail

(* The ledger panics. *)
LEMMA PanicStep ==
  ASSUME MInv, NEW t \in Threads, Panic(t) PROVE MInv'
<1>1. \A u \in Threads : pc[u] \in Saving => u = t
  BY Exclusion DEF Panic, MInv, Saving
<1> QED
  BY <1>1, AbortStep DEF Panic

(* A request meets the poisoned lock. *)
LEMMA RefusedStep ==
  ASSUME MInv, NEW t \in Threads, Refused(t) PROVE MInv'
<1>1. pc[t] \notin Saving /\ \A u \in Threads : pc[u] \in Saving => lock = u
  BY DEF Refused, Saving, MInv, OneSaves
<1>2. pc[t] = "waiting" => Owner(req[t].at) \in known \cup damaged'
  BY RequestDoc, FolderFacts DEF Refused, MInv
<1> QED
  BY <1>1, <1>2, AbortStep DEF Refused, MInv, TypeOK

(* The process ends: what was being saved is a damage, and so is an id that *)
(* no client was told.                                                     *)
LEMMA CrashStep == MInv /\ Crash => MInv'
<1> SUFFICES ASSUME MInv, Crash PROVE MInv'
  OBVIOUS
<1> USE DEF MInv
<1>1. /\ lock' = Free
      /\ pc' = [t \in Threads |-> "idle"] /\ req' = [t \in Threads |-> NoRequest]
      /\ UNCHANGED <<folders, link, index, ledger, known>>
      /\ damaged \cup ((folders \cap Docs) \ known) \subseteq damaged'
      /\ \A t \in Threads : pc[t] \in Saving => Owner(req[t].at) \in damaged'
  BY DEF Crash, store
<1>2. TypeOK'
  BY <1>1, RequestFacts, ContentFacts DEF TypeOK, NoRequest
<1>3. Requests'
  BY <1>1, RequestFacts DEF Requests, RequestOK, Saving
<1>4. OneSaves' /\ Saved' /\ Posts'
  BY <1>1 DEF OneSaves, Saved, Posts, Saving
<1>5. OneCreates' /\ Reserved'
  BY <1>1, RequestFacts DEF OneCreates, Reserved
<1>6. Versions'
  BY <1>1, FolderFacts DEF Versions, Saving
<1>7. LedgerOK'
  <2>1. \A d \in Docs \ damaged', u \in Threads : ~Saves(u, d)
    BY <1>1 DEF Saves
  <2> QED
    BY <1>1, <2>1 DEF LedgerOK, Follows, Copies, LedgerOf
<1> QED
  BY <1>2, <1>3, <1>4, <1>5, <1>6, <1>7

(* A reservation fails. *)
LEMMA FailReserveStep ==
  ASSUME MInv, NEW t \in Threads, FailReserve(t) PROVE MInv'
<1> USE DEF MInv
<1>1. /\ pc[t] = "reserving" /\ lock = Free /\ Idle(t)
      /\ UNCHANGED <<lock, link, index, ledger, known>>
  BY DEF FailReserve
<1>2. PICK left \in SUBSET Docs : folders' = folders \cup left /\ damaged' = damaged \cup left
  <2>1. CASE UNCHANGED <<folders, damaged>>
    <3> WITNESS {} \in SUBSET Docs
    <3> QED
      BY <2>1
  <2>2. CASE \E d \in Docs : folders' = folders \cup {d} /\ damaged' = damaged \cup {d}
    BY <2>2
  <2> QED
    BY <2>1, <2>2 DEF FailReserve
<1>3. req[t].at = 0 /\ \A u \in Threads : pc[u] \notin Saving
  BY <1>1, MemoriesAssumption DEF OneSaves, Requests, RequestOK
<1>4. Alone(t) /\ pc'[t] = "idle" /\ req'[t] = NoRequest
  BY <1>1, RequestFacts DEF Idle, Alone, Requests, TypeOK
<1>5. \A u \in Threads : pc'[u] \notin Saving
  BY <1>3, <1>4 DEF Alone, Saving
<1>6. Requests'
  <2>1. \A u \in Threads : u # t => RequestOK(pc[u], req[u])'
    BY <1>1, <1>2, <1>4, OthersRequests
  <2>2. RequestOK(pc[t], req[t])'
    BY ONLY <1>4 DEF RequestOK, Saving
  <2> QED
    BY <1>4, <2>1, <2>2 DEF Requests, Alone
<1>7. TypeOK'
  BY <1>1, <1>2, <1>4, FolderFacts DEF TypeOK, Alone, Request, Data
<1>8. OneSaves' /\ Saved' /\ Posts'
  BY <1>5 DEF OneSaves, Saved, Posts
<1>9. OneCreates'
  BY <1>4, RequestFacts DEF OneCreates, Alone
<1>10. Reserved'
  <2> SUFFICES ASSUME NEW e \in folders \cap Docs, e \notin known \cup damaged
               PROVE  \E u \in Threads : req'[u].kind = "create" /\ req'[u].at = e
    BY <1>1, <1>2 DEF Reserved
  <2>1. PICK u \in Threads : req[u].kind = "create" /\ req[u].at = e
    BY DEF Reserved
  <2>2. u # t
    BY <1>3, <2>1, FolderFacts
  <2> QED
    BY <1>4, <2>1, <2>2 DEF Alone
<1>11. Versions'
  BY <1>1, <1>2, <1>3 DEF Versions, Saving
<1>12. LedgerOK'
  BY <1>1, <1>2, <1>3 DEF LedgerOK, Follows, Copies, LedgerOf, Saves
<1> QED
  BY <1>6, <1>7, <1>8, <1>9, <1>10, <1>11, <1>12

(* A request goes on with the same kind and folder. *)
LEMMA GoesOn ==
  ASSUME MInv, NEW t, Alone(t), known' = known, damaged \subseteq damaged',
         folders \subseteq folders', folders' \cap Docs = folders \cap Docs,
         req'[t].kind = req[t].kind, req'[t].at = req[t].at,
         RequestOK(pc[t], req[t])'
  PROVE  Requests' /\ OneCreates' /\ Reserved'
<1> USE DEF MInv
<1>1. \A u \in Threads : u # t => RequestOK(pc[u], req[u])'
  BY OthersRequests
<1>2. Requests'
  BY <1>1 DEF Requests, Alone
<1>3. \A u \in Threads : req'[u].kind = req[u].kind /\ req'[u].at = req[u].at
  BY DEF Alone
<1>4. OneCreates' /\ Reserved'
  BY <1>3 DEF OneCreates, Reserved
<1> QED
  BY <1>2, <1>4

(* The document is read for a patch. *)
LEMMA ReadForPatchStep ==
  ASSUME MInv, NEW t \in Threads, ReadForPatch(t) PROVE MInv'
<1> USE DEF MInv
<1> DEFINE f == req[t].at
           d == Owner(f)
           latest == IF f \in Docs THEN ResolveId(f) ELSE ResolveUuid(d)
           c == Merged(latest, req[t])
           r == [req[t] EXCEPT !.data = c]
<1>1. pc[t] = "reading" /\ UNCHANGED <<lock, store, damaged, asked>>
  BY DEF ReadForPatch
<1>2. /\ req[t] \in Request /\ req[t].kind \in Patches /\ f \in Folders /\ d \in known
      /\ req[t].kind = "patch place" => req[t].data.place \in Places
      /\ req[t].kind = "patch qty" => req[t].data.qty \in Qtys
  BY <1>1 DEF Requests, RequestOK, TypeOK
<1>20. d \in Docs /\ d \in Folders /\ Owner(d) = d /\ latest \in {link[d], Null}
  BY <1>2, FolderFacts DEF ResolveId, ResolveUuid
<1>3. CASE latest = Null
  <2>1. Idle(t)
    BY <1>3 DEF ReadForPatch
  <2> QED
    BY <1>1, <2>1, AbortStep DEF Saving, OneSaves, TypeOK
<1>4. CASE latest # Null
  <2>1. req' = [req EXCEPT ![t] = r] /\ pc' = [pc EXCEPT ![t] = "waiting"]
    BY <1>4 DEF ReadForPatch
  <2>2. latest \in Payloads /\ latest.uuid \in {d, NoUuid}
    BY <1>20, <1>4 DEF TypeOK, Contents, Versions
  <2>3. c \in Payloads /\ c.uuid \in {d, NoUuid}
    BY <1>2, <2>2 DEF Merged, Patches, Payloads
  <2>4. r \in Request /\ r.kind = req[t].kind /\ r.at = f /\ r.data = c
    BY <1>2, <2>3, ContentFacts DEF Request
  <2> HIDE DEF r, c, latest
  <2>5. Alone(t) /\ pc'[t] = "waiting" /\ req'[t] = r
    BY <2>1, <2>4 DEF Alone, Requests, TypeOK
  <2>6. UNCHANGED <<lock, folders, link, index, ledger, known, damaged>>
    BY <1>1 DEF store
  <2>7. RequestOK(pc[t], req[t])'
    BY ONLY <1>2, <2>3, <2>4, <2>5, <2>6 DEF RequestOK, Saving, Patches
  <2>8. Requests' /\ OneCreates' /\ Reserved'
    BY <2>4, <2>5, <2>6, <2>7, GoesOn
  <2>9. TypeOK'
    BY <2>5, <2>6 DEF TypeOK, Alone, Request, Data
  <2>10. OneSaves'
    BY <2>5, <2>6 DEF OneSaves, Alone, Saving
  <2>11. Versions' /\ Saved' /\ Posts' /\ LedgerOK'
    BY <1>1, <2>5, <2>6, Outside DEF Saving
  <2> QED
    BY <2>8, <2>9, <2>10, <2>11
<1> QED
  BY <1>3, <1>4

(* Two sequences of one element each. *)
LEMMA PairConcat ==
  ASSUME NEW a, NEW b
  PROVE  <<a>> \o <<b>> = <<a, b>>
<1> DEFINE S == {a, b}
           s == <<a>> \o <<b>>
           u == <<a, b>>
<1>1. <<a>> \in Seq(S) /\ <<b>> \in Seq(S) /\ u \in Seq(S)
  OBVIOUS
<1>2. s \in Seq(S) /\ Len(s) = 2 /\ s[1] = a /\ s[2] = b
  BY <1>1
<1>3. Len(u) = 2 /\ u[1] = a /\ u[2] = b
  OBVIOUS
<1> HIDE DEF s, u, S
<1>4. \A i \in 1 .. 2 : s[i] = u[i]
  BY <1>2, <1>3
<1> QED
  BY <1>1, <1>2, <1>3, <1>4, SeqEqual DEF s, u

(* What a save has to post: nothing, a deletion, a new operation or both;  *)
(* both only when their keys differ.                                       *)
LEMMA MutationForms ==
  ASSUME NEW d, NEW before, NEW after,
         before.uuid # NoUuid => after.uuid = before.uuid
  PROVE  \/ /\ Mutations(before, after) = <<>>
            /\ OpsOf(before) = {} /\ OpsOf(after) = {}
         \/ /\ Mutations(before, after) = <<Put(after)>>
            /\ OpsOf(after) = {after} /\ \A o \in OpsOf(before) : SameKey(o, after)
         \/ /\ Mutations(before, after) = <<Del(before)>>
            /\ OpsOf(after) = {} /\ OpsOf(before) = {before} /\ before.uuid # NoUuid
         \/ /\ Mutations(before, after) = <<Del(before), Put(after)>>
            /\ OpsOf(after) = {after} /\ OpsOf(before) = {before} /\ before.uuid # NoUuid
<1> DEFINE old == OpsOf(before)
           new == OpsOf(after)
           kept == \E o \in old, p \in new : SameKey(o, p)
<1>1. /\ old = {} \/ (old = {before} /\ before.uuid # NoUuid)
      /\ new = {} \/ new = {after}
  BY DEF OpsOf
<1>2. Mutations(before, after)
        = (IF kept \/ old = {} THEN <<>> ELSE <<Del(before)>>) \o (IF new = {} THEN <<>> ELSE <<Put(after)>>)
  BY DEF Mutations
<1>3. <<>> \o <<>> = <<>> /\ <<>> \o <<Put(after)>> = <<Put(after)>>
      /\ <<Del(before)>> \o <<>> = <<Del(before)>>
      /\ <<Del(before)>> \o <<Put(after)>> = <<Del(before), Put(after)>>
  BY PairConcat
<1>4. kept => new = {after} /\ \A o \in old : SameKey(o, after)
  BY <1>1
<1>5. ~kept /\ old # {} => old = {before} /\ before.uuid # NoUuid
  BY <1>1
<1> HIDE DEF old, new, kept
<1>6. CASE kept
  BY <1>2, <1>3, <1>4, <1>6 DEF old, new
<1>7. CASE ~kept
  BY <1>1, <1>2, <1>3, <1>5, <1>7 DEF old, new
<1> QED
  BY <1>6, <1>7

(* A save begins: nobody else saves, and what it owes is what its document *)
(* and the version before differ in.                                       *)
LEMMA EnterStep ==
  ASSUME MInv, NEW t \in Threads, Enter(t) PROVE MInv'
<1> USE DEF MInv
<1>0. PICK f, d, before :
        /\ f = req[t].at /\ d = Owner(f)
        /\ before \in {link[f]} \cup (IF Fails THEN {Null} ELSE {})
        /\ LET data == KeepIds(before, req[t].data)
           IN  /\ req' = [req EXCEPT ![t].data = data, ![t].todo = Mutations(before, data)]
               /\ damaged' = damaged \cup (IF before = link[f] THEN {} ELSE {d})
  BY DEF Enter
<1> DEFINE data == KeepIds(before, req[t].data)
           m == Mutations(before, data)
           r == [req[t] EXCEPT !.data = data, !.todo = m]
<1>1. /\ pc[t] = "waiting" /\ lock = Free /\ lock' = t
      /\ req' = [req EXCEPT ![t].data = data, ![t].todo = m]
      /\ pc' = [pc EXCEPT ![t] = "posting"]
      /\ UNCHANGED <<folders, link, index, ledger, known>>
      /\ damaged \subseteq damaged' /\ damaged' \subseteq damaged \cup {d}
      /\ d \notin damaged' => before = link[f]
  BY <1>0 DEF Enter, store
<1>2. \A u \in Threads : pc[u] \notin Saving
  BY <1>1, MemoriesAssumption DEF OneSaves
<1>3. /\ f \in Folders /\ d \in Docs /\ d # NoUuid /\ req[t].data \in Payloads
      /\ req[t].data.uuid \in {d, NoUuid}
      /\ req[t].kind = "create" => f \in folders /\ f \in Docs /\ f \notin known /\ req[t].data.uuid = f
      /\ req[t].kind # "create" => d \in known
      /\ f \in Docs => d = f
  BY <1>0, <1>1, ContentFacts, FolderFacts DEF Requests, RequestOK, TypeOK
<1>4. before \in Contents /\ before.uuid \in {d, NoUuid}
  BY <1>0, <1>3, ContentFacts DEF TypeOK, Versions, Contents
<1>5. data \in Payloads /\ data.uuid \in {d, NoUuid} /\ (before.uuid # NoUuid => data.uuid = before.uuid)
      /\ (req[t].kind = "create" => data.uuid = d)
  BY <1>3, <1>4 DEF Payloads, KeepIds
<1>6. f \in Docs \ damaged' => data.uuid = f
  <2> SUFFICES ASSUME f \in Docs \ damaged', req[t].kind # "create" PROVE before.uuid = d
    BY <1>3, <1>5
  <2>1. before = link[d] /\ d \notin damaged
    BY <1>1, <1>3
  <2>2. before # Null
    BY <1>2, <1>3, <2>1 DEF Versions, Saving
  <2> QED
    BY <1>3, <2>1, <2>2 DEF Versions
<1>7. before.uuid # NoUuid => before \in Payloads /\ before.uuid = d
  BY <1>4, ContentFacts DEF Contents
<1>8. d \notin damaged' =>
        \A o \in LedgerOf(d) : o \in OpsOf(before) \/ o \in Elsewhere(f)
  <2> SUFFICES ASSUME d \notin damaged' PROVE Follows(d) /\ before = link[f]
    BY <1>0, <1>3, FollowsForm DEF TypeOK
  <2> QED
    BY <1>1, <1>2, <1>3 DEF LedgerOK, Saves
<1>9. Del(before) \in Mutation \/ before.uuid = NoUuid
  BY <1>7 DEF Del, Mutation
<1>10. Put(data) \in Mutation
  BY <1>5 DEF Put, Mutation
<1> HIDE DEF data, m
<1>11. \/ m = <<>> /\ OpsOf(before) = {} /\ OpsOf(data) = {}
       \/ m = <<Put(data)>> /\ OpsOf(data) = {data} /\ \A o \in OpsOf(before) : SameKey(o, data)
       \/ m = <<Del(before)>> /\ OpsOf(data) = {} /\ OpsOf(before) = {before} /\ before.uuid # NoUuid
       \/ m = <<Del(before), Put(data)>>
          /\ OpsOf(data) = {data} /\ OpsOf(before) = {before} /\ before.uuid # NoUuid
  BY <1>5, MutationForms DEF m
<1>12. m \in Seq(Mutation)
  <2>1. CASE m = <<>>
    BY <2>1
  <2>2. CASE m = <<Put(data)>>
    BY <1>10, <2>2
  <2>3. CASE m = <<Del(before)>> /\ Del(before) \in Mutation
    BY <2>3
  <2>4. CASE m = <<Del(before), Put(data)>> /\ Del(before) \in Mutation
    BY <1>10, <2>4
  <2> QED
    BY <1>9, <1>11, <2>1, <2>2, <2>3, <2>4
<1>13. r \in Request /\ r.kind = req[t].kind /\ r.at = f /\ r.data = data /\ r.todo = m
  BY <1>0, <1>3, <1>5, <1>12, ContentFacts DEF Requests, Request
<1>14. req' = [req EXCEPT ![t] = r]
  BY <1>1 DEF Requests
<1> HIDE DEF r
<1>15. Alone(t) /\ pc'[t] = "posting" /\ req'[t] = r
  <2>1. pc' = [pc EXCEPT ![t] = "posting"] /\ r \in Request
    BY <1>1, <1>13
  <2>2. /\ pc \in [Threads -> Saving \cup {"idle", "reserving", "reading", "waiting"}]
        /\ req \in [Threads -> Request]
    BY DEF TypeOK, Requests
  <2> QED
    BY ONLY <1>14, <2>1, <2>2, t \in Threads DEF Alone, Saving
<1>16. Requests' /\ OneCreates' /\ Reserved'
  <2>1. known' = known /\ folders' = folders
    BY <1>1
  <2>2. RequestOK(pc[t], req[t])'
    <3>1. /\ r.kind = req[t].kind /\ r.at = f /\ r.data = data /\ Owner(f) = d
          /\ pc'[t] = "posting" /\ req'[t] = r
      BY <1>0, <1>13, <1>15
    <3> QED
      BY ONLY <1>3, <1>5, <2>1, <3>1 DEF RequestOK, Saving
  <2> QED
    BY <1>0, <1>1, <1>13, <1>15, <2>2, GoesOn
<1>17. TypeOK'
  BY <1>1, <1>15 DEF TypeOK, Alone, Request, Data
<1>18. \A u \in Threads : pc'[u] \in Saving <=> u = t
  BY <1>2, <1>15 DEF Alone, Saving
<1>19. OneSaves' /\ Saved'
  <2>1. OneSaves'
    BY <1>1, <1>18 DEF OneSaves
  <2>2. SaveOK(pc[t], req[t])'
    BY ONLY <1>6, <1>13, <1>15 DEF SaveOK
  <2> QED
    BY <1>18, <2>1, <2>2 DEF Saved
<1>20. Posts'
  <2> SUFFICES Owes(req[t])'
    BY <1>18 DEF Posts
  <2>1. /\ LedgerOf(d)' = LedgerOf(d) /\ Elsewhere(f)' = Elsewhere(f)
        /\ req'[t] = r /\ r.at = f /\ Owner(f) = d /\ r.data = data /\ r.todo = m
    BY <1>0, <1>1, <1>13, <1>15 DEF LedgerOf, Elsewhere
  <2>2. CASE m = <<>> /\ OpsOf(before) = {} /\ OpsOf(data) = {}
    BY ONLY <1>8, <2>1, <2>2 DEF Owes
  <2>3. CASE m = <<Put(data)>> /\ OpsOf(data) = {data} /\ \A o \in OpsOf(before) : SameKey(o, data)
    <3>1. data.uuid = d
      BY <1>5, <2>3 DEF OpsOf
    <3> QED
      BY ONLY <1>8, <2>1, <2>3, <3>1 DEF Owes
  <2>4. CASE OpsOf(before) = {before} /\ before.uuid # NoUuid
             /\ \/ m = <<Del(before)>> /\ OpsOf(data) = {}
                \/ m = <<Del(before), Put(data)>> /\ OpsOf(data) = {data}
    <3>1. before \in Payloads /\ before.uuid = d /\ data.uuid = d
      BY <1>5, <1>7, <2>4
    <3>2. d \notin damaged' => \A o \in LedgerOf(d) : SameKey(o, before) \/ o \in Elsewhere(f)
      BY <1>8, <2>4 DEF SameKey
    <3> QED
      BY ONLY <2>1, <2>4, <3>1, <3>2 DEF Owes
  <2> QED
    BY <1>11, <2>2, <2>3, <2>4
<1>21. Versions' /\ LedgerOK'
  <2>1. Versions'
    BY <1>1, <1>2 DEF Versions, Saving
  <2>2. \A e \in Docs \ damaged' : Follows(e)
    BY <1>1, <1>2 DEF LedgerOK, Saves
  <2>3. LedgerOK'
    BY <1>1, <2>2 DEF LedgerOK, Follows, Copies, LedgerOf
  <2> QED
    BY <2>1, <2>3
<1> QED
  BY <1>16, <1>17, <1>19, <1>20, <1>21

(* A step of a save of thread t that has the lock: nobody else saves.      *)
LEMMA SaverAlone ==
  ASSUME MInv, NEW t \in Threads, pc[t] \in Saving
  PROVE  /\ \A u \in Threads : pc[u] \in Saving => u = t
         /\ lock = t
         /\ req[t] \in Request /\ RequestOK(pc[t], req[t])
         /\ SaveOK(pc[t], req[t]) /\ Owes(req[t])
  BY Exclusion DEF MInv, OneSaves, Requests, Saved, Posts

(* In a save, the document's ledger entries may be anything, and those of  *)
(* the others stay; and so do the versions of all folders but its own.     *)
LEMMA SaveStep ==
  ASSUME MInv, NEW t, Alone(t), pc[t] \in Saving, pc'[t] \in Saving,
         UNCHANGED <<lock, index, known, damaged>>,
         folders' \in {folders, folders \cup {req[t].at}},
         req'[t].kind = req[t].kind, req'[t].at = req[t].at, req'[t].data = req[t].data,
         link' \in [Folders -> Contents],
         \A f \in Folders : f # req[t].at => link'[f] = link[f],
         link'[req[t].at] \in {link[req[t].at], Null, req[t].data},
         link'[req[t].at] = Null => link[req[t].at] = Null \/ pc'[t] = "relinking",
         pc[t] = "relinking" => link'[req[t].at] = req[t].data,
         ledger' \subseteq Payloads, \A o \in ledger' : o.uuid \in Docs,
         \A o, p \in ledger' : SameKey(o, p) => o = p,
         \A d \in Docs : d # Owner(req[t].at) => LedgerOf(d)' = LedgerOf(d),
         SaveOK(pc[t], req[t])', Owes(req[t])'
  PROVE  MInv'
<1> USE DEF MInv
<1>1. /\ t \in Threads
      /\ \A u \in Threads : u # t => pc'[u] = pc[u] /\ req'[u] = req[u]
      /\ \A u \in Threads : u # t => pc[u] \notin Saving /\ pc'[u] \notin Saving
  BY SaverAlone DEF Alone
<1>2. RequestOK(pc[t], req[t])'
  <2>1. RequestOK(pc[t], req[t])
    BY <1>1, SaverAlone
  <2>2. folders \subseteq folders' /\ known' = known
    OBVIOUS
  <2>3. /\ pc[t] \in Saving /\ pc'[t] \in Saving
        /\ req'[t].kind = req[t].kind /\ req'[t].at = req[t].at /\ req'[t].data = req[t].data
    OBVIOUS
  <2> QED
    BY ONLY <2>1, <2>2, <2>3 DEF RequestOK, Saving
<1>20. /\ req[t].at \in Folders /\ Owner(req[t].at) \in Docs
       /\ folders \subseteq folders' /\ folders' \subseteq Folders /\ folders' \cap Docs = folders \cap Docs
  BY <1>1, RequestDoc DEF TypeOK
<1>3. Requests' /\ OneCreates' /\ Reserved'
  BY <1>2, <1>20, GoesOn
<1>4. TypeOK'
  BY <1>1, <1>20 DEF TypeOK, Alone, Request, Data
<1>5. OneSaves'
  BY <1>1 DEF OneSaves
<1>6. Saved' /\ Posts'
  BY <1>1 DEF Saved, Posts
<1>7. /\ req[t].data.uuid \in {Owner(req[t].at), NoUuid}
      /\ req[t].at \in Docs \ damaged => req[t].data.uuid = req[t].at
      /\ req[t].data # Null
  BY <1>1, SaverAlone, RequestDoc DEF SaveOK
<1>8. Versions'
  <2>1. ASSUME NEW f \in Folders PROVE link'[f].uuid \in {Owner(f), NoUuid}
    BY <1>7, <1>20, ContentFacts DEF Versions
  <2>2. ASSUME NEW d \in Docs
        PROVE  /\ d \notin damaged /\ link'[d] # Null => link'[d].uuid = d
               /\ d \in known \ damaged =>
                    /\ d \in index
                    /\ link'[d] # Null \/ \E u \in Threads : pc'[u] = "relinking" /\ req'[u].at = d
    <3>0. d \in Folders
      BY FolderFacts
    <3>1. CASE d # req[t].at
      BY <1>1, <3>0, <3>1 DEF Versions, Saving
    <3>2. CASE d = req[t].at
      <4>1. d \in known \ damaged => link[d] # Null \/ pc[t] = "relinking"
        BY <1>1, <3>2 DEF Versions, Saving
      <4> QED
        BY <1>1, <1>7, <3>2, <4>1, ContentFacts DEF Versions
    <3> QED
      BY <3>1, <3>2
  <2> QED
    BY <2>1, <2>2 DEF Versions
<1>9. LedgerOK'
  <2> SUFFICES ASSUME NEW d \in Docs \ damaged, \A u \in Threads : ~Saves(u, d)'
               PROVE  Follows(d)'
    BY DEF LedgerOK
  <2>1. d # Owner(req[t].at)
    BY <1>1 DEF Saves
  <2>2. \A u \in Threads : ~Saves(u, d)
    BY <1>1, <2>1 DEF Saves
  <2>3. Follows(d) /\ LedgerOf(d)' = LedgerOf(d)
    BY <2>1, <2>2 DEF LedgerOK
  <2>4. link'[d] = link[d] /\ link'[Shadow(d)] = link[Shadow(d)]
    BY <2>1, FolderFacts
  <2>5. Copies(d)' = Copies(d) /\ \A f \in Copies(d) : link'[f] = link[f]
    BY <2>4 DEF Copies
  <2> QED
    BY <2>3, <2>5 DEF Follows, OpsOf
<1> QED
  BY <1>3, <1>4, <1>5, <1>6, <1>8, <1>9

(* One mutation applied: an operation of its key is gone or replaced. *)
LEMMA AppliedFacts ==
  ASSUME MInv, NEW m, m.op \in Payloads, m.op.uuid \in Docs, ledger' = Applied(m)
  PROVE  /\ ledger' \subseteq Payloads /\ \A o \in ledger' : o.uuid \in Docs
         /\ \A o, p \in ledger' : SameKey(o, p) => o = p
         /\ \A d \in Docs : d # m.op.uuid => LedgerOf(d)' = LedgerOf(d)
<1> USE DEF MInv
<1>1. /\ \A o, p \in ledger : SameKey(o, p) => o = p
      /\ ledger \subseteq Payloads /\ \A o \in ledger : o.uuid \in Docs
  BY DEF TypeOK, LedgerOK
<1>2. \A o \in ledger' : \/ o \in ledger /\ ~SameKey(o, m.op)
                         \/ o = m.op
  BY DEF Applied
<1>3. \A o, p \in ledger' : SameKey(o, p) => o = p
  BY <1>1, <1>2 DEF SameKey
<1>4. \A d \in Docs : d # m.op.uuid => LedgerOf(d)' = LedgerOf(d)
  BY DEF LedgerOf, Applied, SameKey
<1> QED
  BY <1>1, <1>2, <1>3, <1>4

(* One mutation is posted. *)
LEMMA PostStep ==
  ASSUME MInv, NEW t \in Threads, Post(t) PROVE MInv'
<1> USE DEF MInv
<1> DEFINE r == [req[t] EXCEPT !.todo = Tail(req[t].todo)]
<1>1. /\ pc[t] = "posting" /\ req[t].todo # <<>> /\ ledger' = Applied(Head(req[t].todo))
      /\ req' = [req EXCEPT ![t] = r] /\ pc' = pc
      /\ UNCHANGED <<lock, folders, link, index, known, damaged>>
  BY DEF Post, Requests
<1>2. req[t] \in Request /\ SaveOK(pc[t], req[t]) /\ Owes(req[t])
  BY <1>1, SaverAlone DEF Saving
<1>3. PICK f, d, data : f = req[t].at /\ d = Owner(f) /\ data = req[t].data
  OBVIOUS
<1>4. f \in Folders /\ d \in Docs /\ data \in Payloads
  BY <1>1, <1>3, RequestDoc DEF Saving
<1>5. r \in Request /\ r.kind = req[t].kind /\ r.at = f /\ r.data = data /\ r.todo = Tail(req[t].todo)
  BY <1>1, <1>2, <1>3 DEF Request
<1> HIDE DEF r
<1>6. Alone(t) /\ req'[t] = r
  BY <1>1, <1>5 DEF Alone, Requests, TypeOK
<1>7. SaveOK(pc[t], req[t])'
  <2>1. pc'[t] = "posting" /\ damaged' = damaged /\ (f \in Docs \ damaged => data.uuid = f)
    BY <1>1, <1>2, <1>3 DEF SaveOK
  <2> QED
    BY ONLY <2>1, <1>5, <1>6 DEF SaveOK
<1>8. ASSUME NEW m, m.op \in Payloads, m.op.uuid = d, Head(req[t].todo) = m, Owes(req[t])'
      PROVE  MInv'
  <2>1. /\ ledger' \subseteq Payloads /\ \A o \in ledger' : o.uuid \in Docs
        /\ \A o, p \in ledger' : SameKey(o, p) => o = p
        /\ \A e \in Docs : e # d => LedgerOf(e)' = LedgerOf(e)
    BY <1>1, <1>4, <1>8, AppliedFacts
  <2>2. link' = link /\ link \in [Folders -> Contents]
    BY <1>1 DEF TypeOK
  <2> QED
    BY <1>1, <1>3, <1>5, <1>6, <1>7, <1>8, <2>1, <2>2, SaveStep DEF Saving
<1>9. /\ damaged' = damaged /\ Elsewhere(f)' = Elsewhere(f)
      /\ req'[t] = r /\ r.at = f /\ Owner(f) = d /\ r.data = data
  BY <1>1, <1>3, <1>5, <1>6 DEF Elsewhere
<1>10. CASE /\ req[t].todo = <<Put(data)>>
            /\ data.uuid = d /\ OpsOf(data) = {data}
            /\ d \notin damaged => \A o \in LedgerOf(d) : SameKey(o, data) \/ o \in Elsewhere(f)
  <2>1. Head(req[t].todo) = Put(data) /\ r.todo = <<>> /\ Put(data).op = data
    BY <1>5, <1>10 DEF Put
  <2>2. ledger' = {o \in ledger : ~SameKey(o, data)} \cup {data}
    BY <1>1, <2>1 DEF Applied, Put
  <2>3. d \notin damaged =>
          data \in LedgerOf(d)' /\ \A o \in LedgerOf(d)' : o = data \/ o \in Elsewhere(f)
    BY <1>10, <2>2 DEF LedgerOf
  <2>4. Owes(req[t])'
    BY ONLY <1>9, <1>10, <2>1, <2>3 DEF Owes
  <2> QED
    BY <1>4, <1>8, <1>10, <2>1, <2>4
<1>11. CASE \E b \in Payloads :
             /\ b.uuid = d
             /\ \/ req[t].todo = <<Del(b)>> /\ OpsOf(data) = {}
                \/ req[t].todo = <<Del(b), Put(data)>> /\ data.uuid = d /\ OpsOf(data) = {data}
             /\ d \notin damaged => \A o \in LedgerOf(d) : SameKey(o, b) \/ o \in Elsewhere(f)
  <2>1. PICK b \in Payloads :
             /\ b.uuid = d
             /\ \/ req[t].todo = <<Del(b)>> /\ OpsOf(data) = {}
                \/ req[t].todo = <<Del(b), Put(data)>> /\ data.uuid = d /\ OpsOf(data) = {data}
             /\ d \notin damaged => \A o \in LedgerOf(d) : SameKey(o, b) \/ o \in Elsewhere(f)
    BY <1>11
  <2>2. Head(req[t].todo) = Del(b) /\ Del(b).op = b /\ Del(b).what # "put"
    BY <2>1 DEF Del
  <2>3. ledger' = {o \in ledger : ~SameKey(o, b)}
    BY <1>1, <2>2 DEF Applied
  <2>4. d \notin damaged => \A o \in LedgerOf(d)' : o \in Elsewhere(f)
    BY <2>1, <2>3 DEF LedgerOf
  <2>5. \/ r.todo = <<>> /\ OpsOf(data) = {}
        \/ r.todo = <<Put(data)>> /\ data.uuid = d /\ OpsOf(data) = {data}
    <3>1. Tail(<<Del(b)>>) = <<>> /\ Tail(<<Del(b), Put(data)>>) = <<Put(data)>>
      OBVIOUS
    <3> QED
      BY <1>5, <2>1, <3>1
  <2>6. Owes(req[t])'
    <3>1. CASE r.todo = <<>> /\ OpsOf(data) = {}
      BY ONLY <1>9, <2>4, <3>1 DEF Owes
    <3>2. CASE r.todo = <<Put(data)>> /\ data.uuid = d /\ OpsOf(data) = {data}
      BY ONLY <1>9, <2>4, <3>2 DEF Owes
    <3> QED
      BY <2>5, <3>1, <3>2
  <2> QED
    BY <1>8, <2>1, <2>2, <2>6
<1> QED
  BY <1>1, <1>2, <1>3, <1>10, <1>11 DEF Owes

(* A step of a save after the posts: only the link may change. *)
LEMMA StoreStep ==
  ASSUME MInv, NEW t \in Threads, NEW step \in Saving \ {"posting"},
         pc[t] \in Saving, req[t].todo = <<>>,
         pc' = [pc EXCEPT ![t] = step],
         UNCHANGED <<lock, req, index, ledger, known, damaged>>,
         folders' \in {folders, folders \cup {req[t].at}},
         \/ link' = link /\ pc[t] # "relinking"
         \/ link' = [link EXCEPT ![req[t].at] = Null] /\ step = "relinking" /\ pc[t] # "relinking"
         \/ link' = [link EXCEPT ![req[t].at] = req[t].data],
         step = "indexing" => link' = [link EXCEPT ![req[t].at] = req[t].data]
  PROVE  MInv'
<1> USE DEF MInv
<1>1. Alone(t) /\ pc'[t] = step /\ req'[t] = req[t]
  BY DEF Alone, TypeOK, Requests
<1>2. req[t].at \in Folders /\ req[t].data \in Payloads /\ SaveOK(pc[t], req[t]) /\ Owes(req[t])
  BY SaverAlone, RequestDoc
<1>3. /\ link' \in [Folders -> Contents]
      /\ \A f \in Folders : f # req[t].at => link'[f] = link[f]
      /\ link'[req[t].at] \in {link[req[t].at], Null, req[t].data}
      /\ link'[req[t].at] = Null => link[req[t].at] = Null \/ pc'[t] = "relinking"
      /\ pc[t] = "relinking" => link'[req[t].at] = req[t].data
      /\ step = "indexing" => link'[req[t].at] = req[t].data
  BY <1>1, <1>2, ContentFacts DEF TypeOK, Contents
<1>4. SaveOK(pc[t], req[t])'
  <2>1. damaged' = damaged /\ req'[t].todo = <<>>
    BY <1>1
  <2>2. pc'[t] = "indexing" => link'[req'[t].at] = req'[t].data
    BY <1>1, <1>3
  <2>3. req'[t].at \in Docs \ damaged' => req'[t].data.uuid = req'[t].at
    BY <1>1, <1>2, <2>1 DEF SaveOK
  <2> QED
    BY ONLY <2>1, <2>2, <2>3 DEF SaveOK
<1>5. (\A d : LedgerOf(d)' = LedgerOf(d)) /\ Elsewhere(req[t].at)' = Elsewhere(req[t].at)
  BY <1>1, <1>2, <1>3, FolderFacts DEF LedgerOf, Elsewhere
<1>6. Owes(req[t])'
  BY <1>1, <1>2, <1>5 DEF Owes
<1>7. ledger' \subseteq Payloads /\ (\A o \in ledger' : o.uuid \in Docs)
      /\ \A o, p \in ledger' : SameKey(o, p) => o = p
  BY DEF TypeOK, LedgerOK
<1> QED
  BY <1>1, <1>3, <1>4, <1>5, <1>6, <1>7, SaveStep

(* A save writes the new version and moves the link to it. *)
LEMMA MovesStep ==
  ASSUME MInv, NEW t \in Threads, Save(t) \/ Unlink(t) \/ Relink(t) PROVE MInv'
<1> USE DEF MInv
<1>1. pc[t] \in Saving
  BY DEF Save, Unlink, Relink, Saving
<1>2. SaveOK(pc[t], req[t])
  BY <1>1, SaverAlone
<1>3. CASE Save(t)
  BY <1>1, <1>3, StoreStep DEF Save, Saving
<1>4. CASE Unlink(t)
  BY <1>1, <1>2, <1>4, StoreStep DEF Unlink, SaveOK, Saving
<1>5. CASE Relink(t)
  BY <1>1, <1>2, <1>5, StoreStep DEF Relink, SaveOK, Saving
<1> QED
  BY <1>3, <1>4, <1>5

(* A save ends: the document is known and found. *)
LEMMA FinishStep ==
  ASSUME MInv, NEW t \in Threads, Finish(t) PROVE MInv'
<1> USE DEF MInv
<1>1. /\ pc[t] = "indexing" /\ pc[t] \in Saving /\ Idle(t) /\ lock' = Free
      /\ known' = known \cup {Owner(req[t].at)} /\ index' = index \cup ({req[t].data.uuid} \ {NoUuid})
      /\ UNCHANGED <<folders, link, ledger, damaged>>
  BY DEF Finish, Saving
<1>2. /\ \A u \in Threads : pc[u] \in Saving => u = t
      /\ SaveOK(pc[t], req[t]) /\ Owes(req[t])
  BY <1>1, SaverAlone
<1>3. PICK f, d, data : f = req[t].at /\ d = Owner(f) /\ data = req[t].data
  OBVIOUS
<1>4. /\ f \in Folders /\ d \in folders /\ d \in Docs /\ d # NoUuid
      /\ data # Null /\ data.uuid \in {d, NoUuid}
      /\ f \notin Docs => d \in known
      /\ f \in Docs => d = f
  BY <1>1, <1>3, RequestDoc, ContentFacts, FolderFacts
<1>5. link[f] = data /\ (f \in Docs \ damaged => data.uuid = f)
  BY <1>1, <1>2, <1>3 DEF SaveOK
<1>6. d \notin damaged => Follows(d)
  <2> SUFFICES ASSUME d \notin damaged PROVE Follows(d)
    OBVIOUS
  <2>1. req[t].todo = <<>>
    BY <1>1, <1>2 DEF SaveOK
  <2>2. /\ OpsOf(data) \subseteq LedgerOf(d)
        /\ \A o \in LedgerOf(d) : o \in OpsOf(data) \/ o \in Elsewhere(f)
    BY <1>2, <1>3, <2>1 DEF Owes
  <2> QED
    BY <1>3, <1>4, <1>5, <2>2, FollowsForm DEF TypeOK
<1>7. PICK k : k = index \cup ({data.uuid} \ {NoUuid})
  OBVIOUS
<1>8. index' = k /\ index \subseteq k /\ k \subseteq Docs /\ (d \notin damaged => d \in k)
  <2>1. d \notin damaged => data.uuid = d \/ d \in index
    BY <1>4, <1>5 DEF Versions
  <2> QED
    BY <1>1, <1>3, <1>4, <1>7, <2>1 DEF TypeOK
<1>9. Alone(t) /\ pc'[t] = "idle" /\ req'[t] = NoRequest
  BY <1>1, RequestFacts DEF Idle, Alone, TypeOK, Requests
<1>10. Requests' /\ OneSaves' /\ OneCreates' /\ Reserved' /\ Saved' /\ Posts'
  <2>1. \A u \in Threads : u # t => RequestOK(pc[u], req[u])'
    BY <1>1, <1>9, OthersRequests
  <2>2. RequestOK(pc[t], req[t])'
    BY ONLY <1>9 DEF RequestOK, Saving
  <2>3. \A u \in Threads : pc'[u] \notin Saving
    BY <1>2, <1>9 DEF Alone, Saving
  <2>4. Requests'
    BY <1>9, <2>1, <2>2 DEF Requests, Alone
  <2>5. OneSaves' /\ Saved' /\ Posts'
    BY <2>3 DEF OneSaves, Saved, Posts
  <2>6. OneCreates' /\ Reserved'
    <3>1. OneCreates'
      BY <1>9, RequestFacts DEF OneCreates, Alone
    <3>2. ASSUME NEW e \in folders \cap Docs, e \notin known \cup {d}, e \notin damaged
          PROVE  \E u \in Threads : req'[u].kind = "create" /\ req'[u].at = e
      <4>1. PICK u \in Threads : req[u].kind = "create" /\ req[u].at = e
        BY <3>2 DEF Reserved
      <4>2. u # t
        BY <1>3, <3>2, <4>1, FolderFacts
      <4> QED
        BY <1>9, <4>1, <4>2 DEF Alone
    <3> QED
      BY <1>1, <1>3, <3>1, <3>2 DEF Reserved
  <2> QED
    BY <2>4, <2>5, <2>6
<1>11. TypeOK'
  BY <1>1, <1>3, <1>4, <1>8, <1>9 DEF TypeOK, Alone, Request, Data
<1>12. Versions'
  <2>1. d \notin damaged => link[d] # Null
    BY <1>1, <1>2, <1>3, <1>4, <1>5 DEF Versions, Saving
  <2> QED
    BY <1>1, <1>2, <1>3, <1>4, <1>5, <1>8, <2>1 DEF Versions, Saving
<1>13. LedgerOK'
  <2> SUFFICES ASSUME NEW e \in Docs \ damaged PROVE Follows(e)
    BY <1>1 DEF LedgerOK, Follows, Copies, LedgerOf
  <2>1. CASE e = d
    BY <1>6, <2>1
  <2>2. CASE e # d
    BY <1>2, <1>3, <2>2 DEF LedgerOK, Saves
  <2> QED
    BY <2>1, <2>2
<1> QED
  BY <1>10, <1>11, <1>12, <1>13

(* Every step keeps the invariant. *)
LEMMA NextMInv == MInv /\ [Next]_vars => MInv'
<1> SUFFICES ASSUME MInv, [Next]_vars PROVE MInv'
  OBVIOUS
<1>1. ASSUME NEW t \in Threads, AskCreate(t) \/ AskUpdate(t) \/ AskPatch(t) PROVE MInv'
  BY <1>1, AskCreateStep, AskUpdateStep, AskPatchStep
<1>2. ASSUME NEW t \in Threads, Work(t) PROVE MInv'
  BY <1>2, ReserveStep, ReadForPatchStep, EnterStep, PostStep, MovesStep, FinishStep, RefusedStep
     DEF Work
<1>3. ASSUME NEW t \in Threads, Fail(t) \/ FailReserve(t) \/ Panic(t) PROVE MInv'
  BY <1>3, FailStep, FailReserveStep, PanicStep
<1>4. CASE Crash
  BY <1>4, CrashStep
<1>5. CASE UNCHANGED vars
  <2>1. UNCHANGED <<lock, pc, req, folders, link, index, ledger, known, damaged>>
    BY <1>5 DEF vars
  <2> QED
    <3>1. (TypeOK /\ Requests /\ OneSaves /\ OneCreates /\ Reserved)'
      BY <2>1 DEF MInv, TypeOK, Requests, RequestOK, OneSaves, OneCreates, Reserved
    <3>2. (Versions /\ Saved)'
      BY <2>1 DEF MInv, Versions, Saved, SaveOK
    <3>3. \A d : LedgerOf(d)' = LedgerOf(d)
      BY <2>1 DEF LedgerOf
    <3>4. Posts'
      BY <2>1, <3>3 DEF MInv, Posts, Owes, Elsewhere
    <3>5. LedgerOK'
      BY <2>1, <3>3 DEF MInv, LedgerOK, Follows, Copies, Saves
    <3> QED
      BY <3>1, <3>2, <3>4, <3>5 DEF MInv
<1> QED
  BY <1>1, <1>2, <1>3, <1>4, <1>5 DEF Next

(* The invariant says what the properties say. *)
LEMMA MInvImplies == MInv => TypeOK /\ LedgerFollowsDocuments /\ IdentityStays
<1> SUFFICES ASSUME MInv PROVE LedgerFollowsDocuments /\ IdentityStays
  BY DEF MInv
<1> USE DEF MInv
<1>1. LedgerFollowsDocuments
  BY DEF LedgerFollowsDocuments, LedgerOK, Follows, LedgerOf, Saves
<1>2. IdentityStays
  BY CreateDoc, RequestDoc DEF IdentityStays, OneCreates, Versions
<1> QED
  BY <1>1, <1>2

(***************************************************************************)
(* The theorems.                                                           *)
(***************************************************************************)

(* Whatever creations, updates, patches, failures, panics and crashes      *)
(* meet: the store of the documents stays what it is.                      *)
THEOREM MemoriesTypes == Spec => []TypeOK
<1>1. MInv => TypeOK
  BY MInvImplies
<1> QED
  BY <1>1, InitMInv, NextMInv, PTL DEF Spec

(* The ledger says of every document what its latest version says, or, of  *)
(* one that was saved by its uuid, what its copy says or both say, when    *)
(* nothing is being saved and no save of it was cut short.                 *)
THEOREM LedgerFollows == Spec => []LedgerFollowsDocuments
<1>1. MInv => LedgerFollowsDocuments
  BY MInvImplies
<1> QED
  BY <1>1, InitMInv, NextMInv, PTL DEF Spec

(* An id is given once, and the uuid of a document stays.                  *)
THEOREM IdentityHolds == Spec => []IdentityStays
<1>1. MInv => IdentityStays
  BY MInvImplies
<1> QED
  BY <1>1, InitMInv, NextMInv, PTL DEF Spec

(* While nothing is being done, every document without a damage is found   *)
(* by its id and by its uuid, also one whose creation met others.          *)
THEOREM DocumentsFound == Spec => []((\A t \in Threads : pc[t] = "idle") => FoundAlike)
<1>1. MInv => ((\A t \in Threads : pc[t] = "idle") => FoundAlike)
  <2> SUFFICES ASSUME MInv, \A t \in Threads : pc[t] = "idle", NEW d \in (folders \cap Docs) \ damaged
               PROVE  ResolveId(d) # Null /\ ResolveUuid(d) = ResolveId(d)
    BY DEF FoundAlike
  <2>1. \A t \in Threads : req[t].kind # "create"
    BY RequestFacts DEF MInv, Requests, RequestOK
  <2>2. d \in known /\ d \in Docs
    BY <2>1 DEF MInv, Reserved, TypeOK
  <2>3. d \in index /\ link[d] # Null
    BY <2>2 DEF MInv, Versions
  <2> QED
    BY <2>3 DEF ResolveId, ResolveUuid
<1> QED
  BY <1>1, InitMInv, NextMInv, PTL DEF Spec

=============================================================================
