------------------------------- MODULE Server -------------------------------
(***************************************************************************)
(* Clients, the commutator and the threads between them.                   *)
(*                                                                         *)
(* Every websocket is an actor on a thread of its own (WsConn); it sends   *)
(* what comes to the mailbox of the commutator, an actor on the main       *)
(* thread, which calls the services, waits until there is room for the     *)
(* event in a channel of one, and answers.  A third thread, the            *)
(* dispatcher, takes events from the channel and sends each to every       *)
(* session.  The processes of ActionTasks run on the main thread too, and  *)
(* emit events the same way.  Sending to an actor never waits.             *)
(*                                                                         *)
(* Of the services there are the people, standing for all that keep each   *)
(* record in a file of its own (companies, departments, shifts), and the   *)
(* actions.                                                                *)
(***************************************************************************)
EXTENDS ActionTasks, SequencesExt

CONSTANTS
  MaxConns,    \* bound on the connections
  Requests,    \* what clients may send
  MaxRequests  \* bound on how many they send

(* Connections are numbered as they come; a client that comes back is      *)
(* another one.                                                            *)
Conns  == 1 .. MaxConns
Nobody == 0

Kinds == {"read", "malformed", "save", "patch", "remove", "act", "patch task", "panic"}

ASSUME ServerAssumption ==
  /\ MaxConns \in Nat /\ MaxRequests \in 0 .. MaxTasks
  /\ \A req \in Requests :
       /\ req.kind \in Kinds
       /\ req.kind = "patch task" => req.id \in Tasks /\ req.at \in Nat

VARIABLES
  conn,      \* conn[c]: "new", "starting", "open" or "closed"
  inbox,     \* the mailbox of the commutator
  main,      \* what the main thread waits to emit, and whom it answers then, or <<>>
  channel,   \* events on their way
  hand,      \* the event the dispatcher has, or <<>>
  sessions,  \* connections that get events
  heard,     \* heard[c]: events sent to c
  answers,   \* answers[c]: numbers of the requests answered
  sent,      \* sent[n]: who sent the n-th request
  people,    \* the files of people
  dead,      \* the commutator has panicked
  log,       \* history: the events of all mutations
  joined     \* history: joined[c] is how many there were when c became a session

wsVars == <<conn, inbox, main, channel, hand, sessions, heard, answers, sent, people, dead, log, joined>>
vars   == <<wsVars, taskVars>>

Init ==
  /\ conn = [c \in Conns |-> "new"]
  /\ inbox = <<>> /\ channel = <<>> /\ log = <<>>
  /\ main = <<>> /\ hand = <<>>
  /\ sessions = {}
  /\ heard = [c \in Conns |-> <<>>]
  /\ answers = [c \in Conns |-> <<>>]
  /\ sent = <<>>
  /\ joined = [c \in Conns |-> 0]
  /\ people = <<>>
  /\ dead = FALSE
  /\ TasksInit

(***************************************************************************)
(* Websockets.                                                             *)
(***************************************************************************)

(* do_send to the commutator: lost if it is no more. *)
Post(msg) == inbox' = IF dead THEN inbox ELSE Append(inbox, msg)

(* started: the actor waits until the commutator has greeted it. *)
Start(c) ==
  /\ conn[c] = "new" /\ \A d \in 1 .. c - 1 : conn[d] # "new"
  /\ conn' = [conn EXCEPT ![c] = IF dead THEN "closed" ELSE "starting"]
  /\ Post([type |-> "connect", conn |-> c])
  /\ UNCHANGED <<main, channel, hand, sessions, heard, answers, sent, people, dead, log, joined, taskVars>>

(* A frame with an event.  What cannot be read the websocket answers       *)
(* itself; a frame that is not in brackets it passes over, without an      *)
(* answer, as if it had not come: it is no request here.                   *)
Send(c, req) ==
  /\ conn[c] = "open"
  /\ Len(sent) < MaxRequests
  /\ sent' = Append(sent, c)
  /\ IF req.kind = "malformed"
     THEN answers' = [answers EXCEPT ![c] = Append(@, Len(sent'))] /\ UNCHANGED inbox
     ELSE Post([type |-> "event", conn |-> c, nr |-> Len(sent'), req |-> req]) /\ UNCHANGED answers
  /\ UNCHANGED <<conn, main, channel, hand, sessions, heard, people, dead, log, joined, taskVars>>

(* The client is gone, and what it heard with it. *)
Gone(c) ==
  /\ conn' = [conn EXCEPT ![c] = "closed"]
  /\ heard' = [heard EXCEPT ![c] = <<>>]
  /\ answers' = [answers EXCEPT ![c] = <<>>]

(* stopping. *)
Close(c) ==
  /\ conn[c] \in {"starting", "open"}
  /\ Gone(c)
  /\ Post([type |-> "disconnect", conn |-> c])
  /\ UNCHANGED <<main, channel, hand, sessions, sent, people, dead, log, joined, taskVars>>

(* hb: a client that was silent for too long is stopped, and then there is *)
(* todo!(); so whether the commutator is told is left to the library.      *)
TimeOut(c) ==
  /\ conn[c] = "open"
  /\ Gone(c)
  /\ UNCHANGED <<inbox, main, channel, hand, sessions, sent, people, dead, log, joined, taskVars>>

(***************************************************************************)
(* What the main thread does at a time: a message of the commutator, or a  *)
(* stretch of a process.                                                   *)
(***************************************************************************)

Key(i)   == <<"actions", i>>
Told(ts, i) == [of |-> Key(i), data |-> [stage |-> ts[i].stage, result |-> ts[i].result]]

(* Sessions with somebody behind them. *)
Alive(c) == c \in sessions /\ conn[c] # "closed"

(* Ack: a message to the session, if there is still one. *)
Acked(c, nr) ==
  answers' = IF Alive(c) THEN [answers EXCEPT ![c] = Append(@, nr)] ELSE answers

(* emit, as far as it is known what: the event is in log from now on.      *)
Emits(e, to, nr) ==
  /\ main' = <<[event |-> e, conn |-> to, nr |-> nr]>>
  /\ log' = Append(log, e)

(* Handler<Connect> and open: the session is inserted, then greeted, which *)
(* ends the waiting of the actor.                                          *)
Connect(msg) ==
  /\ msg.type = "connect"
  /\ sessions' = sessions \cup {msg.conn}
  /\ joined' = [joined EXCEPT ![msg.conn] = Len(log)]
  /\ conn' = [conn EXCEPT ![msg.conn] = IF @ = "starting" THEN "open" ELSE @]
  /\ UNCHANGED <<main, channel, hand, heard, answers, sent, people, dead, log, taskVars>>

(* Handler<Disconnect>. *)
Disconnect(msg) ==
  /\ msg.type = "disconnect"
  /\ sessions' = sessions \ {msg.conn}
  /\ UNCHANGED <<conn, main, channel, hand, heard, answers, sent, people, dead, log, joined, taskVars>>

(* A person is saved whole (created, with an id of its own, or updated,    *)
(* whether there or not), or patched if there.                             *)
Saved(req) == IF req.kind = "save" THEN req.data ELSE req.data @@ people[req.id]

Handled(req) == req.kind = "save" \/ (req.kind = "patch" /\ req.id \in DOMAIN people)

(* Handler<ws::Event>, a mutation of people. *)
Mutate(msg) ==
  /\ msg.type = "event" /\ Handled(msg.req)
  /\ people' = With(people, msg.req.id, Saved(msg.req))
  /\ Emits([of |-> <<"people", msg.req.id>>, data |-> people'[msg.req.id]], msg.conn, msg.nr)
  /\ UNCHANGED <<conn, channel, hand, sessions, heard, answers, sent, dead, joined, taskVars>>

(* Handler<ws::Event>, an action of an unknown command or camera: tasks    *)
(* are forgotten first all the same.                                       *)
ActInVain(msg) ==
  /\ msg.type = "event" /\ msg.req.kind = "act"
  /\ tasks' = Cleaned
  /\ Acked(msg.conn, msg.nr)
  /\ UNCHANGED <<conn, main, channel, hand, sessions, heard, sent, people, dead, log, joined, now, process, meddled>>

(* Handler<ws::Event>, an action is created. *)
Act(msg) ==
  /\ msg.type = "event" /\ msg.req.kind = "act"
  /\ CreateTask
  /\ Emits(Told(tasks', NewTask), msg.conn, msg.nr)
  /\ UNCHANGED <<conn, channel, hand, sessions, heard, answers, sent, people, dead, joined>>

(* Handler<ws::Event>, a client's own patch of a task. *)
MutateTask(msg) ==
  /\ msg.type = "event" /\ msg.req.kind = "patch task"
  /\ PatchTask(msg.req)
  /\ Emits(Told(tasks', msg.req.id), msg.conn, msg.nr)
  /\ UNCHANGED <<conn, channel, hand, sessions, heard, answers, sent, people, dead, joined>>

Fails(req) ==
  ~Handled(req) /\ req.kind # "act" /\ ~(req.kind = "patch task" /\ req.id \in DOMAIN tasks)

(* Mutant: only requests that succeed are answered. *)
Refuse_Silently(msg) ==
  /\ msg.type = "event" /\ msg.req.kind # "panic" /\ Fails(msg.req)
  /\ UNCHANGED <<conn, main, channel, hand, sessions, heard, answers, sent, people, dead, log, joined, taskVars>>

(* Handler<ws::Event>: something read, an error, or what is not            *)
(* implemented, as the removal of a person, which asks for that of a       *)
(* shift; nothing changes.                                                 *)
Refuse(msg) ==
  /\ msg.type = "event" /\ msg.req.kind # "panic" /\ Fails(msg.req)
  /\ Acked(msg.conn, msg.nr)
  /\ UNCHANGED <<conn, main, channel, hand, sessions, heard, sent, people, dead, log, joined, taskVars>>

(* A panic in a service ends the commutator, but nothing else. *)
Panic(msg) ==
  /\ msg.type = "event" /\ msg.req.kind = "panic"
  /\ dead' = TRUE
  /\ UNCHANGED <<conn, main, channel, hand, sessions, heard, answers, sent, people, log, joined, taskVars>>

Handle ==
  /\ main = <<>> /\ inbox # <<>>
  /\ LET msg == Head(inbox)
     IN  \/ Panic(msg) /\ inbox' = <<>>
         \/ /\ Connect(msg) \/ Disconnect(msg) \/ Mutate(msg) \/ Act(msg) \/ ActInVain(msg)
               \/ MutateTask(msg) \/ Refuse(msg)
            /\ inbox' = Tail(inbox)

(* Mutant: an event for which there is no room is dropped. *)
Emit_IfRoom ==
  /\ main # <<>>
  /\ channel' = IF Len(channel) < 1 THEN Append(channel, main[1].event) ELSE channel
  /\ Acked(main[1].conn, main[1].nr)
  /\ main' = <<>>
  /\ UNCHANGED <<conn, inbox, hand, sessions, heard, sent, people, dead, log, joined, taskVars>>

(* Mutant: the channel is not bounded. *)
Emit_Unbounded ==
  /\ main # <<>>
  /\ channel' = Append(channel, main[1].event)
  /\ Acked(main[1].conn, main[1].nr)
  /\ main' = <<>>
  /\ UNCHANGED <<conn, inbox, hand, sessions, heard, sent, people, dead, log, joined, taskVars>>

(* The main thread waits for room in the channel, then answers the request *)
(* that had the event emitted, if it was one.                              *)
Emit ==
  /\ main # <<>>
  /\ Len(channel) < 1
  /\ channel' = Append(channel, main[1].event)
  /\ Acked(main[1].conn, main[1].nr)
  /\ main' = <<>>
  /\ UNCHANGED <<conn, inbox, hand, sessions, heard, sent, people, dead, log, joined, taskVars>>

(* A stretch of a process, which emits what it changes. *)
Stretch(i) ==
  /\ main = <<>>
  /\ Ask(i) \/ \E outcome \in Outcomes : Complete(i, outcome)
  /\ IF i \in DOMAIN tasks THEN Emits(Told(tasks', i), Nobody, 0) ELSE UNCHANGED <<main, log>>
  /\ UNCHANGED <<conn, inbox, channel, hand, sessions, heard, answers, sent, people, dead, joined>>

(***************************************************************************)
(* The dispatcher.                                                         *)
(***************************************************************************)

Receive ==
  /\ hand = <<>> /\ channel # <<>>
  /\ hand' = <<Head(channel)>>
  /\ channel' = Tail(channel)
  /\ UNCHANGED <<conn, inbox, main, sessions, heard, answers, sent, people, dead, log, joined, taskVars>>

(* Mutant: it waits for a session that is gone. *)
EventToAll_WaitsForAll ==
  /\ hand # <<>> /\ \A c \in sessions : conn[c] # "closed"
  /\ heard' = [c \in Conns |-> IF Alive(c) THEN Append(heard[c], hand[1]) ELSE heard[c]]
  /\ hand' = <<>>
  /\ UNCHANGED <<conn, inbox, main, channel, sessions, answers, sent, people, dead, log, joined, taskVars>>

(* event_to_all, under the lock of the sessions. *)
EventToAll ==
  /\ hand # <<>>
  /\ heard' = [c \in Conns |-> IF Alive(c) THEN Append(heard[c], hand[1]) ELSE heard[c]]
  /\ hand' = <<>>
  /\ UNCHANGED <<conn, inbox, main, channel, sessions, answers, sent, people, dead, log, joined, taskVars>>

MainStep       == Handle \/ Emit
DispatcherStep == Receive \/ EventToAll

Next ==
  \/ \E c \in Conns : Start(c) \/ Close(c) \/ TimeOut(c) \/ \E req \in Requests : Send(c, req)
  \/ MainStep
  \/ \E i \in Tasks : Stretch(i)
  \/ DispatcherStep
  \/ Tick /\ UNCHANGED wsVars

(* The main thread and the dispatcher are scheduled; clients and devices   *)
(* do what they like.                                                      *)
Spec == Init /\ [][Next]_vars /\ WF_vars(MainStep) /\ WF_vars(DispatcherStep)

(***************************************************************************)
(* Properties.                                                             *)
(***************************************************************************)

(* Events on their way, in their order. *)
Coming ==
  hand \o channel \o (IF main = <<>> THEN <<>> ELSE <<main[1].event>>)

TypeOK ==
  /\ TasksOK
  /\ Len(channel) <= 1
  /\ Len(sent) <= MaxRequests
  /\ conn \in [Conns -> {"new", "starting", "open", "closed"}]
  /\ \A c \in Conns : joined[c] <= Len(log) /\ (Alive(c) => conn[c] # "new")
  /\ main # <<>> => main[1].event = Last(log)
  /\ dead => inbox = <<>>

State(of) ==
  IF of[1] = "people" THEN people[of[2]] ELSE Told(tasks, of[2]).data

(* Whoever becomes a session hears of every mutation since then, once and  *)
(* in the order they were made, by whatever thread and through however     *)
(* full a channel; and when the last event of a record or a task has come  *)
(* it tells how it is, unless the task is forgotten.                       *)
ClientsFollow ==
  \A c \in Conns : Alive(c) =>
    LET all == heard[c] \o Coming
    IN  /\ \E k \in 0 .. joined[c] : all = SubSeq(log, k + 1, Len(log))
        /\ \A i \in DOMAIN all :
             \/ \E j \in i + 1 .. Len(all) : all[j].of = all[i].of
             \/ all[i].of[1] = "actions" /\ all[i].of[2] \notin DOMAIN tasks
             \/ all[i].data = State(all[i].of)

Unanswered(c) ==
  {inbox[i].nr : i \in {j \in DOMAIN inbox : inbox[j].type = "event" /\ inbox[j].conn = c}} \cup
  (IF main # <<>> /\ main[1].conn = c THEN {main[1].nr} ELSE {})

(* While the commutator lives every request is either waiting or answered, *)
(* and answered once; that also holds if the same client sends several,    *)
(* and others leave.                                                       *)
AnsweredOnce ==
  \A c \in Conns : conn[c] = "open" /\ ~dead =>
    /\ IsInjective(answers[c])
    /\ Range(answers[c]) \cap Unanswered(c) = {}
    /\ Range(answers[c]) \cup Unanswered(c) = {n \in DOMAIN sent : sent[n] = c}

(* Every request is answered at last, however many events the main thread  *)
(* has to wait for, unless the client goes or a service panics.            *)
RequestsAreAnswered ==
  \A n \in 1 .. MaxRequests :
    n \in DOMAIN sent ~>
      n \in DOMAIN sent /\ (n \in Range(answers[sent[n]]) \/ conn[sent[n]] = "closed" \/ dead)
=============================================================================
