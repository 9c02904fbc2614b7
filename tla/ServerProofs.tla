---------------------------- MODULE ServerProofs ----------------------------
(***************************************************************************)
(* For any number of connections, requests, tasks and moments: clients     *)
(* follow all mutations from when they became sessions, every request is   *)
(* answered once, and the answers of devices are kept for their time.      *)
(***************************************************************************)
EXTENDS Server, FiniteSetTheorems, SequenceTheorems, TLAPS

(***************************************************************************)
(* The tasks.                                                              *)
(***************************************************************************)

Process ==
  [phase : {"none", "spawned", "ended"}] \cup
  [phase : {"asking"}, asked : Nat] \cup
  [phase : {"answered"}, at : Nat, outcome : Outcomes]

Used == {i \in Tasks : process[i].phase # "none"}

InTime(at, stage) == now - at <= Keep[stage]

(* A device that is asked in time finds its task, without a result, unless *)
(* a client has patched it.                                                *)
TasksAsk ==
  \A i \in Tasks \ meddled :
    /\ process[i].phase = "spawned" /\ i \in DOMAIN tasks => tasks[i].result = "none"
    /\ process[i].phase = "asking" =>
         /\ process[i].asked <= now
         /\ InTime(process[i].asked, "requested") =>
              /\ i \in DOMAIN tasks
              /\ tasks[i].stage = "requested" /\ tasks[i].at = process[i].asked
              /\ tasks[i].result = "none"

ResultOf(outcome) == IF outcome = "no json" THEN "none" ELSE "result"

(* An answer in time is that of the task, from when it came.               *)
TasksAnswer ==
  \A i \in Tasks \ meddled :
    process[i].phase = "answered" =>
      /\ process[i].at <= now
      /\ InTime(process[i].at, "completed") =>
           /\ i \in DOMAIN tasks
           /\ tasks[i].stage = "completed" /\ tasks[i].at = process[i].at
           /\ tasks[i].result = ResultOf(process[i].outcome)

(* The tasks ever created are the first ones. *)
FirstTasks == \E n \in 0 .. MaxTasks : Used = 1 .. n

TInv == TasksOK /\ process \in [Tasks -> Process] /\ TasksAsk /\ TasksAnswer /\ FirstTasks

(* The task created next is one more than there were. *)
LEMMA NextTask ==
  ASSUME NEW n \in Nat, Used = 1 .. n
  PROVE  NewTask = n + 1
<1>1. Cardinality(1 .. n) = n
  BY FS_Interval
<1>2. NewTask = Cardinality(Used) + 1
  BY DEF NewTask, Used
<1> QED
  BY <1>1, <1>2

LEMMA KeepFacts ==
  /\ MaxTasks \in Nat /\ MaxNow \in Nat
  /\ \A s \in Stages : Keep[s] \in Nat
  /\ Stages = {"created", "requested", "completed"}
  BY TasksAssumption DEF Stages

(* Nothing has happened in the beginning. *)
LEMMA TasksBegin == TasksInit => TInv
<1> SUFFICES ASSUME TasksInit PROVE TInv
  OBVIOUS
<1> USE DEF TasksInit
<1>1. DOMAIN tasks = {}
  OBVIOUS
<1>2. TasksOK
  BY <1>1, KeepFacts DEF TasksOK
<1>3. process \in [Tasks -> Process]
  BY DEF Process
<1>4. TasksAsk /\ TasksAnswer
  BY DEF TasksAsk, TasksAnswer
<1>5. Used = 1 .. 0
  BY DEF Used
<1> QED
  BY <1>2, <1>3, <1>4, <1>5, KeepFacts DEF TInv, FirstTasks

(* What the clean-up leaves. *)
LEMMA CleanedFacts ==
  /\ DOMAIN Cleaned \subseteq DOMAIN tasks
  /\ \A i \in DOMAIN Cleaned : Cleaned[i] = tasks[i]
  /\ \A i \in DOMAIN tasks : InTime(tasks[i].at, tasks[i].stage) => i \in DOMAIN Cleaned
  BY DEF Cleaned, Restrict, Kept, InTime

(* As long as time stands still nothing becomes late. *)
LEMMA StandsStill ==
  ASSUME now' = now
  PROVE  \A at, stage : InTime(at, stage)' <=> InTime(at, stage)
  BY DEF InTime

(* Tasks are forgotten, but none whose answer has still time. *)
LEMMA ForgetStep ==
  ASSUME TInv, tasks' = Cleaned, UNCHANGED <<now, process, meddled>>
  PROVE  TInv'
<1> USE DEF TInv
<1>1. TasksOK'
  BY CleanedFacts DEF TasksOK
<1>2. TasksAsk'
  BY CleanedFacts, StandsStill DEF TasksAsk
<1>3. TasksAnswer'
  BY CleanedFacts, StandsStill DEF TasksAnswer
<1>4. FirstTasks'
  BY DEF FirstTasks, Used
<1> QED
  BY <1>1, <1>2, <1>3, <1>4

(* A task is created. *)
LEMMA CreateStep ==
  ASSUME TInv, CreateTask, NewTask \in Tasks
  PROVE  /\ TInv' /\ NewTask' = NewTask + 1
         /\ NewTask \notin DOMAIN tasks
<1> USE DEF TInv
<1>1. PICK n \in 0 .. MaxTasks : Used = 1 .. n
  BY DEF FirstTasks
<1>2. NewTask = n + 1 /\ n + 1 \in Tasks
  BY <1>1, NextTask, KeepFacts
<1>3. n + 1 \notin Used
  BY <1>1, KeepFacts
<1>4. process[n + 1].phase = "none" /\ n + 1 \notin DOMAIN tasks
  BY <1>2, <1>3 DEF Used, TasksOK
<1>5. /\ now' = now /\ meddled' = meddled
      /\ process' = [process EXCEPT ![n + 1] = [phase |-> "spawned"]]
      /\ process'[n + 1].phase = "spawned"
      /\ \A i \in Tasks : i # n + 1 => process'[i] = process[i]
  BY <1>2 DEF CreateTask
<1>6. /\ DOMAIN tasks' = DOMAIN Cleaned \cup {n + 1}
      /\ tasks'[n + 1] = Created
      /\ \A i \in DOMAIN Cleaned : i # n + 1 => tasks'[i] = tasks[i]
  BY <1>2, CleanedFacts DEF CreateTask, With
<1>7. Created.stage = "created" /\ Created.at = now /\ Created.result = "none"
  BY DEF Created
<1>8. now \in Nat /\ now \in 0 .. MaxNow
  BY KeepFacts DEF TasksOK
<1>9. TasksOK'
  BY <1>2, <1>4, <1>5, <1>6, <1>7, <1>8, CleanedFacts, KeepFacts DEF TasksOK
<1>10. process' \in [Tasks -> Process]
  BY <1>2, <1>5 DEF Process
<1>11. TasksAsk'
  BY <1>5, <1>6, <1>7, CleanedFacts, StandsStill DEF TasksAsk
<1>12. TasksAnswer'
  <2> SUFFICES ASSUME NEW i \in Tasks \ meddled, process'[i].phase = "answered"
               PROVE  /\ process'[i].at <= now
                      /\ InTime(process'[i].at, "completed") =>
                           /\ i \in DOMAIN tasks'
                           /\ tasks'[i].stage = "completed" /\ tasks'[i].at = process'[i].at
                           /\ tasks'[i].result = ResultOf(process'[i].outcome)
    BY <1>5, StandsStill DEF TasksAnswer
  <2>1. i # n + 1 /\ process'[i] = process[i]
    BY <1>5
  <2>2. i \in DOMAIN Cleaned => i \in DOMAIN tasks' /\ tasks'[i] = tasks[i]
    BY <1>6, <2>1
  <2> QED
    BY <2>1, <2>2, CleanedFacts DEF TasksAnswer
<1>13. Used' = 1 .. n + 1
  BY <1>1, <1>2, <1>5, KeepFacts DEF Used
<1>14. NewTask' = n + 2
  <2>1. Cardinality(1 .. n + 1) = n + 1
    BY FS_Interval
  <2>2. NewTask' = Cardinality(Used') + 1
    BY DEF NewTask, Used
  <2> QED
    BY <1>13, <2>1, <2>2
<1>15. FirstTasks'
  BY <1>2, <1>13 DEF FirstTasks, Tasks
<1> QED
  BY <1>2, <1>4, <1>9, <1>10, <1>11, <1>12, <1>14, <1>15

(* A process marks its task as requested, or ends when it is forgotten. *)
LEMMA AskStep ==
  ASSUME TInv, NEW i \in Tasks, Ask(i)
  PROVE  TInv' /\ NewTask' = NewTask
<1> USE DEF TInv
<1>1. process[i].phase = "spawned" /\ now' = now /\ now \in Nat /\ meddled' = meddled
  BY KeepFacts DEF Ask, TasksOK
<1>2. /\ process' \in [Tasks -> Process]
      /\ \A j \in Tasks : j # i => process'[j] = process[j]
      /\ process'[i].phase \in {"asking", "ended"}
  BY <1>1 DEF Ask, Process
<1>3. /\ DOMAIN tasks' = DOMAIN tasks
      /\ \A j \in DOMAIN tasks : j # i => tasks'[j] = tasks[j]
  BY DEF Ask, Patched
<1>4. i \in DOMAIN tasks =>
        /\ tasks'[i].stage = "requested" /\ tasks'[i].at = now /\ tasks'[i].result = tasks[i].result
        /\ i \notin meddled => tasks'[i].result = "none"
        /\ process'[i].phase = "asking" /\ process'[i].asked = now
  BY <1>1 DEF Ask, Patched, TasksAsk
<1>5. i \notin DOMAIN tasks => process'[i].phase = "ended"
  BY DEF Ask
<1>6. TasksOK'
  BY <1>1, <1>2, <1>3, <1>4, KeepFacts DEF TasksOK
<1>7. TasksAsk'
  <2> SUFFICES ASSUME NEW j \in Tasks \ meddled
               PROVE  /\ process'[j].phase = "spawned" /\ j \in DOMAIN tasks' => tasks'[j].result = "none"
                      /\ process'[j].phase = "asking" =>
                           /\ process'[j].asked <= now
                           /\ InTime(process'[j].asked, "requested") =>
                                /\ j \in DOMAIN tasks'
                                /\ tasks'[j].stage = "requested" /\ tasks'[j].at = process'[j].asked
                                /\ tasks'[j].result = "none"
    BY <1>1, StandsStill DEF TasksAsk
  <2>1. CASE j = i
    BY <1>1, <1>2, <1>3, <1>4, <1>5, <2>1
  <2>2. CASE j # i
    BY <1>2, <1>3, <2>2 DEF TasksAsk
  <2> QED
    BY <2>1, <2>2
<1>8. TasksAnswer'
  BY <1>1, <1>2, <1>3, StandsStill DEF TasksAnswer
<1>9. Used' = Used
  BY <1>1, <1>2 DEF Used
<1> QED
  BY <1>2, <1>6, <1>7, <1>8, <1>9 DEF FirstTasks, NewTask, Used

(* A device answers, or cannot be reached. *)
LEMMA CompleteStep ==
  ASSUME TInv, NEW i \in Tasks, NEW o \in Outcomes, Complete(i, o)
  PROVE  TInv' /\ NewTask' = NewTask
<1> USE DEF TInv
<1> DEFINE inTime == InTime(process[i].asked, "requested")
<1>1. process[i].phase = "asking" /\ now' = now /\ now \in Nat /\ meddled' = meddled
  BY KeepFacts DEF Complete, TasksOK
<1>2. /\ process' \in [Tasks -> Process]
      /\ \A j \in Tasks : j # i => process'[j] = process[j]
      /\ inTime => /\ process'[i].phase = "answered"
                   /\ process'[i].at = now /\ process'[i].outcome = o
      /\ ~inTime => process'[i].phase = "ended"
  <2>1. CASE inTime
    <3>1. process' = [process EXCEPT ![i] = [phase |-> "answered", at |-> now, outcome |-> o]]
      BY <2>1 DEF Complete, InTime
    <3> QED
      BY <1>1, <2>1, <3>1 DEF Process
  <2>2. CASE ~inTime
    <3>1. process' = [process EXCEPT ![i] = [phase |-> "ended"]]
      BY <2>2 DEF Complete, InTime
    <3> QED
      BY <2>2, <3>1 DEF Process
  <2> QED
    BY <2>1, <2>2
<1>3. /\ DOMAIN tasks' = DOMAIN tasks
      /\ \A j \in DOMAIN tasks : j # i => tasks'[j] = tasks[j]
  BY DEF Complete, Patched
<1>4. i \in DOMAIN tasks =>
        /\ tasks'[i].stage = "completed" /\ tasks'[i].at = now
        /\ tasks'[i].result = IF o = "result" THEN "result" ELSE tasks[i].result
  BY DEF Complete, Patched
<1>5. inTime /\ i \notin meddled => i \in DOMAIN tasks /\ tasks[i].result = "none"
  BY <1>1 DEF TasksAsk
<1> HIDE DEF inTime
<1>6. o = "result" \/ o = "no json"
  BY DEF Outcomes
<1>7. process'[i].phase \in {"answered", "ended"}
  BY <1>2
<1>8. TasksOK'
  BY <1>1, <1>2, <1>3, <1>4, KeepFacts DEF TasksOK
<1>9. TasksAsk'
  BY <1>1, <1>2, <1>3, <1>7, StandsStill DEF TasksAsk
<1>10. TasksAnswer'
  <2> SUFFICES ASSUME NEW j \in Tasks \ meddled, process'[j].phase = "answered"
               PROVE  /\ process'[j].at <= now
                      /\ InTime(process'[j].at, "completed") =>
                           /\ j \in DOMAIN tasks'
                           /\ tasks'[j].stage = "completed" /\ tasks'[j].at = process'[j].at
                           /\ tasks'[j].result = ResultOf(process'[j].outcome)
    BY <1>1, StandsStill DEF TasksAnswer
  <2>1. CASE j = i
    <3>1. inTime
      BY <1>2, <2>1
    <3> QED
      <4>1. process'[i].at = now /\ process'[i].outcome = o /\ i \in DOMAIN tasks'
        BY <1>2, <1>3, <1>5, <2>1, <3>1
      <4>2. /\ tasks'[i].stage = "completed" /\ tasks'[i].at = now
            /\ tasks'[i].result = ResultOf(o)
        BY <1>4, <1>5, <1>6, <2>1, <3>1 DEF ResultOf
      <4> QED
        BY <1>1, <2>1, <4>1, <4>2
  <2>2. CASE j # i
    BY <1>2, <1>3, <2>2 DEF TasksAnswer
  <2> QED
    BY <2>1, <2>2
<1>11. Used' = Used
  BY <1>1, <1>2, <1>7 DEF Used
<1> QED
  BY <1>2, <1>8, <1>9, <1>10, <1>11 DEF FirstTasks, NewTask, Used

(* A client patches a task. *)
LEMMA PatchStep ==
  ASSUME TInv, NEW req, req.id \in DOMAIN tasks, req.at \in Nat, PatchTask(req)
  PROVE  TInv' /\ NewTask' = NewTask
<1> USE DEF TInv
<1>1. PICK i : i = req.id
  OBVIOUS
<1>2. /\ i \in DOMAIN tasks /\ i \in Tasks /\ process[i].phase # "none"
      /\ now' = now /\ process' = process /\ meddled' = meddled \cup {i}
  BY <1>1 DEF PatchTask, TasksOK
<1>3. /\ DOMAIN tasks' = DOMAIN tasks
      /\ \A j \in DOMAIN tasks : j # i => tasks'[j] = tasks[j]
      /\ tasks'[i].stage \in Stages /\ tasks'[i].at \in Nat
      /\ tasks'[i].result \in {"none", "result"}
  BY <1>1, <1>2 DEF PatchTask, TasksOK
<1>4. TasksOK'
  BY <1>2, <1>3 DEF TasksOK
<1>5. TasksAsk'
  BY <1>2, <1>3, StandsStill DEF TasksAsk
<1>6. TasksAnswer'
  BY <1>2, <1>3, StandsStill DEF TasksAnswer
<1> QED
  BY <1>2, <1>4, <1>5, <1>6 DEF FirstTasks, NewTask, Used

(* Time goes by. *)
LEMMA TickStep ==
  ASSUME TInv, Tick
  PROVE  TInv' /\ NewTask' = NewTask
<1> USE DEF TInv
<1>1. now \in Nat /\ now' = now + 1 /\ now < MaxNow /\ UNCHANGED <<tasks, process, meddled>>
  BY KeepFacts DEF Tick, TasksOK
<1>2. TasksOK'
  BY <1>1, KeepFacts DEF TasksOK
<1>3. \A i \in Tasks :
        /\ process[i].phase = "asking" => process[i].asked \in Nat
        /\ process[i].phase = "answered" => process[i].at \in Nat
  BY DEF Process
<1>4. \A a \in Nat : a <= now => a <= now'
  BY <1>1
<1>5. \A a \in Nat : InTime(a, "requested")' => InTime(a, "requested")
  BY <1>1, KeepFacts DEF InTime
<1>6. \A a \in Nat : InTime(a, "completed")' => InTime(a, "completed")
  BY <1>1, KeepFacts DEF InTime
<1>7. TasksAsk'
  <2>1. ASSUME NEW i \in Tasks \ meddled, process[i].phase = "asking"
        PROVE  /\ process[i].asked <= now'
               /\ InTime(process[i].asked, "requested")' =>
                    /\ i \in DOMAIN tasks
                    /\ tasks[i].stage = "requested" /\ tasks[i].at = process[i].asked
                    /\ tasks[i].result = "none"
    BY <1>1, <1>3, <1>4, <1>5, <2>1 DEF TasksAsk
  <2>2. \A i \in Tasks \ meddled : process[i].phase = "spawned" /\ i \in DOMAIN tasks => tasks[i].result = "none"
    BY DEF TasksAsk
  <2> QED
    BY <1>1, <2>1, <2>2 DEF TasksAsk
<1>8. TasksAnswer'
  <2> SUFFICES ASSUME NEW i \in Tasks \ meddled, process[i].phase = "answered"
               PROVE  /\ process[i].at <= now'
                      /\ InTime(process[i].at, "completed")' =>
                           /\ i \in DOMAIN tasks
                           /\ tasks[i].stage = "completed" /\ tasks[i].at = process[i].at
                           /\ tasks[i].result = ResultOf(process[i].outcome)
    BY <1>1 DEF TasksAnswer
  <2> QED
    BY <1>1, <1>3, <1>4, <1>6 DEF TasksAnswer
<1>9. Used' = Used
  BY <1>1 DEF Used
<1> QED
  BY <1>1, <1>2, <1>7, <1>8, <1>9 DEF FirstTasks, NewTask, Used

(***************************************************************************)
(* The invariant of the rest.                                              *)
(***************************************************************************)

Message ==
  [type : {"connect", "disconnect"}, conn : Conns] \cup
  [type : {"event"}, conn : Conns, nr : Nat, req : Requests]

Steps == {"new", "starting", "open", "closed"}

(* Events that the main thread waits to emit or handle are of those sent.  *)
Waiting(n) ==
  \/ \E i \in DOMAIN inbox : inbox[i].type = "event" /\ inbox[i].nr = n
  \/ main # <<>> /\ main[1].conn # Nobody /\ main[1].nr = n

MailOK ==
  /\ inbox \in Seq(Message)
  /\ dead => inbox = <<>>
  /\ sent \in Seq(Conns) /\ Len(sent) <= MaxRequests
  /\ main # <<>> =>
       /\ Len(main) = 1
       /\ main[1].conn # Nobody => main[1].conn \in Conns /\ main[1].nr \in Nat

(* A client that is greeted becomes a session, one that is gone is none    *)
(* from when its message is handled, and neither happens twice.            *)
SessionsOK ==
  /\ conn \in [Conns -> Steps] /\ sessions \subseteq Conns
  /\ \A c \in Conns : /\ conn[c] = "open" => c \in sessions
                      /\ conn[c] = "new" => c \notin sessions
  /\ \A i \in DOMAIN inbox :
       /\ inbox[i].type = "disconnect" => conn[inbox[i].conn] = "closed"
       /\ inbox[i].type = "connect" =>
            /\ conn[inbox[i].conn] # "new" /\ inbox[i].conn \notin sessions
            /\ \A j \in DOMAIN inbox :
                 inbox[j].type = "connect" /\ inbox[j].conn = inbox[i].conn => j = i

(* Events are handled in the order they were sent in, and each creates at  *)
(* most one task.                                                          *)
OrderOK ==
  /\ \A i \in DOMAIN inbox :
       inbox[i].type = "event" =>
         /\ inbox[i].nr \in DOMAIN sent /\ sent[inbox[i].nr] = inbox[i].conn
         /\ NewTask <= inbox[i].nr
         /\ \A j \in DOMAIN inbox : i < j /\ inbox[j].type = "event" => inbox[i].nr < inbox[j].nr
  /\ main # <<>> /\ main[1].conn # Nobody =>
       /\ main[1].nr \in DOMAIN sent /\ sent[main[1].nr] = main[1].conn
       /\ \A i \in DOMAIN inbox : inbox[i].type = "event" => main[1].nr < inbox[i].nr
  /\ NewTask <= Len(sent) + 1
  /\ \A n \in DOMAIN sent : conn[sent[n]] \in {"open", "closed"}

(* Every request of a client that is there waits or was answered, once.    *)
AnswersOK ==
  /\ answers \in [Conns -> Seq(Nat)]
  /\ \A c \in Conns : conn[c] # "closed" /\ ~dead =>
       /\ IsInjective(answers[c])
       /\ \A n \in Nat :
            /\ n \in Range(answers[c]) => n \in DOMAIN sent /\ sent[n] = c /\ ~Waiting(n)
            /\ n \in DOMAIN sent /\ sent[n] = c => n \in Range(answers[c]) \/ Waiting(n)

(* All events are of one set. *)
EventsTyped(S) ==
  /\ log \in Seq(S) /\ channel \in Seq(S) /\ hand \in Seq(S)
  /\ heard \in [Conns -> Seq(S)]
  /\ main # <<>> => main[1].event \in S

(* A client hears events while it is a session, from its beginning.        *)
HeardOK ==
  /\ \E S : EventsTyped(S)
  /\ Len(channel) <= 1 /\ Len(hand) <= 1
  /\ main # <<>> => log # <<>> /\ main[1].event = log[Len(log)]
  /\ joined \in [Conns -> Nat] /\ \A c \in Conns : joined[c] <= Len(log)
  /\ \E k \in 0 .. Len(log) : Coming = SubSeq(log, k + 1, Len(log))
  /\ \A c \in Conns :
       IF Alive(c) THEN \E k \in 0 .. joined[c] : heard[c] \o Coming = SubSeq(log, k + 1, Len(log))
                   ELSE heard[c] = <<>>

IsOf(e, ps) ==
  \/ e.of[1] = "people" /\ e.of[2] \in DOMAIN ps /\ e.of = <<"people", e.of[2]>>
  \/ e.of[1] = "actions" /\ e.of = <<"actions", e.of[2]>>

StateIn(of, ps, ts) == IF of[1] = "people" THEN ps[of[2]] ELSE Told(ts, of[2]).data

(* The last event of a record or task tells how it is. *)
LogTells ==
  \A i \in DOMAIN log :
    /\ IsOf(log[i], people)
    /\ \/ \E j \in DOMAIN log : j > i /\ log[j].of = log[i].of
       \/ log[i].of[1] = "actions" /\ log[i].of[2] \notin DOMAIN tasks
       \/ log[i].data = StateIn(log[i].of, people, tasks)

SInv == TInv /\ MailOK /\ SessionsOK /\ OrderOK /\ AnswersOK /\ HeardOK /\ LogTells

(***************************************************************************)
(* Facts about sequences.                                                  *)
(***************************************************************************)

(* What is behind the head of a sequence. *)
LEMMA TailOf ==
  ASSUME NEW S, NEW s \in Seq(S), s # <<>>
  PROVE  /\ Tail(s) \in Seq(S) /\ Head(s) \in S
         /\ Len(s) \in Nat /\ DOMAIN s = 1 .. Len(s) /\ 1 \in DOMAIN s /\ Head(s) = s[1]
         /\ \A i \in DOMAIN Tail(s) :
              i \in Nat /\ i >= 1 /\ i + 1 \in DOMAIN s /\ Tail(s)[i] = s[i + 1]
         /\ \A j \in DOMAIN s : j = 1 \/ (j - 1 \in DOMAIN Tail(s) /\ Tail(s)[j - 1] = s[j])
<1>1. Len(s) \in Nat /\ Len(s) >= 1 /\ DOMAIN s = 1 .. Len(s)
  OBVIOUS
<1>2. Tail(s) \in Seq(S) /\ Len(Tail(s)) = Len(s) - 1
  BY <1>1
<1>3. DOMAIN Tail(s) = 1 .. Len(s) - 1
  BY <1>2
<1>4. \A i \in 1 .. Len(s) - 1 : Tail(s)[i] = s[i + 1]
  BY <1>1
<1>5. \A j \in 1 .. Len(s) : j = 1 \/ j - 1 \in 1 .. Len(s) - 1
  BY <1>1
<1> QED
  BY <1>1, <1>2, <1>3, <1>4, <1>5

(* What an element more adds. *)
LEMMA AppendOf ==
  ASSUME NEW S, NEW s \in Seq(S), NEW e \in S
  PROVE  /\ Append(s, e) \in Seq(S) /\ Len(Append(s, e)) = Len(s) + 1
         /\ Len(s) \in Nat /\ DOMAIN s = 1 .. Len(s)
         /\ DOMAIN Append(s, e) = 1 .. Len(s) + 1
         /\ Append(s, e)[Len(s) + 1] = e
         /\ \A i \in DOMAIN s : i \in Nat /\ i < Len(s) + 1 /\ Append(s, e)[i] = s[i]
         /\ \A i \in DOMAIN Append(s, e) : i \in DOMAIN s \/ i = Len(s) + 1
  OBVIOUS

(* Elements of a sequence that is in two sets. *)
LEMMA RangeAppend ==
  ASSUME NEW S, NEW s \in Seq(S), NEW e \in S
  PROVE  /\ Range(Append(s, e)) = Range(s) \cup {e}
         /\ IsInjective(s) /\ e \notin Range(s) => IsInjective(Append(s, e))
<1>1. Range(Append(s, e)) = Range(s) \cup {e}
  BY AppendOf DEF Range
<1>2. IsInjective(s) /\ e \notin Range(s) => IsInjective(Append(s, e))
  <2> SUFFICES ASSUME IsInjective(s), e \notin Range(s),
                      NEW i \in DOMAIN Append(s, e), NEW j \in DOMAIN Append(s, e),
                      Append(s, e)[i] = Append(s, e)[j]
               PROVE  i = j
    BY DEF IsInjective
  <2>1. \A k \in DOMAIN s : s[k] # e
    BY DEF Range
  <2> QED
    BY <2>1, AppendOf DEF IsInjective
<1> QED
  BY <1>1, <1>2

(* An event more at the end of a rest of the log. *)
LEMMA RestGrows ==
  ASSUME NEW S, NEW t \in Seq(S), NEW e \in S, NEW k \in 0 .. Len(t)
  PROVE  /\ Append(SubSeq(t, k + 1, Len(t)), e) = SubSeq(Append(t, e), k + 1, Len(t) + 1)
         /\ SubSeq(t, k + 1, Len(t)) \in Seq(S)
<1> DEFINE s == SubSeq(t, k + 1, Len(t))
           u == SubSeq(Append(t, e), k + 1, Len(t) + 1)
<1>1. Len(t) \in Nat /\ k \in Nat /\ k <= Len(t)
  OBVIOUS
<1>2. PICK d \in Nat : d = Len(t) - k
  BY <1>1
<1>3. Append(t, e) \in Seq(S) /\ Len(Append(t, e)) = Len(t) + 1
  BY AppendOf
<1>4. s \in Seq(S) /\ Len(s) = d /\ \A i \in 1 .. d : s[i] = t[k + i]
  BY <1>1, <1>2, SubSeqProperties
<1>5. u \in Seq(S) /\ Len(u) = d + 1 /\ \A i \in 1 .. d + 1 : u[i] = Append(t, e)[k + i]
  BY <1>1, <1>2, <1>3, SubSeqProperties
<1> HIDE DEF s, u
<1>6. Append(s, e) \in Seq(S) /\ Len(Append(s, e)) = d + 1 /\ Append(s, e)[d + 1] = e
      /\ \A i \in 1 .. d : Append(s, e)[i] = s[i]
  BY <1>4, AppendOf
<1>7. u[d + 1] = e /\ \A i \in 1 .. d : u[i] = t[k + i]
  <2>1. k + (d + 1) = Len(t) + 1 /\ \A i \in 1 .. d : k + i \in 1 .. Len(t) /\ i \in 1 .. d + 1
    BY <1>1, <1>2
  <2>2. d + 1 \in 1 .. d + 1
    BY <1>2
  <2> QED
    BY <1>5, <2>1, <2>2, AppendOf
<1>8. \A i \in 1 .. d + 1 : i = d + 1 \/ i \in 1 .. d
  BY <1>2
<1>9. \A i \in 1 .. d + 1 : Append(s, e)[i] = u[i]
  BY <1>4, <1>6, <1>7, <1>8
<1>10. Append(s, e) = u
  BY <1>5, <1>6, <1>9, SeqEqual
<1> QED
  BY <1>4, <1>10 DEF s, u

(***************************************************************************)
(* The mailbox.                                                            *)
(***************************************************************************)

(* Kinds of messages. *)
LEMMA MessageFacts ==
  ASSUME NEW m \in Message
  PROVE  /\ m.conn \in Conns /\ m.type \in {"connect", "disconnect", "event"}
         /\ m.type = "event" => m.nr \in Nat
  BY DEF Message

(* A message is taken. *)
LEMMA Taken ==
  ASSUME MailOK, inbox # <<>>, inbox' = Tail(inbox)
  PROVE  /\ inbox' \in Seq(Message) /\ Head(inbox) \in Message /\ 1 \in DOMAIN inbox
         /\ Head(inbox) = inbox[1] /\ ~dead
         /\ \A i \in DOMAIN inbox' :
              i \in Nat /\ i >= 1 /\ i + 1 \in DOMAIN inbox /\ inbox'[i] = inbox[i + 1]
         /\ \A j \in DOMAIN inbox : j = 1 \/ (j - 1 \in DOMAIN inbox' /\ inbox'[j - 1] = inbox[j])
  BY TailOf DEF MailOK

(* A message is sent, if there is somebody to get it. *)
LEMMA Posted ==
  ASSUME MailOK, NEW m \in Message, Post(m)
  PROVE  /\ inbox' \in Seq(Message) /\ (dead => inbox' = <<>>)
         /\ \A i \in DOMAIN inbox' :
              \/ i \in DOMAIN inbox /\ inbox'[i] = inbox[i]
              \/ i = Len(inbox) + 1 /\ inbox'[i] = m
         /\ \A i \in DOMAIN inbox :
              i \in Nat /\ i < Len(inbox) + 1 /\ i \in DOMAIN inbox' /\ inbox'[i] = inbox[i]
         /\ ~dead => Len(inbox) + 1 \in DOMAIN inbox' /\ inbox'[Len(inbox) + 1] = m
<1>1. inbox \in Seq(Message) /\ (dead => inbox = <<>>)
  BY DEF MailOK
<1>2. CASE dead
  BY <1>1, <1>2 DEF Post
<1>3. CASE ~dead
  <2>1. inbox' = Append(inbox, m)
    BY <1>3 DEF Post
  <2>2. Len(inbox) + 1 \in 1 .. Len(inbox) + 1
    BY <1>1
  <2> QED
    BY <1>1, <1>3, <2>1, <2>2, AppendOf
<1> QED
  BY <1>2, <1>3

(***************************************************************************)
(* Sessions.                                                               *)
(***************************************************************************)

(* A connection is new or gone. *)
LEMMA ConnFacts ==
  /\ Conns \subseteq Nat /\ Nobody \notin Conns /\ Nobody = 0
  /\ MaxRequests \in Nat /\ MaxRequests <= MaxTasks /\ MaxTasks \in Nat
<1>1. MaxConns \in Nat /\ MaxRequests \in 0 .. MaxTasks
  BY ServerAssumption, Zenon
<1> QED
  BY <1>1, TasksAssumption DEF Conns, Nobody

(* A websocket starts: its message is the only one of its kind. *)
LEMMA StartSessions ==
  ASSUME MailOK, SessionsOK, NEW c \in Conns, Start(c)
  PROVE  SessionsOK' /\ \A d \in Conns : Alive(d)' <=> Alive(d)
<1> DEFINE m == [type |-> "connect", conn |-> c]
<1>1. /\ conn[c] = "new" /\ c \notin sessions /\ sessions' = sessions
      /\ conn' = [conn EXCEPT ![c] = IF dead THEN "closed" ELSE "starting"]
      /\ Post(m) /\ m \in Message /\ m.type = "connect" /\ m.conn = c
  BY DEF Start, SessionsOK, Message
<1> HIDE DEF m
<1>2. /\ conn' \in [Conns -> Steps] /\ conn'[c] \in {"closed", "starting"}
      /\ \A d \in Conns : d # c => conn'[d] = conn[d]
  BY <1>1 DEF SessionsOK, Steps
<1>3. \A i \in DOMAIN inbox : inbox[i].type \in {"connect", "disconnect"} => inbox[i].conn # c
  BY <1>1 DEF SessionsOK
<1>4. \A i \in DOMAIN inbox : inbox[i].conn \in Conns
  BY MessageFacts DEF MailOK
<1>5. \A i \in DOMAIN inbox' :
        /\ inbox'[i].type = "disconnect" => conn'[inbox'[i].conn] = "closed"
        /\ inbox'[i].type = "connect" =>
             /\ conn'[inbox'[i].conn] # "new" /\ inbox'[i].conn \notin sessions'
             /\ \A j \in DOMAIN inbox' :
                  inbox'[j].type = "connect" /\ inbox'[j].conn = inbox'[i].conn => j = i
  <2> SUFFICES ASSUME NEW i \in DOMAIN inbox'
               PROVE  /\ inbox'[i].type = "disconnect" => conn'[inbox'[i].conn] = "closed"
                      /\ inbox'[i].type = "connect" =>
                           /\ conn'[inbox'[i].conn] # "new" /\ inbox'[i].conn \notin sessions'
                           /\ \A j \in DOMAIN inbox' :
                                inbox'[j].type = "connect" /\ inbox'[j].conn = inbox'[i].conn => j = i
    OBVIOUS
  <2>1. CASE i \in DOMAIN inbox /\ inbox'[i] = inbox[i]
    BY <1>1, <1>2, <1>3, <1>4, <2>1, Posted DEF SessionsOK
  <2>2. CASE i = Len(inbox) + 1 /\ inbox'[i] = m
    BY <1>1, <1>2, <1>3, <2>2, Posted DEF SessionsOK
  <2> QED
    BY <1>1, <2>1, <2>2, Posted
<1>6. \A d \in Conns : Alive(d)' <=> Alive(d)
  BY <1>1, <1>2 DEF Alive
<1> QED
  BY <1>1, <1>2, <1>5, <1>6 DEF SessionsOK

(* An event is sent, or a client leaves and says so. *)
LEMMA PostSessions ==
  ASSUME MailOK, SessionsOK, NEW m \in Message, m.type # "connect", Post(m) \/ inbox' = inbox,
         m.type = "disconnect" /\ Post(m) => conn'[m.conn] = "closed",
         conn' \in [Conns -> Steps], sessions' = sessions,
         \A d \in Conns : conn'[d] = conn[d] \/ (conn[d] \in {"starting", "open"} /\ conn'[d] = "closed")
  PROVE  SessionsOK'
<1>1. \A i \in DOMAIN inbox : inbox[i].conn \in Conns
  BY MessageFacts DEF MailOK
<1>2. \A i \in DOMAIN inbox' :
        \/ i \in DOMAIN inbox /\ inbox'[i] = inbox[i]
        \/ inbox'[i] = m /\ Post(m)
  BY Posted
<1>3. \A i \in DOMAIN inbox' :
        inbox'[i].type = "disconnect" => conn'[inbox'[i].conn] = "closed"
  BY <1>1, <1>2 DEF SessionsOK
<1>4. \A i \in DOMAIN inbox' :
        inbox'[i].type = "connect" =>
          /\ conn'[inbox'[i].conn] # "new" /\ inbox'[i].conn \notin sessions
          /\ \A j \in DOMAIN inbox' :
               inbox'[j].type = "connect" /\ inbox'[j].conn = inbox'[i].conn => j = i
  BY <1>1, <1>2 DEF SessionsOK
<1>5. \A c \in Conns : /\ conn'[c] = "open" => c \in sessions
                      /\ conn'[c] = "new" => c \notin sessions
  BY DEF SessionsOK
<1> QED
  BY <1>3, <1>4, <1>5 DEF SessionsOK

(* A message is taken that changes no session. *)
LEMMA TakeSessions ==
  ASSUME MailOK, SessionsOK, inbox # <<>>, inbox' = Tail(inbox) \/ inbox' = <<>>,
         UNCHANGED <<conn, sessions>>
  PROVE  SessionsOK'
<1>1. CASE inbox' = <<>>
  BY <1>1 DEF SessionsOK
<1>2. CASE inbox' = Tail(inbox)
  <2>1. \A i \in DOMAIN inbox' : i \in Nat /\ i + 1 \in DOMAIN inbox /\ inbox'[i] = inbox[i + 1]
    BY <1>2, Taken
  <2>2. \A i, j \in DOMAIN inbox' : i + 1 = j + 1 => i = j
    BY <2>1
  <2> QED
    BY <2>1, <2>2 DEF SessionsOK
<1> QED
  BY <1>1, <1>2

(* A client is greeted. *)
LEMMA ConnectSessions ==
  ASSUME MailOK, SessionsOK, inbox # <<>>, inbox' = Tail(inbox), Connect(Head(inbox))
  PROVE  LET c == Head(inbox).conn IN
         /\ SessionsOK' /\ c \in Conns /\ c \notin sessions /\ sessions' = sessions \cup {c}
         /\ \A d \in Conns : d # c => (Alive(d)' <=> Alive(d))
         /\ conn[c] # "new" /\ ~Alive(c)
         /\ conn'[c] = (IF conn[c] = "starting" THEN "open" ELSE conn[c])
         /\ \A d \in Conns : d # c => conn'[d] = conn[d]
<1>1. PICK c : c = Head(inbox).conn
  OBVIOUS
<1>2. /\ 1 \in DOMAIN inbox /\ Head(inbox) = inbox[1] /\ inbox[1] \in Message
      /\ \A i \in DOMAIN inbox' : i \in Nat /\ i >= 1 /\ i + 1 \in DOMAIN inbox /\ inbox'[i] = inbox[i + 1]
  BY Taken
<1>3. /\ inbox[1].type = "connect" /\ c = inbox[1].conn /\ c \in Conns
      /\ sessions' = sessions \cup {c}
      /\ conn' = [conn EXCEPT ![c] = IF @ = "starting" THEN "open" ELSE @]
  BY <1>1, <1>2, MessageFacts DEF Connect
<1>4. conn[c] # "new" /\ c \notin sessions
  BY <1>2, <1>3 DEF SessionsOK
<1>5. \A i \in DOMAIN inbox' : i + 1 # 1 /\ \A j \in DOMAIN inbox' : i + 1 = j + 1 => i = j
  BY <1>2
<1>6. \A i \in DOMAIN inbox' : inbox'[i].type = "connect" => inbox'[i].conn # c
  BY <1>2, <1>3, <1>5 DEF SessionsOK
<1>7. \A i \in DOMAIN inbox' : inbox'[i].conn \in Conns
  BY <1>2, MessageFacts DEF MailOK
<1>8. /\ conn' \in [Conns -> Steps] /\ conn'[c] = (IF conn[c] = "starting" THEN "open" ELSE conn[c])
      /\ \A d \in Conns : d # c => conn'[d] = conn[d]
  BY <1>3 DEF SessionsOK, Steps
<1>9. SessionsOK'
  <2>1. \A d \in Conns : /\ conn'[d] = "open" => d \in sessions'
                        /\ conn'[d] = "new" => d \notin sessions'
    BY <1>3, <1>4, <1>8 DEF SessionsOK
  <2>2. \A i \in DOMAIN inbox' :
          inbox'[i].type = "disconnect" => conn'[inbox'[i].conn] = "closed"
    BY <1>2, <1>7, <1>8 DEF SessionsOK
  <2>3. \A i \in DOMAIN inbox' :
          inbox'[i].type = "connect" =>
            /\ conn'[inbox'[i].conn] # "new" /\ inbox'[i].conn \notin sessions'
            /\ \A j \in DOMAIN inbox' :
                 inbox'[j].type = "connect" /\ inbox'[j].conn = inbox'[i].conn => j = i
    BY <1>2, <1>3, <1>5, <1>6, <1>7, <1>8 DEF SessionsOK
  <2> QED
    BY <1>3, <1>8, <2>1, <2>2, <2>3 DEF SessionsOK
<1>10. \A d \in Conns : d # c => (Alive(d)' <=> Alive(d))
  BY <1>3, <1>8 DEF Alive
<1> QED
  BY <1>1, <1>3, <1>4, <1>8, <1>9, <1>10 DEF Alive

(* A client that is gone is a session no more. *)
LEMMA DisconnectSessions ==
  ASSUME MailOK, SessionsOK, inbox # <<>>, inbox' = Tail(inbox), Disconnect(Head(inbox))
  PROVE  /\ SessionsOK' /\ conn' = conn
         /\ \A d \in Conns : Alive(d)' <=> Alive(d)
<1>1. PICK c : c = Head(inbox).conn
  OBVIOUS
<1>2. /\ 1 \in DOMAIN inbox /\ Head(inbox) = inbox[1] /\ inbox[1] \in Message
      /\ \A i \in DOMAIN inbox' : i \in Nat /\ i >= 1 /\ i + 1 \in DOMAIN inbox /\ inbox'[i] = inbox[i + 1]
  BY Taken
<1>3. /\ inbox[1].type = "disconnect" /\ c = inbox[1].conn /\ c \in Conns
      /\ sessions' = sessions \ {c} /\ conn' = conn
  BY <1>1, <1>2, MessageFacts DEF Disconnect
<1>4. conn[c] = "closed"
  BY <1>2, <1>3 DEF SessionsOK
<1>5. \A i, j \in DOMAIN inbox' : i + 1 = j + 1 => i = j
  BY <1>2
<1>6. SessionsOK'
  BY <1>2, <1>3, <1>4, <1>5 DEF SessionsOK
<1>7. \A d \in Conns : Alive(d)' <=> Alive(d)
  BY <1>3, <1>4 DEF Alive
<1> QED
  BY <1>3, <1>6, <1>7

(***************************************************************************)
(* The order of requests.                                                  *)
(***************************************************************************)

(* A message that is no event is sent. *)
LEMMA PostOrder ==
  ASSUME MailOK, OrderOK, NEW m \in Message, m.type # "event", Post(m) \/ inbox' = inbox,
         UNCHANGED <<sent, main>>, NewTask' = NewTask,
         \A d \in Conns : conn[d] \in {"open", "closed"} => conn'[d] \in {"open", "closed"}
  PROVE  OrderOK' /\ \A n : Waiting(n)' <=> Waiting(n)
<1>1. \A i \in DOMAIN inbox' :
        \/ i \in DOMAIN inbox /\ inbox'[i] = inbox[i]
        \/ inbox'[i] = m
  BY Posted
<1>2. \A i \in DOMAIN inbox : i \in DOMAIN inbox' /\ inbox'[i] = inbox[i]
  BY Posted
<1>3. \A n \in DOMAIN sent : sent[n] \in Conns
  BY DEF MailOK
<1>4. OrderOK'
  BY <1>1, <1>3 DEF OrderOK
<1>5. \A n : Waiting(n)' <=> Waiting(n)
  BY <1>1, <1>2 DEF Waiting
<1> QED
  BY <1>4, <1>5

(* An event is sent: its number is the next. *)
LEMMA SendOrder ==
  ASSUME MailOK, SessionsOK, OrderOK, FirstTasks, NEW c \in Conns, conn[c] = "open",
         NEW req \in Requests, sent' = Append(sent, c),
         \/ inbox' = inbox
         \/ Post([type |-> "event", conn |-> c, nr |-> Len(sent'), req |-> req]),
         UNCHANGED <<main, conn>>, NewTask' = NewTask
  PROVE  /\ OrderOK'
         /\ inbox' = inbox => \A n : Waiting(n)' <=> Waiting(n)
         /\ inbox' # inbox => \A n : Waiting(n)' <=> (Waiting(n) \/ n = Len(sent) + 1)
         /\ ~Waiting(Len(sent) + 1)
<1> DEFINE m == [type |-> "event", conn |-> c, nr |-> Len(sent'), req |-> req]
<1>1. /\ sent \in Seq(Conns) /\ Len(sent) \in Nat /\ Len(sent') = Len(sent) + 1
      /\ sent'[Len(sent) + 1] = c /\ DOMAIN sent = 1 .. Len(sent) /\ DOMAIN sent' = 1 .. Len(sent) + 1
      /\ \A n \in DOMAIN sent : n \in DOMAIN sent' /\ sent'[n] = sent[n]
      /\ Len(sent) + 1 \in DOMAIN sent' /\ \A n \in DOMAIN sent' : n \in DOMAIN sent \/ n = Len(sent) + 1
  BY AppendOf DEF MailOK
<1>2. m \in Message /\ m.type = "event" /\ m.nr = Len(sent) + 1 /\ m.conn = c
  BY <1>1 DEF Message
<1>3. inbox' = inbox \/ Post(m)
  OBVIOUS
<1> HIDE DEF m
<1>4. \A i \in DOMAIN inbox' :
        \/ i \in DOMAIN inbox /\ inbox'[i] = inbox[i]
        \/ Post(m) /\ i = Len(inbox) + 1 /\ inbox'[i] = m
  BY <1>2, <1>3, Posted
<1>5. \A i \in DOMAIN inbox : i \in DOMAIN inbox' /\ inbox'[i] = inbox[i]
  BY <1>2, <1>3, Posted
<1>6. \A i \in DOMAIN inbox : i \in Nat /\ i < Len(inbox) + 1
  BY DEF MailOK
<1>7. NewTask \in Nat /\ NewTask <= Len(sent) + 1
  <2>1. PICK n \in 0 .. MaxTasks : Used = 1 .. n
    BY DEF FirstTasks
  <2> QED
    BY <2>1, NextTask, ConnFacts DEF OrderOK
<1>8. \A i \in DOMAIN inbox :
        inbox[i].type = "event" => inbox[i].nr \in Nat /\ inbox[i].nr < Len(sent) + 1
  BY <1>1 DEF OrderOK
<1>9. \A i \in DOMAIN inbox' :
        inbox'[i].type = "event" =>
          /\ inbox'[i].nr \in DOMAIN sent' /\ sent'[inbox'[i].nr] = inbox'[i].conn
          /\ NewTask <= inbox'[i].nr
          /\ \A j \in DOMAIN inbox' : i < j /\ inbox'[j].type = "event" => inbox'[i].nr < inbox'[j].nr
  <2> SUFFICES ASSUME NEW i \in DOMAIN inbox', inbox'[i].type = "event"
               PROVE  /\ inbox'[i].nr \in DOMAIN sent' /\ sent'[inbox'[i].nr] = inbox'[i].conn
                      /\ NewTask <= inbox'[i].nr
                      /\ \A j \in DOMAIN inbox' :
                           i < j /\ inbox'[j].type = "event" => inbox'[i].nr < inbox'[j].nr
    OBVIOUS
  <2>1. CASE i \in DOMAIN inbox /\ inbox'[i] = inbox[i]
    BY <1>1, <1>2, <1>4, <1>8, <2>1 DEF OrderOK
  <2>2. CASE i = Len(inbox) + 1 /\ inbox'[i] = m
    <3>1. \A j \in DOMAIN inbox' : ~(i < j)
      BY <1>4, <1>6, <2>2 DEF MailOK
    <3> QED
      BY <1>1, <1>2, <1>7, <2>2, <3>1
  <2> QED
    BY <1>4, <2>1, <2>2
<1>10. main # <<>> /\ main[1].conn # Nobody =>
         /\ main[1].nr \in DOMAIN sent' /\ sent'[main[1].nr] = main[1].conn
         /\ main[1].nr < Len(sent) + 1
         /\ \A i \in DOMAIN inbox' : inbox'[i].type = "event" => main[1].nr < inbox'[i].nr
  BY <1>1, <1>2, <1>4 DEF OrderOK
<1>11. \A n \in DOMAIN sent' : conn'[sent'[n]] \in {"open", "closed"}
  BY <1>1 DEF OrderOK
<1>12. NewTask <= Len(sent') + 1
  BY <1>1, <1>7
<1>13. OrderOK'
  BY <1>9, <1>10, <1>11, <1>12 DEF OrderOK
<1>14. ~Waiting(Len(sent) + 1)
  BY <1>1, <1>8, <1>10 DEF Waiting
<1>15. inbox' = inbox => \A n : Waiting(n)' <=> Waiting(n)
  BY DEF Waiting
<1>16. ASSUME inbox' # inbox PROVE \A n : Waiting(n)' <=> (Waiting(n) \/ n = Len(sent) + 1)
  <2>1. Post(m) /\ ~dead
    BY <1>3, <1>16 DEF Post
  <2>2. Len(inbox) + 1 \in DOMAIN inbox' /\ inbox'[Len(inbox) + 1] = m
    BY <1>2, <2>1, Posted
  <2> QED
    BY <1>2, <1>4, <1>5, <2>2 DEF Waiting
<1> QED
  BY <1>13, <1>14, <1>15, <1>16

(* A message is taken; the main thread may wait then to emit its event,    *)
(* and a task may have been created.                                       *)
LEMMA TakeOrder ==
  ASSUME MailOK, OrderOK, FirstTasks, inbox # <<>>, main = <<>>, inbox' = Tail(inbox),
         sent' = sent,
         \A d \in Conns : conn[d] \in {"open", "closed"} => conn'[d] \in {"open", "closed"},
         \/ main' = <<>>
         \/ /\ Head(inbox).type = "event"
            /\ main'[1].conn = Head(inbox).conn /\ main'[1].nr = Head(inbox).nr,
         \/ NewTask' = NewTask
         \/ Head(inbox).type = "event" /\ NewTask' = NewTask + 1
  PROVE  /\ OrderOK'
         /\ Head(inbox).type # "event" /\ main' = <<>> => \A n : Waiting(n)' <=> Waiting(n)
         /\ Head(inbox).type = "event" /\ main' # <<>> => \A n : Waiting(n)' <=> Waiting(n)
         /\ Head(inbox).type = "event" /\ main' = <<>> =>
              \A n : Waiting(n)' <=> (Waiting(n) /\ n # Head(inbox).nr)
<1>1. PICK m \in Message : m = Head(inbox)
  BY Taken
<1>2. /\ 1 \in DOMAIN inbox /\ m = inbox[1]
      /\ \A i \in DOMAIN inbox' : i \in Nat /\ i >= 1 /\ i + 1 \in DOMAIN inbox /\ inbox'[i] = inbox[i + 1]
      /\ \A j \in DOMAIN inbox : j = 1 \/ (j - 1 \in DOMAIN inbox' /\ inbox'[j - 1] = inbox[j])
  BY <1>1, Taken
<1>3. m.type = "event" =>
        /\ m.nr \in DOMAIN sent /\ m.nr \in Nat /\ sent[m.nr] = m.conn /\ NewTask <= m.nr
        /\ m.conn # Nobody
        /\ \A i \in DOMAIN inbox' : inbox'[i].type = "event" => m.nr < inbox'[i].nr
  BY <1>2, MessageFacts, ConnFacts DEF OrderOK
<1>4. NewTask \in Nat
  <2>1. PICK n \in 0 .. MaxTasks : Used = 1 .. n
    BY DEF FirstTasks
  <2> QED
    BY <2>1, NextTask, ConnFacts DEF OrderOK
<1>5. Len(sent) \in Nat /\ DOMAIN sent = 1 .. Len(sent) /\ \A n \in DOMAIN sent : sent[n] \in Conns
  BY DEF MailOK
<1>6. NewTask' <= Len(sent) + 1
  BY <1>1, <1>3, <1>4, <1>5 DEF OrderOK
<1>7. \A i \in DOMAIN inbox' :
        inbox'[i].type = "event" => inbox'[i].nr \in Nat /\ NewTask' <= inbox'[i].nr
  <2> SUFFICES ASSUME NEW i \in DOMAIN inbox', inbox'[i].type = "event"
               PROVE  inbox'[i].nr \in Nat /\ NewTask' <= inbox'[i].nr
    OBVIOUS
  <2>1. inbox'[i].nr \in Nat /\ NewTask <= inbox'[i].nr
    BY <1>2, <1>5 DEF OrderOK
  <2>2. CASE NewTask' = NewTask
    BY <2>1, <2>2
  <2>3. CASE m.type = "event" /\ NewTask' = NewTask + 1
    BY <1>3, <1>4, <2>1, <2>3
  <2> QED
    BY <1>1, <2>1, <2>2, <2>3
<1>8. \A i \in DOMAIN inbox' :
        inbox'[i].type = "event" =>
          /\ inbox'[i].nr \in DOMAIN sent /\ sent[inbox'[i].nr] = inbox'[i].conn
          /\ \A j \in DOMAIN inbox' : i < j /\ inbox'[j].type = "event" => inbox'[i].nr < inbox'[j].nr
  <2>1. \A i, j \in DOMAIN inbox' : i < j => i + 1 < j + 1
    BY <1>2
  <2> QED
    BY <1>2, <2>1 DEF OrderOK
<1>9. \A n \in DOMAIN sent : conn'[sent[n]] \in {"open", "closed"}
  BY <1>5 DEF OrderOK
<1>10. main' # <<>> => m.type = "event" /\ main'[1].conn = m.conn /\ main'[1].nr = m.nr
  BY <1>1
<1>11. OrderOK'
  BY <1>3, <1>6, <1>7, <1>8, <1>9, <1>10 DEF OrderOK
<1>12. \A n : Waiting(n) <=> \E i \in DOMAIN inbox : inbox[i].type = "event" /\ inbox[i].nr = n
  BY DEF Waiting
<1> DEFINE InRest(n) == \E i \in DOMAIN inbox' : inbox'[i].type = "event" /\ inbox'[i].nr = n
<1>13. \A n : Waiting(n) <=> (m.type = "event" /\ m.nr = n) \/ InRest(n)
  <2>1. ASSUME NEW n, NEW i \in DOMAIN inbox, inbox[i].type = "event", inbox[i].nr = n
        PROVE  (m.type = "event" /\ m.nr = n) \/ InRest(n)
    <3>1. CASE i = 1
      BY <1>2, <2>1, <3>1
    <3>2. CASE i - 1 \in DOMAIN inbox' /\ inbox'[i - 1] = inbox[i]
      BY <2>1, <3>2
    <3> QED
      BY <1>2, <3>1, <3>2
  <2>2. ASSUME NEW n, NEW i \in DOMAIN inbox', inbox'[i].type = "event", inbox'[i].nr = n
        PROVE  \E j \in DOMAIN inbox : inbox[j].type = "event" /\ inbox[j].nr = n
    BY <1>2, <2>2
  <2>3. ASSUME NEW n, m.type = "event", m.nr = n
        PROVE  \E j \in DOMAIN inbox : inbox[j].type = "event" /\ inbox[j].nr = n
    BY <1>2, <2>3
  <2> QED
    BY <1>12, <2>1, <2>2, <2>3
<1>14. m.type = "event" => ~InRest(m.nr)
  BY <1>3, <1>7
<1>15. \A n : Waiting(n)' <=>
         InRest(n) \/ (main' # <<>> /\ main'[1].conn # Nobody /\ main'[1].nr = n)
  BY DEF Waiting
<1> HIDE DEF InRest
<1>16. CASE m.type # "event" /\ main' = <<>>
  <2>1. \A n : Waiting(n)' <=> Waiting(n)
    BY ONLY <1>13, <1>15, <1>16
  <2> QED
    BY <1>1, <1>11, <1>16, <2>1
<1>17. CASE m.type = "event" /\ main' # <<>>
  <2>1. \A n : Waiting(n)' <=> Waiting(n)
    BY ONLY <1>3, <1>10, <1>13, <1>15, <1>17
  <2> QED
    BY <1>1, <1>11, <1>17, <2>1
<1>18. CASE m.type = "event" /\ main' = <<>>
  <2>1. \A n : Waiting(n)' <=> (Waiting(n) /\ n # m.nr)
    BY ONLY <1>13, <1>14, <1>15, <1>18
  <2> QED
    BY <1>1, <1>11, <1>18, <2>1
<1> QED
  BY <1>10, <1>16, <1>17, <1>18

(* The main thread is done with an event, or a process emits one. *)
LEMMA MainOrder ==
  ASSUME MailOK, OrderOK, UNCHANGED <<inbox, sent, conn>>, NewTask' = NewTask,
         \/ main # <<>> /\ main' = <<>>
         \/ main = <<>> /\ main'[1].conn = Nobody
         \/ main' = main
  PROVE  /\ OrderOK'
         /\ main' # <<>> => \A n : Waiting(n)' <=> Waiting(n)
         /\ main # <<>> /\ main[1].conn = Nobody => \A n : Waiting(n)' <=> Waiting(n)
         /\ main # <<>> /\ main' = <<>> /\ main[1].conn # Nobody =>
              \A n : Waiting(n)' <=> (Waiting(n) /\ n # main[1].nr)
<1>1. OrderOK'
  BY DEF OrderOK
<1>2. main # <<>> /\ main[1].conn # Nobody =>
        /\ main[1].nr \in Nat
        /\ \A i \in DOMAIN inbox : inbox[i].type = "event" => inbox[i].nr # main[1].nr
  <2>1. \A i \in DOMAIN inbox : inbox[i].type = "event" => inbox[i].nr \in Nat
    BY MessageFacts DEF MailOK
  <2> QED
    BY <2>1 DEF OrderOK, MailOK
<1>3. \A n : Waiting(n)' <=>
        \/ \E i \in DOMAIN inbox : inbox[i].type = "event" /\ inbox[i].nr = n
        \/ main' # <<>> /\ main'[1].conn # Nobody /\ main'[1].nr = n
  BY DEF Waiting
<1> QED
  BY <1>1, <1>2, <1>3 DEF Waiting

(***************************************************************************)
(* The answers.                                                            *)
(***************************************************************************)

(* Nobody is answered, though some may have left. *)
LEMMA NoAnswer ==
  ASSUME AnswersOK, sent' = sent, answers' \in [Conns -> Seq(Nat)],
         dead' = dead, \A n : Waiting(n)' <=> Waiting(n),
         \A c \in Conns : conn'[c] # "closed" => conn[c] # "closed" /\ answers'[c] = answers[c]
  PROVE  AnswersOK'
<1> SUFFICES ASSUME NEW c \in Conns, conn'[c] # "closed", ~dead'
             PROVE  /\ IsInjective(answers'[c])
                    /\ \A n \in Nat :
                         /\ n \in Range(answers'[c]) => n \in DOMAIN sent' /\ sent'[n] = c /\ ~Waiting(n)'
                         /\ n \in DOMAIN sent' /\ sent'[n] = c => n \in Range(answers'[c]) \/ Waiting(n)'
  BY DEF AnswersOK
<1>1. conn[c] # "closed" /\ ~dead /\ answers'[c] = answers[c]
  OBVIOUS
<1> QED
  BY <1>1 DEF AnswersOK

(* A request is answered, if there is still somebody. *)
LEMMA Answer ==
  ASSUME MailOK, SessionsOK, OrderOK, AnswersOK, UNCHANGED <<sent, conn, dead>>,
         NEW c \in Conns, NEW nr \in Nat, nr \in DOMAIN sent, sent[nr] = c, Acked(c, nr), Waiting(nr),
         \A n : Waiting(n)' <=> (Waiting(n) /\ n # nr)
  PROVE  AnswersOK'
<1>1. conn[c] \in {"open", "closed"}
  BY DEF OrderOK
<1>2. conn[c] # "closed" => Alive(c)
  BY <1>1 DEF SessionsOK, Alive
<1>3. /\ answers' \in [Conns -> Seq(Nat)]
      /\ \A d \in Conns : d # c => answers'[d] = answers[d]
      /\ conn[c] # "closed" => answers'[c] = Append(answers[c], nr)
  <2>1. answers[c] \in Seq(Nat)
    BY DEF AnswersOK
  <2>2. Append(answers[c], nr) \in Seq(Nat)
    BY <2>1, AppendOf
  <2> QED
    BY <1>2, <2>2 DEF Acked, AnswersOK
<1> SUFFICES ASSUME NEW d \in Conns, conn[d] # "closed", ~dead
             PROVE  /\ IsInjective(answers'[d])
                    /\ \A n \in Nat :
                         /\ n \in Range(answers'[d]) => n \in DOMAIN sent /\ sent[n] = d /\ ~Waiting(n)'
                         /\ n \in DOMAIN sent /\ sent[n] = d => n \in Range(answers'[d]) \/ Waiting(n)'
  BY <1>3 DEF AnswersOK
<1>4. /\ IsInjective(answers[d])
      /\ \A n \in Nat :
           /\ n \in Range(answers[d]) => n \in DOMAIN sent /\ sent[n] = d /\ ~Waiting(n)
           /\ n \in DOMAIN sent /\ sent[n] = d => n \in Range(answers[d]) \/ Waiting(n)
  BY DEF AnswersOK
<1>5. CASE d = c
  <2>1. answers'[d] = Append(answers[d], nr) /\ answers[d] \in Seq(Nat)
    BY <1>3, <1>5 DEF AnswersOK
  <2>2. nr \notin Range(answers[d])
    BY <1>4
  <2>3. Range(answers'[d]) = Range(answers[d]) \cup {nr} /\ IsInjective(answers'[d])
    BY <1>4, <2>1, <2>2, RangeAppend
  <2> QED
    BY <1>4, <1>5, <2>3
<1>6. CASE d # c
  BY <1>3, <1>4, <1>6
<1> QED
  BY <1>5, <1>6

(* A request is sent: it is answered at once, or waits. *)
LEMMA SendAnswers ==
  ASSUME MailOK, AnswersOK, NEW c \in Conns, sent' = Append(sent, c), UNCHANGED <<conn, dead>>,
         ~Waiting(Len(sent) + 1),
         \/ /\ answers' = [answers EXCEPT ![c] = Append(@, Len(sent'))]
            /\ \A n : Waiting(n)' <=> Waiting(n)
         \/ /\ answers' = answers
            /\ ~dead => \A n : Waiting(n)' <=> (Waiting(n) \/ n = Len(sent) + 1)
  PROVE  AnswersOK'
<1>1. /\ Len(sent) \in Nat /\ Len(sent') = Len(sent) + 1 /\ Len(sent) + 1 \in Nat
      /\ DOMAIN sent = 1 .. Len(sent) /\ DOMAIN sent' = 1 .. Len(sent) + 1
      /\ sent'[Len(sent) + 1] = c /\ Len(sent) + 1 \notin DOMAIN sent
      /\ \A n \in DOMAIN sent : sent'[n] = sent[n]
      /\ \A n : n \in DOMAIN sent' <=> (n \in DOMAIN sent \/ n = Len(sent) + 1)
  BY AppendOf DEF MailOK
<1>2. PICK new \in Nat : new = Len(sent) + 1
  BY <1>1
<1>3. answers' \in [Conns -> Seq(Nat)]
  <2>1. answers[c] \in Seq(Nat)
    BY DEF AnswersOK
  <2>2. Append(answers[c], Len(sent')) \in Seq(Nat)
    BY <1>1, <2>1, AppendOf
  <2> QED
    BY <2>2 DEF AnswersOK
<1> SUFFICES ASSUME NEW d \in Conns, conn[d] # "closed", ~dead
             PROVE  /\ IsInjective(answers'[d])
                    /\ \A n \in Nat :
                         /\ n \in Range(answers'[d]) => n \in DOMAIN sent' /\ sent'[n] = d /\ ~Waiting(n)'
                         /\ n \in DOMAIN sent' /\ sent'[n] = d => n \in Range(answers'[d]) \/ Waiting(n)'
  BY <1>3 DEF AnswersOK
<1>4. /\ IsInjective(answers[d]) /\ answers[d] \in Seq(Nat)
      /\ \A n \in Nat :
           /\ n \in Range(answers[d]) => n \in DOMAIN sent /\ sent[n] = d /\ ~Waiting(n)
           /\ n \in DOMAIN sent /\ sent[n] = d => n \in Range(answers[d]) \/ Waiting(n)
  BY DEF AnswersOK
<1>5. new \notin Range(answers[d]) /\ ~Waiting(new)
  BY <1>1, <1>2, <1>4
<1>6. /\ \A n : n \in DOMAIN sent' <=> (n \in DOMAIN sent \/ n = new)
      /\ new \notin DOMAIN sent /\ sent'[new] = c /\ \A n \in DOMAIN sent : sent'[n] = sent[n]
  BY <1>1, <1>2
<1>7. CASE /\ answers' = answers
           /\ ~dead => \A n : Waiting(n)' <=> (Waiting(n) \/ n = Len(sent) + 1)
  <2>1. \A n : Waiting(n)' <=> (Waiting(n) \/ n = new)
    BY <1>2, <1>7
  <2> QED
    BY ONLY <1>4, <1>5, <1>6, <1>7, <2>1
<1>8. CASE /\ answers' = [answers EXCEPT ![c] = Append(@, Len(sent'))]
           /\ \A n : Waiting(n)' <=> Waiting(n)
  <2>1. answers' = [answers EXCEPT ![c] = Append(@, new)] /\ \A n : Waiting(n)' <=> Waiting(n)
    BY <1>1, <1>2, <1>8
  <2>2. CASE d # c
    <3>1. answers'[d] = answers[d]
      BY <2>1, <2>2 DEF AnswersOK
    <3> QED
      BY ONLY <1>4, <1>6, <2>1, <2>2, <3>1
  <2>3. CASE d = c
    <3>1. answers'[d] = Append(answers[d], new)
      BY <2>1, <2>3 DEF AnswersOK
    <3>2. Range(answers'[d]) = Range(answers[d]) \cup {new} /\ IsInjective(answers'[d])
      BY <1>4, <1>5, <3>1, RangeAppend
    <3> QED
      BY ONLY <1>4, <1>5, <1>6, <2>1, <2>3, <3>2
  <2> QED
    BY <2>2, <2>3
<1> QED
  BY <1>7, <1>8

(***************************************************************************)
(* What clients hear.                                                      *)
(***************************************************************************)

(* What the main thread adds to the events on their way. *)
Held == IF main = <<>> THEN <<>> ELSE <<main[1].event>>

(* All events are of one set in the next state too. *)
LEMMA SomeEvents ==
  ASSUME HeardOK
  PROVE  \E S : EventsTyped(S)
  BY DEF HeardOK

LEMMA TypedEvents ==
  ASSUME NEW S, EventsTyped(S)
  PROVE  /\ log \in Seq(S) /\ channel \in Seq(S) /\ hand \in Seq(S) /\ Held \in Seq(S)
         /\ \A c \in Conns : heard[c] \in Seq(S)
         /\ Coming = hand \o channel \o Held /\ hand \o channel \in Seq(S) /\ Coming \in Seq(S)
         /\ Len(log) \in Nat
<1>1. log \in Seq(S) /\ channel \in Seq(S) /\ hand \in Seq(S) /\ Held \in Seq(S)
  BY DEF EventsTyped, Held
<1>2. Coming = hand \o channel \o Held
  BY DEF Coming, Held
<1>3. hand \o channel \in Seq(S)
  BY <1>1, ConcatProperties
<1>4. Coming \in Seq(S)
  BY <1>1, <1>2, <1>3, ConcatProperties
<1> QED
  BY <1>1, <1>2, <1>3, <1>4 DEF EventsTyped

(* A sequence of one event. *)
LEMMA OneEvent ==
  ASSUME NEW S, NEW s \in Seq(S), Len(s) <= 1, s # <<>>
  PROVE  s = <<s[1]>> /\ s[1] \in S /\ Head(s) = s[1] /\ Tail(s) = <<>>
<1>1. Len(s) = 1 /\ s[1] \in S
  OBVIOUS
<1>2. PICK x \in S : x = s[1]
  BY <1>1
<1>3. s = <<s[1]>>
  <2>1. <<x>> \in Seq(S) /\ Len(<<x>>) = 1 /\ \A i \in 1 .. Len(s) : s[i] = <<x>>[i]
    BY <1>1, <1>2
  <2> QED
    BY <1>1, <1>2, <2>1, SeqEqual
<1>4. Head(s) = s[1] /\ Tail(s) = <<>>
  <2>1. PICK t \in Seq(S) : t = Tail(s) /\ Len(t) = 0
    <3>1. Tail(s) \in Seq(S) /\ Len(Tail(s)) = Len(s) - 1
      BY HeadTailProperties
    <3>2. Len(s) - 1 = 0
      BY <1>1
    <3> QED
      BY <3>1, <3>2
  <2>2. t = <<>>
    BY <2>1, EmptySeq
  <2>3. Head(s) = s[1]
    BY <1>1
  <2> QED
    BY ONLY <2>1, <2>2, <2>3
<1> QED
  BY <1>1, <1>3, <1>4

(* The same three parts in a row. *)
LEMMA Regroup ==
  ASSUME NEW S, NEW a \in Seq(S), NEW b \in Seq(S), NEW d \in Seq(S), NEW ab, ab = a \o b
  PROVE  ab \o d = a \o (b \o d)
<1>1. (a \o b) \o d = a \o (b \o d)
  BY ConcatAssociative
<1> QED
  BY ONLY ab = a \o b, <1>1, Zenon

(* No mutation, nothing moves out of sight, and a client may leave. *)
LEMMA SameHeard ==
  ASSUME HeardOK, UNCHANGED <<log, joined>>, Coming' = Coming,
         Len(channel') <= 1, Len(hand') <= 1, main' = main \/ main' = <<>>,
         \A S : EventsTyped(S) => EventsTyped(S)',
         \A c \in Conns : IF Alive(c)' THEN Alive(c) /\ heard'[c] = heard[c]
                                       ELSE heard'[c] = <<>>
  PROVE  HeardOK'
<1>1. \E S : EventsTyped(S)'
  BY DEF HeardOK
<1>2. \A c \in Conns :
        IF Alive(c)' THEN \E k \in 0 .. joined[c] : heard'[c] \o Coming' = SubSeq(log, k + 1, Len(log))
                     ELSE heard'[c] = <<>>
  BY DEF HeardOK
<1> QED
  BY <1>1, <1>2 DEF HeardOK

(* Nothing that is heard changes at all. *)
LEMMA HeardStays ==
  ASSUME HeardOK, UNCHANGED <<log, joined, main, channel, hand, heard>>,
         \A c \in Conns : Alive(c)' <=> Alive(c)
  PROVE  HeardOK'
<1>1. Coming' = Coming
  BY DEF Coming
<1>2. \A S : EventsTyped(S) => EventsTyped(S)'
  BY DEF EventsTyped
<1>3. \A c \in Conns : IF Alive(c)' THEN Alive(c) /\ heard'[c] = heard[c] ELSE heard'[c] = <<>>
  BY DEF HeardOK
<1> QED
  BY <1>1, <1>2, <1>3, SameHeard DEF HeardOK

(* A mutation. *)
LEMMA MoreHeard ==
  ASSUME HeardOK, main = <<>>, NEW e, log' = Append(log, e), main' # <<>>, main'[1].event = e,
         UNCHANGED <<hand, channel, heard, joined>>, \A c \in Conns : Alive(c)' <=> Alive(c)
  PROVE  HeardOK'
<1>1. PICK T : EventsTyped(T)
  BY SomeEvents
<1>2. PICK S : S = T \cup {e}
  OBVIOUS
<1>3. T \subseteq S /\ e \in S
  BY <1>2
<1>4. EventsTyped(S)
  <2>1. log \in Seq(S) /\ channel \in Seq(S) /\ hand \in Seq(S)
    BY <1>1, <1>3, SeqMonotonic DEF EventsTyped
  <2>2. \A c \in Conns : heard[c] \in Seq(S)
    BY <1>1, <1>3, SeqMonotonic DEF EventsTyped
  <2>3. heard \in [Conns -> Seq(S)]
    BY <1>1, <2>2 DEF EventsTyped
  <2> QED
    BY <2>1, <2>3 DEF EventsTyped
<1>5. Append(log, e) \in Seq(S) /\ Len(log') = Len(log) + 1 /\ log'[Len(log')] = e /\ log' # <<>>
  BY <1>3, <1>4, TypedEvents, AppendProperties
<1>6. EventsTyped(S)'
  BY <1>3, <1>4, <1>5 DEF EventsTyped
<1>7. PICK onTheWay \in Seq(S) : onTheWay = hand \o channel
  BY <1>4, TypedEvents
<1>8. Coming = onTheWay
  BY <1>4, <1>7, TypedEvents, ConcatEmptySeq DEF Held
<1>9. Coming' = Append(onTheWay, e)
  <2>1. Coming' = onTheWay \o <<e>>
    BY <1>7 DEF Coming
  <2> QED
    BY <1>3, <2>1, AppendIsConcat
<1>10. /\ Len(log) \in Nat /\ log \in Seq(S)
       /\ \A k \in 0 .. Len(log) : k \in 0 .. Len(log')
                                   /\ Append(SubSeq(log, k + 1, Len(log)), e) = SubSeq(log', k + 1, Len(log'))
  <2>1. Len(log) \in Nat /\ log \in Seq(S)
    BY <1>4, TypedEvents
  <2>2. \A k \in 0 .. Len(log) : k \in 0 .. Len(log')
    BY <1>5, <2>1
  <2>3. PICK l \in Seq(S) : l = log
    BY <2>1
  <2>4. \A k \in 0 .. Len(l) : Append(SubSeq(l, k + 1, Len(l)), e) = SubSeq(Append(l, e), k + 1, Len(l) + 1)
    BY <1>3, RestGrows
  <2> QED
    BY <1>5, <2>1, <2>2, <2>3, <2>4
<1>11. \E k \in 0 .. Len(log') : Coming' = SubSeq(log', k + 1, Len(log'))
  BY <1>8, <1>9, <1>10 DEF HeardOK
<1>12. \A c \in Conns : joined[c] \in Nat /\ joined[c] <= Len(log)
  BY DEF HeardOK
<1>13. ASSUME NEW c \in Conns, Alive(c)
       PROVE  \E k \in 0 .. joined[c] : heard[c] \o Coming' = SubSeq(log', k + 1, Len(log'))
  <2>1. PICK k \in 0 .. joined[c] : heard[c] \o Coming = SubSeq(log, k + 1, Len(log))
    BY <1>13 DEF HeardOK
  <2>2. k \in 0 .. Len(log)
    BY <1>10, <1>12
  <2>3. heard[c] \in Seq(S) /\ <<e>> \in Seq(S)
    BY <1>3, <1>4 DEF EventsTyped
  <2>4. heard[c] \o Append(onTheWay, e) = Append(heard[c] \o onTheWay, e)
    <3>1. Append(onTheWay, e) = onTheWay \o <<e>>
      BY <1>3, AppendIsConcat
    <3>2. heard[c] \o (onTheWay \o <<e>>) = (heard[c] \o onTheWay) \o <<e>>
      <4>1. PICK h \in Seq(S) : h = heard[c]
        BY <2>3
      <4>2. PICK hw : hw = h \o onTheWay
        OBVIOUS
      <4>3. hw \o <<e>> = h \o (onTheWay \o <<e>>)
        BY <2>3, <4>2, Regroup
      <4> QED
        BY ONLY <4>1, <4>2, <4>3, Zenon
    <3>3. heard[c] \o onTheWay \in Seq(S)
      BY <2>3, ConcatProperties
    <3>4. Append(heard[c] \o onTheWay, e) = (heard[c] \o onTheWay) \o <<e>>
      BY <1>3, <3>3, AppendIsConcat
    <3> QED
      BY <3>1, <3>2, <3>4
  <2>5. heard[c] \o Coming' = SubSeq(log', k + 1, Len(log'))
    BY <1>8, <1>9, <1>10, <2>1, <2>2, <2>4
  <2> QED
    BY <2>5
<1>14. \A c \in Conns : joined[c] <= Len(log')
  BY <1>5, <1>10, <1>12
<1>15. \A c \in Conns : ~Alive(c) => heard[c] = <<>>
  BY DEF HeardOK
<1>16. Len(channel) <= 1 /\ Len(hand) <= 1 /\ joined \in [Conns -> Nat]
  BY DEF HeardOK
<1> QED
  BY <1>5, <1>6, <1>11, <1>13, <1>14, <1>15, <1>16 DEF HeardOK

(* An event goes from the main thread into the channel, or from there to   *)
(* the dispatcher.                                                         *)
LEMMA MovesComing ==
  ASSUME HeardOK,
         \/ /\ main # <<>> /\ Len(channel) < 1 /\ channel' = Append(channel, main[1].event)
            /\ main' = <<>> /\ hand' = hand
         \/ /\ hand = <<>> /\ channel # <<>> /\ hand' = <<Head(channel)>> /\ channel' = Tail(channel)
            /\ main' = main
  PROVE  /\ Coming' = Coming /\ Len(channel') <= 1 /\ Len(hand') <= 1
         /\ UNCHANGED <<log, heard>> => \A S : EventsTyped(S) => EventsTyped(S)'
<1>1. PICK S : EventsTyped(S)
  BY SomeEvents
<1>2. CASE /\ main # <<>> /\ Len(channel) < 1 /\ channel' = Append(channel, main[1].event)
           /\ main' = <<>> /\ hand' = hand
  <2>1. channel = <<>> /\ channel' = <<main[1].event>>
    <3>1. channel \in Seq(S)
      BY <1>1 DEF EventsTyped
    <3>2. channel = <<>>
      BY <1>2, <3>1
    <3> QED
      BY <1>2, <3>2
  <2>2. Coming = hand \o <<>> \o <<main[1].event>> /\ Coming' = hand \o <<main[1].event>> \o <<>>
    BY <1>2, <2>1 DEF Coming
  <2>3. hand \in Seq(S) /\ <<main[1].event>> \in Seq(S) /\ Len(<<main[1].event>>) = 1
    BY <1>1, <1>2 DEF EventsTyped
  <2>4. hand \o <<main[1].event>> \in Seq(S) /\ hand \o <<>> = hand
    BY <2>3, ConcatProperties, ConcatEmptySeq
  <2>5. Coming' = Coming
    BY <2>2, <2>3, <2>4, ConcatEmptySeq
  <2>6. ASSUME UNCHANGED <<log, heard>>, NEW T, EventsTyped(T)
        PROVE  EventsTyped(T)'
    BY <1>2, <2>1, <2>6 DEF EventsTyped
  <2> QED
    BY <1>2, <2>1, <2>5, <2>6 DEF HeardOK
<1>3. CASE /\ hand = <<>> /\ channel # <<>> /\ hand' = <<Head(channel)>> /\ channel' = Tail(channel)
           /\ main' = main
  <2>1. channel \in Seq(S) /\ Len(channel) <= 1
    BY <1>1 DEF EventsTyped, HeardOK
  <2>2. PICK x \in S : channel = <<x>> /\ x = channel[1] /\ Head(channel) = x /\ Tail(channel) = <<>>
    BY <1>3, <2>1
  <2>3. Coming = <<>> \o <<x>> \o Held /\ Coming' = <<x>> \o <<>> \o Held
    BY <1>3, <2>2 DEF Coming, Held
  <2>4. Coming' = Coming
    BY <2>2, <2>3, ConcatEmptySeq
  <2>5. ASSUME UNCHANGED <<log, heard>>, NEW T, EventsTyped(T)
        PROVE  EventsTyped(T)'
    <3>1. x \in T
      BY <2>1, <2>2, <2>5 DEF EventsTyped
    <3> QED
      BY <1>3, <2>2, <2>5, <3>1 DEF EventsTyped
  <2> QED
    BY <1>3, <2>2, <2>4, <2>5
<1> QED
  BY <1>2, <1>3

(* The dispatcher hands an event to all sessions. *)
LEMMA AllHear ==
  ASSUME HeardOK, EventToAll
  PROVE  HeardOK'
<1>1. PICK S : EventsTyped(S)
  BY SomeEvents
<1>2. PICK x \in S : hand = <<x>> /\ x = hand[1]
  <2>1. hand \in Seq(S) /\ Len(hand) <= 1 /\ hand # <<>>
    BY <1>1 DEF EventsTyped, HeardOK, EventToAll
  <2> QED
    BY <2>1, OneEvent
<1>3. /\ hand' = <<>> /\ UNCHANGED <<conn, main, channel, sessions, log, joined>>
      /\ \A c \in Conns : heard'[c] = IF Alive(c) THEN Append(heard[c], x) ELSE heard[c]
      /\ \A c \in Conns : Alive(c)' <=> Alive(c)
  BY <1>2 DEF EventToAll, Alive
<1>4. PICK rest \in Seq(S) : rest = channel \o Held
  BY <1>1, TypedEvents, ConcatProperties
<1>5. <<x>> \in Seq(S) /\ channel \in Seq(S) /\ Held \in Seq(S)
  BY <1>1, <1>2, TypedEvents
<1>6. Coming = <<x>> \o rest
  <2>1. Coming = <<x>> \o channel \o Held
    BY <1>2 DEF Coming, Held
  <2> QED
    BY <1>4, <1>5, <2>1, Regroup
<1>7. Coming' = rest
  <2>1. Coming' = <<>> \o channel \o Held
    BY <1>3 DEF Coming, Held
  <2> QED
    BY <1>4, <1>5, <2>1, ConcatEmptySeq
<1>8. EventsTyped(S)'
  <2>1. \A c \in Conns : heard[c] \in Seq(S) /\ Append(heard[c], x) \in Seq(S)
    BY <1>1, <1>2, AppendProperties DEF EventsTyped
  <2>2. heard' \in [Conns -> Seq(S)]
    BY <1>2, <2>1 DEF EventToAll
  <2> QED
    BY <1>1, <1>3, <2>2 DEF EventsTyped
<1>9. \E k \in 0 .. Len(log) : rest = SubSeq(log, k + 1, Len(log))
  <2>1. PICK k \in 0 .. Len(log) : Coming = SubSeq(log, k + 1, Len(log))
    BY DEF HeardOK
  <2>2. log \in Seq(S) /\ Len(log) \in Nat
    BY <1>1, TypedEvents
  <2>3. Len(Coming) = 1 + Len(rest) /\ Coming \in Seq(S) /\ Len(rest) \in Nat
        /\ \A i \in 1 .. Len(rest) : Coming[i + 1] = rest[i]
    BY <1>5, <1>6
  <2>4. k + 1 \in 1 .. Len(log) /\ Len(log) \in k + 1 .. Len(log)
    <3>1. CASE k = Len(log)
      BY <2>1, <2>2, <2>3, <3>1
    <3> QED
      BY <2>2, <3>1
  <2>5. Tail(Coming) = SubSeq(log, k + 1 + 1, Len(log))
    BY <2>1, <2>2, <2>4, HeadTailOfSubSeq
  <2>6. Tail(Coming) = rest
    <3>1. Coming # <<>>
      BY <2>3
    <3>2. Tail(Coming) \in Seq(S) /\ Len(Tail(Coming)) = Len(rest)
          /\ \A i \in 1 .. Len(rest) : Tail(Coming)[i] = rest[i]
      BY <2>3, <3>1, HeadTailProperties
    <3> QED
      BY <3>2, SeqEqual
  <2>7. k + 1 \in 0 .. Len(log)
    BY <2>4
  <2> QED
    BY <2>5, <2>6, <2>7
<1>10. ASSUME NEW c \in Conns, Alive(c)
       PROVE  \E k \in 0 .. joined[c] : heard'[c] \o rest = SubSeq(log, k + 1, Len(log))
  <2>1. PICK k \in 0 .. joined[c] : heard[c] \o Coming = SubSeq(log, k + 1, Len(log))
    BY <1>10 DEF HeardOK
  <2>2. heard[c] \in Seq(S)
    BY <1>1, TypedEvents
  <2>3. heard'[c] = heard[c] \o <<x>>
    BY <1>3, <1>10, <2>2, AppendIsConcat
  <2>4. heard'[c] \o rest = heard[c] \o (<<x>> \o rest)
    <3>1. PICK h \in Seq(S) : h = heard[c]
      BY <2>2
    <3>2. PICK hx : hx = h \o <<x>>
      OBVIOUS
    <3>3. hx \o rest = h \o (<<x>> \o rest)
      BY <1>5, <3>2, Regroup
    <3> QED
      BY ONLY <2>3, <3>1, <3>2, <3>3, Zenon
  <2> QED
    BY <1>6, <2>1, <2>4
<1>11. \A c \in Conns : ~Alive(c) => heard'[c] = <<>>
  BY <1>3 DEF HeardOK
<1>12. Len(hand') <= 1
  BY <1>3
<1> QED
  BY <1>3, <1>7, <1>8, <1>9, <1>10, <1>11, <1>12 DEF HeardOK

(* A client becomes a session: what it hears begins with what is on its    *)
(* way.                                                                    *)
LEMMA JoinHeard ==
  ASSUME HeardOK, UNCHANGED <<log, main, channel, hand, heard>>, NEW c \in Conns, ~Alive(c),
         joined' = [joined EXCEPT ![c] = Len(log)],
         \A d \in Conns : d # c => (Alive(d)' <=> Alive(d))
  PROVE  HeardOK'
<1>1. PICK S : EventsTyped(S)
  BY SomeEvents
<1>2. Coming' = Coming /\ EventsTyped(S)' /\ Coming \in Seq(S) /\ Len(log) \in Nat
  BY <1>1, TypedEvents DEF Coming, EventsTyped
<1>3. /\ joined' \in [Conns -> Nat] /\ joined'[c] = Len(log)
      /\ \A d \in Conns : d # c => joined'[d] = joined[d]
  BY <1>2 DEF HeardOK
<1>4. heard[c] = <<>> /\ heard[c] \o Coming = Coming
  BY <1>2, ConcatEmptySeq DEF HeardOK
<1>5. \E k \in 0 .. joined'[c] : heard[c] \o Coming' = SubSeq(log, k + 1, Len(log))
  BY <1>2, <1>3, <1>4 DEF HeardOK
<1>6. \A d \in Conns :
        IF Alive(d)' THEN \E k \in 0 .. joined'[d] : heard[d] \o Coming' = SubSeq(log, k + 1, Len(log))
                     ELSE heard[d] = <<>>
  BY <1>2, <1>3, <1>4, <1>5 DEF HeardOK
<1>7. \A d \in Conns : joined'[d] <= Len(log)
  BY <1>2, <1>3 DEF HeardOK
<1> QED
  BY <1>2, <1>3, <1>6, <1>7 DEF HeardOK

(***************************************************************************)
(* What the log tells.                                                     *)
(***************************************************************************)

(* A task is as it was. *)
SameTask(i) == tasks'[i].stage = tasks[i].stage /\ tasks'[i].result = tasks[i].result

(* No record changes, and no task, though some may be forgotten. *)
LEMMA SameLog ==
  ASSUME LogTells, UNCHANGED <<log, people>>, DOMAIN tasks' \subseteq DOMAIN tasks,
         \A i \in DOMAIN tasks' : SameTask(i)
  PROVE  LogTells'
<1>1. \A i \in DOMAIN log : IsOf(log[i], people)
  BY DEF LogTells
<1>2. ASSUME NEW of, of[1] = "people" \/ of[2] \in DOMAIN tasks'
      PROVE  StateIn(of, people, tasks') = StateIn(of, people, tasks)
  BY <1>2 DEF StateIn, Told, SameTask
<1>3. \A i \in DOMAIN log : log[i].of[1] \in {"people", "actions"}
  BY DEF LogTells, IsOf
<1> QED
  BY <1>1, <1>2, <1>3 DEF LogTells

(* An event tells how the record or task is that a mutation changes; the   *)
(* others stay as they are.                                                *)
LEMMA MoreLog ==
  ASSUME LogTells, NEW S, log \in Seq(S), NEW e, log' = Append(log, e), IsOf(e, people'),
         e.data = StateIn(e.of, people', tasks'),
         DOMAIN people \subseteq DOMAIN people',
         \A id \in DOMAIN people : <<"people", id>> = e.of \/ people'[id] = people[id],
         \A i \in DOMAIN tasks' : Key(i) = e.of \/ (i \in DOMAIN tasks /\ SameTask(i))
  PROVE  LogTells'
<1>1. /\ Len(log) \in Nat /\ DOMAIN log = 1 .. Len(log) /\ DOMAIN log' = 1 .. Len(log) + 1
      /\ log'[Len(log) + 1] = e
      /\ \A i \in DOMAIN log : log'[i] = log[i] /\ i \in DOMAIN log' /\ i < Len(log) + 1
      /\ \A i \in DOMAIN log' : i \in DOMAIN log \/ i = Len(log) + 1
      /\ Len(log) + 1 \in DOMAIN log'
  <2>1. PICK l \in Seq(S \cup {e}) : l = log
    BY SeqMonotonic
  <2> QED
    BY <2>1, AppendOf
<1>2. \A i \in DOMAIN log : IsOf(log[i], people')
  BY DEF LogTells, IsOf
<1>3. ASSUME NEW i \in DOMAIN log, log[i].of # e.of,
             log[i].of[1] = "actions" => log[i].of[2] \in DOMAIN tasks'
      PROVE  /\ log[i].of[1] = "actions" => log[i].of[2] \in DOMAIN tasks
             /\ StateIn(log[i].of, people', tasks') = StateIn(log[i].of, people, tasks)
  <2>1. IsOf(log[i], people)
    BY DEF LogTells
  <2>2. CASE log[i].of[1] = "people"
    <3>1. log[i].of[2] \in DOMAIN people /\ log[i].of = <<"people", log[i].of[2]>>
      BY <2>1, <2>2 DEF IsOf
    <3>2. people'[log[i].of[2]] = people[log[i].of[2]]
      BY <1>3, <3>1
    <3> QED
      BY <2>2, <3>2 DEF StateIn
  <2>3. CASE log[i].of[1] = "actions"
    <3>1. log[i].of = Key(log[i].of[2])
      BY <2>1, <2>3 DEF IsOf, Key
    <3>2. log[i].of[2] \in DOMAIN tasks /\ SameTask(log[i].of[2])
      BY <1>3, <2>3, <3>1
    <3> QED
      BY <2>3, <3>2 DEF StateIn, Told, SameTask
  <2> QED
    BY <2>1, <2>2, <2>3 DEF IsOf
<1>4. ASSUME NEW i \in DOMAIN log
      PROVE  \/ \E j \in DOMAIN log' : j > i /\ log'[j].of = log[i].of
             \/ log[i].of[1] = "actions" /\ log[i].of[2] \notin DOMAIN tasks'
             \/ log[i].data = StateIn(log[i].of, people', tasks')
  <2>1. CASE log[i].of = e.of
    BY <1>1, <2>1
  <2>2. CASE \E j \in DOMAIN log : j > i /\ log[j].of = log[i].of
    BY <1>1, <2>2
  <2>3. CASE log[i].of # e.of /\ (log[i].of[1] = "actions" => log[i].of[2] \in DOMAIN tasks')
             /\ ~\E j \in DOMAIN log : j > i /\ log[j].of = log[i].of
    <3>1. log[i].data = StateIn(log[i].of, people, tasks)
      BY <1>3, <2>3 DEF LogTells
    <3> QED
      BY <1>3, <2>3, <3>1
  <2> QED
    BY <2>1, <2>2, <2>3
<1>5. ASSUME NEW i \in DOMAIN log', NEW told, told = log'[i]
      PROVE  /\ IsOf(told, people')
             /\ \/ \E j \in DOMAIN log' : j > i /\ log'[j].of = told.of
                \/ told.of[1] = "actions" /\ told.of[2] \notin DOMAIN tasks'
                \/ told.data = StateIn(told.of, people', tasks')
  <2>1. CASE i \in DOMAIN log
    <3>1. told = log[i]
      BY <1>1, <1>5, <2>1
    <3> QED
      BY <1>2, <1>4, <2>1, <3>1
  <2>2. CASE i = Len(log) + 1
    BY <1>1, <1>5, <2>2
  <2> QED
    BY <1>1, <2>1, <2>2
<1> QED
  BY <1>5 DEF LogTells

(***************************************************************************)
(* Websockets.                                                             *)
(***************************************************************************)

(* Tasks that nobody touches stay right. *)
LEMMA SameTasks ==
  ASSUME TInv, UNCHANGED taskVars
  PROVE  /\ TInv' /\ NewTask' = NewTask
         /\ LogTells /\ UNCHANGED <<log, people>> => LogTells'
<1>1. TInv'
  BY StandsStill DEF taskVars, TInv, TasksOK, TasksAsk, TasksAnswer, FirstTasks, Used
<1>2. NewTask' = NewTask
  BY DEF taskVars, NewTask
<1>3. LogTells /\ UNCHANGED <<log, people>> => LogTells'
  BY DEF taskVars, LogTells
<1> QED
  BY <1>1, <1>2, <1>3

(* A message for the commutator keeps the mailbox right. *)
LEMMA PostMail ==
  ASSUME MailOK, NEW m \in Message, Post(m) \/ inbox' = inbox, UNCHANGED <<main, sent, dead>>
  PROVE  MailOK'
<1>1. inbox' \in Seq(Message) /\ (dead => inbox' = <<>>)
  BY Posted DEF MailOK
<1> QED
  BY <1>1 DEF MailOK

LEMMA StartStep ==
  ASSUME SInv, NEW c \in Conns, Start(c) PROVE SInv'
<1> USE DEF SInv
<1> DEFINE m == [type |-> "connect", conn |-> c]
<1>1. /\ m \in Message /\ m.type = "connect" /\ Post(m) /\ conn[c] = "new"
      /\ conn' = [conn EXCEPT ![c] = IF dead THEN "closed" ELSE "starting"]
      /\ UNCHANGED <<main, channel, hand, sessions, heard, answers, sent, people, dead, log, joined, taskVars>>
  BY DEF Start, Message
<1> HIDE DEF m
<1>2. TInv' /\ NewTask' = NewTask /\ LogTells'
  BY <1>1, SameTasks
<1>3. MailOK'
  BY <1>1, PostMail
<1>4. SessionsOK' /\ \A d \in Conns : Alive(d)' <=> Alive(d)
  BY StartSessions
<1>5. \A d \in Conns : conn[d] # "new" => conn'[d] = conn[d]
  BY <1>1 DEF SessionsOK
<1>6. OrderOK' /\ \A n : Waiting(n)' <=> Waiting(n)
  <2>1. \A d \in Conns : conn[d] \in {"open", "closed"} => conn'[d] \in {"open", "closed"}
    BY <1>5
  <2> QED
    BY <1>1, <1>2, <2>1, PostOrder
<1>7. AnswersOK'
  <2>1. \A d \in Conns : conn'[d] # "closed" => conn[d] # "closed" /\ answers'[d] = answers[d]
    BY <1>1, <1>5
  <2>2. answers' \in [Conns -> Seq(Nat)]
    BY <1>1 DEF AnswersOK
  <2> QED
    BY <1>1, <1>6, <2>1, <2>2, NoAnswer
<1>8. HeardOK'
  BY <1>1, <1>4, HeardStays
<1> QED
  BY <1>2, <1>3, <1>4, <1>6, <1>7, <1>8

(* A frame is sent. *)
LEMMA SendStep ==
  ASSUME SInv, NEW c \in Conns, NEW req \in Requests, Send(c, req) PROVE SInv'
<1> USE DEF SInv
<1> DEFINE m == [type |-> "event", conn |-> c, nr |-> Len(sent'), req |-> req]
<1>1. /\ conn[c] = "open" /\ Len(sent) < MaxRequests /\ sent' = Append(sent, c)
      /\ UNCHANGED <<conn, main, channel, hand, sessions, heard, people, dead, log, joined, taskVars>>
      /\ \/ answers' = [answers EXCEPT ![c] = Append(@, Len(sent'))] /\ inbox' = inbox
         \/ answers' = answers /\ Post(m)
  BY DEF Send
<1>2. TInv' /\ NewTask' = NewTask /\ LogTells'
  BY <1>1, SameTasks
<1>3. /\ sent' \in Seq(Conns) /\ Len(sent') = Len(sent) + 1 /\ Len(sent) \in Nat
      /\ Len(sent') <= MaxRequests
  BY <1>1, AppendOf, ConnFacts DEF MailOK
<1>4. m \in Message /\ m.type = "event" /\ m.conn = c
  BY <1>3 DEF Message
<1>5. inbox' = inbox \/ Post(m)
  BY <1>1
<1>6. MailOK'
  <2>1. inbox' \in Seq(Message) /\ (dead => inbox' = <<>>)
    BY <1>4, <1>5, Posted DEF MailOK
  <2> QED
    BY <1>1, <1>3, <2>1 DEF MailOK
<1>7. SessionsOK'
  <2>1. conn' \in [Conns -> Steps] /\ sessions' = sessions /\ \A d \in Conns : conn'[d] = conn[d]
    BY <1>1 DEF SessionsOK
  <2>2. m.type # "connect" /\ m.type # "disconnect"
    BY <1>4
  <2> QED
    BY <1>4, <1>5, <2>1, <2>2, PostSessions
<1>8. /\ OrderOK'
      /\ inbox' = inbox => \A n : Waiting(n)' <=> Waiting(n)
      /\ inbox' # inbox => \A n : Waiting(n)' <=> (Waiting(n) \/ n = Len(sent) + 1)
      /\ ~Waiting(Len(sent) + 1)
  BY <1>1, <1>2, <1>5, SendOrder DEF TInv
<1>9. ~dead /\ Post(m) => inbox' # inbox
  <2>1. inbox \in Seq(Message) /\ Len(inbox) \in Nat
    BY DEF MailOK
  <2>2. Len(Append(inbox, m)) = Len(inbox) + 1
    BY <1>4, <2>1, AppendOf
  <2> QED
    BY <2>1, <2>2 DEF Post
<1> HIDE DEF m
<1>10. AnswersOK'
  <2>1. \/ /\ answers' = [answers EXCEPT ![c] = Append(@, Len(sent'))]
           /\ \A n : Waiting(n)' <=> Waiting(n)
        \/ /\ answers' = answers
           /\ ~dead => \A n : Waiting(n)' <=> (Waiting(n) \/ n = Len(sent) + 1)
    BY <1>1, <1>8, <1>9
  <2> QED
    BY <1>1, <1>8, <2>1, SendAnswers
<1>11. HeardOK'
  BY <1>1, HeardStays DEF Alive
<1> QED
  BY <1>2, <1>6, <1>7, <1>8, <1>10, <1>11

(* A client leaves, and the commutator may be told. *)
LEMMA LeaveStep ==
  ASSUME SInv, NEW c \in Conns, Close(c) \/ TimeOut(c) PROVE SInv'
<1> USE DEF SInv
<1> DEFINE m == [type |-> "disconnect", conn |-> c]
<1>1. /\ m \in Message /\ m.type = "disconnect" /\ m.conn = c /\ (Post(m) \/ inbox' = inbox)
      /\ conn[c] \in {"starting", "open"} /\ Gone(c)
      /\ UNCHANGED <<main, channel, hand, sessions, sent, people, dead, log, joined, taskVars>>
  BY DEF Close, TimeOut, Message
<1> HIDE DEF m
<1>2. TInv' /\ NewTask' = NewTask /\ LogTells'
  BY <1>1, SameTasks
<1>3. MailOK'
  BY <1>1, PostMail
<1>4. /\ conn' \in [Conns -> Steps] /\ conn'[c] = "closed"
      /\ \A d \in Conns : d # c => conn'[d] = conn[d]
  BY <1>1 DEF Gone, SessionsOK, Steps
<1>5. SessionsOK'
  BY <1>1, <1>4, PostSessions
<1>6. OrderOK' /\ \A n : Waiting(n)' <=> Waiting(n)
  <2>1. \A d \in Conns : conn[d] \in {"open", "closed"} => conn'[d] \in {"open", "closed"}
    BY <1>4
  <2> QED
    BY <1>1, <1>2, <2>1, PostOrder
<1>7. AnswersOK'
  <2>1. answers' \in [Conns -> Seq(Nat)] /\ \A d \in Conns : d # c => answers'[d] = answers[d]
    BY <1>1, EmptySeq DEF Gone, AnswersOK
  <2>2. \A d \in Conns : conn'[d] # "closed" => conn[d] # "closed" /\ answers'[d] = answers[d]
    BY <1>4, <2>1
  <2> QED
    BY <1>1, <1>6, <2>1, <2>2, NoAnswer
<1>8. HeardOK'
  <2>1. heard' = [heard EXCEPT ![c] = <<>>]
    BY <1>1 DEF Gone
  <2>2. \A S : EventsTyped(S) => EventsTyped(S)'
    BY <1>1, <2>1, EmptySeq DEF EventsTyped
  <2>3. ASSUME NEW d \in Conns
        PROVE  IF Alive(d)' THEN Alive(d) /\ heard'[d] = heard[d] ELSE heard'[d] = <<>>
    <3>1. PICK S : EventsTyped(S)
      BY SomeEvents
    <3>2. heard'[c] = <<>> /\ (d # c => heard'[d] = heard[d])
      BY <2>1, <3>1 DEF EventsTyped
    <3>3. CASE d = c
      BY <1>4, <3>2, <3>3 DEF Alive
    <3>4. CASE d # c
      BY <1>1, <1>4, <3>2, <3>4 DEF Alive, HeardOK
    <3> QED
      BY <3>3, <3>4
  <2>4. Coming' = Coming /\ Len(channel') <= 1 /\ Len(hand') <= 1
    BY <1>1 DEF Coming, HeardOK
  <2> QED
    BY <1>1, <2>2, <2>3, <2>4, SameHeard
<1> QED
  BY <1>2, <1>3, <1>5, <1>6, <1>7, <1>8

(***************************************************************************)
(* The main thread.                                                        *)
(***************************************************************************)

(* What an event to be emitted is. *)
LEMMA EmitsFacts ==
  ASSUME NEW e, NEW to, NEW nr, Emits(e, to, nr)
  PROVE  /\ main' # <<>> /\ Len(main') = 1
         /\ main'[1].event = e /\ main'[1].conn = to /\ main'[1].nr = nr
         /\ log' = Append(log, e)
  BY DEF Emits

(* The number of the next task is a number. *)
LEMMA NewTaskNat ==
  ASSUME FirstTasks
  PROVE  NewTask \in Nat \ {0}
<1>1. PICK n \in 0 .. MaxTasks : Used = 1 .. n
  BY DEF FirstTasks
<1> QED
  BY <1>1, NextTask, ConnFacts

(* The message taken is one of a request that waits. *)
LEMMA TakenEvent ==
  ASSUME SInv, inbox # <<>>, Head(inbox).type = "event"
  PROVE  LET m == Head(inbox) IN
         /\ m \in Message /\ m.conn \in Conns /\ m.nr \in Nat
         /\ m.nr \in DOMAIN sent /\ sent[m.nr] = m.conn /\ Waiting(m.nr)
         /\ NewTask <= m.nr /\ NewTask \in Tasks
<1> USE DEF SInv
<1>1. /\ Head(inbox) \in Message /\ 1 \in DOMAIN inbox /\ Head(inbox) = inbox[1]
  BY TailOf DEF MailOK
<1>2. PICK m \in Message : m = Head(inbox) /\ m = inbox[1] /\ m.type = "event"
  BY <1>1
<1>3. m.conn \in Conns /\ m.nr \in Nat
  BY <1>2, MessageFacts
<1>4. m.nr \in DOMAIN sent /\ sent[m.nr] = m.conn /\ NewTask <= m.nr
  BY <1>1, <1>2 DEF OrderOK
<1>5. Waiting(m.nr)
  BY <1>1, <1>2 DEF Waiting
<1>6. m.nr <= MaxTasks
  BY <1>4, ConnFacts DEF MailOK
<1>7. NewTask \in Tasks
  BY <1>3, <1>4, <1>6, NewTaskNat, ConnFacts DEF Tasks, TInv
<1> QED
  BY <1>2, <1>3, <1>4, <1>5, <1>7

(* The main thread takes an event, and may wait then to emit another. *)
LEMMA EventTaken ==
  ASSUME SInv, main = <<>>, inbox # <<>>, inbox' = Tail(inbox), Head(inbox).type = "event",
         UNCHANGED <<conn, sessions, sent, dead>>,
         \/ main' = <<>>
         \/ /\ main' # <<>> /\ Len(main') = 1
            /\ main'[1].conn = Head(inbox).conn /\ main'[1].nr = Head(inbox).nr,
         NewTask' = NewTask \/ NewTask' = NewTask + 1
  PROVE  /\ MailOK' /\ SessionsOK' /\ OrderOK'
         /\ main' # <<>> => \A n : Waiting(n)' <=> Waiting(n)
         /\ main' = <<>> => \A n : Waiting(n)' <=> (Waiting(n) /\ n # Head(inbox).nr)
<1> USE DEF SInv
<1>1. inbox' \in Seq(Message) /\ ~dead
  BY Taken
<1>2. Head(inbox).conn \in Conns /\ Head(inbox).nr \in Nat
  BY TakenEvent
<1>3. MailOK'
  BY <1>1, <1>2 DEF MailOK
<1>4. SessionsOK'
  BY TakeSessions
<1>5. \A d \in Conns : conn[d] \in {"open", "closed"} => conn'[d] \in {"open", "closed"}
  OBVIOUS
<1>6. /\ OrderOK'
      /\ main' # <<>> => \A n : Waiting(n)' <=> Waiting(n)
      /\ main' = <<>> => \A n : Waiting(n)' <=> (Waiting(n) /\ n # Head(inbox).nr)
  BY <1>5, TakeOrder DEF TInv
<1> QED
  BY <1>3, <1>4, <1>6

(* A client is greeted. *)
LEMMA ConnectStep ==
  ASSUME SInv, main = <<>>, inbox # <<>>, inbox' = Tail(inbox), Connect(Head(inbox))
  PROVE  SInv'
<1> USE DEF SInv
<1>1. PICK c : c = Head(inbox).conn
  OBVIOUS
<1>2. /\ Head(inbox).type = "connect" /\ joined' = [joined EXCEPT ![c] = Len(log)]
      /\ UNCHANGED <<main, channel, hand, heard, answers, sent, people, dead, log, taskVars>>
  BY <1>1 DEF Connect
<1>3. /\ SessionsOK' /\ c \in Conns
      /\ \A d \in Conns : d # c => (Alive(d)' <=> Alive(d))
      /\ ~Alive(c)
      /\ conn'[c] = (IF conn[c] = "starting" THEN "open" ELSE conn[c])
      /\ \A d \in Conns : d # c => conn'[d] = conn[d]
  BY <1>1, ConnectSessions
<1>4. TInv' /\ NewTask' = NewTask /\ LogTells'
  BY <1>2, SameTasks
<1>5. MailOK'
  <2>1. inbox' \in Seq(Message) /\ ~dead
    BY Taken
  <2> QED
    BY <1>2, <2>1 DEF MailOK
<1>6. OrderOK' /\ \A n : Waiting(n)' <=> Waiting(n)
  <2>1. \A d \in Conns : conn[d] \in {"open", "closed"} => conn'[d] \in {"open", "closed"}
    BY <1>3
  <2> QED
    BY <1>2, <1>4, <2>1, TakeOrder DEF TInv
<1>7. AnswersOK'
  <2>1. \A d \in Conns : conn'[d] # "closed" => conn[d] # "closed" /\ answers'[d] = answers[d]
    BY <1>2, <1>3
  <2>2. answers' \in [Conns -> Seq(Nat)]
    BY <1>2 DEF AnswersOK
  <2> QED
    BY <1>2, <1>6, <2>1, <2>2, NoAnswer
<1>8. HeardOK'
  BY <1>2, <1>3, JoinHeard
<1> QED
  BY <1>3, <1>4, <1>5, <1>6, <1>7, <1>8

(* A client that is gone is no session any more. *)
LEMMA DisconnectStep ==
  ASSUME SInv, main = <<>>, inbox # <<>>, inbox' = Tail(inbox), Disconnect(Head(inbox))
  PROVE  SInv'
<1> USE DEF SInv
<1>1. /\ Head(inbox).type = "disconnect"
      /\ UNCHANGED <<conn, main, channel, hand, heard, answers, sent, people, dead, log, joined, taskVars>>
  BY DEF Disconnect
<1>2. SessionsOK' /\ \A d \in Conns : Alive(d)' <=> Alive(d)
  BY DisconnectSessions
<1>3. TInv' /\ NewTask' = NewTask /\ LogTells'
  BY <1>1, SameTasks
<1>4. MailOK'
  <2>1. inbox' \in Seq(Message) /\ ~dead
    BY Taken
  <2> QED
    BY <1>1, <2>1 DEF MailOK
<1>5. OrderOK' /\ \A n : Waiting(n)' <=> Waiting(n)
  <2>1. \A d \in Conns : conn[d] \in {"open", "closed"} => conn'[d] \in {"open", "closed"}
    BY <1>1
  <2> QED
    BY <1>1, <1>3, <2>1, TakeOrder DEF TInv
<1>6. AnswersOK'
  <2>1. answers' \in [Conns -> Seq(Nat)]
    BY <1>1 DEF AnswersOK
  <2> QED
    BY <1>1, <1>5, <2>1, NoAnswer
<1>7. HeardOK'
  BY <1>1, <1>2, HeardStays
<1> QED
  BY <1>2, <1>3, <1>4, <1>5, <1>6, <1>7

(* A person is saved or patched. *)
LEMMA MutateStep ==
  ASSUME SInv, main = <<>>, inbox # <<>>, inbox' = Tail(inbox), Mutate(Head(inbox))
  PROVE  SInv'
<1> USE DEF SInv
<1>1. PICK m : m = Head(inbox)
  OBVIOUS
<1>2. PICK id, e : id = m.req.id /\ e = [of |-> <<"people", id>>, data |-> people'[id]]
  OBVIOUS
<1>3. PICK new : people' = With(people, id, new)
  BY <1>1, <1>2 DEF Mutate
<1>4. /\ m.type = "event" /\ Emits(e, m.conn, m.nr)
      /\ UNCHANGED <<conn, channel, hand, sessions, heard, answers, sent, dead, joined, taskVars>>
  BY <1>1, <1>2 DEF Mutate
<1>5. /\ main' # <<>> /\ Len(main') = 1
      /\ main'[1].event = e /\ main'[1].conn = m.conn /\ main'[1].nr = m.nr
      /\ log' = Append(log, e)
  BY <1>4, EmitsFacts
<1>6. TInv' /\ NewTask' = NewTask
  BY <1>4, SameTasks
<1>7. MailOK' /\ SessionsOK' /\ OrderOK' /\ \A n : Waiting(n)' <=> Waiting(n)
  BY <1>1, <1>4, <1>5, <1>6, EventTaken
<1>8. AnswersOK'
  <2>1. answers' \in [Conns -> Seq(Nat)]
    BY <1>4 DEF AnswersOK
  <2> QED
    BY <1>4, <1>7, <2>1, NoAnswer
<1>9. HeardOK'
  <2>1. \A c \in Conns : Alive(c)' <=> Alive(c)
    BY <1>4 DEF Alive
  <2> QED
    BY <1>4, <1>5, <2>1, MoreHeard
<1>10. LogTells'
  <2>1. PICK S : log \in Seq(S)
    BY DEF HeardOK, EventsTyped
  <2>2. /\ DOMAIN people' = DOMAIN people \cup {id}
        /\ \A x \in DOMAIN people : x = id \/ people'[x] = people[x]
    BY <1>3 DEF With
  <2>3. e.of = <<"people", id>> /\ e.of[1] = "people" /\ e.of[2] = id /\ e.data = people'[id]
    BY <1>2
  <2>4. IsOf(e, people') /\ e.data = StateIn(e.of, people', tasks')
    BY <2>2, <2>3 DEF IsOf, StateIn
  <2>5. \A x \in DOMAIN people : <<"people", x>> = e.of \/ people'[x] = people[x]
    BY <2>2, <2>3
  <2>6. tasks' = tasks /\ \A i \in DOMAIN tasks' : i \in DOMAIN tasks /\ SameTask(i)
    BY <1>4 DEF taskVars, SameTask
  <2> QED
    BY <1>5, <2>1, <2>2, <2>4, <2>5, <2>6, MoreLog
<1> QED
  BY <1>6, <1>7, <1>8, <1>9, <1>10

(* A task is created. *)
LEMMA ActStep ==
  ASSUME SInv, main = <<>>, inbox # <<>>, inbox' = Tail(inbox), Act(Head(inbox))
  PROVE  SInv'
<1> USE DEF SInv
<1>1. PICK m : m = Head(inbox)
  OBVIOUS
<1>2. PICK i, e : i = NewTask /\ e = Told(tasks', i)
  OBVIOUS
<1>3. /\ m.type = "event" /\ CreateTask /\ Emits(e, m.conn, m.nr)
      /\ UNCHANGED <<conn, channel, hand, sessions, heard, answers, sent, people, dead, joined>>
  BY <1>1, <1>2 DEF Act
<1>4. /\ main' # <<>> /\ Len(main') = 1
      /\ main'[1].event = e /\ main'[1].conn = m.conn /\ main'[1].nr = m.nr
      /\ log' = Append(log, e)
  BY <1>3, EmitsFacts
<1>5. TInv' /\ NewTask' = NewTask + 1 /\ i \notin DOMAIN tasks
  BY <1>1, <1>2, <1>3, TakenEvent, CreateStep
<1>6. MailOK' /\ SessionsOK' /\ OrderOK' /\ \A n : Waiting(n)' <=> Waiting(n)
  BY <1>1, <1>3, <1>4, <1>5, EventTaken
<1>7. AnswersOK'
  <2>1. answers' \in [Conns -> Seq(Nat)]
    BY <1>3 DEF AnswersOK
  <2> QED
    BY <1>3, <1>6, <2>1, NoAnswer
<1>8. HeardOK'
  <2>1. \A c \in Conns : Alive(c)' <=> Alive(c)
    BY <1>3 DEF Alive
  <2> QED
    BY <1>3, <1>4, <2>1, MoreHeard
<1>9. LogTells'
  <2>1. PICK S : log \in Seq(S)
    BY DEF HeardOK, EventsTyped
  <2>2. /\ DOMAIN tasks' = DOMAIN Cleaned \cup {i}
        /\ \A j \in DOMAIN Cleaned : j = i \/ tasks'[j] = Cleaned[j]
    BY <1>2, <1>3 DEF CreateTask, With
  <2>3. /\ e.of = <<"actions", i>> /\ e.of = Key(i) /\ e.of[1] = "actions" /\ e.of[2] = i
        /\ e.data = Told(tasks', i).data
    BY <1>2 DEF Told, Key
  <2>4. IsOf(e, people') /\ e.data = StateIn(e.of, people', tasks')
    BY <2>3 DEF IsOf, StateIn
  <2>5. \A j \in DOMAIN tasks' : Key(j) = e.of \/ (j \in DOMAIN tasks /\ SameTask(j))
    BY <2>2, <2>3, CleanedFacts DEF SameTask
  <2>6. DOMAIN people \subseteq DOMAIN people'
        /\ \A x \in DOMAIN people : <<"people", x>> = e.of \/ people'[x] = people[x]
    BY <1>3
  <2> QED
    BY <1>4, <2>1, <2>4, <2>5, <2>6, MoreLog
<1> QED
  BY <1>5, <1>6, <1>7, <1>8, <1>9

(* A client patches a task. *)
LEMMA MutateTaskStep ==
  ASSUME SInv, main = <<>>, inbox # <<>>, inbox' = Tail(inbox), MutateTask(Head(inbox))
  PROVE  SInv'
<1> USE DEF SInv
<1>1. PICK m : m = Head(inbox)
  OBVIOUS
<1>2. PICK i, e : i = m.req.id /\ e = Told(tasks', m.req.id)
  OBVIOUS
<1>3. /\ m.type = "event" /\ m.req.kind = "patch task" /\ PatchTask(m.req)
      /\ Emits(e, m.conn, m.nr) /\ i \in DOMAIN tasks
      /\ UNCHANGED <<conn, channel, hand, sessions, heard, answers, sent, people, dead, joined>>
  BY <1>1, <1>2 DEF MutateTask, PatchTask
<1>4. /\ main' # <<>> /\ Len(main') = 1
      /\ main'[1].event = e /\ main'[1].conn = m.conn /\ main'[1].nr = m.nr
      /\ log' = Append(log, e)
  BY <1>3, EmitsFacts
<1>5. TInv' /\ NewTask' = NewTask
  <2>1. m \in Message /\ m.req \in Requests
    BY <1>1, <1>3, TakenEvent DEF Message
  <2>2. m.req.at \in Nat
    BY <1>3, <2>1, ServerAssumption
  <2> QED
    BY <1>2, <1>3, <2>2, PatchStep
<1>6. MailOK' /\ SessionsOK' /\ OrderOK' /\ \A n : Waiting(n)' <=> Waiting(n)
  BY <1>1, <1>3, <1>4, <1>5, EventTaken
<1>7. AnswersOK'
  <2>1. answers' \in [Conns -> Seq(Nat)]
    BY <1>3 DEF AnswersOK
  <2> QED
    BY <1>3, <1>6, <2>1, NoAnswer
<1>8. HeardOK'
  <2>1. \A c \in Conns : Alive(c)' <=> Alive(c)
    BY <1>3 DEF Alive
  <2> QED
    BY <1>3, <1>4, <2>1, MoreHeard
<1>9. LogTells'
  <2>1. PICK S : log \in Seq(S)
    BY DEF HeardOK, EventsTyped
  <2>2. DOMAIN tasks' = DOMAIN tasks /\ \A j \in DOMAIN tasks : j # i => tasks'[j] = tasks[j]
    BY <1>2, <1>3 DEF PatchTask
  <2>3. /\ e.of = <<"actions", i>> /\ e.of = Key(i) /\ e.of[1] = "actions" /\ e.of[2] = i
        /\ e.data = Told(tasks', i).data
    BY <1>2 DEF Told, Key
  <2>4. IsOf(e, people') /\ e.data = StateIn(e.of, people', tasks')
    BY <2>3 DEF IsOf, StateIn
  <2>5. \A j \in DOMAIN tasks' : Key(j) = e.of \/ (j \in DOMAIN tasks /\ SameTask(j))
    BY <2>2, <2>3 DEF SameTask
  <2>6. DOMAIN people \subseteq DOMAIN people'
        /\ \A x \in DOMAIN people : <<"people", x>> = e.of \/ people'[x] = people[x]
    BY <1>3
  <2> QED
    BY <1>4, <2>1, <2>4, <2>5, <2>6, MoreLog
<1> QED
  BY <1>5, <1>6, <1>7, <1>8, <1>9

(* A request that fails, or only reads, is answered at once. *)
LEMMA AnswerStep ==
  ASSUME SInv, main = <<>>, inbox # <<>>, inbox' = Tail(inbox),
         ActInVain(Head(inbox)) \/ Refuse(Head(inbox))
  PROVE  SInv'
<1> USE DEF SInv
<1>1. PICK m : m = Head(inbox)
  OBVIOUS
<1>2. /\ m.type = "event" /\ Acked(m.conn, m.nr)
      /\ UNCHANGED <<conn, main, channel, hand, sessions, heard, sent, people, dead, log, joined, now, process, meddled>>
      /\ tasks' = Cleaned \/ tasks' = tasks
  BY <1>1 DEF ActInVain, Refuse, taskVars
<1>3. NewTask' = NewTask
  BY <1>2 DEF NewTask
<1>4. TInv' /\ LogTells'
  <2>1. CASE tasks' = tasks
    BY <1>2, <2>1, SameTasks DEF taskVars
  <2>2. CASE tasks' = Cleaned
    <3>1. DOMAIN tasks' \subseteq DOMAIN tasks /\ \A i \in DOMAIN tasks' : SameTask(i)
      BY <2>2, CleanedFacts DEF SameTask
    <3> QED
      BY <1>2, <2>2, <3>1, ForgetStep, SameLog
  <2> QED
    BY <1>2, <2>1, <2>2
<1>5. MailOK' /\ SessionsOK' /\ OrderOK' /\ \A n : Waiting(n)' <=> (Waiting(n) /\ n # m.nr)
  BY <1>1, <1>2, <1>3, EventTaken
<1>6. AnswersOK'
  <2>1. m.conn \in Conns /\ m.nr \in Nat /\ m.nr \in DOMAIN sent /\ sent[m.nr] = m.conn /\ Waiting(m.nr)
    BY <1>1, <1>2, TakenEvent
  <2> QED
    BY <1>2, <1>5, <2>1, Answer
<1>7. HeardOK'
  BY <1>2, HeardStays DEF Alive
<1> QED
  BY <1>4, <1>5, <1>6, <1>7

(* The commutator ends. *)
LEMMA PanicStep ==
  ASSUME SInv, main = <<>>, inbox # <<>>, inbox' = <<>>, Panic(Head(inbox))
  PROVE  SInv'
<1> USE DEF SInv
<1>1. /\ dead' = TRUE
      /\ UNCHANGED <<conn, main, channel, hand, sessions, heard, answers, sent, people, log, joined, taskVars>>
  BY DEF Panic
<1>2. TInv' /\ NewTask' = NewTask /\ LogTells'
  BY <1>1, SameTasks
<1>3. MailOK'
  BY <1>1, EmptySeq DEF MailOK
<1>4. SessionsOK'
  BY <1>1, TakeSessions
<1>5. OrderOK'
  BY <1>1, <1>2 DEF OrderOK
<1>6. AnswersOK'
  BY <1>1 DEF AnswersOK
<1>7. HeardOK'
  BY <1>1, HeardStays DEF Alive
<1> QED
  BY <1>2, <1>3, <1>4, <1>5, <1>6, <1>7

(* An event goes into the channel; whoever asked for it is answered. *)
LEMMA EmitStep ==
  ASSUME SInv, Emit PROVE SInv'
<1> USE DEF SInv
<1>1. /\ main # <<>> /\ Len(channel) < 1 /\ channel' = Append(channel, main[1].event)
      /\ Acked(main[1].conn, main[1].nr) /\ main' = <<>>
      /\ UNCHANGED <<conn, inbox, hand, sessions, heard, sent, people, dead, log, joined, taskVars>>
  BY DEF Emit
<1>2. TInv' /\ NewTask' = NewTask /\ LogTells'
  BY <1>1, SameTasks
<1>3. MailOK'
  BY <1>1 DEF MailOK
<1>4. SessionsOK'
  BY <1>1 DEF SessionsOK
<1>5. /\ OrderOK'
      /\ main[1].conn = Nobody => \A n : Waiting(n)' <=> Waiting(n)
      /\ main[1].conn # Nobody => \A n : Waiting(n)' <=> (Waiting(n) /\ n # main[1].nr)
  BY <1>1, <1>2, MainOrder
<1>6. AnswersOK'
  <2>1. CASE main[1].conn = Nobody
    <3>1. ~Alive(main[1].conn)
      BY <2>1, ConnFacts DEF Alive, SessionsOK
    <3>2. answers' = answers /\ answers' \in [Conns -> Seq(Nat)]
      BY <1>1, <3>1 DEF Acked, AnswersOK
    <3> QED
      BY <1>1, <1>5, <2>1, <3>2, NoAnswer
  <2>2. CASE main[1].conn # Nobody
    <3>1. PICK c \in Conns, nr \in Nat : c = main[1].conn /\ nr = main[1].nr
      BY <1>1, <2>2 DEF MailOK
    <3>2. nr \in DOMAIN sent /\ sent[nr] = c
      BY <1>1, <2>2, <3>1 DEF OrderOK
    <3>3. Waiting(nr)
      BY <1>1, <2>2, <3>1 DEF Waiting
    <3> QED
      BY <1>1, <1>5, <2>2, <3>1, <3>2, <3>3, Answer
  <2> QED
    BY <2>1, <2>2
<1>7. HeardOK'
  <2>1. /\ Coming' = Coming /\ Len(channel') <= 1 /\ Len(hand') <= 1
        /\ \A S : EventsTyped(S) => EventsTyped(S)'
    BY <1>1, MovesComing
  <2>2. \A c \in Conns : IF Alive(c)' THEN Alive(c) /\ heard'[c] = heard[c] ELSE heard'[c] = <<>>
    BY <1>1 DEF Alive, HeardOK
  <2> QED
    BY <1>1, <2>1, <2>2, SameHeard
<1> QED
  BY <1>2, <1>3, <1>4, <1>5, <1>6, <1>7

(* A stretch of a process: its task changes, if it is not forgotten, and   *)
(* the event tells.                                                        *)
LEMMA StretchStep ==
  ASSUME SInv, NEW i \in Tasks, Stretch(i) PROVE SInv'
<1> USE DEF SInv
<1>1. /\ main = <<>> /\ (Ask(i) \/ \E o \in Outcomes : Complete(i, o))
      /\ UNCHANGED <<conn, inbox, channel, hand, sessions, heard, answers, sent, people, dead, joined>>
      /\ IF i \in DOMAIN tasks THEN Emits(Told(tasks', i), Nobody, 0) ELSE UNCHANGED <<main, log>>
  BY DEF Stretch
<1>2. TInv' /\ NewTask' = NewTask
  BY <1>1, AskStep, CompleteStep
<1>3. /\ DOMAIN tasks' = DOMAIN tasks
      /\ \A j \in DOMAIN tasks : j # i => tasks'[j] = tasks[j]
  BY <1>1 DEF Ask, Complete, Patched
<1>4. main' = main \/ (main' # <<>> /\ Len(main') = 1 /\ main'[1].conn = Nobody)
  BY <1>1, EmitsFacts
<1>5. MailOK'
  BY <1>1, <1>4 DEF MailOK
<1>6. SessionsOK'
  BY <1>1 DEF SessionsOK
<1>7. OrderOK' /\ \A n : Waiting(n)' <=> Waiting(n)
  <2>1. OrderOK' /\ (main' # <<>> => \A n : Waiting(n)' <=> Waiting(n))
    BY <1>1, <1>2, <1>4, MainOrder
  <2>2. main' = main => \A n : Waiting(n)' <=> Waiting(n)
    BY <1>1 DEF Waiting
  <2> QED
    BY <1>1, <1>4, <2>1, <2>2
<1>8. AnswersOK'
  <2>1. answers' \in [Conns -> Seq(Nat)]
    BY <1>1 DEF AnswersOK
  <2> QED
    BY <1>1, <1>7, <2>1, NoAnswer
<1>9. \A c \in Conns : Alive(c)' <=> Alive(c)
  BY <1>1 DEF Alive
<1>10. CASE i \in DOMAIN tasks
  <2>1. PICK e : e = Told(tasks', i)
    OBVIOUS
  <2>2. Emits(e, Nobody, 0)
    BY <1>1, <1>10, <2>1
  <2>3. main' # <<>> /\ main'[1].event = e /\ log' = Append(log, e)
    BY <2>2, EmitsFacts
  <2>4. HeardOK'
    BY <1>1, <1>9, <2>3, MoreHeard
  <2>5. PICK S : log \in Seq(S)
    BY DEF HeardOK, EventsTyped
  <2>6. /\ e.of = <<"actions", i>> /\ e.of = Key(i) /\ e.of[1] = "actions" /\ e.of[2] = i
        /\ e.data = Told(tasks', i).data
    BY <2>1 DEF Told, Key
  <2>7. IsOf(e, people') /\ e.data = StateIn(e.of, people', tasks')
    BY <2>6 DEF IsOf, StateIn
  <2>8. \A j \in DOMAIN tasks' : Key(j) = e.of \/ (j \in DOMAIN tasks /\ SameTask(j))
    BY <1>3, <2>6 DEF SameTask
  <2>9. DOMAIN people \subseteq DOMAIN people'
        /\ \A x \in DOMAIN people : <<"people", x>> = e.of \/ people'[x] = people[x]
    BY <1>1
  <2>10. LogTells'
    BY <2>3, <2>5, <2>7, <2>8, <2>9, MoreLog
  <2> QED
    BY <1>2, <1>5, <1>6, <1>7, <1>8, <2>4, <2>10
<1>11. CASE i \notin DOMAIN tasks
  <2>1. HeardOK'
    BY <1>1, <1>9, <1>11, HeardStays
  <2>2. \A j \in DOMAIN tasks' : SameTask(j)
    BY <1>3, <1>11 DEF SameTask
  <2>3. LogTells'
    BY <1>1, <1>3, <1>11, <2>2, SameLog
  <2> QED
    BY <1>2, <1>5, <1>6, <1>7, <1>8, <2>1, <2>3
<1> QED
  BY <1>10, <1>11

(***************************************************************************)
(* The dispatcher, and time.                                               *)
(***************************************************************************)

(* Who only moves events, or nothing, leaves requests alone. *)
LEMMA RequestsStay ==
  ASSUME SInv, UNCHANGED <<conn, inbox, main, sessions, answers, sent, dead>>, NewTask' = NewTask
  PROVE  MailOK' /\ SessionsOK' /\ OrderOK' /\ AnswersOK'
<1> USE DEF SInv
<1>1. MailOK' /\ SessionsOK'
  BY DEF MailOK, SessionsOK
<1>2. OrderOK' /\ \A n : Waiting(n)' <=> Waiting(n)
  BY DEF OrderOK, Waiting
<1>3. answers' \in [Conns -> Seq(Nat)]
  BY DEF AnswersOK
<1> QED
  BY <1>1, <1>2, <1>3, NoAnswer

LEMMA ReceiveStep ==
  ASSUME SInv, Receive PROVE SInv'
<1> USE DEF SInv
<1>1. /\ hand = <<>> /\ channel # <<>> /\ hand' = <<Head(channel)>> /\ channel' = Tail(channel)
      /\ UNCHANGED <<conn, inbox, main, sessions, heard, answers, sent, people, dead, log, joined, taskVars>>
  BY DEF Receive
<1>2. TInv' /\ NewTask' = NewTask /\ LogTells'
  BY <1>1, SameTasks
<1>3. MailOK' /\ SessionsOK' /\ OrderOK' /\ AnswersOK'
  BY <1>1, <1>2, RequestsStay
<1>4. HeardOK'
  <2>1. /\ Coming' = Coming /\ Len(channel') <= 1 /\ Len(hand') <= 1
        /\ \A S : EventsTyped(S) => EventsTyped(S)'
    BY <1>1, MovesComing
  <2>2. \A c \in Conns : IF Alive(c)' THEN Alive(c) /\ heard'[c] = heard[c] ELSE heard'[c] = <<>>
    BY <1>1 DEF Alive, HeardOK
  <2> QED
    BY <1>1, <2>1, <2>2, SameHeard
<1> QED
  BY <1>2, <1>3, <1>4

LEMMA EventToAllStep ==
  ASSUME SInv, EventToAll PROVE SInv'
<1> USE DEF SInv
<1>1. UNCHANGED <<conn, inbox, main, channel, sessions, answers, sent, people, dead, log, joined, taskVars>>
  BY DEF EventToAll
<1>2. TInv' /\ NewTask' = NewTask /\ LogTells'
  BY <1>1, SameTasks
<1>3. MailOK' /\ SessionsOK' /\ OrderOK' /\ AnswersOK'
  BY <1>1, <1>2, RequestsStay
<1>4. HeardOK'
  BY AllHear
<1> QED
  BY <1>2, <1>3, <1>4

(* Time goes by, or nothing happens. *)
LEMMA IdleStep ==
  ASSUME SInv, UNCHANGED wsVars, Tick \/ UNCHANGED taskVars PROVE SInv'
<1> USE DEF SInv
<1>1. UNCHANGED <<conn, inbox, main, channel, hand, sessions, heard, answers, sent, people, dead, log, joined>>
  BY DEF wsVars
<1>2. TInv' /\ NewTask' = NewTask
  BY TickStep, SameTasks
<1>3. LogTells'
  <2>1. tasks' = tasks
    BY DEF Tick, taskVars
  <2> QED
    BY <1>1, <2>1 DEF LogTells
<1>4. MailOK' /\ SessionsOK' /\ OrderOK' /\ AnswersOK'
  BY <1>1, <1>2, RequestsStay
<1>5. HeardOK'
  BY <1>1, HeardStays DEF Alive
<1> QED
  BY <1>2, <1>3, <1>4, <1>5

(***************************************************************************)
(* The invariant holds in the beginning and after every step.              *)
(***************************************************************************)

LEMMA InitSInv == Init => SInv
<1> SUFFICES ASSUME Init PROVE SInv
  OBVIOUS
<1> USE DEF Init
<1>1. TInv
  BY TasksBegin
<1>2. MailOK
  BY EmptySeq, ConnFacts DEF MailOK
<1>3. SessionsOK
  BY DEF SessionsOK, Steps
<1>4. OrderOK
  <2>1. Used = 1 .. 0
    BY DEF TasksInit, Used
  <2>2. NewTask = 0 + 1
    BY <2>1, NextTask
  <2> QED
    BY <2>2 DEF OrderOK
<1>5. AnswersOK
  BY EmptySeq DEF AnswersOK, IsInjective, Range
<1>6. HeardOK
  <2>1. EventsTyped({})
    BY EmptySeq DEF EventsTyped
  <2>2. Coming = <<>>
    BY DEF Coming
  <2>3. SubSeq(log, 0 + 1, Len(log)) = <<>>
    BY SubSeqEmpty
  <2>4. \A c \in Conns : ~Alive(c)
    BY DEF Alive
  <2> QED
    BY <2>1, <2>2, <2>3, <2>4 DEF HeardOK
<1>7. LogTells
  BY DEF LogTells
<1> QED
  BY <1>1, <1>2, <1>3, <1>4, <1>5, <1>6, <1>7 DEF SInv

LEMMA NextSInv == SInv /\ [Next]_vars => SInv'
<1> SUFFICES ASSUME SInv, [Next]_vars PROVE SInv'
  OBVIOUS
<1>1. ASSUME NEW c \in Conns, Start(c) \/ Close(c) \/ TimeOut(c) \/ \E req \in Requests : Send(c, req)
      PROVE  SInv'
  BY <1>1, StartStep, LeaveStep, SendStep
<1>2. CASE Handle
  <2>1. main = <<>> /\ inbox # <<>>
    BY <1>2 DEF Handle
  <2>2. CASE Panic(Head(inbox)) /\ inbox' = <<>>
    BY <2>1, <2>2, PanicStep
  <2>3. CASE inbox' = Tail(inbox) /\ (Connect(Head(inbox)) \/ Disconnect(Head(inbox)))
    BY <2>1, <2>3, ConnectStep, DisconnectStep
  <2>4. CASE inbox' = Tail(inbox) /\ (Mutate(Head(inbox)) \/ Act(Head(inbox)))
    BY <2>1, <2>4, MutateStep, ActStep
  <2>5. CASE inbox' = Tail(inbox) /\ (ActInVain(Head(inbox)) \/ Refuse(Head(inbox)))
    BY <2>1, <2>5, AnswerStep
  <2>6. CASE inbox' = Tail(inbox) /\ MutateTask(Head(inbox))
    BY <2>1, <2>6, MutateTaskStep
  <2> QED
    BY <1>2, <2>2, <2>3, <2>4, <2>5, <2>6 DEF Handle
<1>3. CASE Emit
  BY <1>3, EmitStep
<1>4. ASSUME NEW i \in Tasks, Stretch(i) PROVE SInv'
  BY <1>4, StretchStep
<1>5. CASE DispatcherStep
  BY <1>5, ReceiveStep, EventToAllStep DEF DispatcherStep
<1>6. CASE Tick /\ UNCHANGED wsVars
  BY <1>6, IdleStep
<1>7. CASE UNCHANGED vars
  BY <1>7, IdleStep DEF vars
<1> QED
  BY <1>1, <1>2, <1>3, <1>4, <1>5, <1>6, <1>7 DEF Next, MainStep

(* The inductive invariant holds in every state. *)
LEMMA Invariant == Spec => []SInv
  BY InitSInv, NextSInv, PTL DEF Spec

(***************************************************************************)
(* What it says.                                                           *)
(***************************************************************************)

LEMMA SInvTypes == SInv => TypeOK
<1> SUFFICES ASSUME SInv PROVE TypeOK
  OBVIOUS
<1>1. TasksOK /\ MailOK /\ SessionsOK /\ HeardOK
  BY DEF SInv, TInv
<1>2. conn \in [Conns -> {"new", "starting", "open", "closed"}]
  BY <1>1 DEF SessionsOK, Steps
<1>3. \A c \in Conns : joined[c] <= Len(log) /\ (Alive(c) => conn[c] # "new")
  BY <1>1 DEF SessionsOK, HeardOK, Alive
<1>4. main # <<>> => main[1].event = Last(log)
  BY <1>1 DEF HeardOK, Last
<1> QED
  BY <1>1, <1>2, <1>3, <1>4 DEF TypeOK, MailOK, HeardOK

LEMMA SInvFollows == SInv => ClientsFollow
<1> SUFFICES ASSUME SInv, NEW c \in Conns, Alive(c), NEW all, all = heard[c] \o Coming
             PROVE  /\ \E k \in 0 .. joined[c] : all = SubSeq(log, k + 1, Len(log))
                    /\ \A i \in DOMAIN all :
                         \/ \E j \in i + 1 .. Len(all) : all[j].of = all[i].of
                         \/ all[i].of[1] = "actions" /\ all[i].of[2] \notin DOMAIN tasks
                         \/ all[i].data = State(all[i].of)
  BY DEF ClientsFollow
<1>1. HeardOK /\ LogTells
  BY DEF SInv
<1>2. PICK k \in 0 .. joined[c] : all = SubSeq(log, k + 1, Len(log))
  BY <1>1 DEF HeardOK
<1>3. PICK S : EventsTyped(S)
  BY <1>1, SomeEvents
<1>4. log \in Seq(S) /\ Len(log) \in Nat /\ joined[c] \in Nat /\ joined[c] <= Len(log)
  BY <1>1, <1>3, TypedEvents DEF HeardOK
<1>5. k \in Nat /\ k <= Len(log)
  BY <1>4
<1>6. /\ all \in Seq(S) /\ Len(all) = Len(log) - k /\ Len(all) \in Nat
      /\ \A i \in 1 .. Len(all) : all[i] = log[k + i]
  BY <1>2, <1>4, <1>5, SubSeqProperties
<1>7. ASSUME NEW i \in DOMAIN all
      PROVE  \/ \E j \in i + 1 .. Len(all) : all[j].of = all[i].of
             \/ all[i].of[1] = "actions" /\ all[i].of[2] \notin DOMAIN tasks
             \/ all[i].data = State(all[i].of)
  <2>1. i \in 1 .. Len(all) /\ all[i] = log[k + i] /\ k + i \in DOMAIN log
    <3>1. DOMAIN all = 1 .. Len(all) /\ DOMAIN log = 1 .. Len(log)
      BY <1>4, <1>6, LenProperties
    <3>2. i \in 1 .. Len(all) /\ all[i] = log[k + i]
      BY <1>6, <3>1
    <3>3. k + i \in 1 .. Len(log)
      <4>1. PICK n \in Nat, l \in Nat : n = Len(all) /\ l = Len(log) /\ n = l - k
        BY <1>4, <1>6
      <4>2. i \in 1 .. n
        BY <3>2, <4>1
      <4>3. k + i \in 1 .. l
        BY <1>5, <4>1, <4>2
      <4> QED
        BY <4>1, <4>3
    <3> QED
      BY <3>1, <3>2, <3>3
  <2>2. CASE \E j \in DOMAIN log : j > k + i /\ log[j].of = log[k + i].of
    <3>1. PICK j \in DOMAIN log : j > k + i /\ log[j].of = log[k + i].of
      BY <2>2
    <3>2. j - k \in i + 1 .. Len(all) /\ j - k \in 1 .. Len(all) /\ k + (j - k) = j
      BY <1>4, <1>5, <1>6, <2>1, <3>1
    <3>3. all[j - k] = log[j]
      BY <1>6, <3>2
    <3> QED
      BY <2>1, <3>1, <3>2, <3>3
  <2>3. CASE log[k + i].of[1] = "actions" /\ log[k + i].of[2] \notin DOMAIN tasks
    BY <2>1, <2>3
  <2>4. CASE log[k + i].data = StateIn(log[k + i].of, people, tasks)
    BY <2>1, <2>4 DEF StateIn, State
  <2> QED
    BY <1>1, <2>1, <2>2, <2>3, <2>4 DEF LogTells
<1> QED
  BY <1>2, <1>7

LEMMA SInvAnswered == SInv => AnsweredOnce
<1> SUFFICES ASSUME SInv, NEW c \in Conns, conn[c] = "open", ~dead
             PROVE  /\ IsInjective(answers[c])
                    /\ Range(answers[c]) \cap Unanswered(c) = {}
                    /\ Range(answers[c]) \cup Unanswered(c) = {n \in DOMAIN sent : sent[n] = c}
  BY DEF AnsweredOnce
<1>1. MailOK /\ OrderOK /\ AnswersOK
  BY DEF SInv
<1>2. /\ IsInjective(answers[c]) /\ answers[c] \in Seq(Nat)
      /\ \A n \in Nat :
           /\ n \in Range(answers[c]) => n \in DOMAIN sent /\ sent[n] = c /\ ~Waiting(n)
           /\ n \in DOMAIN sent /\ sent[n] = c => n \in Range(answers[c]) \/ Waiting(n)
  BY <1>1 DEF AnswersOK
<1>3. Range(answers[c]) \subseteq Nat /\ DOMAIN sent \subseteq Nat
  BY <1>1, <1>2 DEF Range, MailOK
<1>4. \A n : n \in Unanswered(c) <=>
        \/ \E i \in DOMAIN inbox : inbox[i].type = "event" /\ inbox[i].conn = c /\ inbox[i].nr = n
        \/ main # <<>> /\ main[1].conn = c /\ main[1].nr = n
  BY DEF Unanswered
<1>5. c # Nobody
  BY ConnFacts
<1>6. \A n : n \in Unanswered(c) => Waiting(n) /\ n \in DOMAIN sent /\ sent[n] = c
  BY <1>1, <1>4, <1>5 DEF Waiting, OrderOK
<1>7. \A n : Waiting(n) /\ sent[n] = c => n \in Unanswered(c)
  BY <1>1, <1>4 DEF Waiting, OrderOK
<1>8. Range(answers[c]) \cap Unanswered(c) = {}
  BY <1>2, <1>3, <1>6
<1>9. \A n : n \in Range(answers[c]) \cup Unanswered(c) <=> n \in DOMAIN sent /\ sent[n] = c
  BY <1>2, <1>3, <1>6, <1>7
<1> QED
  BY <1>2, <1>8, <1>9

LEMMA SInvKept == SInv => AnswersAreKept
<1> SUFFICES ASSUME SInv, NEW i \in Tasks \ meddled, process[i].phase = "answered"
             PROVE  \/ now - process[i].at > Keep["completed"]
                    \/ /\ i \in DOMAIN tasks
                       /\ tasks[i].stage = "completed"
                       /\ tasks[i].result = IF process[i].outcome = "no json" THEN "none" ELSE "result"
  BY DEF AnswersAreKept
<1>1. TInv
  BY DEF SInv
<1>2. now \in Nat /\ process[i].at \in Nat /\ Keep["completed"] \in Nat
  BY <1>1, KeepFacts DEF TInv, TasksOK, Process
<1>3. InTime(process[i].at, "completed") \/ now - process[i].at > Keep["completed"]
  BY <1>2 DEF InTime
<1> QED
  BY <1>1, <1>3 DEF TInv, TasksAnswer, ResultOf

(***************************************************************************)
(* The theorems.                                                           *)
(***************************************************************************)

(* Mailbox, channel, connections, sessions and tasks are always of their   *)
(* kinds, and nothing is sent to a commutator that has panicked.           *)
THEOREM ServerTypes == Spec => []TypeOK
  BY Invariant, SInvTypes, PTL

(* Whoever becomes a session hears of every mutation from then on, once    *)
(* and in order, and in the end has each record as it is.                  *)
THEOREM ClientsFollowAlways == Spec => []ClientsFollow
  BY Invariant, SInvFollows, PTL

(* As long as the commutator lives every request of a client that is there *)
(* waits or is answered, and is answered once.                             *)
THEOREM RequestsAnsweredOnce == Spec => []AnsweredOnce
  BY Invariant, SInvAnswered, PTL

(* An answer of a device that comes in time can be fetched for as long as  *)
(* a completed task is kept, unless a client has patched the task itself.  *)
THEOREM AnswersKept == Spec => []AnswersAreKept
  BY Invariant, SInvKept, PTL

=============================================================================
