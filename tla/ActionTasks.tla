---------------------------- MODULE ActionTasks ----------------------------
(***************************************************************************)
(* Camera actions.  A client has a task created; a task is carried out by  *)
(* a process, which marks it requested, asks the device over HTTP, without *)
(* a timeout, and marks it completed with the answer.  Nobody removes a    *)
(* task but the next creation, which forgets those that have been too long *)
(* in their stage.  Everything here runs on the main thread; Server says   *)
(* when.                                                                   *)
(***************************************************************************)
EXTENDS Integers, FiniteSets, Functions

CONSTANTS
  MaxTasks, \* bound on the tasks ever created
  Keep,     \* Keep[stage]: how long a task may be in a stage
  MaxNow    \* bound on the time

Stages   == {"created", "requested", "completed"}
Outcomes == {"result", "no json"}          \* data or errors, or what is no JSON
Tasks    == 1 .. MaxTasks                  \* numbered as they come

ASSUME TasksAssumption ==
  MaxTasks \in Nat /\ Keep \in [Stages -> Nat] /\ MaxNow \in Nat

VARIABLES
  now,     \* the time
  tasks,   \* the tasks there are: [stage, at, result] each
  process, \* process[i]: the phase and, once known, times and outcome
  meddled  \* history: tasks that a client has patched itself

taskVars == <<now, tasks, process, meddled>>

TasksInit ==
  /\ now = 0
  /\ tasks = <<>>
  /\ process = [i \in Tasks |-> [phase |-> "none"]]
  /\ meddled = {}

Kept(task) == now - task.at <= Keep[task.stage]

(* cleanup, at the beginning of every creation. *)
Cleaned == Restrict(tasks, {i \in DOMAIN tasks : Kept(tasks[i])})

(* A function that has the value v for k. *)
With(f, k, v) == [x \in DOMAIN f \cup {k} |-> IF x = k THEN v ELSE f[x]]

(* The id of the next task: one that was never used. *)
NewTask == Cardinality({i \in Tasks : process[i].phase # "none"}) + 1

(* CommandMeta::new. *)
Created == [stage |-> "created", at |-> now, result |-> "none"]

CreateTask ==
  /\ tasks' = With(Cleaned, NewTask, Created)
  /\ process' = [process EXCEPT ![NewTask] = [phase |-> "spawned"]]
  /\ UNCHANGED <<now, meddled>>

(* Mutant: the time of the first stage is the time of all. *)
Patched_SameTime(i, stage, answer) ==
  [tasks EXCEPT ![i] =
    [stage |-> stage, at |-> @.at,
     result |-> IF answer = "result" THEN answer ELSE @.result]]

(* A patch of a stage and perhaps a result.  An answer that is no JSON is  *)
(* sent as "body", which a patch ignores.                                  *)
Patched(i, stage, answer) ==
  [tasks EXCEPT ![i] =
    [stage |-> stage, at |-> now,
     result |-> IF answer = "result" THEN answer ELSE @.result]]

(* HttpClient::process up to the request.  If the task is forgotten before *)
(* its process begins nothing is asked.                                    *)
Ask(i) ==
  /\ process[i].phase = "spawned"
  /\ IF i \in DOMAIN tasks
     THEN /\ tasks' = Patched(i, "requested", "none")
          /\ process' = [process EXCEPT ![i] = [phase |-> "asking", asked |-> now]]
     ELSE /\ process' = [process EXCEPT ![i] = [phase |-> "ended"]]
          /\ UNCHANGED tasks
  /\ UNCHANGED <<now, meddled>>

(* HttpClient::process after the request: the device has answered, or it   *)
(* cannot be reached.  Nothing says that it ever comes to this: the device *)
(* may be silent for ever, the answer may break off, or there is no        *)
(* picture to send, and the process panics; then the task stays as it is.  *)
(* The process is "answered" in history if that was in time.               *)
Complete(i, outcome) ==
  /\ process[i].phase = "asking"
  /\ process' = [process EXCEPT ![i] =
       IF now - @.asked <= Keep["requested"]
       THEN [phase |-> "answered", at |-> now, outcome |-> outcome]
       ELSE [phase |-> "ended"]]
  /\ tasks' = IF i \in DOMAIN tasks THEN Patched(i, "completed", outcome) ELSE tasks
  /\ UNCHANGED <<now, meddled>>

(* A client patches a task: a stage with a time of its choice, if it says  *)
(* one, and a result, if it says one.  Those of processes are patches of   *)
(* this kind, sent to the same service.                                    *)
PatchTask(req) ==
  /\ req.id \in DOMAIN tasks
  /\ tasks' = [tasks EXCEPT ![req.id] =
       [stage  |-> IF req.stage \in Stages THEN req.stage ELSE @.stage,
        at     |-> IF req.stage \in Stages THEN req.at ELSE @.at,
        result |-> IF req.answer = "result" THEN req.answer ELSE @.result]]
  /\ meddled' = meddled \cup {req.id}
  /\ UNCHANGED <<now, process>>

(* Time matters only while there are tasks. *)
Tick == DOMAIN tasks # {} /\ now < MaxNow /\ now' = now + 1 /\ UNCHANGED <<tasks, process, meddled>>

TasksOK ==
  /\ now \in 0 .. MaxNow
  /\ DOMAIN tasks \subseteq Tasks
  /\ \A i \in DOMAIN tasks :
       /\ tasks[i].stage \in Stages /\ tasks[i].at \in Nat
       /\ tasks[i].result \in {"none", "result"}
       /\ process[i].phase # "none"
  /\ meddled \subseteq Tasks

(* An answer that comes within the time a requested task is kept can be    *)
(* fetched for as long as a completed one is: no creation of another task, *)
(* and no delay of the main thread, forgets it earlier; only a client that *)
(* patches the task itself can.                                            *)
AnswersAreKept ==
  \A i \in Tasks \ meddled :
    process[i].phase = "answered" =>
      \/ now - process[i].at > Keep["completed"]
      \/ /\ i \in DOMAIN tasks
         /\ tasks[i].stage = "completed"
         /\ tasks[i].result = IF process[i].outcome = "no json" THEN "none" ELSE "result"
=============================================================================
