-------------------------- MODULE CameraLifecycle --------------------------
(***************************************************************************)
(* One camera: the Cameras service that switches it on and off, the task   *)
(* in the background that reads the events of the device, and the file the *)
(* camera is kept in.                                                      *)
(*                                                                         *)
(* Every change of a camera is a patch: a user's, or one of the task, which *)
(* reports its status.  A patch holds the lock of all cameras from start   *)
(* to end, and the lock of the camera (config) while it changes and saves  *)
(* it; the task takes only the latter, to look at the phase or change it.  *)
(* The phase moves by compare-and-exchange, from one phase to the next.    *)
(* A patch that finds the camera off starts a task if it leaves it         *)
(* switching on.                                                           *)
(*                                                                         *)
(* Not modelled: names, addresses and passwords, which the task copies     *)
(* when it connects; the status shown, which no decision depends on; time, *)
(* so that a wait may end at any moment.                                   *)
(***************************************************************************)
EXTENDS Naturals, FiniteSets

CONSTANTS
  Tasks,        \* names for tasks; two, as there should never be a second
  Nobody,       \* no holder of the lock of all cameras
  User,         \* the holder is a request
  SavesFail,    \* whether writing the file may fail
  Unexpected,   \* whether the device sends what the events service refuses
  MaxPatches,   \* bound on the number of users' patches
  MaxRestarts   \* bound on the number of restarts

ASSUME CameraAssumption ==
  /\ Nobody \notin Tasks /\ User \notin Tasks /\ Nobody # User
  /\ SavesFail \in BOOLEAN /\ Unexpected \in BOOLEAN
  /\ MaxPatches \in Nat /\ MaxRestarts \in Nat

Disabled  == 0
Enabling  == 1
Enabled   == 2
Disabling == 3
Phases    == {Disabled, Enabling, Enabled, Disabling}

NoFile == 4   \* the camera was never saved
Torn   == 5   \* its file was truncated and not written

VARIABLES
  known,     \* the running process has the camera in its list
  phase,     \* State::phase
  file,      \* the phase in the camera's file, NoFile or Torn
  patch,     \* the patch that holds the lock of all cameras
  task,      \* task[t]: where task t is
  unsaved,   \* history: the last save of the camera failed
  orphaned,  \* history: the camera was switched on and has no task
  late,      \* history: events recorded since the camera was switched off
  patches,   \* history: number of users' patches, for the bound
  restarts   \* history: number of restarts, for the bound

vars == <<known, phase, file, patch, task, unsaved, orphaned, late, patches, restarts>>

Idle == [by |-> Nobody, at |-> "none", wasOn |-> FALSE]

(* A report is a patch; what the task does when it is over. *)
AfterReport == [ announcing |-> "dialing",    \* connecting
                 greeting   |-> "listening",  \* connected
                 storing    |-> "recording",  \* last event
                 failing    |-> "backoff",    \* error
                 parting    |-> "ending" ]    \* disconnect

Reporting == DOMAIN AfterReport

TaskSteps == Reporting \cup
  {"none", "spawned", "backoff", "dialing", "listening", "reading", "quiet",
   "recording", "ending"}

Init ==
  /\ known = FALSE
  /\ phase = Disabled
  /\ file = NoFile
  /\ patch = Idle
  /\ task = [t \in Tasks |-> "none"]
  /\ unsaved = FALSE
  /\ orphaned = FALSE
  /\ late = 0
  /\ patches = 0
  /\ restarts = 0

IsOn(p) == p \in {Enabling, Enabled}

(* Nobody holds the lock of the camera. *)
Unlocked == patch.at \notin {"saving", "writing"}

(***************************************************************************)
(* The service.                                                            *)
(***************************************************************************)

(* Cameras::create: a camera starts switched off. *)
Create ==
  /\ ~known /\ file = NoFile
  /\ known' = TRUE
  /\ phase' = Disabled
  /\ file' = Disabled
  /\ UNCHANGED <<patch, task, unsaved, orphaned, late, patches, restarts>>

(* Mutant: switching on takes back a switching off. *)
Switched_FromAny(p, wish) ==
  CASE wish = "enable"  -> IF p \in {Disabled, Disabling} THEN Enabling ELSE p
    [] wish = "disable" -> IF p = Enabled THEN Disabling ELSE p
    [] OTHER            -> p

(* Mutant: the phase is counted on instead of compared and exchanged. *)
Switched_Counted(p, wish) ==
  CASE wish = "enable"  -> IF p < Enabled THEN p + 1 ELSE p
    [] wish = "disable" -> IF p >= Enabled THEN p + 1 ELSE p
    [] OTHER            -> p

(* What a patch makes of the phase. *)
Switched(p, wish) ==
  CASE wish = "enable"  -> IF p = Disabled THEN Enabling ELSE p
    [] wish = "disable" -> IF p = Enabled THEN Disabling ELSE p
    [] OTHER            -> p

(* The mutation block, up to the call of save. *)
Begin(who, wish) ==
  /\ known
  /\ patch = Idle
  /\ phase' = Switched(phase, wish)
  /\ patch' = [by |-> who, at |-> "saving", wasOn |-> IsOn(phase)]

UserPatch ==
  /\ patches < MaxPatches
  /\ patches' = patches + 1
  /\ \E wish \in {"enable", "disable", "settings"} : Begin(User, wish)
  /\ UNCHANGED <<known, file, task, unsaved, orphaned, late, restarts>>

(* The patch is over, however it ended; a task that reported goes on. *)
Over(tasks) ==
  /\ patch' = Idle
  /\ task' = IF patch.by \in Tasks
             THEN [tasks EXCEPT ![patch.by] = AfterReport[@]] ELSE tasks

(* The file is opened and truncated. *)
Truncate ==
  /\ patch.at = "saving"
  /\ file' = Torn
  /\ patch' = [patch EXCEPT !.at = "writing"]
  /\ UNCHANGED <<known, phase, task, unsaved, orphaned, late, patches, restarts>>

(* Mutant: the file gets the phase the camera would have after a restart. *)
Write_Reset ==
  /\ patch.at = "writing"
  /\ file' = IF phase = Enabled THEN Enabled ELSE Disabled
  /\ unsaved' = FALSE
  /\ patch' = [patch EXCEPT !.at = "connecting"]
  /\ UNCHANGED <<known, phase, task, orphaned, late, patches, restarts>>

Write ==
  /\ patch.at = "writing"
  /\ file' = phase
  /\ unsaved' = FALSE
  /\ patch' = [patch EXCEPT !.at = "connecting"]
  /\ UNCHANGED <<known, phase, task, orphaned, late, patches, restarts>>

(* The file cannot be opened or not be written: patch returns at once, and *)
(* does not connect what it has switched on.                               *)
SaveFails ==
  /\ SavesFail
  /\ patch.at \in {"saving", "writing"}
  /\ unsaved' = TRUE
  /\ orphaned' = (orphaned \/ (~patch.wasOn /\ phase = Enabling))
  /\ Over(task)
  /\ UNCHANGED <<known, phase, file, late, patches, restarts>>

(* ConfigCamera::connect, for a camera that is switching on. *)
Started(t) == [task EXCEPT ![t] = "spawned"]

(* Mutant: whether the camera was on already is not asked. *)
Connect_Always ==
  /\ patch.at = "connecting"
  /\ IF phase = Enabling
     THEN \E t \in Tasks : task[t] = "none" /\ Over(Started(t)) /\ late' = 0
     ELSE Over(task) /\ UNCHANGED late
  /\ UNCHANGED <<known, phase, file, unsaved, orphaned, patches, restarts>>

(* Mutant: a patch connects a camera that was on, not one that was off. *)
Connect_Inverted ==
  /\ patch.at = "connecting"
  /\ IF patch.wasOn /\ phase = Enabling
     THEN \E t \in Tasks : task[t] = "none" /\ Over(Started(t)) /\ late' = 0
     ELSE Over(task) /\ UNCHANGED late
  /\ UNCHANGED <<known, phase, file, unsaved, orphaned, patches, restarts>>

(* The end of a patch: connect if the camera was off. *)
Connect ==
  /\ patch.at = "connecting"
  /\ IF ~patch.wasOn /\ phase = Enabling
     THEN \E t \in Tasks : task[t] = "none" /\ Over(Started(t)) /\ late' = 0
     ELSE Over(task) /\ UNCHANGED late
  /\ UNCHANGED <<known, phase, file, unsaved, orphaned, patches, restarts>>

(* The process ends at any moment and starts again: a camera whose file    *)
(* cannot be read is left out, one that was on is connected.               *)
Restart ==
  /\ restarts < MaxRestarts
  /\ restarts' = restarts + 1
  /\ known' = (file \in Phases)
  /\ phase' = IF IsOn(file) THEN Enabling ELSE Disabled
  /\ patch' = Idle
  /\ \E t \in Tasks :
       task' = [u \in Tasks |-> IF u = t /\ IsOn(file) THEN "spawned" ELSE "none"]
  /\ unsaved' = FALSE
  /\ orphaned' = FALSE
  /\ late' = 0
  /\ UNCHANGED <<file, patches>>

(***************************************************************************)
(* The task.                                                               *)
(***************************************************************************)

GoOn(t, from, to) == task[t] = from /\ task' = [task EXCEPT ![t] = to]

(* A look at the phase: where the task goes when the camera is on and off. *)
Look(t, from, on, off) ==
  /\ Unlocked
  /\ GoOn(t, from, IF IsOn(phase) THEN on ELSE off)

Start(t) ==
  /\ Unlocked
  /\ GoOn(t, "spawned", "backoff")
  /\ phase' = IF phase = Enabling THEN Enabled ELSE phase
  /\ UNCHANGED <<known, file, patch, unsaved, orphaned, late, patches, restarts>>

(* send_update: the report is sent as soon as no other patch runs. *)
Report(t) ==
  /\ task[t] \in Reporting
  /\ Begin(t, "status")
  /\ UNCHANGED <<known, file, task, unsaved, orphaned, late, patches, restarts>>

(* The device answers or the connection breaks. *)
Dial(t) ==
  /\ GoOn(t, "dialing", "greeting") \/ GoOn(t, "dialing", "failing")
  /\ UNCHANGED <<known, phase, file, patch, unsaved, orphaned, late, patches, restarts>>

(* An event, something else, or an error. *)
Read(t) ==
  /\ \/ GoOn(t, "reading", "storing")
     \/ GoOn(t, "reading", "quiet")
     \/ GoOn(t, "reading", "failing")
  /\ UNCHANGED <<known, phase, file, patch, unsaved, orphaned, late, patches, restarts>>

(* Mutant: the task does not look between events. *)
Wait_NotBetweenEvents(t) ==
  /\ \/ Look(t, "backoff", "announcing", "parting")
     \/ GoOn(t, "listening", "reading")
     \/ Look(t, "quiet", "listening", "parting")
  /\ UNCHANGED <<known, phase, file, patch, unsaved, orphaned, late, patches, restarts>>

(* The waits: before connecting, before each event, and after silence. *)
Wait(t) ==
  /\ \/ Look(t, "backoff", "announcing", "parting")
     \/ Look(t, "listening", "reading", "backoff")
     \/ Look(t, "quiet", "listening", "parting")
  /\ UNCHANGED <<known, phase, file, patch, unsaved, orphaned, late, patches, restarts>>

(* The event is stored.  One that the events service refuses makes the     *)
(* task panic, and nothing takes its place.                                *)
Record(t) ==
  /\ \/ /\ GoOn(t, "recording", "listening")
        /\ late' = IF IsOn(phase) THEN 0 ELSE late + 1
        /\ UNCHANGED orphaned
     \/ /\ Unexpected
        /\ GoOn(t, "recording", "none")
        /\ orphaned' = TRUE
        /\ UNCHANGED late
  /\ UNCHANGED <<known, phase, file, patch, unsaved, patches, restarts>>

End(t) ==
  /\ Unlocked
  /\ GoOn(t, "ending", "none")
  /\ phase' = IF phase = Disabling THEN Disabled ELSE phase
  /\ UNCHANGED <<known, file, patch, unsaved, orphaned, late, patches, restarts>>

PatchStep == Truncate \/ Write \/ Connect

TaskStep(t) ==
  Start(t) \/ Report(t) \/ Dial(t) \/ Read(t) \/ Wait(t) \/ Record(t) \/ End(t)

Next ==
  \/ Create
  \/ UserPatch
  \/ PatchStep
  \/ SaveFails
  \/ Restart
  \/ \E t \in Tasks : TaskStep(t)

Spec == Init /\ [][Next]_vars

(* A patch runs to its end; a task goes on when it can; the device answers *)
(* a request, sends something or loses the connection (which TCP keep-alive *)
(* notices) some time.                                                     *)
FairSpec == Spec /\ WF_vars(PatchStep) /\ \A t \in Tasks : WF_vars(TaskStep(t))

(***************************************************************************)
(* Properties.                                                             *)
(***************************************************************************)

TypeOK ==
  /\ known \in BOOLEAN
  /\ phase \in Phases
  /\ file \in Phases \cup {NoFile, Torn}
  /\ patch \in [by : Tasks \cup {User, Nobody},
                at : {"none", "saving", "writing", "connecting"},
                wasOn : BOOLEAN]
  /\ task \in [Tasks -> TaskSteps]
  /\ unsaved \in BOOLEAN
  /\ orphaned \in BOOLEAN
  /\ late \in Nat
  /\ patches \in Nat
  /\ restarts \in Nat

Alive == {t \in Tasks : task[t] # "none"}

(* A camera never has two tasks, which would store every event twice: not  *)
(* after patches that meet a task that starts or ends, not after failed    *)
(* saves and restarts.                                                     *)
OneTask == \A t, u \in Alive : t = u

(* While no patch runs, the phase says what the task does: none when the   *)
(* camera is off, one that is about to start when it is switching on, one  *)
(* that works when it is on or switching off.  So the comments on the      *)
(* phases have it.                                                         *)
PhaseTellsTask ==
  known /\ patch = Idle =>
    /\ phase = Disabled <=> Alive = {}
    /\ phase = Enabling <=> \E t \in Alive : task[t] = "spawned"

(* So it is except in two cases, and then from the next restart on again:  *)
(* the patch that switched the camera on could not save it, or the task    *)
(* met an event that the events service refuses.                           *)
PhaseMayTellTask == ~orphaned => PhaseTellsTask

(* After the camera was switched off at most one more event is stored: the *)
(* one the task was reading or storing at that moment.                     *)
AtMostOneLateEvent == late <= 1

(* A restart leaves the camera on or off as it was: also when the process  *)
(* ends while a task starts or ends, which changes the phase without       *)
(* saving it.  Only a save that failed or was cut short may differ.        *)
RestartKeepsSwitch ==
  [][restarts' # restarts /\ known /\ Unlocked /\ ~unsaved
       => known' /\ (IsOn(phase') <=> IsOn(phase))]_vars

(* A camera that is switching on gets its task, one that is switching off  *)
(* loses it, even if the device fails all the time; unless a save that     *)
(* failed or an event that was refused left the camera without a task.     *)
SwitchingEnds ==
  /\ phase = Enabling ~> phase # Enabling \/ orphaned
  /\ phase = Disabling ~> phase # Disabling \/ orphaned
=============================================================================
