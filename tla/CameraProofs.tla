---------------------------- MODULE CameraProofs ----------------------------
(***************************************************************************)
(* For any number of task names, patches and restarts, and with saves that *)
(* fail and events that are refused: a camera never has two tasks, after it *)
(* was switched off at most one more event is stored, a restart keeps the  *)
(* switch, and the phase tells what the task does unless a failed save or  *)
(* a refused event left the camera without one.                            *)
(***************************************************************************)
EXTENDS CameraLifecycle, TLAPS

Touching == {"reading", "storing", "recording"}

(* A camera that is off, or not loaded, has no task. *)
NoTaskWhenOff == ~known \/ phase = Disabled => Alive = {}

(* A patch is of a camera that is loaded; one that is to connect the camera *)
(* found it without a task.                                                *)
NoTaskToConnect ==
  patch # Idle => known /\ (~patch.wasOn /\ phase = Enabling => Alive = {})

(* A report comes from a task that waits for its end. *)
ReporterWaits == patch.by \in Tasks => task[patch.by] \in Reporting

(* An event stored late was the last: the task touches none any more. *)
LastEvent ==
  late # 0 => /\ late = 1
              /\ Alive = {} \/ (phase = Disabling /\ \A t \in Tasks : task[t] \notin Touching)

CInv ==
  TypeOK /\ OneTask /\ NoTaskWhenOff /\ NoTaskToConnect /\ ReporterWaits /\ LastEvent

(***************************************************************************)
(* Steps of tasks.                                                         *)
(***************************************************************************)

(* What a report leads to. *)
LEMMA Reports ==
  /\ Reporting = {"announcing", "greeting", "storing", "failing", "parting"}
  /\ AfterReport["announcing"] = "dialing"
  /\ AfterReport["greeting"] = "listening"
  /\ AfterReport["storing"] = "recording"
  /\ AfterReport["failing"] = "backoff"
  /\ AfterReport["parting"] = "ending"
  BY DEF Reporting, AfterReport

(* The task after a report is alive, and touches an event if it did before. *)
LEMMA AfterReports ==
  ASSUME NEW s \in Reporting
  PROVE  /\ s # "none" /\ AfterReport[s] \in TaskSteps \ {"none"}
         /\ AfterReport[s] \in Touching => s \in Touching
  BY Reports DEF TaskSteps, Touching

(* One task goes on and the others stay where they are. *)
LEMMA GoesOn ==
  ASSUME TypeOK, NEW t \in Tasks, NEW a, NEW b \in TaskSteps, GoOn(t, a, b)
  PROVE  /\ task[t] = a /\ task'[t] = b
         /\ \A u \in Tasks : u # t => task'[u] = task[u]
         /\ task' \in [Tasks -> TaskSteps]
         /\ a # "none" => Alive' \subseteq Alive
  BY DEF TypeOK, GoOn, Alive

(* The end of a patch that connects nothing leaves the same tasks alive. *)
LEMMA IsOver ==
  ASSUME TypeOK, ReporterWaits, Over(task)
  PROVE  /\ patch' = Idle
         /\ task' \in [Tasks -> TaskSteps]
         /\ Alive' = Alive
         /\ \A t \in Tasks : task'[t] \in Touching => task[t] \in Touching
<1>1. CASE patch.by \notin Tasks
  BY <1>1 DEF TypeOK, Over, Alive
<1>2. CASE patch.by \in Tasks
  <2>1. task[patch.by] \in Reporting
    BY <1>2 DEF ReporterWaits
  <2>2. task' = [task EXCEPT ![patch.by] = AfterReport[task[patch.by]]]
    BY <1>2 DEF Over
  <2>3. task' \in [Tasks -> TaskSteps]
    BY <1>2, <2>1, <2>2, AfterReports DEF TypeOK
  <2>4. \A t \in Tasks : task'[t] = "none" <=> task[t] = "none"
    BY <1>2, <2>1, <2>2, AfterReports DEF TypeOK
  <2>5. \A t \in Tasks : task'[t] \in Touching => task[t] \in Touching
    BY <1>2, <2>1, <2>2, AfterReports DEF TypeOK
  <2> QED
    BY <2>3, <2>4, <2>5 DEF Over, Alive
<1> QED
  BY <1>1, <1>2

(* No patch is running: nobody holds the lock of all cameras. *)
LEMMA IdlePatch ==
  /\ Idle.by = Nobody /\ Idle.by \notin Tasks /\ Idle.at = "none"
  /\ Idle \in [by : Tasks \cup {User, Nobody},
               at : {"none", "saving", "writing", "connecting"},
               wasOn : BOOLEAN]
  BY CameraAssumption DEF Idle

(***************************************************************************)
(* Every action keeps the invariant.                                       *)
(***************************************************************************)

(* Nobody has a task in the beginning. *)
LEMMA InitCInv == Init => CInv
<1> SUFFICES ASSUME Init PROVE CInv
  OBVIOUS
<1>1. Alive = {}
  BY DEF Init, Alive
<1>2. TypeOK
  BY IdlePatch DEF Init, TypeOK, Phases, Disabled, NoFile, TaskSteps
<1>3. OneTask /\ NoTaskWhenOff /\ NoTaskToConnect
  BY <1>1 DEF Init, OneTask, NoTaskWhenOff, NoTaskToConnect
<1>4. ReporterWaits /\ LastEvent
  BY IdlePatch DEF Init, ReporterWaits, LastEvent
<1> QED
  BY <1>2, <1>3, <1>4 DEF CInv

(* A patch leaves the phase among the phases, off only when it was off, and *)
(* switching off when it was; and it is switching on only if it was or if   *)
(* the camera was off.                                                     *)
LEMMA Switching ==
  ASSUME NEW p \in Phases, NEW wish
  PROVE  /\ Switched(p, wish) \in Phases
         /\ Switched(p, wish) = Disabled => p = Disabled
         /\ p = Disabling => Switched(p, wish) = Disabling
         /\ Switched(p, wish) = Enabling => p \in {Disabled, Enabling}
<1>1. \/ Switched(p, wish) = IF p = Disabled THEN Enabling ELSE p
      \/ Switched(p, wish) = IF p = Enabled THEN Disabling ELSE p
      \/ Switched(p, wish) = p
  <2>1. CASE wish = "enable"
    BY <2>1 DEF Switched
  <2>2. CASE wish = "disable"
    BY <2>2 DEF Switched
  <2>3. CASE wish # "enable" /\ wish # "disable"
    BY <2>3 DEF Switched
  <2> QED
    BY <2>1, <2>2, <2>3
<1> QED
  BY <1>1 DEF Phases, Disabled, Enabling, Enabled, Disabling

(* A patch begins: tasks stay where they are. *)
LEMMA BeginStep ==
  ASSUME CInv, NEW who \in Tasks \cup {User}, NEW wish, Begin(who, wish),
         who \in Tasks => task[who] \in Reporting,
         UNCHANGED <<known, file, task, unsaved, orphaned, late, restarts>>,
         patches' \in Nat
  PROVE  CInv'
<1> USE DEF CInv
<1>1. phase \in Phases /\ phase' = Switched(phase, wish)
  BY DEF Begin, TypeOK
<1>2. Alive' = Alive
  BY DEF Alive
<1>3. TypeOK'
  BY <1>1, Switching DEF TypeOK, Begin, IsOn
<1>4. OneTask'
  BY <1>2 DEF OneTask
<1>5. NoTaskWhenOff'
  BY <1>1, <1>2, Switching DEF NoTaskWhenOff, Begin
<1>6. NoTaskToConnect'
  <2> SUFFICES ASSUME ~patch'.wasOn, phase' = Enabling PROVE Alive = {}
    BY <1>2 DEF NoTaskToConnect, Begin
  <2>1. ~IsOn(phase)
    BY DEF Begin
  <2>2. phase = Disabled
    BY <1>1, <2>1, Switching DEF IsOn
  <2> QED
    BY <2>2 DEF NoTaskWhenOff
<1>7. ReporterWaits'
  BY CameraAssumption DEF ReporterWaits, Begin
<1>8. LastEvent'
  BY <1>1, <1>2, Switching DEF LastEvent
<1> QED
  BY <1>3, <1>4, <1>5, <1>6, <1>7, <1>8

(* A patch ends without connecting. *)
LEMMA OverStep ==
  ASSUME CInv, Over(task), UNCHANGED <<known, phase, late>>,
         file' \in Phases \cup {NoFile, Torn}, unsaved' \in BOOLEAN, orphaned' \in BOOLEAN,
         UNCHANGED <<patches, restarts>>
  PROVE  CInv'
<1> USE DEF CInv
<1>1. /\ patch' = Idle
      /\ task' \in [Tasks -> TaskSteps]
      /\ Alive' = Alive
      /\ \A t \in Tasks : task'[t] \in Touching => task[t] \in Touching
  BY IsOver
<1>2. TypeOK'
  BY <1>1, IdlePatch DEF TypeOK
<1>3. OneTask' /\ NoTaskWhenOff' /\ NoTaskToConnect'
  BY <1>1 DEF OneTask, NoTaskWhenOff, NoTaskToConnect
<1>4. ReporterWaits' /\ LastEvent'
  BY <1>1, IdlePatch DEF ReporterWaits, LastEvent
<1> QED
  BY <1>2, <1>3, <1>4

(* A patch that connects found no task, and leaves one. *)
LEMMA ConnectStep == CInv /\ Connect => CInv'
<1> SUFFICES ASSUME CInv, Connect PROVE CInv'
  OBVIOUS
<1> USE DEF CInv
<1>1. CASE ~(~patch.wasOn /\ phase = Enabling)
  <2>1. Over(task) /\ UNCHANGED <<known, phase, late, file, unsaved, orphaned, patches, restarts>>
    BY <1>1 DEF Connect
  <2> QED
    BY <2>1, OverStep DEF TypeOK
<1>2. CASE ~patch.wasOn /\ phase = Enabling
  <2>1. patch # Idle
    BY IdlePatch DEF Connect
  <2>2. Alive = {}
    BY <1>2, <2>1 DEF NoTaskToConnect
  <2>3. patch.by \notin Tasks
    <3> SUFFICES ASSUME patch.by \in Tasks PROVE FALSE
      OBVIOUS
    <3>1. task[patch.by] # "none"
      BY AfterReports DEF ReporterWaits
    <3> QED
      BY <2>2, <3>1 DEF Alive
  <2>4. PICK t \in Tasks : task[t] = "none" /\ Over(Started(t)) /\ late' = 0
    BY <1>2 DEF Connect
  <2>5. task' = [task EXCEPT ![t] = "spawned"] /\ patch' = Idle
    BY <2>3, <2>4 DEF Over, Started
  <2>6. Alive' = {t}
    BY <2>2, <2>5 DEF Alive, TypeOK
  <2>7. UNCHANGED <<known, phase, file, unsaved, orphaned, patches, restarts>>
    BY DEF Connect
  <2>8. TypeOK'
    BY <2>4, <2>5, <2>7, IdlePatch DEF TypeOK, TaskSteps
  <2>9. OneTask'
    BY <2>6 DEF OneTask
  <2>10. known /\ phase' # Disabled
    BY <1>2, <2>1, <2>7 DEF NoTaskToConnect, Disabled, Enabling
  <2>11. NoTaskWhenOff' /\ NoTaskToConnect' /\ ReporterWaits' /\ LastEvent'
    BY <2>4, <2>5, <2>7, <2>10, IdlePatch
    DEF NoTaskWhenOff, NoTaskToConnect, ReporterWaits, LastEvent
  <2> QED
    BY <2>8, <2>9, <2>11
<1> QED
  BY <1>1, <1>2

(* A task that is no reporter goes on to where it touches no event, unless *)
(* it may look at the camera and finds it on.                              *)
LEMMA TaskGoesOn ==
  ASSUME CInv, NEW t \in Tasks,
         NEW a \in TaskSteps \ (Reporting \cup {"none"}), NEW b \in TaskSteps,
         GoOn(t, a, b),
         b \in Touching => a \in Touching \/ IsOn(phase),
         UNCHANGED <<known, phase, file, patch, unsaved, orphaned, late, patches, restarts>>
  PROVE  CInv'
<1> USE DEF CInv
<1>1. /\ task[t] = a /\ task'[t] = b
      /\ \A u \in Tasks : u # t => task'[u] = task[u]
      /\ task' \in [Tasks -> TaskSteps]
      /\ Alive' \subseteq Alive
  BY GoesOn
<1>2. TypeOK'
  BY <1>1 DEF TypeOK
<1>3. OneTask' /\ NoTaskWhenOff' /\ NoTaskToConnect'
  BY <1>1 DEF OneTask, NoTaskWhenOff, NoTaskToConnect
<1>4. ReporterWaits'
  BY <1>1 DEF ReporterWaits
<1>5. t \in Alive
  BY <1>1 DEF Alive
<1>6. LastEvent'
  BY <1>1, <1>5 DEF LastEvent, IsOn, Enabling, Enabled, Disabling
<1> QED
  BY <1>2, <1>3, <1>4, <1>6

(* The task looks at the phase, talks to the device or is told of it. *)
LEMMA QuietStep ==
  ASSUME CInv, NEW t \in Tasks, Dial(t) \/ Read(t) \/ Wait(t)
  PROVE  CInv'
<1>1. CASE Dial(t)
  BY <1>1, TaskGoesOn, Reports DEF Dial, TaskSteps, Touching
<1>2. CASE Read(t)
  BY <1>2, TaskGoesOn, Reports DEF Read, TaskSteps, Touching
<1>3. CASE Wait(t)
  BY <1>3, TaskGoesOn, Reports DEF Wait, Look, TaskSteps, Touching
<1> QED
  BY <1>1, <1>2, <1>3

(* The task starts or ends: it moves the phase only if nobody else did. *)
LEMMA PhaseStep ==
  ASSUME CInv, NEW t \in Tasks, Start(t) \/ End(t)
  PROVE  CInv'
<1> USE DEF CInv
<1>1. CASE Start(t)
  <2>1. GoOn(t, "spawned", "backoff")
    BY <1>1 DEF Start
  <2>2. /\ task[t] = "spawned" /\ task'[t] = "backoff"
        /\ \A u \in Tasks : u # t => task'[u] = task[u]
        /\ task' \in [Tasks -> TaskSteps]
        /\ Alive' = Alive
    BY <2>1 DEF GoOn, TypeOK, TaskSteps, Alive
  <2>3. /\ phase' = IF phase = Enabling THEN Enabled ELSE phase
        /\ UNCHANGED <<known, file, patch, unsaved, orphaned, late, patches, restarts>>
    BY <1>1 DEF Start
  <2>4. TypeOK'
    BY <2>2, <2>3 DEF TypeOK, Phases, Enabled
  <2>5. OneTask' /\ NoTaskWhenOff' /\ NoTaskToConnect'
    BY <2>2, <2>3
    DEF OneTask, NoTaskWhenOff, NoTaskToConnect, Disabled, Enabling, Enabled
  <2>6. ReporterWaits'
    BY <2>2, <2>3, Reports DEF ReporterWaits
  <2>7. LastEvent'
    BY <2>2, <2>3 DEF LastEvent, Touching, Enabling, Disabling
  <2> QED
    BY <2>4, <2>5, <2>6, <2>7
<1>2. CASE End(t)
  <2>1. GoOn(t, "ending", "none")
    BY <1>2 DEF End
  <2>2. /\ task[t] = "ending" /\ task'[t] = "none"
        /\ \A u \in Tasks : u # t => task'[u] = task[u]
        /\ task' \in [Tasks -> TaskSteps]
    BY <2>1, GoesOn DEF TaskSteps
  <2>3. /\ phase' = IF phase = Disabling THEN Disabled ELSE phase
        /\ UNCHANGED <<known, file, patch, unsaved, orphaned, late, patches, restarts>>
    BY <1>2 DEF End
  <2>4. Alive' = {}
    BY <2>2 DEF OneTask, Alive
  <2>5. TypeOK'
    BY <2>2, <2>3 DEF TypeOK, Phases, Disabled
  <2>6. OneTask' /\ NoTaskWhenOff' /\ NoTaskToConnect'
    BY <2>3, <2>4 DEF OneTask, NoTaskWhenOff, NoTaskToConnect
  <2>7. ReporterWaits'
    BY <2>2, <2>3, Reports DEF ReporterWaits
  <2>8. LastEvent'
    BY <2>3, <2>4 DEF LastEvent
  <2> QED
    BY <2>5, <2>6, <2>7, <2>8
<1> QED
  BY <1>1, <1>2

(* An event is stored: late only if the camera is switching off, and then  *)
(* the first, as the task touches none after it; or the task panics.       *)
LEMMA RecordStep ==
  ASSUME CInv, NEW t \in Tasks, Record(t)
  PROVE  CInv'
<1> USE DEF CInv
<1>1. PICK b \in {"listening", "none"} : GoOn(t, "recording", b)
  BY DEF Record
<1>2. /\ task[t] = "recording" /\ task'[t] = b
      /\ \A u \in Tasks : u # t => task'[u] = task[u]
      /\ task' \in [Tasks -> TaskSteps]
      /\ Alive' \subseteq Alive
  BY <1>1, GoesOn DEF TaskSteps
<1>3. UNCHANGED <<known, phase, file, patch, unsaved, patches, restarts>> /\ orphaned' \in BOOLEAN
  BY DEF Record, TypeOK
<1>4. t \in Alive
  BY <1>2 DEF Alive
<1>5. late = 0
  BY <1>2, <1>4 DEF LastEvent, Touching
<1>6. late' \in {0, 1} /\ (late' = 1 => ~IsOn(phase))
  BY <1>5 DEF Record
<1>7. TypeOK'
  BY <1>2, <1>3, <1>6 DEF TypeOK
<1>8. OneTask' /\ NoTaskWhenOff' /\ NoTaskToConnect'
  BY <1>2, <1>3 DEF OneTask, NoTaskWhenOff, NoTaskToConnect
<1>9. ReporterWaits'
  BY <1>2, <1>3, Reports DEF ReporterWaits
<1>10. LastEvent'
  <2>1. phase # Disabled
    BY <1>4 DEF NoTaskWhenOff
  <2>2. ~IsOn(phase) => phase = Disabling
    BY <2>1 DEF TypeOK, Phases, IsOn
  <2>3. \A u \in Tasks : task'[u] \notin Touching
    BY <1>2, <1>4 DEF OneTask, Alive, Touching
  <2> QED
    BY <1>3, <1>6, <2>2, <2>3 DEF LastEvent
<1> QED
  BY <1>7, <1>8, <1>9, <1>10

(* Saving touches the file; a restart leaves one task or none. *)
LEMMA FileStep ==
  ASSUME CInv, Create \/ Truncate \/ Write \/ SaveFails \/ Restart
  PROVE  CInv'
<1> USE DEF CInv
<1>1. CASE Create
  <2>1. Alive = {} /\ Alive' = {}
    BY <1>1 DEF Create, NoTaskWhenOff, Alive
  <2>2. TypeOK'
    BY <1>1 DEF Create, TypeOK, Phases
  <2>3. OneTask' /\ NoTaskWhenOff' /\ NoTaskToConnect'
    BY <1>1, <2>1 DEF Create, OneTask, NoTaskWhenOff, NoTaskToConnect
  <2>4. ReporterWaits' /\ LastEvent'
    BY <1>1, <2>1 DEF Create, ReporterWaits, LastEvent
  <2> QED
    BY <2>2, <2>3, <2>4
<1>2. CASE Truncate
  <2>1. patch # Idle /\ patch' = [patch EXCEPT !.at = "writing"]
    BY <1>2, IdlePatch DEF Truncate
  <2>2. patch'.by = patch.by /\ patch'.wasOn = patch.wasOn
    BY <2>1 DEF TypeOK
  <2>3. TypeOK'
    BY <1>2, <2>1 DEF Truncate, TypeOK
  <2> QED
    BY <1>2, <2>1, <2>2, <2>3
    DEF Truncate, Alive, OneTask, NoTaskWhenOff, NoTaskToConnect, ReporterWaits, LastEvent
<1>3. CASE Write
  <2>1. patch # Idle /\ patch' = [patch EXCEPT !.at = "connecting"]
    BY <1>3, IdlePatch DEF Write
  <2>2. patch'.by = patch.by /\ patch'.wasOn = patch.wasOn
    BY <2>1 DEF TypeOK
  <2>3. TypeOK'
    BY <1>3, <2>1 DEF Write, TypeOK
  <2> QED
    BY <1>3, <2>1, <2>2, <2>3
    DEF Write, Alive, OneTask, NoTaskWhenOff, NoTaskToConnect, ReporterWaits, LastEvent
<1>4. CASE SaveFails
  BY <1>4, OverStep DEF SaveFails, TypeOK
<1>5. CASE Restart
  <2>1. PICK t \in Tasks :
          task' = [u \in Tasks |-> IF u = t /\ IsOn(file) THEN "spawned" ELSE "none"]
    BY <1>5 DEF Restart
  <2>2. /\ phase' = IF IsOn(file) THEN Enabling ELSE Disabled
        /\ patch' = Idle /\ late' = 0 /\ unsaved' = FALSE /\ orphaned' = FALSE
        /\ restarts' = restarts + 1 /\ UNCHANGED <<file, patches>>
    BY <1>5 DEF Restart
  <2>3. Alive' \subseteq {t} /\ (~IsOn(file) => Alive' = {})
    BY <2>1 DEF Alive
  <2>4. IsOn(file) => file \in Phases
    BY DEF IsOn, Phases
  <2>5. known' \in BOOLEAN /\ (IsOn(file) => known')
    <3>1. known' = (file \in Phases)
      BY <1>5 DEF Restart
    <3>2. (file \in Phases) \in BOOLEAN
      OBVIOUS
    <3>3. known' \in BOOLEAN
      BY <3>1, <3>2, Zenon
    <3>4. file \in Phases => known'
      BY <3>1, Zenon
    <3> QED
      BY <2>4, <3>3, <3>4
  <2>6. TypeOK'
    <3>1. phase' \in Phases
      BY <2>2 DEF Phases
    <3>2. task' \in [Tasks -> TaskSteps]
      BY <2>1 DEF TaskSteps
    <3>3. file' \in Phases \cup {NoFile, Torn} /\ unsaved' \in BOOLEAN /\ orphaned' \in BOOLEAN
      BY <2>2, Zenon DEF TypeOK
    <3>4. late' \in Nat /\ patches' \in Nat /\ restarts' \in Nat
      BY <2>2 DEF TypeOK
    <3> QED
      BY <2>2, <2>5, <3>1, <3>2, <3>3, <3>4, IdlePatch, Zenon DEF TypeOK
  <2>7. OneTask' /\ NoTaskWhenOff' /\ NoTaskToConnect'
    BY <2>2, <2>3, <2>5
    DEF OneTask, NoTaskWhenOff, NoTaskToConnect, Enabling, Disabled
  <2>8. ReporterWaits' /\ LastEvent'
    BY <2>2, IdlePatch DEF ReporterWaits, LastEvent
  <2> QED
    BY <2>6, <2>7, <2>8
<1> QED
  BY <1>1, <1>2, <1>3, <1>4, <1>5

(* Every step of the service, the task and the process keeps the invariant. *)
LEMMA StepCInv == CInv /\ [Next]_vars => CInv'
<1> SUFFICES ASSUME CInv, [Next]_vars PROVE CInv'
  OBVIOUS
<1>1. CASE Create \/ SaveFails \/ Restart
  BY <1>1, FileStep
<1>2. CASE UserPatch
  <2>1. PICK wish \in {"enable", "disable", "settings"} : Begin(User, wish)
    BY <1>2 DEF UserPatch
  <2> QED
    BY <1>2, <2>1, BeginStep, CameraAssumption DEF UserPatch, CInv, TypeOK
<1>3. CASE PatchStep
  BY <1>3, FileStep, ConnectStep DEF PatchStep
<1>4. ASSUME NEW t \in Tasks, TaskStep(t) PROVE CInv'
  <2>1. CASE Report(t)
    BY <2>1, BeginStep DEF Report, CInv, TypeOK
  <2> QED
    BY <1>4, <2>1, QuietStep, PhaseStep, RecordStep DEF TaskStep
<1>5. CASE UNCHANGED vars
  BY <1>5 DEF vars, CInv, TypeOK, Alive, OneTask, NoTaskWhenOff, NoTaskToConnect,
              ReporterWaits, LastEvent
<1> QED
  BY <1>1, <1>2, <1>3, <1>4, <1>5 DEF Next

LEMMA CInvHolds == Spec => []CInv
<1>1. Init => CInv
  BY InitCInv
<1>2. CInv /\ [Next]_vars => CInv'
  BY StepCInv
<1> QED
  BY <1>1, <1>2, PTL DEF Spec

(***************************************************************************)
(* What follows.                                                           *)
(***************************************************************************)

(* Every value stays of its type, whatever patches, tasks and restarts do. *)
THEOREM CameraTypes == Spec => []TypeOK
<1>1. CInv => TypeOK
  BY DEF CInv
<1> QED
  BY <1>1, CInvHolds, PTL

(* A camera never has two tasks: a patch starts one only where it found    *)
(* the camera off, and a camera that is off has none.                      *)
THEOREM NeverTwoTasks == Spec => []OneTask
<1>1. CInv => OneTask
  BY DEF CInv
<1> QED
  BY <1>1, CInvHolds, PTL

(* After the camera was switched off at most one more event is stored: the *)
(* task that stored it looks at the phase before it reads another.         *)
THEOREM NoSecondLateEvent == Spec => []AtMostOneLateEvent
<1>1. CInv => AtMostOneLateEvent
  BY DEF CInv, LastEvent, AtMostOneLateEvent
<1> QED
  BY <1>1, CInvHolds, PTL

(***************************************************************************)
(* The file.                                                               *)
(***************************************************************************)

(* Unless a patch is saving or could not save, the file can be read and    *)
(* says on or off as the phase does; Start and End, which change the phase *)
(* without saving, stay on one side.                                       *)
FileTellsSwitch ==
  known /\ Unlocked /\ ~unsaved => file \in Phases /\ (IsOn(file) <=> IsOn(phase))

LEMMA FileTells ==
  ASSUME TypeOK, FileTellsSwitch, [Next]_vars
  PROVE  FileTellsSwitch'
<1>1. CASE Create
  BY <1>1 DEF Create, FileTellsSwitch, Phases
<1>2. ASSUME NEW who, NEW wish, Begin(who, wish) PROVE FileTellsSwitch'
  BY <1>2 DEF Begin, FileTellsSwitch, Unlocked
<1>3. CASE UserPatch
  BY <1>2, <1>3 DEF UserPatch
<1>4. CASE Truncate
  <2>1. patch'.at = "writing"
    BY <1>4 DEF Truncate, TypeOK
  <2> QED
    BY <2>1 DEF FileTellsSwitch, Unlocked
<1>5. CASE Write
  BY <1>5 DEF Write, FileTellsSwitch, TypeOK
<1>6. CASE SaveFails
  BY <1>6 DEF SaveFails, FileTellsSwitch
<1>7. CASE Connect
  <2>1. Unlocked /\ UNCHANGED <<known, phase, file, unsaved>>
    BY <1>7 DEF Connect, Unlocked
  <2> QED
    BY <2>1 DEF FileTellsSwitch, IsOn
<1>8. CASE Restart
  <2>1. known' => file \in Phases
    <3>1. known' = (file \in Phases)
      BY <1>8 DEF Restart
    <3> QED
      BY <3>1, Zenon
  <2>2. file' = file /\ phase' = IF IsOn(file) THEN Enabling ELSE Disabled
    BY <1>8 DEF Restart
  <2>3. IsOn(phase') <=> IsOn(file)
    BY <2>2 DEF IsOn, Enabling, Enabled, Disabled
  <2>4. IsOn(phase)' <=> IsOn(file)'
    BY <2>2, <2>3 DEF IsOn
  <2> QED
    BY <2>1, <2>2, <2>4 DEF FileTellsSwitch
<1>9. ASSUME NEW t \in Tasks, TaskStep(t) PROVE FileTellsSwitch'
  <2>1. CASE Report(t)
    BY <1>2, <2>1 DEF Report
  <2>2. CASE ~Report(t)
    <3>1. UNCHANGED <<known, file, patch, unsaved>>
      BY <1>9, <2>2 DEF TaskStep, Start, Dial, Read, Wait, Record, End
    <3>2. IsOn(phase)' <=> IsOn(phase)
      BY <1>9, <2>2 DEF TaskStep, Start, Dial, Read, Wait, Record, End,
                        IsOn, Disabled, Enabling, Enabled, Disabling
    <3>3. Unlocked' <=> Unlocked
      BY <3>1 DEF Unlocked
    <3>4. IsOn(file)' <=> IsOn(file)
      BY <3>1 DEF IsOn
    <3> QED
      BY <3>1, <3>2, <3>3, <3>4 DEF FileTellsSwitch
  <2> QED
    BY <2>1, <2>2
<1>10. CASE UNCHANGED vars
  BY <1>10 DEF vars, FileTellsSwitch, Unlocked, IsOn
<1> QED
  BY <1>1, <1>3, <1>4, <1>5, <1>6, <1>7, <1>8, <1>9, <1>10 DEF Next, PatchStep

(* A restart leaves a camera on that was on and off that was off, in every *)
(* order of patches and of a task that starts or ends, except where a save *)
(* failed or was cut short.                                                *)
THEOREM RestartIsFaithful == Spec => RestartKeepsSwitch
<1>1. Init => FileTellsSwitch
  BY DEF Init, FileTellsSwitch
<1>2. TypeOK /\ FileTellsSwitch /\ [Next]_vars => FileTellsSwitch'
  BY FileTells
<1>3. TypeOK /\ FileTellsSwitch /\ [Next]_vars =>
        [restarts' # restarts /\ known /\ Unlocked /\ ~unsaved
           => known' /\ (IsOn(phase') <=> IsOn(phase))]_vars
  <2> SUFFICES ASSUME TypeOK, FileTellsSwitch, [Next]_vars,
                      restarts' # restarts, known, Unlocked, ~unsaved
               PROVE  known' /\ (IsOn(phase') <=> IsOn(phase))
    OBVIOUS
  <2>1. Restart
    <3>1. ~Create /\ ~UserPatch /\ ~PatchStep /\ ~SaveFails /\ ~UNCHANGED vars
      BY DEF Create, UserPatch, PatchStep, Truncate, Write, Connect, SaveFails, vars
    <3>2. \A t \in Tasks : ~TaskStep(t)
      BY DEF TaskStep, Start, Report, Dial, Read, Wait, Record, End
    <3> QED
      BY <3>1, <3>2 DEF Next
  <2>2. file \in Phases /\ (IsOn(file) <=> IsOn(phase))
    BY DEF FileTellsSwitch
  <2>3. known'
    <3>1. known' = (file \in Phases)
      BY <2>1 DEF Restart
    <3> QED
      BY <2>2, <3>1, Zenon
  <2>4. phase' = IF IsOn(file) THEN Enabling ELSE Disabled
    BY <2>1 DEF Restart
  <2> QED
    BY <2>2, <2>3, <2>4 DEF IsOn, Enabling, Enabled, Disabled
<1>4. Spec => []FileTellsSwitch
  BY <1>1, <1>2, CameraTypes, PTL DEF Spec
<1> QED
  BY <1>3, <1>4, CameraTypes, PTL DEF Spec, RestartKeepsSwitch

(***************************************************************************)
(* The phase, as long as the camera is not left without its task.          *)
(***************************************************************************)

Leaving == {"parting", "ending"}

(* A task that was started and has not moved the phase yet: switching on;   *)
(* one that is about to end: switching off; no task though the camera is   *)
(* not off: a patch that found it off is about to connect it.              *)
PhaseOK ==
  /\ \A t \in Tasks : task[t] = "spawned" => phase = Enabling
  /\ \A t \in Tasks : task[t] \in Leaving => phase = Disabling
  /\ known /\ Alive = {} /\ phase # Disabled =>
       patch # Idle /\ ~patch.wasOn /\ phase = Enabling
  /\ phase = Enabling /\ Alive # {} => \E t \in Tasks : task[t] = "spawned"

(* A report leads to the end only a task that was leaving, and none back   *)
(* to its start.                                                           *)
LEMMA ReportLeads ==
  ASSUME NEW s \in Reporting
  PROVE  /\ AfterReport[s] # "spawned" /\ s # "spawned"
         /\ AfterReport[s] \in Leaving => s \in Leaving
  BY Reports DEF Leaving

(* A patch that ends without connecting had nothing to connect. *)
LEMMA OverPhase ==
  ASSUME CInv, PhaseOK, Over(task), UNCHANGED <<known, phase>>,
         ~(~patch.wasOn /\ phase = Enabling)
  PROVE  PhaseOK'
<1>1. Alive' = Alive
  BY IsOver DEF CInv
<1>2. \A t \in Tasks : task'[t] = "spawned" <=> task[t] = "spawned"
  <2>1. CASE patch.by \notin Tasks
    BY <2>1 DEF Over
  <2>2. CASE patch.by \in Tasks
    <3>1. task[patch.by] \in Reporting
      BY <2>2 DEF CInv, ReporterWaits
    <3> QED
      BY <2>2, <3>1, ReportLeads DEF Over, CInv, TypeOK
  <2> QED
    BY <2>1, <2>2
<1>3. \A t \in Tasks : task'[t] \in Leaving => task[t] \in Leaving
  <2>1. CASE patch.by \notin Tasks
    BY <2>1 DEF Over
  <2>2. CASE patch.by \in Tasks
    <3>1. task[patch.by] \in Reporting
      BY <2>2 DEF CInv, ReporterWaits
    <3> QED
      BY <2>2, <3>1, ReportLeads DEF Over, CInv, TypeOK
  <2> QED
    BY <2>1, <2>2
<1> QED
  BY <1>1, <1>2, <1>3 DEF PhaseOK

(* A patch begins. *)
LEMMA BeginPhase ==
  ASSUME CInv, PhaseOK, NEW who \in Tasks \cup {User}, NEW wish, Begin(who, wish),
         UNCHANGED <<known, task>>
  PROVE  PhaseOK'
<1>1. phase \in Phases /\ phase' = Switched(phase, wish)
  BY DEF Begin, CInv, TypeOK
<1>2. Alive' = Alive
  BY DEF Alive
<1>3. patch' # Idle /\ patch'.wasOn = IsOn(phase) /\ patch = Idle /\ known
  BY CameraAssumption DEF Begin, Idle
<1>4. Alive = {} <=> phase = Disabled
  BY <1>3 DEF PhaseOK, CInv, NoTaskWhenOff
<1>5. CASE phase = Disabled
  <2>1. phase' \in {Disabled, Enabling}
    BY <1>1, <1>5 DEF Switched, Disabled, Enabling, Enabled, Disabling
  <2>2. \A t \in Tasks : task'[t] = "none"
    BY <1>4, <1>5 DEF Alive
  <2>3. ~patch'.wasOn
    <3>1. ~IsOn(phase)
      BY <1>5 DEF IsOn, Disabled, Enabling, Enabled
    <3> QED
      BY <1>3, <3>1, Zenon
  <2> QED
    BY <1>2, <1>3, <1>4, <1>5, <2>1, <2>2, <2>3 DEF PhaseOK, Leaving
<1>6. CASE phase # Disabled
  <2>1. Alive' # {}
    BY <1>2, <1>4, <1>6
  <2>2. \A t \in Tasks : task[t] \in Leaving => phase' = Disabling
    BY <1>1, Switching DEF PhaseOK
  <2>3. phase = Enabling => phase' = Enabling
    BY <1>1 DEF Switched, Disabled, Enabling, Enabled
  <2>4. phase' = Enabling => phase = Enabling
    BY <1>1, <1>6, Switching
  <2> QED
    BY <1>2, <2>1, <2>2, <2>3, <2>4 DEF PhaseOK
<1> QED
  BY <1>5, <1>6

(* The task goes on, but for a report, and does not panic. *)
LEMMA TaskPhase ==
  ASSUME CInv, PhaseOK, ~orphaned', NEW t \in Tasks,
         Start(t) \/ Dial(t) \/ Read(t) \/ Wait(t) \/ Record(t) \/ End(t)
  PROVE  PhaseOK'
<1> USE DEF CInv
<1>1. CASE Start(t)
  <2>1. /\ GoOn(t, "spawned", "backoff") /\ UNCHANGED <<known, patch>>
        /\ phase' = IF phase = Enabling THEN Enabled ELSE phase
    BY <1>1 DEF Start
  <2>2. /\ task[t] = "spawned" /\ task'[t] = "backoff" /\ phase = Enabling
        /\ \A u \in Tasks : u # t => task[u] = "none" /\ task'[u] = "none"
    BY <2>1 DEF GoOn, TypeOK, OneTask, Alive, PhaseOK
  <2>3. t \in Alive'
    BY <2>2 DEF Alive
  <2> QED
    BY <2>1, <2>2, <2>3 DEF PhaseOK, Leaving, Enabling, Enabled, Disabling
<1>2. CASE End(t)
  <2>1. /\ GoOn(t, "ending", "none")
        /\ phase' = IF phase = Disabling THEN Disabled ELSE phase
    BY <1>2 DEF End
  <2>2. task[t] = "ending" /\ \A u \in Tasks : task'[u] = "none"
    BY <2>1 DEF GoOn, TypeOK, OneTask, Alive
  <2>3. phase' = Disabled
    BY <2>1, <2>2 DEF PhaseOK, Leaving
  <2>4. Alive' = {}
    BY <2>2 DEF Alive
  <2> QED
    BY <2>2, <2>3, <2>4 DEF PhaseOK, Leaving, Disabled, Enabling
<1>3. CASE Dial(t) \/ Read(t) \/ Wait(t) \/ Record(t)
  <2>1. PICK a \in TaskSteps, b \in TaskSteps :
          /\ GoOn(t, a, b) /\ a # "spawned" /\ b # "spawned"
          /\ a # "none" /\ b # "none"
          /\ b \in Leaving => ~IsOn(phase)
    BY <1>3, Reports DEF Dial, Read, Wait, Record, Look, TaskSteps, Leaving
  <2>2. UNCHANGED <<known, phase, patch>>
    BY <1>3 DEF Dial, Read, Wait, Record
  <2>3. /\ task[t] = a /\ task'[t] = b
        /\ \A u \in Tasks : u # t => task'[u] = task[u]
    BY <2>1, GoesOn
  <2>4. t \in Alive /\ Alive' = Alive
    BY <2>1, <2>3 DEF Alive
  <2>5. b \in Leaving => phase = Disabling
    BY <2>1, <2>4 DEF NoTaskWhenOff, TypeOK, Phases, IsOn
  <2> QED
    BY <2>1, <2>2, <2>3, <2>4, <2>5 DEF PhaseOK
<1> QED
  BY <1>1, <1>2, <1>3

(* Every step keeps the phase right, unless the camera is left without its *)
(* task; a restart puts it right.                                          *)
LEMMA PhaseKept ==
  ASSUME CInv, orphaned \/ PhaseOK, [Next]_vars, ~orphaned'
  PROVE  PhaseOK'
<1>a. ~Restart => PhaseOK
  BY DEF Next, Create, UserPatch, PatchStep, Truncate, Write, Connect, SaveFails,
         TaskStep, Start, Report, Dial, Read, Wait, Record, End, vars, CInv, TypeOK
<1>1. CASE Create
  <2>1. \A t \in Tasks : task'[t] = "none"
    BY <1>1 DEF Create, CInv, NoTaskWhenOff, Alive
  <2>2. phase' = Disabled
    BY <1>1 DEF Create
  <2> QED
    BY <2>1, <2>2 DEF PhaseOK, Leaving, Disabled, Enabling
<1>2. CASE UserPatch
  <2>1. PhaseOK
    BY <1>2, <1>a DEF UserPatch, Restart
  <2> QED
    BY <1>2, <2>1, BeginPhase DEF UserPatch
<1>3. CASE Truncate \/ Write
  <2>1. patch # Idle /\ patch' # Idle /\ patch'.wasOn = patch.wasOn
    BY <1>3, IdlePatch DEF Truncate, Write, CInv, TypeOK
  <2>2. UNCHANGED <<known, phase, task>> /\ PhaseOK
    BY <1>3, <1>a DEF Truncate, Write, Restart
  <2> QED
    BY <2>1, <2>2 DEF PhaseOK, Alive
<1>4. CASE Connect
  <2>1. CASE ~patch.wasOn /\ phase = Enabling
    <3>1. patch # Idle
      BY <1>4, IdlePatch DEF Connect
    <3>2. Alive = {}
      BY <2>1, <3>1 DEF CInv, NoTaskToConnect
    <3>3. patch.by \notin Tasks
      BY <3>2, AfterReports DEF CInv, ReporterWaits, Alive
    <3>4. PICK t \in Tasks : Over(Started(t))
      BY <1>4, <2>1 DEF Connect
    <3>5. task' = [task EXCEPT ![t] = "spawned"]
      BY <3>3, <3>4 DEF Over, Started
    <3>6. phase' = Enabling
      BY <1>4, <2>1 DEF Connect
    <3>7. /\ task'[t] = "spawned" /\ t \in Alive'
          /\ \A u \in Tasks : u # t => task'[u] = "none"
      BY <3>2, <3>5 DEF CInv, TypeOK, Alive
    <3> QED
      BY <3>6, <3>7 DEF PhaseOK, Leaving
  <2>2. CASE ~(~patch.wasOn /\ phase = Enabling)
    <3>1. PhaseOK
      BY <1>4, <1>a DEF Connect, Restart
    <3> QED
      BY <1>4, <2>2, <3>1, OverPhase DEF Connect
  <2> QED
    BY <2>1, <2>2
<1>5. CASE Restart
  <2>1. PICK t \in Tasks :
          task' = [u \in Tasks |-> IF u = t /\ IsOn(file) THEN "spawned" ELSE "none"]
    BY <1>5 DEF Restart
  <2>2. phase' = IF IsOn(file) THEN Enabling ELSE Disabled
    BY <1>5 DEF Restart
  <2>3. CASE IsOn(file)
    <3>1. task'[t] = "spawned" /\ t \in Alive' /\ phase' = Enabling
      BY <2>1, <2>2, <2>3 DEF Alive
    <3>2. \A u \in Tasks : task'[u] \notin Leaving
      BY <2>1 DEF Leaving
    <3> QED
      BY <3>1, <3>2 DEF PhaseOK
  <2>4. CASE ~IsOn(file)
    <3>1. (\A u \in Tasks : task'[u] = "none") /\ phase' = Disabled
      BY <2>1, <2>2, <2>4
    <3> QED
      BY <3>1 DEF PhaseOK, Leaving, Disabled, Enabling
  <2> QED
    BY <2>3, <2>4
<1>6. CASE SaveFails
  <2>1. PhaseOK /\ ~(~patch.wasOn /\ phase = Enabling)
    BY <1>6, <1>a DEF SaveFails, Restart
  <2> QED
    BY <1>6, <2>1, OverPhase DEF SaveFails
<1>7. ASSUME NEW t \in Tasks, TaskStep(t) PROVE PhaseOK'
  <2>1. CASE Restart
    BY <1>5, <2>1
  <2>2. CASE ~Restart
    BY <1>7, <1>a, <2>2, BeginPhase, TaskPhase DEF TaskStep, Report
  <2> QED
    BY <2>1, <2>2
<1>8. CASE UNCHANGED vars
  <2>1. orphaned' = orphaned
    BY <1>8 DEF vars
  <2> QED
    BY <1>8, <2>1 DEF vars, PhaseOK, Alive
<1> QED
  BY <1>1, <1>2, <1>3, <1>4, <1>5, <1>6, <1>7, <1>8 DEF Next, PatchStep

(* The phase tells between patches what the task does, none when off, one  *)
(* about to start when switching on; unless, since the last restart, the   *)
(* patch that switched the camera on could not save it, or the task met an *)
(* event that the events service refuses.                                  *)
THEOREM PhaseIsTrue == Spec => []PhaseMayTellTask
<1>1. Init => PhaseOK
  BY DEF Init, PhaseOK, Leaving, Alive, Disabled, Enabling
<1>2. CInv /\ (orphaned \/ PhaseOK) /\ [Next]_vars => (orphaned \/ PhaseOK)'
  BY PhaseKept
<1>3. CInv /\ (orphaned \/ PhaseOK) => PhaseMayTellTask
  <2> SUFFICES ASSUME CInv, PhaseOK, known, patch = Idle
               PROVE  /\ phase = Disabled <=> Alive = {}
                      /\ phase = Enabling <=> \E t \in Alive : task[t] = "spawned"
    BY DEF PhaseTellsTask, PhaseMayTellTask
  <2>1. phase = Disabled <=> Alive = {}
    BY DEF PhaseOK, CInv, NoTaskWhenOff
  <2>2. phase = Enabling => Alive # {}
    BY <2>1 DEF Disabled, Enabling
  <2>3. \A t \in Tasks : task[t] = "spawned" => t \in Alive
    BY DEF Alive
  <2> QED
    BY <2>1, <2>2, <2>3 DEF PhaseOK, Alive
<1> QED
  BY <1>1, <1>2, <1>3, CInvHolds, PTL DEF Spec
=============================================================================
