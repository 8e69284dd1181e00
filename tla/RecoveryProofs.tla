--------------------------- MODULE RecoveryProofs ---------------------------
(***************************************************************************)
(* Proofs about Recovery: what it overwrites is backed up, and what it     *)
(* leaves is nothing of a damaged plan, what the plan promised, and what   *)
(* its backup can undo; for every set of paths, contents, snapshots and    *)
(* selections and for any bounds.                                          *)
(***************************************************************************)
EXTENDS Recovery, SequenceTheorems, TLAPS

USE PathsAssumption, PlacesAssumption, SnapshotsAssumption, SelectionsAssumption,
    DamagesAssumption, GapsAssumption, BoundsAssumption
-----------------------------------------------------------------------------
(* Types of the operators the actions are built from *)

\* What belongs to a set of operations by path.
LEMMA OperationsElim ==
    ASSUME NEW ops \in Operations
    PROVE  /\ DOMAIN ops \subseteq Paths
           /\ \A p \in DOMAIN ops : ops[p] \in Operation
<1>1. PICK D \in SUBSET Paths : ops \in [D -> Operation]
  BY DEF Operations
<1>2. QED
  BY <1>1

\* A function from paths to operations is a set of operations by path.
LEMMA OperationsIntro ==
    ASSUME NEW D \in SUBSET Paths, NEW ops \in [D -> Operation]
    PROVE  ops \in Operations
  BY DEF Operations

\* The operations of a reconstruction.
LEMMA ReconstructionType ==
    ASSUME snapshot \in Snapshots
    PROVE  Reconstruction \in Operations
<1> DEFINE D == {q \in Paths : snapshot[q] # Absent}
<1>1. \A p \in D : snapshot[p] \in Places
  BY DEF Places
<1>2. Reconstruction \in [D -> Operation]
  BY <1>1 DEF Reconstruction, Op, Operation, Places
<1>3. QED
  BY <1>2, OperationsIntro

\* The operations of an in-place restore.
LEMMA InPlaceType ==
    ASSUME snapshot \in Snapshots, files \in [Paths -> Places], NEW selection \in Selections
    PROVE  InPlace(selection) \in Operations
<1> DEFINE D == {q \in selection : snapshot[q] \in Contents}
<1>1. D \in SUBSET Paths
  OBVIOUS
<1>2. InPlace(selection) \in [D -> Operation]
  BY <1>1 DEF InPlace, Op, Operation, Places
<1>3. QED
  BY <1>1, <1>2, OperationsIntro

\* The operation of a single-file restore.
LEMMA SingleType ==
    ASSUME NEW content \in Contents, NEW p \in Paths
    PROVE  [q \in {p} |-> Op("write", content, Absent)] \in Operations
<1>1. Op("write", content, Absent) \in Operation
  BY DEF Op, Operation, Places
<1>2. QED
  BY <1>1, OperationsIntro

\* A touched run is a run.
LEMMA TouchType ==
    ASSUME runs \in Seq(Run), Len(runs) <= MaxRuns, NEW r, NEW p \in Paths, Touch(r, p)
    PROVE  /\ runs' \in Seq(Run)
           /\ Len(runs') = Len(runs)
           /\ \A i \in DOMAIN runs : /\ runs'[i].backup = runs[i].backup
                                     /\ runs'[i].plan = runs[i].plan
<1>1. DOMAIN runs = 1..Len(runs) /\ Len(runs) \in Nat
  OBVIOUS
<1>2. \A run \in Run : [run EXCEPT !.touched = @ \cup {p}] \in Run
  BY DEF Run
<1>3. \A i \in 1..Len(runs) : runs[i] \in Run
  BY <1>1
<1>4. runs' = [i \in 1..Len(runs) |->
                  IF i = r THEN runs[i] ELSE [runs[i] EXCEPT !.touched = @ \cup {p}]]
  BY <1>1 DEF Touch
<1>5. runs' \in [1..Len(runs) -> Run]
  BY <1>2, <1>3, <1>4
<1>6. runs' \in Seq(Run) /\ Len(runs') = Len(runs)
  BY <1>1, <1>5
<1>7. \A i \in DOMAIN runs : /\ runs'[i].backup = runs[i].backup
                             /\ runs'[i].plan = runs[i].plan
  BY <1>1, <1>3, <1>4 DEF Run
<1>8. QED
  BY <1>6, <1>7

\* Saving a plan keeps the plans and appends one.
LEMMA SavePlanType ==
    ASSUME plans \in Seq(Plan), NEW action \in Actions, NEW ops \in Operations,
           SavePlan(action, ops)
    PROVE  /\ plans' \in Seq(Plan)
           /\ Len(plans') = Len(plans) + 1
           /\ Len(plans') <= MaxPlans
           /\ \A i \in DOMAIN plans : i \in DOMAIN plans' /\ plans'[i] = plans[i]
           /\ plans'[Len(plans')] = Prepared(action, ops)
<1>1. Prepared(action, ops) \in Plan
  BY DEF Prepared, Plan
<1>2. plans' = Append(plans, Prepared(action, ops)) /\ Len(plans) < MaxPlans
  BY DEF SavePlan
<1>3. QED
  BY <1>1, <1>2
-----------------------------------------------------------------------------
(* The inductive invariant *)

Executing == {"checking", "guarding", "applying", "verifying", "closing"}

\* Links are planned, and backed up, only where the snapshot has one.
LinksRecorded ==
    /\ \A i \in DOMAIN plans : \A p \in DOMAIN plans[i].ops :
            plans[i].ops[p].target = Link => snapshot[p] = Link
    /\ \A p \in DOMAIN exec.saved : exec.saved[p].target = Link => snapshot[p] = Link

PlanLoaded == exec.step # "idle" => exec.plan \in DOMAIN plans

\* Every operation is captured or still to be captured.
CaptureCovers ==
    exec.step = "capturing" => InPlaceRun /\ DOMAIN Ops = DOMAIN exec.saved \cup exec.todo

\* What was captured is a stored plan and covers the plan that is executed.
BackupStored ==
    exec.step \in {"starting"} \cup Executing /\ InPlaceRun =>
        /\ exec.backup \in DOMAIN plans
        /\ plans[exec.backup].ops = exec.saved
        /\ DOMAIN exec.saved = DOMAIN Ops

\* The run is stored and names its backup.
RunStored ==
    exec.step \in Executing => exec.run \in DOMAIN runs /\ runs[exec.run].backup = exec.backup

TodoPlanned == exec.step \in {"guarding", "applying", "verifying"} => exec.todo \subseteq DOMAIN Ops

\* The file about to be replaced is as the guard found it.
GuardHolds ==
    exec.step = "applying" /\ InPlaceRun /\ ~gap =>
        \A p \in Paths : First(p) => ~Conflicts(Guarded(p), files[p])

ExecutionInv == PlanLoaded /\ CaptureCovers /\ BackupStored /\ RunStored /\ TodoPlanned
RecoveryInv == TypeOK /\ LinksRecorded /\ ExecutionInv /\ GuardHolds

\* The idle execution.
LEMMA IdleType == Idle \in Execution /\ Idle.step = "idle" /\ DOMAIN Idle.saved = {}
<1>1. NoOperations \in [{} -> Operation]
  BY DEF NoOperations
<1>2. NoOperations \in Operations
  BY <1>1, OperationsIntro
<1>3. QED
  BY <1>2 DEF Idle, Execution, Steps, NoOperations

\* Going idle keeps what is said of the execution.
LEMMA IdleInv ==
    ASSUME LinksRecorded, exec' = Idle, snapshot' = snapshot, DOMAIN plans' = DOMAIN plans,
           \A i \in DOMAIN plans : plans'[i].ops = plans[i].ops
    PROVE  exec' \in Execution /\ LinksRecorded' /\ ExecutionInv' /\ GuardHolds'
<1>1. exec' \in Execution /\ exec'.step = "idle" /\ DOMAIN exec'.saved = {}
  BY IdleType
<1>2. LinksRecorded'
  BY <1>1 DEF LinksRecorded
<1>3. ExecutionInv' /\ GuardHolds'
  BY <1>1 DEF ExecutionInv, GuardHolds, PlanLoaded, CaptureCovers, BackupStored, RunStored,
              TodoPlanned, Executing
<1>4. QED
  BY <1>1, <1>2, <1>3

LEMMA InitInv == Init => RecoveryInv
<1> SUFFICES ASSUME Init PROVE RecoveryInv
  OBVIOUS
<1>1. exec \in Execution /\ exec.step = "idle" /\ DOMAIN exec.saved = {}
  BY IdleType DEF Init
<1>2. plans = <<>> /\ runs = <<>>
  BY DEF Init
<1>3. plans \in Seq(Plan) /\ Len(plans) <= MaxPlans /\ runs \in Seq(Run) /\ Len(runs) <= MaxRuns
  BY <1>2
<1>4. files \in [Paths -> Places] /\ \A p \in Paths : files[p] # Link
  BY DEF Init, Places
<1>5. TypeOK
  <2>1. checkedOut \in BOOLEAN
    BY DEF Init
  <2>2. edits \in 0..MaxEdits
    <3>1. edits = 0 /\ MaxEdits \in Nat
      BY DEF Init
    <3>2. QED
      BY <3>1
  <2>3. snapshot \in Snapshots /\ damaged \in Damages /\ gap \in Gaps
    BY DEF Init
  <2>4. QED
    BY <1>1, <1>3, <1>4, <2>1, <2>2, <2>3 DEF TypeOK
<1>6. LinksRecorded
  BY <1>1, <1>2 DEF LinksRecorded
<1>7. ExecutionInv /\ GuardHolds
  BY <1>1 DEF ExecutionInv, GuardHolds, PlanLoaded, CaptureCovers, BackupStored, RunStored,
              TodoPlanned, Executing
<1>8. QED
  BY <1>5, <1>6, <1>7 DEF RecoveryInv
-----------------------------------------------------------------------------
(* Every action preserves the invariant *)

\* Storing a plan keeps what is said of the execution, when that stays.
LEMMA SavePlanInv ==
    ASSUME RecoveryInv, NEW action \in Actions, NEW ops \in Operations,
           \A p \in DOMAIN ops : ops[p].target = Link => snapshot[p] = Link,
           SavePlan(action, ops), UNCHANGED <<files, checkedOut, runs, exec, edits, circumstances>>
    PROVE  RecoveryInv'
<1>1. /\ plans' \in Seq(Plan)
      /\ Len(plans') = Len(plans) + 1
      /\ Len(plans') <= MaxPlans
      /\ \A i \in DOMAIN plans : i \in DOMAIN plans' /\ plans'[i] = plans[i]
      /\ plans'[Len(plans')] = Prepared(action, ops)
  BY SavePlanType DEF RecoveryInv, TypeOK
<1>2. plans \in Seq(Plan) /\ DOMAIN plans' = DOMAIN plans \cup {Len(plans')}
  BY <1>1 DEF RecoveryInv, TypeOK
<1>3. TypeOK'
  BY <1>1 DEF RecoveryInv, TypeOK, circumstances
<1>4. LinksRecorded'
  <2>1. plans'[Len(plans')].ops = ops
    BY <1>1 DEF Prepared
  <2>2. QED
    BY <1>1, <1>2, <2>1 DEF RecoveryInv, LinksRecorded, circumstances
<1>5. exec.step # "idle" => exec.plan \in DOMAIN plans /\ Ops' = Ops /\ InPlaceRun' = InPlaceRun
  BY <1>1 DEF RecoveryInv, ExecutionInv, PlanLoaded, Ops, InPlaceRun
<1>6. ExecutionInv'
  <2>1. PlanLoaded' /\ CaptureCovers' /\ TodoPlanned'
    BY <1>1, <1>5 DEF RecoveryInv, ExecutionInv, PlanLoaded, CaptureCovers, TodoPlanned
  <2>2. BackupStored'
    BY <1>1, <1>5 DEF RecoveryInv, ExecutionInv, BackupStored, Executing
  <2>3. RunStored'
    BY DEF RecoveryInv, ExecutionInv, RunStored
  <2>4. QED
    BY <2>1, <2>2, <2>3 DEF ExecutionInv
<1>7. GuardHolds'
  BY <1>5 DEF RecoveryInv, GuardHolds, First, Guarded, circumstances
<1>8. QED
  BY <1>3, <1>4, <1>6, <1>7 DEF RecoveryInv

LEMMA PlanRecoveryInv == ASSUME RecoveryInv, PlanRecovery PROVE RecoveryInv'
<1>1. snapshot \in Snapshots /\ snapshot \in [Paths -> Places] /\ files \in [Paths -> Places]
  BY DEF RecoveryInv, TypeOK
<1>2. ASSUME NEW action \in {"reconstruct", "worktree"}, SavePlan(action, Reconstruction)
      PROVE  RecoveryInv'
  <2>1. Reconstruction \in Operations
    BY <1>1, ReconstructionType
  <2>2. \A p \in DOMAIN Reconstruction : Reconstruction[p].target = Link => snapshot[p] = Link
    BY DEF Reconstruction, Op
  <2>3. QED
    BY <1>2, <2>1, <2>2, SavePlanInv DEF PlanRecovery, Actions
<1>3. ASSUME NEW selection \in Selections, SavePlan("in_place", InPlace(selection))
      PROVE  RecoveryInv'
  <2>1. InPlace(selection) \in Operations
    BY <1>1, InPlaceType
  <2>2. \A p \in DOMAIN InPlace(selection) : InPlace(selection)[p].target = snapshot[p]
    BY DEF InPlace, Op
  <2>3. QED
    BY <1>3, <2>1, <2>2, SavePlanInv DEF PlanRecovery, Actions
<1>4. ASSUME NEW source \in Paths, NEW p \in Paths, snapshot[source] \in Contents,
             SavePlan("single", [q \in {p} |-> Op("write", snapshot[source], Absent)])
      PROVE  RecoveryInv'
  <2> DEFINE ops == [q \in {p} |-> Op("write", snapshot[source], Absent)]
  <2>1. ops \in Operations
    BY <1>4, SingleType
  <2>2. \A q \in DOMAIN ops : ops[q].target # Link
    BY <1>4 DEF Op
  <2>3. QED
    BY <1>4, <2>1, <2>2, SavePlanInv DEF PlanRecovery, Actions
<1>5. QED
  BY <1>2, <1>3, <1>4 DEF PlanRecovery

LEMMA BeginInv ==
    ASSUME RecoveryInv, NEW i \in DOMAIN plans, NEW overwrite \in BOOLEAN, Begin(i, overwrite)
    PROVE  RecoveryInv'
<1>1. /\ plans \in Seq(Plan) /\ Len(plans) <= MaxPlans
      /\ i \in 1..MaxPlans /\ i \in 0..MaxPlans /\ plans[i].ops \in Operations
  <2>1. plans \in Seq(Plan) /\ Len(plans) <= MaxPlans
    BY DEF RecoveryInv, TypeOK
  <2>2. i \in 1..MaxPlans /\ i \in 0..MaxPlans
    BY <2>1
  <2>3. plans[i] \in Plan
    BY <2>1
  <2>4. QED
    BY <2>1, <2>2, <2>3 DEF Plan
<1>2. DOMAIN plans[i].ops \subseteq Paths
  BY <1>1, OperationsElim
<1>3. UNCHANGED <<files, plans, runs, edits, circumstances>>
  BY DEF Begin
<1>4. CASE /\ plans[i].action = "in_place"
           /\ exec' = [Idle EXCEPT !.step = "capturing", !.plan = i, !.overwrite = overwrite,
                                   !.todo = DOMAIN plans[i].ops]
           /\ UNCHANGED checkedOut
  <2>1. /\ exec'.step = "capturing" /\ exec'.plan = i /\ exec'.todo = DOMAIN plans[i].ops
        /\ DOMAIN exec'.saved = {}
    BY <1>4, IdleType DEF Idle
  <2>2. exec' \in Execution
    <3>1. \A e \in Execution : \A todo \in SUBSET Paths :
            [e EXCEPT !.step = "capturing", !.plan = i, !.overwrite = overwrite, !.todo = todo]
                \in Execution
      BY <1>1 DEF Execution, Steps
    <3>2. QED
      BY <1>2, <1>4, <3>1, IdleType
  <2>3. TypeOK'
    BY <1>3, <1>4, <2>2 DEF RecoveryInv, TypeOK, circumstances
  <2>4. LinksRecorded'
    BY <1>3, <2>1 DEF RecoveryInv, LinksRecorded, circumstances
  <2>5. ExecutionInv' /\ GuardHolds'
    BY <1>3, <1>4, <2>1 DEF ExecutionInv, PlanLoaded, CaptureCovers, BackupStored, RunStored,
        TodoPlanned, GuardHolds, Executing, Ops, InPlaceRun
  <2>6. QED
    BY <2>3, <2>4, <2>5 DEF RecoveryInv
<1>5. CASE /\ plans[i].action # "in_place"
           /\ exec' = [Idle EXCEPT !.step = "starting", !.plan = i, !.overwrite = overwrite]
           /\ (UNCHANGED checkedOut \/ checkedOut' = TRUE)
  <2>1. exec'.step = "starting" /\ exec'.plan = i /\ DOMAIN exec'.saved = {}
    BY <1>5, IdleType DEF Idle
  <2>2. exec' \in Execution
    <3>1. \A e \in Execution :
            [e EXCEPT !.step = "starting", !.plan = i, !.overwrite = overwrite] \in Execution
      BY <1>1 DEF Execution, Steps
    <3>2. QED
      BY <1>5, <3>1, IdleType
  <2>3. TypeOK'
    BY <1>3, <1>5, <2>2 DEF RecoveryInv, TypeOK, circumstances
  <2>4. LinksRecorded'
    BY <1>3, <2>1 DEF RecoveryInv, LinksRecorded, circumstances
  <2>5. ExecutionInv' /\ GuardHolds'
    BY <1>3, <1>5, <2>1 DEF ExecutionInv, PlanLoaded, CaptureCovers, BackupStored, RunStored,
        TodoPlanned, GuardHolds, Executing, Ops, InPlaceRun
  <2>6. QED
    BY <2>3, <2>4, <2>5 DEF RecoveryInv
<1>6. QED
  BY <1>4, <1>5 DEF Begin

LEMMA CaptureInv ==
    ASSUME RecoveryInv, NEW p \in Paths, Capture(p)
    PROVE  RecoveryInv'
<1> DEFINE undo == Op(IF files[p] = Absent THEN "remove" ELSE "write", files[p], Ops[p].target)
           saved == [q \in DOMAIN exec.saved \cup {p} |-> IF q = p THEN undo ELSE exec.saved[q]]
<1>1. /\ exec \in Execution /\ exec.saved \in Operations
      /\ DOMAIN exec.saved \subseteq Paths /\ \A q \in DOMAIN exec.saved : exec.saved[q] \in Operation
  <2>1. exec \in Execution /\ exec.saved \in Operations
    BY DEF RecoveryInv, TypeOK, Execution
  <2>2. QED
    BY <2>1, OperationsElim
<1>2. /\ exec.step = "capturing" /\ p \in exec.todo
      /\ exec' = [exec EXCEPT !.saved = saved, !.todo = @ \ {p}, !.touched = @ \ {p}]
      /\ UNCHANGED <<files, checkedOut, plans, runs, edits, circumstances>>
  BY DEF Capture, First
<1>3. /\ exec'.step = "capturing" /\ exec'.plan = exec.plan /\ exec'.saved = saved
      /\ exec'.todo = exec.todo \ {p}
  BY <1>1, <1>2 DEF Execution
<1>4. exec.plan \in DOMAIN plans /\ InPlaceRun /\ DOMAIN Ops = DOMAIN exec.saved \cup exec.todo
  BY <1>2 DEF RecoveryInv, ExecutionInv, PlanLoaded, CaptureCovers
<1>5. Ops' = Ops /\ InPlaceRun' = InPlaceRun
  BY <1>2, <1>3 DEF Ops, InPlaceRun
<1>6. Ops[p] \in Operation
  <2>1. plans[exec.plan] \in Plan
    BY <1>4 DEF RecoveryInv, TypeOK
  <2>2. Ops \in Operations
    BY <2>1 DEF Ops, Plan
  <2>3. QED
    BY <1>2, <1>4, <2>2, OperationsElim
<1>7. undo \in Operation /\ undo.target = files[p]
  BY <1>6 DEF RecoveryInv, TypeOK, Op, Operation
<1>8. saved \in Operations
  <2>1. saved \in [DOMAIN exec.saved \cup {p} -> Operation]
    BY <1>1, <1>7
  <2>2. QED
    BY <1>1, <2>1, OperationsIntro
<1>9. exec' \in Execution
  BY <1>1, <1>2, <1>8 DEF Execution
<1>10. TypeOK'
  BY <1>2, <1>9 DEF RecoveryInv, TypeOK, circumstances
<1>11. LinksRecorded'
  <2>1. files[p] = Link => snapshot[p] = Link
    BY DEF RecoveryInv, TypeOK
  <2>2. \A q \in DOMAIN saved : saved[q].target = Link => snapshot[q] = Link
    BY <1>7, <2>1 DEF RecoveryInv, LinksRecorded
  <2>3. QED
    BY <1>2, <1>3, <2>2 DEF RecoveryInv, LinksRecorded, circumstances
<1>12. ExecutionInv' /\ GuardHolds'
  <2>1. DOMAIN Ops = DOMAIN saved \cup (exec.todo \ {p})
    BY <1>2, <1>4
  <2>2. QED
    BY <1>2, <1>3, <1>4, <1>5, <2>1 DEF ExecutionInv, PlanLoaded, CaptureCovers, BackupStored,
        RunStored, TodoPlanned, GuardHolds, Executing
<1>13. QED
  BY <1>10, <1>11, <1>12 DEF RecoveryInv

LEMMA PersistBackupInv == ASSUME RecoveryInv, PersistBackup PROVE RecoveryInv'
<1>1. exec \in Execution /\ exec.saved \in Operations /\ plans \in Seq(Plan)
  BY DEF RecoveryInv, TypeOK, Execution
<1>2. /\ exec.step = "capturing" /\ exec.todo = {}
      /\ SavePlan("in_place", exec.saved)
      /\ exec' = [exec EXCEPT !.step = "starting", !.backup = Len(plans')]
      /\ UNCHANGED <<files, checkedOut, runs, edits, circumstances>>
  BY DEF PersistBackup
<1>3. /\ plans' \in Seq(Plan)
      /\ Len(plans') = Len(plans) + 1
      /\ Len(plans') <= MaxPlans
      /\ \A i \in DOMAIN plans : i \in DOMAIN plans' /\ plans'[i] = plans[i]
      /\ plans'[Len(plans')] = Prepared("in_place", exec.saved)
  BY <1>1, <1>2, SavePlanType DEF Actions
<1>4. DOMAIN plans' = DOMAIN plans \cup {Len(plans')} /\ Len(plans') \in 0..MaxPlans
  BY <1>1, <1>3
<1>5. /\ exec'.step = "starting" /\ exec'.plan = exec.plan /\ exec'.saved = exec.saved
      /\ exec'.backup = Len(plans') /\ exec' \in Execution
  BY <1>1, <1>2, <1>4 DEF Execution, Steps
<1>6. plans'[Len(plans')].ops = exec.saved
  BY <1>3 DEF Prepared
<1>7. exec.plan \in DOMAIN plans /\ DOMAIN Ops = DOMAIN exec.saved
  BY <1>2 DEF RecoveryInv, ExecutionInv, PlanLoaded, CaptureCovers
<1>8. Ops' = Ops
  BY <1>3, <1>5, <1>7 DEF Ops
<1>9. TypeOK'
  BY <1>2, <1>3, <1>5 DEF RecoveryInv, TypeOK, circumstances
<1>10. LinksRecorded'
  BY <1>2, <1>3, <1>4, <1>5, <1>6 DEF RecoveryInv, LinksRecorded, circumstances
<1>11. ExecutionInv' /\ GuardHolds'
  BY <1>4, <1>5, <1>6, <1>7, <1>8 DEF ExecutionInv, PlanLoaded, CaptureCovers, BackupStored,
        RunStored, TodoPlanned, GuardHolds, Executing
<1>12. QED
  BY <1>9, <1>10, <1>11 DEF RecoveryInv

LEMMA SaveRunInv == ASSUME RecoveryInv, SaveRun PROVE RecoveryInv'
<1>1. exec \in Execution /\ runs \in Seq(Run) /\ exec.plan \in DOMAIN plans /\ plans \in Seq(Plan)
  BY DEF RecoveryInv, TypeOK, ExecutionInv, PlanLoaded, SaveRun
<1> DEFINE run == [plan |-> exec.plan, backup |-> exec.backup, state |-> "running",
                   touched |-> exec.touched]
<1>2. /\ exec.step = "starting" /\ Len(runs) < MaxRuns
      /\ runs' = Append(runs, run)
      /\ exec' = [exec EXCEPT !.step = "checking", !.run = Len(runs')]
      /\ UNCHANGED <<files, checkedOut, plans, edits, circumstances>>
  BY DEF SaveRun
<1>3. run \in Run
  <2>1. exec.plan \in 1..MaxPlans
    BY <1>1 DEF RecoveryInv, TypeOK
  <2>2. QED
    BY <1>1, <2>1 DEF Run, Execution
<1>4. /\ runs' \in Seq(Run) /\ Len(runs') = Len(runs) + 1 /\ Len(runs') \in DOMAIN runs'
      /\ runs'[Len(runs')] = run /\ Len(runs') \in 0..MaxRuns
  BY <1>1, <1>2, <1>3
<1>5. /\ exec'.step = "checking" /\ exec'.plan = exec.plan /\ exec'.saved = exec.saved
      /\ exec'.backup = exec.backup /\ exec'.run = Len(runs') /\ exec' \in Execution
  BY <1>1, <1>2, <1>4 DEF Execution, Steps
<1>6. Ops' = Ops /\ InPlaceRun' = InPlaceRun
  BY <1>2, <1>5 DEF Ops, InPlaceRun
<1>7. TypeOK'
  BY <1>2, <1>4, <1>5 DEF RecoveryInv, TypeOK, circumstances
<1>8. LinksRecorded'
  BY <1>2, <1>5 DEF RecoveryInv, LinksRecorded, circumstances
<1>9. ExecutionInv' /\ GuardHolds'
  BY <1>1, <1>2, <1>4, <1>5, <1>6 DEF RecoveryInv, ExecutionInv, PlanLoaded, CaptureCovers,
        BackupStored, RunStored, TodoPlanned, GuardHolds, Executing
<1>10. QED
  BY <1>7, <1>8, <1>9 DEF RecoveryInv

\* The execution goes on with what it has captured and stored.
SameExecution ==
    /\ exec'.plan = exec.plan /\ exec'.saved = exec.saved
    /\ exec'.backup = exec.backup /\ exec'.run = exec.run
    /\ DOMAIN exec' = DOMAIN exec /\ exec'.overwrite = exec.overwrite
    /\ exec'.touched = exec.touched

\* Moving on inside execute keeps the invariant, if the guard is kept.
LEMMA MoveInv ==
    ASSUME RecoveryInv,
           exec.step \in {"checking", "guarding", "applying", "verifying"},
           SameExecution, exec' \in Execution,
           exec'.step \in {"guarding", "applying", "verifying"},
           exec'.todo \subseteq DOMAIN Ops,
           files' \in [Paths -> Places], \A p \in Paths : files'[p] = Link => snapshot[p] = Link,
           runs' \in Seq(Run), Len(runs') = Len(runs),
           \A i \in DOMAIN runs : runs'[i].backup = runs[i].backup,
           UNCHANGED <<checkedOut, plans, edits, circumstances>>,
           GuardHolds'
    PROVE  RecoveryInv'
<1>1. exec \in Execution /\ exec.plan \in DOMAIN plans /\ runs \in Seq(Run)
  BY DEF RecoveryInv, TypeOK, ExecutionInv, PlanLoaded
<1>3. /\ exec'.plan = exec.plan /\ exec'.saved = exec.saved
      /\ exec'.backup = exec.backup /\ exec'.run = exec.run
      /\ exec' \in Execution
  BY <1>1 DEF SameExecution
<1>4. Ops' = Ops /\ InPlaceRun' = InPlaceRun
  BY <1>3 DEF Ops, InPlaceRun
<1>5. DOMAIN runs' = DOMAIN runs
  BY <1>1
<1>6. TypeOK'
  BY <1>3 DEF RecoveryInv, TypeOK, circumstances
<1>7. LinksRecorded'
  BY <1>3 DEF RecoveryInv, LinksRecorded, circumstances
<1>8. ExecutionInv'
  <2>1. PlanLoaded' /\ CaptureCovers' /\ TodoPlanned'
    BY <1>1, <1>3, <1>4 DEF PlanLoaded, CaptureCovers, TodoPlanned
  <2>2. BackupStored'
    BY <1>3, <1>4 DEF RecoveryInv, ExecutionInv, BackupStored, Executing
  <2>3. RunStored'
    BY <1>3, <1>5 DEF RecoveryInv, ExecutionInv, RunStored, Executing
  <2>4. QED
    BY <2>1, <2>2, <2>3 DEF ExecutionInv
<1>9. QED
  BY <1>6, <1>7, <1>8 DEF RecoveryInv

\* What MoveInv asks of the files and runs when they stay.
LEMMA FilesAndRuns ==
    ASSUME RecoveryInv, UNCHANGED <<files, runs>>
    PROVE  /\ files' \in [Paths -> Places] /\ \A p \in Paths : files'[p] = Link => snapshot[p] = Link
           /\ runs' \in Seq(Run) /\ Len(runs') = Len(runs)
           /\ \A i \in DOMAIN runs : runs'[i].backup = runs[i].backup
  BY DEF RecoveryInv, TypeOK

\* What is known of the execution's plan.
LEMMA PlannedPaths ==
    ASSUME RecoveryInv, exec.step # "idle"
    PROVE  /\ exec \in Execution /\ exec.plan \in DOMAIN plans
           /\ Ops \in Operations /\ DOMAIN Ops \subseteq Paths
<1>1. exec \in Execution /\ exec.plan \in DOMAIN plans
  BY DEF RecoveryInv, TypeOK, ExecutionInv, PlanLoaded
<1>2. plans[exec.plan] \in Plan
  BY <1>1 DEF RecoveryInv, TypeOK
<1>3. Ops \in Operations
  BY <1>2 DEF Ops, Plan
<1>4. QED
  BY <1>1, <1>3, OperationsElim

LEMMA CheckInv == ASSUME RecoveryInv, Check PROVE RecoveryInv'
<1>1. /\ exec.step = "checking" /\ exec \in Execution
      /\ exec' = [exec EXCEPT !.step = "guarding", !.todo = DOMAIN Ops]
      /\ UNCHANGED <<files, checkedOut, plans, runs, edits, circumstances>>
  BY DEF Check, RecoveryInv, TypeOK
<1>2. /\ SameExecution /\ exec' \in Execution
      /\ exec'.step = "guarding" /\ exec'.todo = DOMAIN Ops
  BY <1>1, PlannedPaths DEF SameExecution, Execution, Steps
<1>3. GuardHolds'
  BY <1>2 DEF GuardHolds
<1>4. /\ files' \in [Paths -> Places] /\ \A p \in Paths : files'[p] = Link => snapshot[p] = Link
      /\ runs' \in Seq(Run) /\ Len(runs') = Len(runs)
      /\ \A i \in DOMAIN runs : runs'[i].backup = runs[i].backup
  BY <1>1, FilesAndRuns
<1>5. QED
  BY <1>1, <1>2, <1>3, <1>4, MoveInv

LEMMA GuardInv ==
    ASSUME RecoveryInv, NEW p \in Paths, Guard(p)
    PROVE  RecoveryInv'
<1>1. /\ exec.step = "guarding" /\ First(p) /\ exec \in Execution
      /\ InPlaceRun => ~Conflicts(Guarded(p), files[p])
      /\ exec' = [exec EXCEPT !.step = "applying"]
      /\ UNCHANGED <<files, checkedOut, plans, runs, edits, circumstances>>
  BY DEF Guard, RecoveryInv, TypeOK
<1>2. exec' = [exec EXCEPT !.step = "applying", !.todo = exec.todo]
  BY <1>1 DEF Execution
<1>5. exec.todo \subseteq DOMAIN Ops
  BY <1>1 DEF RecoveryInv, ExecutionInv, TodoPlanned
<1>3. SameExecution /\ exec' \in Execution /\ exec'.step = "applying" /\ exec'.todo = exec.todo
  BY <1>1, <1>2, <1>5, PlannedPaths DEF SameExecution, Execution, Steps
<1>4. GuardHolds'
  <2>1. \A q \in Paths : First(q)' => q = p
    BY <1>1, <1>3 DEF First
  <2>2. Guarded(p)' = Guarded(p) /\ InPlaceRun' = InPlaceRun
    BY <1>1, <1>3 DEF Guarded, Ops, InPlaceRun, SameExecution
  <2>3. QED
    BY <1>1, <2>1, <2>2 DEF GuardHolds
<1>6. /\ files' \in [Paths -> Places] /\ \A q \in Paths : files'[q] = Link => snapshot[q] = Link
      /\ runs' \in Seq(Run) /\ Len(runs') = Len(runs)
      /\ \A i \in DOMAIN runs : runs'[i].backup = runs[i].backup
  BY <1>1, FilesAndRuns
<1>7. QED
  BY <1>1, <1>3, <1>4, <1>5, <1>6, MoveInv

LEMMA ApplyInv ==
    ASSUME RecoveryInv, NEW p \in Paths, Apply(p)
    PROVE  RecoveryInv'
<1> DEFINE step == IF Ops[p].kind = "write" THEN "verifying" ELSE "guarding"
           todo == IF Ops[p].kind = "write" THEN exec.todo ELSE exec.todo \ {p}
<1>1. /\ exec.step = "applying" /\ First(p) /\ exec \in Execution
      /\ files' = [files EXCEPT ![p] = Ops[p].target]
      /\ runs' = runs \/ Touch(exec.run, p)
      /\ UNCHANGED <<checkedOut, plans, edits, circumstances>>
  BY DEF Apply, RecoveryInv, TypeOK
<1>3. /\ exec.todo \subseteq DOMAIN Ops /\ p \in DOMAIN Ops
      /\ exec.plan \in DOMAIN plans
  BY <1>1 DEF RecoveryInv, ExecutionInv, TodoPlanned, PlanLoaded, First
<1>4. Ops[p].target \in Places /\ (Ops[p].target = Link => snapshot[p] = Link)
  <2>1. plans[exec.plan] \in Plan
    BY <1>3 DEF RecoveryInv, TypeOK
  <2>2. Ops \in Operations
    BY <2>1 DEF Ops, Plan
  <2>3. Ops[p] \in Operation
    BY <1>3, <2>2, OperationsElim
  <2>4. QED
    BY <1>3, <2>3 DEF Operation, RecoveryInv, LinksRecorded, Ops
<1>5. files' \in [Paths -> Places] /\ \A q \in Paths : files'[q] = Link => snapshot[q] = Link
  BY <1>1, <1>4 DEF RecoveryInv, TypeOK
<1>6. /\ runs' \in Seq(Run) /\ Len(runs') = Len(runs)
      /\ \A i \in DOMAIN runs : runs'[i].backup = runs[i].backup
  <2>1. runs \in Seq(Run) /\ Len(runs) <= MaxRuns
    BY DEF RecoveryInv, TypeOK
  <2>2. CASE runs' = runs
    BY <2>1, <2>2
  <2>3. CASE Touch(exec.run, p)
    BY <2>1, <2>3, TouchType
  <2>4. QED
    BY <1>1, <2>2, <2>3
<1>7. SameExecution /\ exec' \in Execution /\ exec'.step = step /\ exec'.todo = todo
  <2>1. CASE Ops[p].kind = "write"
    <3>1. exec' = [exec EXCEPT !.step = "verifying"]
      BY <2>1 DEF Apply
    <3>2. QED
      BY <1>1, <2>1, <3>1 DEF SameExecution, Execution, Steps
  <2>2. CASE Ops[p].kind # "write"
    <3>1. exec' = [exec EXCEPT !.step = "guarding", !.todo = exec.todo \ {p}]
      BY <2>2 DEF Apply
    <3>2. QED
      BY <1>1, <2>2, <3>1 DEF SameExecution, Execution, Steps
  <2>3. QED
    BY <2>1, <2>2
<1>8. GuardHolds'
  BY <1>7 DEF GuardHolds
<1>9. exec'.step \in {"guarding", "applying", "verifying"} /\ exec'.todo \subseteq DOMAIN Ops
  BY <1>3, <1>7
<1>10. QED
  BY <1>1, <1>5, <1>6, <1>7, <1>8, <1>9, MoveInv

LEMMA VerifyInv ==
    ASSUME RecoveryInv, NEW p \in Paths, Verify(p)
    PROVE  RecoveryInv'
<1>1. /\ exec.step = "verifying" /\ exec \in Execution
      /\ exec' = [exec EXCEPT !.step = "guarding", !.todo = exec.todo \ {p}]
      /\ UNCHANGED <<files, checkedOut, plans, runs, edits, circumstances>>
  BY DEF Verify, RecoveryInv, TypeOK
<1>4. exec.todo \ {p} \subseteq DOMAIN Ops
  BY <1>1 DEF RecoveryInv, ExecutionInv, TodoPlanned
<1>2. /\ SameExecution /\ exec' \in Execution
      /\ exec'.step = "guarding" /\ exec'.todo = exec.todo \ {p}
  BY <1>1, <1>4, PlannedPaths DEF SameExecution, Execution, Steps
<1>3. GuardHolds'
  BY <1>2 DEF GuardHolds
<1>5. /\ files' \in [Paths -> Places] /\ \A q \in Paths : files'[q] = Link => snapshot[q] = Link
      /\ runs' \in Seq(Run) /\ Len(runs') = Len(runs)
      /\ \A i \in DOMAIN runs : runs'[i].backup = runs[i].backup
  BY <1>1, FilesAndRuns
<1>6. QED
  BY <1>1, <1>2, <1>3, <1>4, <1>5, MoveInv

\* Recording how a run ended keeps its backup.
LEMMA RunStateType ==
    ASSUME runs \in Seq(Run), Len(runs) <= MaxRuns, NEW r \in DOMAIN runs,
           NEW state \in {"running", "failed", "succeeded"},
           runs' = [runs EXCEPT ![r].state = state]
    PROVE  /\ runs' \in Seq(Run) /\ Len(runs') = Len(runs)
           /\ \A i \in DOMAIN runs : runs'[i].backup = runs[i].backup
<1>1. DOMAIN runs = 1..Len(runs) /\ Len(runs) \in Nat /\ \A i \in 1..Len(runs) : runs[i] \in Run
  OBVIOUS
<1>2. [runs[r] EXCEPT !.state = state] \in Run /\ [runs[r] EXCEPT !.state = state].backup = runs[r].backup
  <2>1. \A run \in Run : /\ [run EXCEPT !.state = state] \in Run
                         /\ [run EXCEPT !.state = state].backup = run.backup
    BY DEF Run
  <2>2. runs[r] \in Run
    BY <1>1
  <2>3. QED
    BY <2>1, <2>2
<1>3. runs' = [runs EXCEPT ![r] = [runs[r] EXCEPT !.state = state]]
  OBVIOUS
<1>4. runs' \in [1..Len(runs) -> Run]
  BY <1>1, <1>2, <1>3
<1>5. QED
  BY <1>1, <1>2, <1>3, <1>4

LEMMA SucceedInv == ASSUME RecoveryInv, Succeed PROVE RecoveryInv'
<1>1. /\ exec.step = "guarding"
      /\ runs' = [runs EXCEPT ![exec.run].state = "succeeded"]
      /\ exec' = [exec EXCEPT !.step = "closing"]
      /\ UNCHANGED <<files, checkedOut, plans, edits, circumstances>>
  BY DEF Succeed
<1>2. runs \in Seq(Run) /\ Len(runs) <= MaxRuns /\ exec.run \in DOMAIN runs
  BY <1>1 DEF RecoveryInv, TypeOK, ExecutionInv, RunStored, Executing
<1>3. /\ runs' \in Seq(Run) /\ Len(runs') = Len(runs)
      /\ \A i \in DOMAIN runs : runs'[i].backup = runs[i].backup
  BY <1>1, <1>2, RunStateType
<1>4. SameExecution /\ exec' \in Execution /\ exec'.step = "closing"
  BY <1>1, PlannedPaths DEF SameExecution, Execution, Steps
<1>5. Ops' = Ops /\ InPlaceRun' = InPlaceRun /\ DOMAIN runs' = DOMAIN runs
  BY <1>1, <1>2, <1>3, <1>4 DEF Ops, InPlaceRun, SameExecution
<1>6. TypeOK'
  BY <1>1, <1>3, <1>4 DEF RecoveryInv, TypeOK, circumstances
<1>7. LinksRecorded'
  BY <1>1, <1>4 DEF RecoveryInv, LinksRecorded, SameExecution, circumstances
<1>8. ExecutionInv' /\ GuardHolds'
  <2>1. PlanLoaded' /\ CaptureCovers' /\ TodoPlanned' /\ GuardHolds'
    BY <1>1, <1>4, PlannedPaths DEF PlanLoaded, CaptureCovers, TodoPlanned, GuardHolds, SameExecution
  <2>2. BackupStored'
    BY <1>1, <1>4, <1>5 DEF RecoveryInv, ExecutionInv, BackupStored, Executing, SameExecution
  <2>3. RunStored'
    BY <1>1, <1>3, <1>4, <1>5 DEF RecoveryInv, ExecutionInv, RunStored, Executing, SameExecution
  <2>4. QED
    BY <2>1, <2>2, <2>3 DEF ExecutionInv
<1>9. QED
  BY <1>6, <1>7, <1>8 DEF RecoveryInv

LEMMA SaveExecutedInv == ASSUME RecoveryInv, SaveExecuted PROVE RecoveryInv'
<1> DEFINE n == exec.plan
<1>1. /\ exec.step = "closing" /\ exec' = Idle
      /\ plans' = [plans EXCEPT ![n].status = "executed"]
      /\ UNCHANGED <<files, checkedOut, runs, edits, circumstances>>
  BY DEF SaveExecuted
<1>2. plans \in Seq(Plan) /\ Len(plans) <= MaxPlans /\ n \in DOMAIN plans
  BY <1>1 DEF RecoveryInv, TypeOK, ExecutionInv, PlanLoaded
<1>3. DOMAIN plans = 1..Len(plans) /\ Len(plans) \in Nat /\ \A i \in 1..Len(plans) : plans[i] \in Plan
  BY <1>2
<1> DEFINE plan == [plans[n] EXCEPT !.status = "executed"]
<1>4. plan \in Plan /\ plan.ops = plans[n].ops
  <2>1. \A q \in Plan : /\ [q EXCEPT !.status = "executed"] \in Plan
                       /\ [q EXCEPT !.status = "executed"].ops = q.ops
    BY DEF Plan
  <2>2. plans[n] \in Plan
    BY <1>2, <1>3
  <2>3. QED
    BY <2>1, <2>2
<1>5. plans' = [plans EXCEPT ![n] = plan]
  BY <1>1
<1>6. plans' \in [1..Len(plans) -> Plan]
  BY <1>3, <1>4, <1>5
<1>7. plans' \in Seq(Plan) /\ Len(plans') = Len(plans) /\ DOMAIN plans' = DOMAIN plans
  BY <1>3, <1>6
<1>8. \A i \in DOMAIN plans : plans'[i].ops = plans[i].ops
  BY <1>3, <1>4, <1>5
<1>9. exec' \in Execution /\ LinksRecorded' /\ ExecutionInv' /\ GuardHolds'
  BY <1>1, <1>7, <1>8, IdleInv DEF RecoveryInv, circumstances
<1>10. TypeOK'
  BY <1>1, <1>2, <1>7, <1>9 DEF RecoveryInv, TypeOK, circumstances
<1>11. QED
  BY <1>9, <1>10 DEF RecoveryInv

LEMMA FailInv == ASSUME RecoveryInv, Fail PROVE RecoveryInv'
<1>1. /\ exec.step \in {"checking", "guarding", "applying", "verifying"} /\ exec' = Idle
      /\ runs' = [runs EXCEPT ![exec.run].state = "failed"]
      /\ UNCHANGED <<files, checkedOut, plans, edits, circumstances>>
  BY DEF Fail
<1>2. runs \in Seq(Run) /\ Len(runs) <= MaxRuns /\ exec.run \in DOMAIN runs
  BY <1>1 DEF RecoveryInv, TypeOK, ExecutionInv, RunStored, Executing
<1>3. runs' \in Seq(Run) /\ Len(runs') = Len(runs)
  BY <1>1, <1>2, RunStateType
<1>4. exec' \in Execution /\ LinksRecorded' /\ ExecutionInv' /\ GuardHolds'
  BY <1>1, IdleInv DEF RecoveryInv, circumstances
<1>5. TypeOK'
  BY <1>1, <1>3, <1>4 DEF RecoveryInv, TypeOK, circumstances
<1>6. QED
  BY <1>4, <1>5 DEF RecoveryInv

LEMMA AbandonInv == ASSUME RecoveryInv, Abandon PROVE RecoveryInv'
<1>1. exec' = Idle /\ UNCHANGED <<files, checkedOut, plans, runs, edits, circumstances>>
  BY DEF Abandon
<1>2. exec' \in Execution /\ LinksRecorded' /\ ExecutionInv' /\ GuardHolds'
  BY <1>1, IdleInv DEF RecoveryInv, circumstances
<1>3. TypeOK'
  BY <1>1, <1>2 DEF RecoveryInv, TypeOK, circumstances
<1>4. QED
  BY <1>2, <1>3 DEF RecoveryInv

LEMMA UserEditInv ==
    ASSUME RecoveryInv, NEW p \in Paths, NEW place \in Contents \cup {Absent}, UserEdit(p, place)
    PROVE  RecoveryInv'
<1>1. /\ edits < MaxEdits /\ edits' = edits + 1
      /\ exec.step = "applying" /\ First(p) => gap
      /\ files' = [files EXCEPT ![p] = place]
      /\ Touch(0, p)
      /\ exec' = IF exec.step = "idle" THEN exec ELSE [exec EXCEPT !.touched = @ \cup {p}]
      /\ UNCHANGED <<checkedOut, plans, circumstances>>
  BY DEF UserEdit
<1>2. runs \in Seq(Run) /\ Len(runs) <= MaxRuns /\ exec \in Execution
  BY DEF RecoveryInv, TypeOK
<1>3. /\ runs' \in Seq(Run) /\ Len(runs') = Len(runs) /\ DOMAIN runs' = DOMAIN runs
      /\ \A i \in DOMAIN runs : runs'[i].backup = runs[i].backup
  <2>1. /\ runs' \in Seq(Run) /\ Len(runs') = Len(runs)
        /\ \A i \in DOMAIN runs : runs'[i].backup = runs[i].backup
    BY <1>1, <1>2, TouchType
  <2>2. QED
    BY <1>2, <2>1
<1>4. /\ exec' \in Execution /\ exec'.step = exec.step /\ exec'.plan = exec.plan
      /\ exec'.saved = exec.saved /\ exec'.backup = exec.backup /\ exec'.run = exec.run
      /\ exec'.todo = exec.todo
  BY <1>1, <1>2 DEF Execution
<1>5. Ops' = Ops /\ InPlaceRun' = InPlaceRun
  BY <1>1, <1>4 DEF Ops, InPlaceRun
<1>6. files' \in [Paths -> Places] /\ \A q \in Paths : files'[q] = Link => snapshot[q] = Link
  BY <1>1 DEF RecoveryInv, TypeOK, Places
<1>7. edits' \in 0..MaxEdits
  BY <1>1 DEF RecoveryInv, TypeOK
<1>8. TypeOK'
  BY <1>1, <1>3, <1>4, <1>6, <1>7 DEF RecoveryInv, TypeOK, circumstances
<1>9. LinksRecorded'
  BY <1>1, <1>4 DEF RecoveryInv, LinksRecorded, circumstances
<1>10. ExecutionInv'
  <2>1. PlanLoaded' /\ CaptureCovers' /\ TodoPlanned'
    BY <1>1, <1>4, <1>5 DEF RecoveryInv, ExecutionInv, PlanLoaded, CaptureCovers, TodoPlanned
  <2>2. BackupStored'
    BY <1>1, <1>4, <1>5 DEF RecoveryInv, ExecutionInv, BackupStored
  <2>3. RunStored'
    BY <1>3, <1>4 DEF RecoveryInv, ExecutionInv, RunStored
  <2>4. QED
    BY <2>1, <2>2, <2>3 DEF ExecutionInv
<1>11. GuardHolds'
  <2>1. SUFFICES ASSUME exec.step = "applying", InPlaceRun, ~gap, NEW q \in Paths, First(q)
                 PROVE  ~Conflicts(Guarded(q), files[q])'
    BY <1>1, <1>4, <1>5 DEF GuardHolds, First, circumstances
  <2>2. ~Conflicts(Guarded(q), files[q])
    BY <2>1 DEF RecoveryInv, GuardHolds
  <2>3. files'[q] = files[q]
    BY <1>1, <2>1 DEF RecoveryInv, TypeOK
  <2>4. Guarded(q)' = Guarded(q)
    BY <1>4, <1>5 DEF Guarded
  <2>5. QED
    BY <2>2, <2>3, <2>4 DEF Conflicts
<1>12. QED
  BY <1>8, <1>9, <1>10, <1>11 DEF RecoveryInv

LEMMA NextInv == ASSUME RecoveryInv, [Next]_vars PROVE RecoveryInv'
<1>1. CASE PlanRecovery
  BY <1>1, PlanRecoveryInv
<1>2. CASE Execute
  BY <1>2, BeginInv, CaptureInv, PersistBackupInv, SaveRunInv, CheckInv, GuardInv, ApplyInv,
     VerifyInv, SucceedInv, SaveExecutedInv, FailInv, AbandonInv DEF Execute
<1>3. CASE \E p \in Paths, place \in Contents \cup {Absent} : UserEdit(p, place)
  BY <1>3, UserEditInv
<1>4. CASE UNCHANGED vars
  BY <1>4 DEF vars, circumstances, RecoveryInv, TypeOK, LinksRecorded, ExecutionInv, PlanLoaded,
     CaptureCovers, BackupStored, RunStored, TodoPlanned, GuardHolds, Ops, InPlaceRun, First, Guarded
<1>5. QED
  BY <1>1, <1>2, <1>3, <1>4 DEF Next

\* Every reachable state satisfies the inductive invariant.
LEMMA AlwaysInv == Spec => []RecoveryInv
<1>1. Init => RecoveryInv
  BY InitInv
<1>2. RecoveryInv /\ [Next]_vars => RecoveryInv'
  BY NextInv
<1>3. QED
  BY <1>1, <1>2, PTL DEF Spec
-----------------------------------------------------------------------------
\* The variables of recovery keep their types, and a link is only where the
\* snapshot has one.
THEOREM TypeCorrect == Spec => []TypeOK
<1>1. RecoveryInv => TypeOK
  BY DEF RecoveryInv
<1>2. QED
  BY <1>1, AlwaysInv, PTL

\* A step that changes a file without an edit is Apply at the first path left.
LEMMA OnlyApplyChanges ==
    ASSUME Next, edits' = edits, files' # files, edits \in Nat
    PROVE  \E p \in Paths : Apply(p)
<1>1. ~PlanRecovery
  BY DEF PlanRecovery
<1>2. \A p \in Paths, place \in Contents \cup {Absent} : ~UserEdit(p, place)
  BY DEF UserEdit
<1>3. Execute
  BY <1>1, <1>2 DEF Next
<1>4. \A i \in DOMAIN plans, overwrite \in BOOLEAN : ~Begin(i, overwrite)
  BY DEF Begin
<1>5. \A p \in Paths : ~Capture(p) /\ ~Guard(p) /\ ~Verify(p)
  BY DEF Capture, Guard, Verify
<1>6. ~PersistBackup /\ ~SaveRun /\ ~Check /\ ~Succeed /\ ~SaveExecuted /\ ~Fail /\ ~Abandon
  BY DEF PersistBackup, SaveRun, Check, Succeed, SaveExecuted, Fail, Abandon
<1>7. QED
  BY <1>3, <1>4, <1>5, <1>6 DEF Execute

\* An in-place replacement finds no file, or one that the backup holds.
LEMMA ReplacedIsBackedUp ==
    ASSUME RecoveryInv, NEW p \in Paths, Apply(p), ~gap, InPlaceRun, files'[p] # files[p]
    PROVE  files[p] = Absent \/ BackedUp(p)
<1>1. /\ exec.step = "applying" /\ First(p) /\ files' = [files EXCEPT ![p] = Ops[p].target]
  BY DEF Apply
<1>2. ~Conflicts(Guarded(p), files[p])
  BY <1>1 DEF RecoveryInv, GuardHolds
<1>3. /\ p \in DOMAIN Ops /\ exec.plan \in DOMAIN plans
      /\ exec.backup \in DOMAIN plans /\ plans[exec.backup].ops = exec.saved
      /\ DOMAIN exec.saved = DOMAIN Ops
      /\ exec.run \in DOMAIN runs /\ runs[exec.run].backup = exec.backup
  BY <1>1 DEF RecoveryInv, ExecutionInv, PlanLoaded, BackupStored, RunStored, TodoPlanned,
              Executing, First
<1>4. Ops[p] \in Operation
  BY <1>1, <1>3, PlannedPaths, OperationsElim
<1>5. /\ Guarded(p).kind = Ops[p].kind /\ Guarded(p).target = Ops[p].target
      /\ Guarded(p).current = exec.saved[p].target
  BY <1>4 DEF Guarded, Operation
<1>6. files[p] # Ops[p].target
  BY <1>1 DEF RecoveryInv, TypeOK
<1>7. files[p] = Absent \/ files[p] = exec.saved[p].target
  BY <1>2, <1>5, <1>6 DEF Conflicts
<1>8. exec.run # 0 /\ exec.backup # 0
  BY <1>3 DEF RecoveryInv, TypeOK
<1>9. QED
  BY <1>3, <1>7, <1>8 DEF BackedUp

\* A restore replaces a file only when the stored backup of its run holds it,
\* whatever the plans, the edits and the failures are: what recovery-model.md
\* promises of pre-restore backups.
THEOREM OverwritesAreBackedUp == Spec => OverwritesOnlyBackedUp
<1> DEFINE Safe == ~gap /\ edits' = edits /\ files' # files =>
        \A p \in Paths : files'[p] # files[p] =>
            files[p] = Absent \/ BackedUp(p) \/ plans[exec.plan].action = "worktree"
<1>1. ASSUME RecoveryInv, [Next]_vars PROVE Safe
  <2>1. SUFFICES ASSUME ~gap, edits' = edits, files' # files,
                        NEW p \in Paths, files'[p] # files[p]
                 PROVE  files[p] = Absent \/ BackedUp(p) \/ plans[exec.plan].action = "worktree"
    OBVIOUS
  <2>2. Next
    BY <1>1, <2>1 DEF vars
  <2>3. PICK q \in Paths : Apply(q)
    BY <1>1, <2>1, <2>2, OnlyApplyChanges DEF RecoveryInv, TypeOK
  <2>4. p = q
    BY <2>1, <2>3 DEF Apply
  <2>5. CASE InPlaceRun
    BY <1>1, <2>1, <2>3, <2>4, <2>5, ReplacedIsBackedUp
  <2>6. CASE ~InPlaceRun
    BY <2>3, <2>4, <2>6 DEF Apply, InPlaceRun
  <2>7. QED
    BY <2>5, <2>6
<1>2. RecoveryInv /\ [Next]_vars => [Safe]_vars
  BY <1>1
<1>3. QED
  BY <1>2, AlwaysInv, PTL DEF Spec, OverwritesOnlyBackedUp
-----------------------------------------------------------------------------
(* The inductive invariants, each on top of RecoveryInv *)

Working == {"guarding", "applying", "verifying"}

\* What is not written has no content, so no blob.
Formed(op) == op.kind # "write" => op.target \notin Contents

\* An operation of a backup puts back what it saw, or removes what it did not see,
\* where the operation it undoes leaves its target.
Undoes(op) == op.kind = IF op.target = Absent THEN "remove" ELSE "write"

PlansFormed == \A i \in DOMAIN plans : \A p \in DOMAIN plans[i].ops : Formed(plans[i].ops[p])

SavedUndoes == exec.step # "idle" => \A p \in DOMAIN exec.saved :
    p \in DOMAIN Ops /\ Undoes(exec.saved[p]) /\ exec.saved[p].current = Ops[p].target

BlobsChecked == exec.step \in Working => BlobsSound

FormInv == PlansFormed /\ SavedUndoes /\ BlobsChecked

\* A stored run names stored plans, and its backup undoes.
RunPlanned(run) ==
    /\ run.plan \in DOMAIN plans
    /\ run.backup # 0 => /\ run.backup \in DOMAIN plans
                         /\ \A p \in DOMAIN plans[run.backup].ops : Undoes(plans[run.backup].ops[p])

RunsPlanned == \A i \in DOMAIN runs : RunPlanned(runs[i])

\* The run under way is that of the loaded plan, and only an in-place run has a backup.
RunUnderWay ==
    /\ exec.step # "idle" /\ ~InPlaceRun => exec.backup = 0
    /\ exec.step \in Executing => runs[exec.run].plan = exec.plan
    /\ exec.step \in Executing \ {"closing"} => runs[exec.run].state = "running"

RunInv == RunsPlanned /\ RunUnderWay

\* What was captured is there until the run is stored, where nobody else wrote.
CapturedHeld == exec.step \in {"capturing", "starting"} =>
    \A p \in DOMAIN exec.saved \ exec.touched : files[p] = exec.saved[p].target

\* What is no longer to be done is done, where nobody else wrote.
DoneRestored == exec.step \in Working =>
    \A p \in DOMAIN Ops \ (exec.todo \cup runs[exec.run].touched) : files[p] = Ops[p].target

\* A path holds what a run found there or what it puts there, where nobody else wrote.
BackupReaches(run) == run.backup # 0 =>
    \A p \in DOMAIN plans[run.backup].ops \ run.touched :
        files[p] \in {plans[run.backup].ops[p].target, plans[run.backup].ops[p].current}

BackupsReach == \A i \in DOMAIN runs : BackupReaches(runs[i])

PlaceInv == CapturedHeld /\ DoneRestored /\ BackupsReach /\ SucceededMeansRestored
-----------------------------------------------------------------------------
(* What the steps do to plans and runs *)

\* A requested plan is formed.
LEMMA RequestFormed ==
    ASSUME RecoveryInv, PlanRecovery
    PROVE  \E action \in Actions, ops \in Operations :
              SavePlan(action, ops) /\ \A p \in DOMAIN ops : Formed(ops[p])
<1>1. snapshot \in Snapshots /\ files \in [Paths -> Places]
  BY DEF RecoveryInv, TypeOK
<1>2. CASE \E action \in {"reconstruct", "worktree"} : SavePlan(action, Reconstruction)
  <2>1. \A p \in DOMAIN Reconstruction : Formed(Reconstruction[p])
    BY <1>1 DEF Reconstruction, Op, Formed
  <2>2. Reconstruction \in Operations
    BY <1>1, ReconstructionType
  <2>3. QED
    BY <1>2, <2>1, <2>2 DEF Actions
<1>3. CASE \E selection \in Selections : SavePlan("in_place", InPlace(selection))
  <2>1. PICK selection \in Selections : SavePlan("in_place", InPlace(selection))
    BY <1>3
  <2>2. \A p \in DOMAIN InPlace(selection) : Formed(InPlace(selection)[p])
    BY <1>1 DEF InPlace, Op, Formed
  <2>3. InPlace(selection) \in Operations
    BY <1>1, InPlaceType
  <2>4. QED
    BY <2>1, <2>2, <2>3 DEF Actions
<1>4. CASE \E source, p \in Paths :
            /\ snapshot[source] \in Contents
            /\ SavePlan("single", [q \in {p} |-> Op("write", snapshot[source], Absent)])
  <2>1. PICK source, p \in Paths :
            /\ snapshot[source] \in Contents
            /\ SavePlan("single", [q \in {p} |-> Op("write", snapshot[source], Absent)])
    BY <1>4
  <2> DEFINE ops == [q \in {p} |-> Op("write", snapshot[source], Absent)]
  <2>2. \A q \in DOMAIN ops : Formed(ops[q])
    BY DEF Op, Formed
  <2>3. ops \in Operations
    BY <2>1, SingleType
  <2>4. QED
    BY <2>1, <2>2, <2>3 DEF Actions
<1>5. QED
  BY <1>2, <1>3, <1>4 DEF PlanRecovery

\* A stored plan stays as it is when another is stored.
LEMMA GrowthKeepsPlans ==
    ASSUME RecoveryInv, NEW action \in Actions, NEW ops \in Operations, SavePlan(action, ops)
    PROVE  /\ DOMAIN plans' = DOMAIN plans \cup {Len(plans')}
           /\ \A i \in DOMAIN plans : plans'[i] = plans[i]
           /\ plans'[Len(plans')].ops = ops
           /\ plans'[Len(plans')].action = action
<1>1. plans \in Seq(Plan)
  BY DEF RecoveryInv, TypeOK
<1>2. /\ plans' \in Seq(Plan) /\ Len(plans') = Len(plans) + 1
      /\ \A i \in DOMAIN plans : plans'[i] = plans[i]
      /\ plans'[Len(plans')] = Prepared(action, ops)
  BY <1>1, SavePlanType
<1>3. DOMAIN plans = 1..Len(plans) /\ DOMAIN plans' = 1..(Len(plans) + 1) /\ Len(plans) \in Nat
  BY <1>1, <1>2
<1>4. QED
  BY <1>2, <1>3 DEF Prepared

\* Closing a run marks its plan and leaves its operations alone.
LEMMA ExecutedKeepsOps ==
    ASSUME RecoveryInv, SaveExecuted
    PROVE  /\ DOMAIN plans' = DOMAIN plans
           /\ \A i \in DOMAIN plans : plans'[i].ops = plans[i].ops
<1>1. exec.plan \in DOMAIN plans /\ plans \in Seq(Plan)
  BY DEF RecoveryInv, TypeOK, ExecutionInv, PlanLoaded, SaveExecuted
<1>2. plans[exec.plan] \in Plan
  BY <1>1
<1>3. plans' = [plans EXCEPT ![exec.plan] = [plans[exec.plan] EXCEPT !.status = "executed"]]
  BY DEF SaveExecuted
<1>4. [plans[exec.plan] EXCEPT !.status = "executed"].ops = plans[exec.plan].ops
  BY <1>2 DEF Plan
<1>5. QED
  BY <1>1, <1>3, <1>4

\* What a change by someone else does to the stored runs.
LEMMA TouchFacts ==
    ASSUME runs \in Seq(Run), NEW r, NEW p \in Paths, Touch(r, p)
    PROVE  /\ DOMAIN runs' = DOMAIN runs
           /\ \A i \in DOMAIN runs :
                /\ runs'[i].plan = runs[i].plan /\ runs'[i].backup = runs[i].backup
                /\ runs'[i].state = runs[i].state
                /\ i = r => runs'[i].touched = runs[i].touched
                /\ i # r => runs'[i].touched = runs[i].touched \cup {p}
<1>1. \A i \in DOMAIN runs : runs[i] \in Run
  OBVIOUS
<1>2. \A run \in Run : LET touched == [run EXCEPT !.touched = @ \cup {p}]
                       IN /\ touched.plan = run.plan /\ touched.backup = run.backup
                          /\ touched.state = run.state /\ touched.touched = run.touched \cup {p}
  BY DEF Run
<1>3. runs' = [i \in DOMAIN runs |->
                 IF i = r THEN runs[i] ELSE [runs[i] EXCEPT !.touched = @ \cup {p}]]
  BY DEF Touch
<1>4. QED
  BY <1>1, <1>2, <1>3

\* The idle execution has captured nothing and has no backup.
LEMMA IdleFacts ==
    /\ Idle.step = "idle" /\ Idle.backup = 0
    /\ DOMAIN Idle.saved = {}
  BY DEF Idle, NoOperations

\* An execution begins with nothing captured and without a backup.
LEMMA BeginFacts ==
    ASSUME NEW i, NEW overwrite, Begin(i, overwrite)
    PROVE  /\ exec'.step = IF plans[i].action = "in_place" THEN "capturing" ELSE "starting"
           /\ DOMAIN exec'.saved = {} /\ exec'.backup = 0 /\ exec'.plan = i
           /\ UNCHANGED <<files, plans, runs, damaged>>
<1>1. UNCHANGED <<files, plans, runs, damaged>>
  BY DEF Begin, circumstances
<1>2. CASE /\ plans[i].action = "in_place"
           /\ exec' = [Idle EXCEPT !.step = "capturing", !.plan = i, !.overwrite = overwrite,
                                   !.todo = DOMAIN plans[i].ops]
  BY <1>1, <1>2, IdleFacts DEF Idle
<1>3. CASE /\ plans[i].action # "in_place"
           /\ exec' = [Idle EXCEPT !.step = "starting", !.plan = i, !.overwrite = overwrite]
  BY <1>1, <1>3, IdleFacts DEF Idle
<1>4. QED
  BY <1>2, <1>3 DEF Begin
\* Steps at one file inside execute: what they set and what they leave alone.
LEMMA MoveFacts ==
    ASSUME RecoveryInv, NEW p \in Paths, Guard(p) \/ Apply(p) \/ Verify(p)
    PROVE  /\ exec.step \in Working /\ exec'.step \in Working
           /\ exec'.plan = exec.plan /\ exec'.saved = exec.saved
           /\ exec'.backup = exec.backup /\ exec'.run = exec.run
           /\ plans' = plans /\ damaged' = damaged
<1>1. exec \in Execution
  BY DEF RecoveryInv, TypeOK
<1>2. CASE Guard(p)
  <2>1. exec.step = "guarding" /\ exec' = [exec EXCEPT !.step = "applying"]
    BY <1>2 DEF Guard
  <2>2. plans' = plans /\ damaged' = damaged
    BY <1>2 DEF Guard, circumstances
  <2>3. QED
    BY <1>1, <2>1, <2>2 DEF Execution, Working
<1>3. CASE Apply(p)
  <2>1. /\ exec.step = "applying"
        /\ \/ exec' = [exec EXCEPT !.step = "verifying"]
           \/ exec' = [exec EXCEPT !.step = "guarding", !.todo = exec.todo \ {p}]
    BY <1>3 DEF Apply
  <2>2. plans' = plans /\ damaged' = damaged
    BY <1>3 DEF Apply, circumstances
  <2>3. CASE exec' = [exec EXCEPT !.step = "verifying"]
    BY <1>1, <2>1, <2>2, <2>3 DEF Execution, Working
  <2>4. CASE exec' = [exec EXCEPT !.step = "guarding", !.todo = exec.todo \ {p}]
    BY <1>1, <2>1, <2>2, <2>4 DEF Execution, Working
  <2>5. QED
    BY <2>1, <2>3, <2>4
<1>4. CASE Verify(p)
  <2>1. /\ exec.step = "verifying"
        /\ exec' = [exec EXCEPT !.step = "guarding", !.todo = exec.todo \ {p}]
    BY <1>4 DEF Verify
  <2>2. plans' = plans /\ damaged' = damaged
    BY <1>4 DEF Verify, circumstances
  <2>3. QED
    BY <1>1, <2>1, <2>2 DEF Execution, Working
<1>5. QED
  BY <1>2, <1>3, <1>4
-----------------------------------------------------------------------------
(* Operations: FormInv *)

LEMMA FormInit == ASSUME Init PROVE FormInv
<1>1. DOMAIN plans = {} /\ exec.step = "idle" /\ DOMAIN exec.saved = {}
  BY IdleFacts DEF Init
<1>2. QED
  BY <1>1 DEF FormInv, PlansFormed, SavedUndoes, BlobsChecked, Working

LEMMA FormPlanRecovery == ASSUME RecoveryInv, FormInv, PlanRecovery PROVE FormInv'
<1>1. PICK action \in Actions, ops \in Operations :
         SavePlan(action, ops) /\ \A p \in DOMAIN ops : Formed(ops[p])
  BY RequestFormed
<1>2. /\ DOMAIN plans' = DOMAIN plans \cup {Len(plans')}
      /\ \A i \in DOMAIN plans : plans'[i] = plans[i]
      /\ plans'[Len(plans')].ops = ops
  BY <1>1, GrowthKeepsPlans
<1>3. exec' = exec /\ damaged' = damaged
  BY DEF PlanRecovery, circumstances
<1>4. PlansFormed'
  BY <1>1, <1>2 DEF FormInv, PlansFormed
<1>5. exec.step # "idle" => Ops' = Ops
  BY <1>2, <1>3 DEF Ops, RecoveryInv, ExecutionInv, PlanLoaded
<1>6. SavedUndoes'
  BY <1>3, <1>5 DEF FormInv, SavedUndoes
<1>7. BlobsChecked'
  BY <1>3, <1>5 DEF FormInv, BlobsChecked, BlobsSound, Working
<1>8. QED
  BY <1>4, <1>6, <1>7 DEF FormInv

\* Nothing is saved yet, and the step does not follow a check.
LEMMA FormBegin ==
    ASSUME RecoveryInv, FormInv, NEW i \in DOMAIN plans, NEW overwrite \in BOOLEAN,
           Begin(i, overwrite)
    PROVE  FormInv'
<1>1. plans' = plans /\ exec'.step \in {"capturing", "starting"} /\ DOMAIN exec'.saved = {}
  BY BeginFacts
<1>2. PlansFormed'
  BY <1>1 DEF FormInv, PlansFormed
<1>3. SavedUndoes' /\ BlobsChecked'
  BY <1>1 DEF SavedUndoes, BlobsChecked, Working
<1>4. QED
  BY <1>2, <1>3 DEF FormInv

LEMMA FormCapture ==
    ASSUME RecoveryInv, FormInv, NEW p \in Paths, Capture(p)
    PROVE  FormInv'
<1> DEFINE undo == Op(IF files[p] = Absent THEN "remove" ELSE "write", files[p], Ops[p].target)
           saved == [q \in DOMAIN exec.saved \cup {p} |-> IF q = p THEN undo ELSE exec.saved[q]]
<1>1. /\ exec' = [exec EXCEPT !.saved = saved, !.todo = exec.todo \ {p},
                              !.touched = exec.touched \ {p}]
      /\ exec.step = "capturing" /\ p \in exec.todo /\ plans' = plans
  BY DEF Capture, First
<1>2. exec \in Execution
  BY DEF RecoveryInv, TypeOK
<1>3. exec'.step = "capturing" /\ exec'.plan = exec.plan /\ exec'.saved = saved
  BY <1>1, <1>2 DEF Execution
<1>4. Ops' = Ops /\ p \in DOMAIN Ops
  BY <1>1, <1>3 DEF Ops, RecoveryInv, ExecutionInv, CaptureCovers
<1>5. Undoes(undo) /\ undo.current = Ops[p].target
  BY DEF Undoes, Op
<1>6. SavedUndoes'
  <2>1. SUFFICES ASSUME NEW q \in DOMAIN saved
                 PROVE  q \in DOMAIN Ops /\ Undoes(saved[q]) /\ saved[q].current = Ops[q].target
    BY <1>3, <1>4 DEF SavedUndoes
  <2>2. CASE q = p
    BY <1>4, <1>5, <2>2
  <2>3. CASE q # p
    BY <1>1, <2>1, <2>3 DEF FormInv, SavedUndoes
  <2>4. QED
    BY <2>2, <2>3
<1>7. PlansFormed' /\ BlobsChecked'
  BY <1>1, <1>3 DEF FormInv, PlansFormed, BlobsChecked, Working
<1>8. QED
  BY <1>6, <1>7 DEF FormInv

\* A backup is a plan of undoing operations.
LEMMA FormPersistBackup == ASSUME RecoveryInv, FormInv, PersistBackup PROVE FormInv'
<1>1. SavePlan("in_place", exec.saved) /\ exec.saved \in Operations /\ exec \in Execution
  BY DEF PersistBackup, RecoveryInv, TypeOK, Execution
<1>2. /\ DOMAIN plans' = DOMAIN plans \cup {Len(plans')}
      /\ \A i \in DOMAIN plans : plans'[i] = plans[i]
      /\ plans'[Len(plans')].ops = exec.saved
  BY <1>1, GrowthKeepsPlans DEF Actions
<1>3. /\ exec.step = "capturing" /\ exec'.step = "starting"
      /\ exec'.plan = exec.plan /\ exec'.saved = exec.saved
  BY <1>1 DEF PersistBackup, Execution
<1>4. \A p \in DOMAIN exec.saved : Formed(exec.saved[p])
  BY <1>3 DEF FormInv, SavedUndoes, Undoes, Formed
<1>5. PlansFormed'
  BY <1>2, <1>4 DEF FormInv, PlansFormed
<1>6. Ops' = Ops
  BY <1>2, <1>3 DEF Ops, RecoveryInv, ExecutionInv, PlanLoaded
<1>7. SavedUndoes' /\ BlobsChecked'
  BY <1>3, <1>6 DEF FormInv, SavedUndoes, BlobsChecked, Working
<1>8. QED
  BY <1>5, <1>7 DEF FormInv

\* Steps that store no operations and are not the check.
LEMMA FormKept ==
    ASSUME RecoveryInv, FormInv,
           DOMAIN plans' = DOMAIN plans, \A i \in DOMAIN plans : plans'[i].ops = plans[i].ops,
           damaged' = damaged,
           \/ exec'.step = "idle"
           \/ /\ exec.step # "idle" /\ exec'.plan = exec.plan /\ exec'.saved = exec.saved
              /\ exec'.step \in Working => exec.step \in Working
    PROVE  FormInv'
<1>1. PlansFormed'
  BY DEF FormInv, PlansFormed
<1>2. CASE exec'.step = "idle"
  BY <1>1, <1>2 DEF FormInv, SavedUndoes, BlobsChecked, Working
<1>3. CASE exec'.step # "idle"
  <2>1. Ops' = Ops
    BY <1>3 DEF Ops, RecoveryInv, ExecutionInv, PlanLoaded
  <2>2. SavedUndoes'
    BY <1>3, <2>1 DEF FormInv, SavedUndoes
  <2>3. BlobsChecked'
    BY <1>3, <2>1 DEF FormInv, BlobsChecked, BlobsSound
  <2>4. QED
    BY <1>1, <2>2, <2>3 DEF FormInv
<1>4. QED
  BY <1>2, <1>3

LEMMA FormCheck == ASSUME RecoveryInv, FormInv, Check PROVE FormInv'
<1>1. exec \in Execution
  BY DEF RecoveryInv, TypeOK
<1>2. /\ exec.step = "checking" /\ exec'.plan = exec.plan /\ exec'.saved = exec.saved
      /\ plans' = plans /\ damaged' = damaged /\ BlobsSound
  <2>1. /\ exec.step = "checking" /\ plans' = plans /\ damaged' = damaged /\ BlobsSound
        /\ exec' = [exec EXCEPT !.step = "guarding", !.todo = DOMAIN Ops]
    BY DEF Check, circumstances
  <2>2. QED
    BY <1>1, <2>1 DEF Execution
<1>3. Ops' = Ops
  BY <1>2 DEF Ops
<1>4. SavedUndoes'
  BY <1>2, <1>3 DEF FormInv, SavedUndoes
<1>5. PlansFormed' /\ BlobsChecked'
  BY <1>2, <1>3 DEF FormInv, PlansFormed, BlobsChecked, BlobsSound
<1>6. QED
  BY <1>4, <1>5 DEF FormInv

LEMMA FormNext == ASSUME RecoveryInv, FormInv, [Next]_vars PROVE FormInv'
<1>1. exec \in Execution
  BY DEF RecoveryInv, TypeOK
<1>2. CASE SaveRun
  BY <1>1, <1>2, FormKept DEF SaveRun, Execution, Working, circumstances
<1>3. CASE \E p \in Paths : Guard(p) \/ Apply(p) \/ Verify(p)
  BY <1>3, FormKept, MoveFacts DEF Working
<1>4. CASE Succeed
  BY <1>1, <1>4, FormKept DEF Succeed, Execution, Working, circumstances
<1>5. CASE SaveExecuted
  BY <1>5, FormKept, ExecutedKeepsOps, IdleFacts DEF SaveExecuted, circumstances
<1>6. CASE Fail \/ Abandon
  BY <1>6, FormKept, IdleFacts DEF Fail, Abandon, circumstances
<1>7. CASE \E p \in Paths, place \in Contents \cup {Absent} : UserEdit(p, place)
  BY <1>1, <1>7, FormKept DEF UserEdit, Execution, circumstances
<1>8. CASE UNCHANGED vars
  BY <1>8, FormKept DEF vars, circumstances
<1>9. QED
  BY <1>2, <1>3, <1>4, <1>5, <1>6, <1>7, <1>8, FormPlanRecovery, FormBegin, FormCapture,
     FormPersistBackup, FormCheck DEF Next, Execute

LEMMA AlwaysFormed == Spec => []FormInv
<1>1. Init => FormInv
  BY FormInit
<1>2. RecoveryInv /\ FormInv /\ [Next]_vars => FormInv'
  BY FormNext
<1>3. QED
  BY <1>1, <1>2, AlwaysInv, PTL DEF Spec

\* No file is changed for a plan one of whose blobs is damaged, for any damage,
\* plan and interruption: execute authenticates every blob before it writes.
THEOREM DamagedPlansWriteNothing == Spec => NoWriteFromDamagedPlan
<1> DEFINE Safe ==
        edits' = edits /\ files' # files => \A p \in DOMAIN Ops : Ops[p].target \notin damaged
<1>1. ASSUME RecoveryInv, FormInv, [Next]_vars PROVE Safe
  <2>1. SUFFICES ASSUME edits' = edits, files' # files, NEW p \in DOMAIN Ops
                 PROVE  Ops[p].target \notin damaged
    OBVIOUS
  <2>2. Next
    BY <1>1, <2>1 DEF vars
  <2>3. PICK q \in Paths : Apply(q)
    BY <1>1, <2>1, <2>2, OnlyApplyChanges DEF RecoveryInv, TypeOK
  <2>4. exec.step = "applying"
    BY <2>3 DEF Apply
  <2>5. BlobsSound /\ exec.plan \in DOMAIN plans
    BY <1>1, <2>4 DEF FormInv, BlobsChecked, Working, RecoveryInv, ExecutionInv, PlanLoaded
  <2>6. CASE Ops[p].kind = "write"
    BY <2>5, <2>6 DEF BlobsSound
  <2>7. CASE Ops[p].kind # "write"
    <3>1. Ops[p].target \notin Contents
      BY <1>1, <2>5, <2>7 DEF FormInv, PlansFormed, Formed, Ops
    <3>2. damaged \subseteq Contents
      BY <1>1 DEF RecoveryInv, TypeOK
    <3>3. QED
      BY <3>1, <3>2
  <2>8. QED
    BY <2>6, <2>7
<1>2. RecoveryInv /\ FormInv /\ [Next]_vars => [Safe]_vars
  BY <1>1
<1>3. QED
  BY <1>2, AlwaysInv, AlwaysFormed, PTL DEF Spec, NoWriteFromDamagedPlan
-----------------------------------------------------------------------------
(* Runs: RunInv *)

\* The plan and the operations of stored plans stay as they are.
PlansKept ==
    /\ DOMAIN plans \subseteq DOMAIN plans'
    /\ \A i \in DOMAIN plans : plans'[i].ops = plans[i].ops

\* The run names the same plan and the same backup.
RunKept(i) == runs'[i].plan = runs[i].plan /\ runs'[i].backup = runs[i].backup

\* A stored plan is on paths.
LEMMA PlanPaths ==
    ASSUME RecoveryInv, NEW i \in DOMAIN plans
    PROVE  DOMAIN plans[i].ops \subseteq Paths
<1>1. plans[i] \in Plan
  BY DEF RecoveryInv, TypeOK
<1>2. plans[i].ops \in Operations
  BY <1>1 DEF Plan
<1>3. QED
  BY <1>2, OperationsElim

LEMMA PlannedKept ==
    ASSUME RunsPlanned, PlansKept, DOMAIN runs' = DOMAIN runs, \A i \in DOMAIN runs : RunKept(i)
    PROVE  RunsPlanned'
<1>1. SUFFICES ASSUME NEW i \in DOMAIN runs PROVE RunPlanned(runs[i])'
  BY DEF RunsPlanned
<1>2. RunPlanned(runs[i]) /\ RunKept(i)
  BY DEF RunsPlanned
<1>3. QED
  BY <1>2 DEF RunPlanned, RunKept, PlansKept

\* Steps of an execution, or its end, which store no run and no backup.
LEMMA RunInvKept ==
    ASSUME RecoveryInv, RunInv, PlansKept, DOMAIN runs' = DOMAIN runs,
           \A i \in DOMAIN runs : RunKept(i),
           \/ exec'.step = "idle"
           \/ /\ exec.step # "idle" /\ exec'.plan = exec.plan
              /\ exec'.backup = exec.backup /\ exec'.run = exec.run
              /\ plans'[exec.plan].action = plans[exec.plan].action
              /\ exec'.step \in Executing => exec.step \in Executing
              /\ exec'.step \in Executing \ {"closing"} =>
                    /\ exec.step \in Executing \ {"closing"}
                    /\ runs'[exec.run].state = runs[exec.run].state
    PROVE  RunInv'
<1>1. RunsPlanned'
  BY PlannedKept DEF RunInv
<1>2. CASE exec'.step = "idle"
  BY <1>1, <1>2 DEF RunInv, RunUnderWay, Executing
<1>3. CASE exec'.step # "idle"
  <2>1. InPlaceRun' = InPlaceRun
    BY <1>3 DEF InPlaceRun
  <2>2. exec.step \in Executing => RunKept(exec.run)
    BY DEF RecoveryInv, ExecutionInv, RunStored
  <2>3. RunUnderWay'
    BY <1>3, <2>1, <2>2 DEF RunInv, RunUnderWay, RunKept
  <2>4. QED
    BY <1>1, <2>3 DEF RunInv
<1>4. QED
  BY <1>2, <1>3

LEMMA RunInit == ASSUME Init PROVE RunInv
<1>1. DOMAIN runs = {} /\ exec.step = "idle"
  BY IdleFacts DEF Init
<1>2. QED
  BY <1>1 DEF RunInv, RunsPlanned, RunUnderWay, Executing

LEMMA RunPlanRecovery == ASSUME RecoveryInv, RunInv, PlanRecovery PROVE RunInv'
<1>1. PICK action \in Actions, ops \in Operations : SavePlan(action, ops)
  BY RequestFormed
<1>2. PlansKept /\ \A i \in DOMAIN plans : plans'[i] = plans[i]
  BY <1>1, GrowthKeepsPlans DEF PlansKept
<1>3. exec' = exec /\ runs' = runs
  BY DEF PlanRecovery
<1>4. exec.step # "idle" => exec.plan \in DOMAIN plans
  BY DEF RecoveryInv, ExecutionInv, PlanLoaded
<1>5. QED
  BY <1>2, <1>3, <1>4, RunInvKept DEF RunKept

LEMMA RunBegin ==
    ASSUME RunInv, NEW i \in DOMAIN plans, NEW overwrite \in BOOLEAN, Begin(i, overwrite)
    PROVE  RunInv'
<1>1. exec'.step \in {"capturing", "starting"} /\ exec'.backup = 0 /\ plans' = plans /\ runs' = runs
  BY BeginFacts
<1>2. RunsPlanned'
  BY <1>1, PlannedKept DEF RunInv, PlansKept, RunKept
<1>3. RunUnderWay'
  BY <1>1 DEF RunUnderWay, Executing
<1>4. QED
  BY <1>2, <1>3 DEF RunInv

\* What a capture sets.
LEMMA CaptureFacts ==
    ASSUME RecoveryInv, NEW p \in Paths, Capture(p)
    PROVE  /\ exec.step = "capturing" /\ exec'.step = "capturing"
           /\ exec'.plan = exec.plan /\ exec'.backup = exec.backup /\ exec'.run = exec.run
           /\ exec'.touched = exec.touched \ {p}
           /\ DOMAIN exec'.saved = DOMAIN exec.saved \cup {p}
           /\ exec'.saved[p].target = files[p]
           /\ \A q \in DOMAIN exec.saved \ {p} : exec'.saved[q] = exec.saved[q]
           /\ UNCHANGED <<files, plans, runs>>
<1> DEFINE undo == Op(IF files[p] = Absent THEN "remove" ELSE "write", files[p], Ops[p].target)
           saved == [q \in DOMAIN exec.saved \cup {p} |-> IF q = p THEN undo ELSE exec.saved[q]]
<1>1. /\ exec' = [exec EXCEPT !.saved = saved, !.todo = exec.todo \ {p},
                              !.touched = exec.touched \ {p}]
      /\ exec.step = "capturing" /\ UNCHANGED <<files, plans, runs>>
  BY DEF Capture
<1>2. exec \in Execution
  BY DEF RecoveryInv, TypeOK
<1>3. /\ exec'.step = "capturing" /\ exec'.plan = exec.plan /\ exec'.saved = saved
      /\ exec'.backup = exec.backup /\ exec'.run = exec.run
      /\ exec'.touched = exec.touched \ {p}
  BY <1>1, <1>2 DEF Execution
<1>4. undo.target = files[p]
  BY DEF Op
<1>5. QED
  BY <1>1, <1>3, <1>4

LEMMA RunPersistBackup == ASSUME RecoveryInv, RunInv, PersistBackup PROVE RunInv'
<1>1. /\ SavePlan("in_place", exec.saved) /\ exec.saved \in Operations /\ exec \in Execution
      /\ exec.step = "capturing" /\ runs' = runs
      /\ exec' = [exec EXCEPT !.step = "starting", !.backup = Len(plans')]
  BY DEF PersistBackup, RecoveryInv, TypeOK, Execution
<1>2. PlansKept /\ \A i \in DOMAIN plans : plans'[i] = plans[i]
  BY <1>1, GrowthKeepsPlans DEF PlansKept, Actions
<1>3. exec'.step = "starting" /\ exec'.plan = exec.plan
  BY <1>1 DEF Execution
<1>4. InPlaceRun'
  BY <1>1, <1>2, <1>3 DEF InPlaceRun, RecoveryInv, ExecutionInv, PlanLoaded, CaptureCovers
<1>5. RunsPlanned'
  BY <1>1, <1>2, PlannedKept DEF RunInv, RunKept
<1>6. RunUnderWay'
  BY <1>3, <1>4 DEF RunUnderWay, Executing
<1>7. QED
  BY <1>5, <1>6 DEF RunInv

\* The stored run.
LEMMA SaveRunFacts ==
    ASSUME RecoveryInv, SaveRun
    PROVE  /\ DOMAIN runs' = DOMAIN runs \cup {Len(runs')}
           /\ \A i \in DOMAIN runs : runs'[i] = runs[i]
           /\ runs'[Len(runs')] = [plan |-> exec.plan, backup |-> exec.backup,
                                   state |-> "running", touched |-> exec.touched]
           /\ exec.step = "starting" /\ exec'.step = "checking" /\ exec'.run = Len(runs')
           /\ exec'.plan = exec.plan /\ exec'.backup = exec.backup /\ exec'.saved = exec.saved
           /\ UNCHANGED <<files, plans>>
<1> DEFINE run == [plan |-> exec.plan, backup |-> exec.backup,
                   state |-> "running", touched |-> exec.touched]
<1>1. /\ runs' = Append(runs, run) /\ exec.step = "starting" /\ UNCHANGED <<files, plans>>
      /\ exec' = [exec EXCEPT !.step = "checking", !.run = Len(runs')]
  BY DEF SaveRun
<1>2. runs \in Seq(Run) /\ exec \in Execution
  BY DEF RecoveryInv, TypeOK
<1>3. DOMAIN runs = 1..Len(runs) /\ Len(runs) \in Nat
  BY <1>2
<1>4. /\ Len(runs') = Len(runs) + 1 /\ DOMAIN runs' = 1..(Len(runs) + 1)
      /\ \A i \in 1..Len(runs) : runs'[i] = runs[i]
      /\ runs'[Len(runs) + 1] = run
  BY <1>1, <1>2, AppendProperties
<1>5. /\ exec'.step = "checking" /\ exec'.run = Len(runs')
      /\ exec'.plan = exec.plan /\ exec'.backup = exec.backup /\ exec'.saved = exec.saved
  BY <1>1, <1>2 DEF Execution
<1>6. QED
  BY <1>1, <1>3, <1>4, <1>5

LEMMA RunSaveRun == ASSUME RecoveryInv, FormInv, RunInv, SaveRun PROVE RunInv'
<1> DEFINE run == [plan |-> exec.plan, backup |-> exec.backup,
                   state |-> "running", touched |-> exec.touched]
<1>1. /\ DOMAIN runs' = DOMAIN runs \cup {Len(runs')}
      /\ \A i \in DOMAIN runs : runs'[i] = runs[i]
      /\ runs'[Len(runs')] = run
      /\ exec.step = "starting" /\ exec'.step = "checking" /\ exec'.run = Len(runs')
      /\ exec'.plan = exec.plan /\ exec'.backup = exec.backup /\ plans' = plans
  BY SaveRunFacts
<1>2. RunPlanned(run)
  <2>1. exec.plan \in DOMAIN plans
    BY <1>1 DEF RecoveryInv, ExecutionInv, PlanLoaded
  <2>2. exec.backup # 0 => exec.backup \in DOMAIN plans /\ plans[exec.backup].ops = exec.saved
    BY <1>1 DEF RunInv, RunUnderWay, RecoveryInv, ExecutionInv, BackupStored
  <2>3. \A p \in DOMAIN exec.saved : Undoes(exec.saved[p])
    BY <1>1 DEF FormInv, SavedUndoes
  <2>4. QED
    BY <2>1, <2>2, <2>3 DEF RunPlanned
<1>3. RunsPlanned'
  BY <1>1, <1>2 DEF RunInv, RunsPlanned, RunPlanned
<1>4. RunUnderWay'
  <2>1. InPlaceRun' = InPlaceRun
    BY <1>1 DEF InPlaceRun
  <2>2. ~InPlaceRun' => exec'.backup = 0
    BY <1>1, <2>1 DEF RunInv, RunUnderWay
  <2>3. runs'[exec'.run] = run /\ exec'.plan = exec.plan
    BY <1>1
  <2>4. run.plan = exec.plan /\ run.state = "running"
    OBVIOUS
  <2>5. runs'[exec'.run].plan = exec'.plan /\ runs'[exec'.run].state = "running"
    BY <2>3, <2>4
  <2>6. QED
    BY <2>2, <2>5 DEF RunUnderWay
<1>5. QED
  BY <1>3, <1>4 DEF RunInv

\* A step at one file keeps every run but for what others changed.
LEMMA MoveRuns ==
    ASSUME RecoveryInv, NEW p \in Paths, Guard(p) \/ Apply(p) \/ Verify(p)
    PROVE  /\ DOMAIN runs' = DOMAIN runs
           /\ \A i \in DOMAIN runs : RunKept(i) /\ runs'[i].state = runs[i].state
<1>1. runs' = runs \/ Touch(exec.run, p)
  BY DEF Guard, Apply, Verify
<1>2. runs \in Seq(Run)
  BY DEF RecoveryInv, TypeOK
<1>3. CASE runs' = runs
  BY <1>3 DEF RunKept
<1>4. CASE Touch(exec.run, p)
  <2>1. /\ DOMAIN runs' = DOMAIN runs
        /\ \A i \in DOMAIN runs :
                /\ runs'[i].plan = runs[i].plan /\ runs'[i].backup = runs[i].backup
                /\ runs'[i].state = runs[i].state
    BY <1>2, <1>4, TouchFacts
  <2>2. QED
    BY <2>1 DEF RunKept
<1>5. QED
  BY <1>1, <1>3, <1>4

\* Storing the outcome of the run changes its state and nothing else.
LEMMA OutcomeFacts ==
    ASSUME RecoveryInv, exec.step \in Executing, NEW state \in {"failed", "succeeded"},
           runs' = [runs EXCEPT ![exec.run].state = state]
    PROVE  /\ DOMAIN runs' = DOMAIN runs /\ exec.run \in DOMAIN runs
           /\ \A i \in DOMAIN runs :
                RunKept(i) /\ runs'[i].touched = runs[i].touched
                           /\ runs'[i].state = IF i = exec.run THEN state ELSE runs[i].state
<1>1. exec.run \in DOMAIN runs /\ runs \in Seq(Run)
  BY DEF RecoveryInv, TypeOK, ExecutionInv, RunStored
<1>2. \A i \in DOMAIN runs : runs[i] \in Run
  BY <1>1
<1>3. \A run \in Run : LET closed == [run EXCEPT !.state = state]
                       IN /\ closed.plan = run.plan /\ closed.backup = run.backup
                          /\ closed.state = state /\ closed.touched = run.touched
  BY DEF Run
<1>4. runs' = [runs EXCEPT ![exec.run] = [runs[exec.run] EXCEPT !.state = state]]
  OBVIOUS
<1>5. QED
  BY <1>1, <1>2, <1>3, <1>4 DEF RunKept

\* What an edit changes.
LEMMA EditFacts ==
    ASSUME RecoveryInv, NEW p \in Paths, NEW place \in Contents \cup {Absent}, UserEdit(p, place)
    PROVE  /\ files' = [files EXCEPT ![p] = place] /\ plans' = plans
           /\ DOMAIN runs' = DOMAIN runs
           /\ \A i \in DOMAIN runs : /\ RunKept(i) /\ runs'[i].state = runs[i].state
                                     /\ runs'[i].touched = runs[i].touched \cup {p}
           /\ exec'.step = exec.step /\ exec'.plan = exec.plan /\ exec'.saved = exec.saved
           /\ exec'.backup = exec.backup /\ exec'.run = exec.run /\ exec'.todo = exec.todo
           /\ exec.step # "idle" => exec'.touched = exec.touched \cup {p}
<1>1. /\ files' = [files EXCEPT ![p] = place] /\ plans' = plans /\ Touch(0, p)
      /\ exec' = IF exec.step = "idle" THEN exec
                 ELSE [exec EXCEPT !.touched = exec.touched \cup {p}]
  BY DEF UserEdit
<1>2. exec \in Execution /\ runs \in Seq(Run)
  BY DEF RecoveryInv, TypeOK
<1>3. /\ DOMAIN runs' = DOMAIN runs
      /\ \A i \in DOMAIN runs : /\ RunKept(i) /\ runs'[i].state = runs[i].state
                                /\ i # 0 => runs'[i].touched = runs[i].touched \cup {p}
  <2>1. /\ DOMAIN runs' = DOMAIN runs
        /\ \A i \in DOMAIN runs :
                /\ runs'[i].plan = runs[i].plan /\ runs'[i].backup = runs[i].backup
                /\ runs'[i].state = runs[i].state
                /\ i # 0 => runs'[i].touched = runs[i].touched \cup {p}
    BY <1>1, <1>2, TouchFacts
  <2>2. QED
    BY <2>1 DEF RunKept
<1>4. \A i \in DOMAIN runs : i # 0
  BY <1>2
<1>5. /\ exec'.step = exec.step /\ exec'.plan = exec.plan /\ exec'.saved = exec.saved
      /\ exec'.backup = exec.backup /\ exec'.run = exec.run /\ exec'.todo = exec.todo
      /\ exec.step # "idle" => exec'.touched = exec.touched \cup {p}
  BY <1>1, <1>2 DEF Execution
<1>6. QED
  BY <1>1, <1>3, <1>4, <1>5

LEMMA RunNext == ASSUME RecoveryInv, FormInv, RunInv, [Next]_vars PROVE RunInv'
<1>1. exec \in Execution
  BY DEF RecoveryInv, TypeOK
<1>2. CASE \E p \in Paths : Capture(p)
  BY <1>2, CaptureFacts, RunInvKept DEF RunKept, PlansKept, Executing
<1>3. CASE Check
  <2>1. /\ exec.step = "checking" /\ plans' = plans /\ runs' = runs
        /\ exec' = [exec EXCEPT !.step = "guarding", !.todo = DOMAIN Ops]
    BY <1>3 DEF Check
  <2>2. /\ exec'.step = "guarding" /\ exec'.plan = exec.plan /\ exec'.backup = exec.backup
        /\ exec'.run = exec.run
    BY <1>1, <2>1 DEF Execution
  <2>3. QED
    BY <2>1, <2>2, RunInvKept DEF RunKept, PlansKept, Executing
<1>4. CASE \E p \in Paths : Guard(p) \/ Apply(p) \/ Verify(p)
  <2>1. PICK p \in Paths : Guard(p) \/ Apply(p) \/ Verify(p)
    BY <1>4
  <2>2. /\ exec.step \in Working /\ exec'.step \in Working /\ exec'.plan = exec.plan
        /\ exec'.backup = exec.backup /\ exec'.run = exec.run /\ plans' = plans
    BY <2>1, MoveFacts
  <2>3. /\ DOMAIN runs' = DOMAIN runs
        /\ \A i \in DOMAIN runs : RunKept(i) /\ runs'[i].state = runs[i].state
    BY <2>1, MoveRuns
  <2>4. exec.run \in DOMAIN runs
    BY <2>2 DEF Working, Executing, RecoveryInv, ExecutionInv, RunStored
  <2>5. QED
    BY <2>2, <2>3, <2>4, RunInvKept DEF PlansKept, Working, Executing
<1>5. CASE Succeed
  <2>1. /\ exec.step = "guarding" /\ plans' = plans
        /\ runs' = [runs EXCEPT ![exec.run].state = "succeeded"]
        /\ exec' = [exec EXCEPT !.step = "closing"]
    BY <1>5 DEF Succeed
  <2>2. /\ exec'.step = "closing" /\ exec'.plan = exec.plan /\ exec'.backup = exec.backup
        /\ exec'.run = exec.run
    BY <1>1, <2>1 DEF Execution
  <2>3. DOMAIN runs' = DOMAIN runs /\ \A i \in DOMAIN runs : RunKept(i)
    BY <2>1, OutcomeFacts DEF Executing
  <2>4. QED
    BY <2>1, <2>2, <2>3, RunInvKept DEF PlansKept, Executing
<1>6. CASE SaveExecuted
  <2>1. PlansKept
    BY <1>6, ExecutedKeepsOps DEF PlansKept
  <2>2. runs' = runs /\ exec'.step = "idle"
    BY <1>6, IdleFacts DEF SaveExecuted
  <2>3. QED
    BY <2>1, <2>2, RunInvKept DEF RunKept
<1>7. CASE Fail
  <2>1. /\ exec.step \in Executing /\ plans' = plans /\ exec'.step = "idle"
        /\ runs' = [runs EXCEPT ![exec.run].state = "failed"]
    BY <1>7, IdleFacts DEF Fail, Executing
  <2>2. DOMAIN runs' = DOMAIN runs /\ \A i \in DOMAIN runs : RunKept(i)
    BY <2>1, OutcomeFacts
  <2>3. QED
    BY <2>1, <2>2, RunInvKept DEF PlansKept
<1>8. CASE Abandon
  <2>1. runs' = runs /\ plans' = plans /\ exec'.step = "idle"
    BY <1>8, IdleFacts DEF Abandon
  <2>2. QED
    BY <2>1, RunInvKept DEF RunKept, PlansKept
<1>9. CASE \E p \in Paths, place \in Contents \cup {Absent} : UserEdit(p, place)
  <2>1. PICK p \in Paths, place \in Contents \cup {Absent} : UserEdit(p, place)
    BY <1>9
  <2>2. /\ plans' = plans /\ DOMAIN runs' = DOMAIN runs
        /\ \A i \in DOMAIN runs : RunKept(i) /\ runs'[i].state = runs[i].state
        /\ exec'.step = exec.step /\ exec'.plan = exec.plan
        /\ exec'.backup = exec.backup /\ exec'.run = exec.run
    BY <2>1, EditFacts
  <2>3. exec.step \in Executing => exec.run \in DOMAIN runs
    BY DEF RecoveryInv, ExecutionInv, RunStored
  <2>4. QED
    BY <2>2, <2>3, RunInvKept DEF PlansKept
<1>10. CASE UNCHANGED vars
  <2>1. UNCHANGED <<plans, runs, exec>>
    BY <1>10 DEF vars
  <2>2. QED
    BY <2>1, RunInvKept DEF RunKept, PlansKept
<1>11. QED
  BY <1>2, <1>3, <1>4, <1>5, <1>6, <1>7, <1>8, <1>9, <1>10, RunPlanRecovery, RunBegin,
     RunPersistBackup, RunSaveRun DEF Next, Execute
-----------------------------------------------------------------------------
(* Places: PlaceInv *)

\* A run that succeeded left what its plan restores, where nobody else wrote.
Restored(run) == run.state = "succeeded" =>
    \A p \in DOMAIN plans[run.plan].ops \ run.touched : files[p] = plans[run.plan].ops[p].target

\* Where the run is not touched, its paths hold what they held.
Undisturbed(i) == \A q \in Paths :
    q \notin runs'[i].touched => q \notin runs[i].touched /\ files'[q] = files[q]

LEMMA BackupReachesKept ==
    ASSUME RecoveryInv, RunInv, PlansKept, NEW i \in DOMAIN runs, RunKept(i), Undisturbed(i),
           BackupReaches(runs[i])
    PROVE  BackupReaches(runs[i])'
<1> DEFINE b == runs[i].backup
<1>1. SUFFICES ASSUME b # 0, NEW p \in DOMAIN plans[b].ops, p \notin runs'[i].touched
               PROVE  files'[p] \in {plans[b].ops[p].target, plans[b].ops[p].current}
  <2>1. b # 0 => plans'[b].ops = plans[b].ops
    BY DEF RunInv, RunsPlanned, RunPlanned, PlansKept
  <2>2. QED
    BY <2>1 DEF BackupReaches, RunKept
<1>2. b \in DOMAIN plans
  BY <1>1 DEF RunInv, RunsPlanned, RunPlanned
<1>3. p \in Paths
  BY <1>1, <1>2, PlanPaths
<1>4. p \notin runs[i].touched /\ files'[p] = files[p]
  BY <1>1, <1>3 DEF Undisturbed
<1>5. QED
  BY <1>1, <1>4 DEF BackupReaches

LEMMA RestoredKept ==
    ASSUME RecoveryInv, RunInv, PlansKept, NEW i \in DOMAIN runs, RunKept(i), Undisturbed(i),
           runs'[i].state = runs[i].state, Restored(runs[i])
    PROVE  Restored(runs[i])'
<1> DEFINE n == runs[i].plan
<1>1. n \in DOMAIN plans /\ plans'[n].ops = plans[n].ops
  BY DEF RunInv, RunsPlanned, RunPlanned, PlansKept
<1>2. SUFFICES ASSUME runs[i].state = "succeeded",
                      NEW p \in DOMAIN plans[n].ops, p \notin runs'[i].touched
               PROVE  files'[p] = plans[n].ops[p].target
  BY <1>1 DEF Restored, RunKept
<1>3. p \in Paths
  BY <1>1, PlanPaths
<1>4. p \notin runs[i].touched /\ files'[p] = files[p]
  BY <1>2, <1>3 DEF Undisturbed
<1>5. QED
  BY <1>2, <1>4 DEF Restored

LEMMA SucceededIsRestored == SucceededMeansRestored <=> \A i \in DOMAIN runs : Restored(runs[i])
  BY DEF SucceededMeansRestored, Restored

LEMMA SucceededIsRestoredNext ==
    SucceededMeansRestored' <=> \A i \in DOMAIN runs' : Restored(runs[i])'
  BY DEF SucceededMeansRestored, Restored

\* Steps that leave the runs and the files alone keep what is said of both.
LEMMA QuietKeeps ==
    ASSUME RecoveryInv, RunInv, PlaceInv, PlansKept, UNCHANGED <<files, runs>>
    PROVE  BackupsReach' /\ SucceededMeansRestored'
<1>1. \A i \in DOMAIN runs : RunKept(i) /\ Undisturbed(i) /\ runs'[i].state = runs[i].state
  BY DEF RunKept, Undisturbed
<1>2. BackupsReach'
  BY <1>1, BackupReachesKept DEF PlaceInv, BackupsReach
<1>3. SucceededMeansRestored'
  BY <1>1, RestoredKept, SucceededIsRestored, SucceededIsRestoredNext DEF PlaceInv
<1>4. QED
  BY <1>2, <1>3

LEMMA PlaceInit == ASSUME Init PROVE PlaceInv
<1>1. DOMAIN runs = {} /\ exec.step = "idle"
  BY IdleFacts DEF Init
<1>2. QED
  BY <1>1 DEF PlaceInv, CapturedHeld, DoneRestored, BackupsReach, SucceededMeansRestored, Working

\* Steps outside the execution, its begin and its end.
LEMMA PlaceQuiet ==
    ASSUME RecoveryInv, RunInv, PlaceInv, PlansKept, UNCHANGED <<files, runs>>,
           \/ exec'.step = "idle"
           \/ exec'.step \in {"capturing", "starting"} /\ DOMAIN exec'.saved = {}
           \/ exec' = exec
    PROVE  PlaceInv'
<1>1. BackupsReach' /\ SucceededMeansRestored'
  BY QuietKeeps
<1>2. CapturedHeld'
  BY DEF PlaceInv, CapturedHeld
<1>3. DoneRestored'
  <2>1. CASE exec' = exec
    <3>1. exec.step # "idle" => Ops' = Ops
      BY <2>1 DEF RecoveryInv, ExecutionInv, PlanLoaded, PlansKept, Ops
    <3>2. QED
      BY <2>1, <3>1 DEF PlaceInv, DoneRestored, Working
  <2>2. CASE exec'.step \in {"idle", "capturing", "starting"}
    BY <2>2 DEF DoneRestored, Working
  <2>3. QED
    BY <2>1, <2>2
<1>4. QED
  BY <1>1, <1>2, <1>3 DEF PlaceInv

LEMMA PlaceCapture ==
    ASSUME RecoveryInv, RunInv, PlaceInv, NEW p \in Paths, Capture(p)
    PROVE  PlaceInv'
<1>1. /\ exec.step = "capturing" /\ exec'.step = "capturing"
      /\ exec'.touched = exec.touched \ {p}
      /\ DOMAIN exec'.saved = DOMAIN exec.saved \cup {p}
      /\ exec'.saved[p].target = files[p]
      /\ \A q \in DOMAIN exec.saved \ {p} : exec'.saved[q] = exec.saved[q]
      /\ UNCHANGED <<files, plans, runs>>
  BY CaptureFacts
<1>2. BackupsReach' /\ SucceededMeansRestored'
  BY <1>1, QuietKeeps DEF PlansKept
<1>3. CapturedHeld'
  <2>1. SUFFICES ASSUME NEW q \in DOMAIN exec'.saved, q \notin exec'.touched
                 PROVE  files[q] = exec'.saved[q].target
    BY <1>1 DEF CapturedHeld
  <2>2. CASE q = p
    BY <1>1, <2>2
  <2>3. CASE q # p
    BY <1>1, <2>1, <2>3 DEF PlaceInv, CapturedHeld
  <2>4. QED
    BY <2>2, <2>3
<1>4. DoneRestored'
  BY <1>1 DEF DoneRestored, Working
<1>5. QED
  BY <1>2, <1>3, <1>4 DEF PlaceInv

LEMMA PlacePersistBackup ==
    ASSUME RecoveryInv, RunInv, PlaceInv, PersistBackup
    PROVE  PlaceInv'
<1>1. /\ SavePlan("in_place", exec.saved) /\ exec.saved \in Operations /\ exec \in Execution
      /\ exec.step = "capturing" /\ UNCHANGED <<files, runs>>
      /\ exec' = [exec EXCEPT !.step = "starting", !.backup = Len(plans')]
  BY DEF PersistBackup, RecoveryInv, TypeOK, Execution
<1>2. PlansKept
  BY <1>1, GrowthKeepsPlans DEF PlansKept, Actions
<1>3. exec'.step = "starting" /\ exec'.saved = exec.saved /\ exec'.touched = exec.touched
  BY <1>1 DEF Execution
<1>4. CapturedHeld' /\ DoneRestored'
  BY <1>1, <1>3 DEF PlaceInv, CapturedHeld, DoneRestored, Working
<1>5. QED
  BY <1>1, <1>2, <1>4, QuietKeeps DEF PlaceInv

\* A stored run has what was captured, and its backup.
LEMMA PlaceSaveRun ==
    ASSUME RecoveryInv, RunInv, PlaceInv, SaveRun
    PROVE  PlaceInv'
<1> DEFINE run == [plan |-> exec.plan, backup |-> exec.backup,
                   state |-> "running", touched |-> exec.touched]
<1>1. /\ DOMAIN runs' = DOMAIN runs \cup {Len(runs')}
      /\ \A i \in DOMAIN runs : runs'[i] = runs[i]
      /\ runs'[Len(runs')] = run
      /\ exec.step = "starting" /\ exec'.step = "checking"
      /\ UNCHANGED <<files, plans>>
  BY SaveRunFacts
<1>2. run.backup = exec.backup /\ run.state = "running" /\ run.touched = exec.touched
  OBVIOUS
<1>3. BackupReaches(run)
  <2>1. exec.backup # 0 => plans[exec.backup].ops = exec.saved
    BY <1>1 DEF RunInv, RunUnderWay, RecoveryInv, ExecutionInv, BackupStored
  <2>2. \A p \in DOMAIN exec.saved \ exec.touched : files[p] = exec.saved[p].target
    BY <1>1 DEF PlaceInv, CapturedHeld
  <2>3. QED
    BY <1>2, <2>1, <2>2 DEF BackupReaches
<1>4. BackupsReach'
  <2>1. SUFFICES ASSUME NEW i \in DOMAIN runs' PROVE BackupReaches(runs[i])'
    BY DEF BackupsReach
  <2>2. files' = files /\ plans' = plans
    BY <1>1
  <2>3. CASE i \in DOMAIN runs
    <3>1. BackupReaches(runs[i]) /\ runs'[i] = runs[i]
      BY <1>1, <2>3 DEF PlaceInv, BackupsReach
    <3>2. QED
      BY <2>2, <3>1 DEF BackupReaches
  <2>4. CASE i = Len(runs')
    <3>1. runs'[i] = run
      BY <1>1, <2>4
    <3>2. QED
      BY <1>3, <2>2, <3>1 DEF BackupReaches
  <2>5. QED
    BY <1>1, <2>3, <2>4
<1>5. SucceededMeansRestored'
  <2>1. SUFFICES ASSUME NEW i \in DOMAIN runs' PROVE Restored(runs[i])'
    BY SucceededIsRestoredNext
  <2>2. CASE i \in DOMAIN runs
    <3>1. Restored(runs[i]) /\ runs'[i] = runs[i]
      BY <1>1, <2>2, SucceededIsRestored DEF PlaceInv
    <3>2. files' = files /\ plans' = plans
      BY <1>1
    <3>3. QED
      BY <3>1, <3>2 DEF Restored
  <2>3. CASE i = Len(runs')
    BY <1>1, <1>2, <2>3 DEF Restored
  <2>4. QED
    BY <1>1, <2>2, <2>3
<1>6. CapturedHeld' /\ DoneRestored'
  BY <1>1 DEF CapturedHeld, DoneRestored, Working
<1>7. QED
  BY <1>4, <1>5, <1>6 DEF PlaceInv

\* Nothing is done yet.
LEMMA PlaceCheck == ASSUME RecoveryInv, RunInv, PlaceInv, Check PROVE PlaceInv'
<1>1. /\ exec.step = "checking" /\ UNCHANGED <<files, plans, runs>> /\ exec \in Execution
      /\ exec' = [exec EXCEPT !.step = "guarding", !.todo = DOMAIN Ops]
  BY DEF Check, RecoveryInv, TypeOK
<1>2. exec'.step = "guarding" /\ exec'.plan = exec.plan /\ exec'.todo = DOMAIN Ops
  BY <1>1 DEF Execution
<1>3. CapturedHeld' /\ DoneRestored'
  BY <1>1, <1>2 DEF CapturedHeld, DoneRestored, Ops
<1>4. QED
  BY <1>1, <1>3, QuietKeeps DEF PlaceInv, PlansKept

LEMMA PlaceGuard ==
    ASSUME RecoveryInv, RunInv, PlaceInv, NEW p \in Paths, Guard(p)
    PROVE  PlaceInv'
<1>1. /\ exec.step = "guarding" /\ UNCHANGED <<files, plans, runs>> /\ exec \in Execution
      /\ exec' = [exec EXCEPT !.step = "applying"]
  BY DEF Guard, RecoveryInv, TypeOK
<1>2. /\ exec'.step = "applying" /\ exec'.plan = exec.plan /\ exec'.todo = exec.todo
      /\ exec'.run = exec.run
  BY <1>1 DEF Execution
<1>3. CapturedHeld' /\ DoneRestored'
  BY <1>1, <1>2 DEF PlaceInv, CapturedHeld, DoneRestored, Ops, Working
<1>4. QED
  BY <1>1, <1>3, QuietKeeps DEF PlaceInv, PlansKept

\* The file that is read back is what the plan restores.
LEMMA PlaceVerify ==
    ASSUME RecoveryInv, RunInv, PlaceInv, NEW p \in Paths, Verify(p)
    PROVE  PlaceInv'
<1>1. /\ exec.step = "verifying" /\ UNCHANGED <<files, plans, runs>> /\ exec \in Execution
      /\ exec' = [exec EXCEPT !.step = "guarding", !.todo = exec.todo \ {p}]
      /\ files[p] = Ops[p].target
  BY DEF Verify, RecoveryInv, TypeOK
<1>2. /\ exec'.step = "guarding" /\ exec'.plan = exec.plan /\ exec'.todo = exec.todo \ {p}
      /\ exec'.run = exec.run
  BY <1>1 DEF Execution
<1>3. Ops' = Ops
  BY <1>1, <1>2 DEF Ops
<1>4. DoneRestored'
  <2>1. SUFFICES ASSUME NEW q \in DOMAIN Ops, q \notin exec.todo \ {p},
                        q \notin runs[exec.run].touched
                 PROVE  files[q] = Ops[q].target
    BY <1>1, <1>2, <1>3 DEF DoneRestored
  <2>2. CASE q = p
    BY <1>1, <2>2
  <2>3. CASE q # p
    BY <1>1, <2>1, <2>3 DEF PlaceInv, DoneRestored, Working
  <2>4. QED
    BY <2>2, <2>3
<1>5. CapturedHeld'
  BY <1>2 DEF CapturedHeld
<1>6. QED
  BY <1>1, <1>4, <1>5, QuietKeeps DEF PlaceInv, PlansKept

\* What the replacement of one file changes.
LEMMA ApplyFacts ==
    ASSUME RecoveryInv, NEW p \in Paths, Apply(p)
    PROVE  /\ exec.step = "applying" /\ p \in DOMAIN Ops /\ exec.run \in DOMAIN runs
           /\ files'[p] = Ops[p].target /\ \A q \in Paths \ {p} : files'[q] = files[q]
           /\ runs'[exec.run].touched = runs[exec.run].touched
           /\ \A i \in DOMAIN runs \ {exec.run} : Undisturbed(i)
           /\ exec'.step \in {"verifying", "guarding"}
           /\ exec'.todo = exec.todo \/ exec'.todo = exec.todo \ {p}
<1>1. /\ exec.step = "applying" /\ p \in exec.todo /\ files' = [files EXCEPT ![p] = Ops[p].target]
      /\ IF Ops[p].target = files[p] THEN UNCHANGED runs ELSE Touch(exec.run, p)
      /\ \/ exec' = [exec EXCEPT !.step = "verifying"]
         \/ exec' = [exec EXCEPT !.step = "guarding", !.todo = exec.todo \ {p}]
  BY DEF Apply, First
<1>2. /\ p \in DOMAIN Ops /\ exec.run \in DOMAIN runs /\ exec \in Execution
      /\ files \in [Paths -> Places] /\ runs \in Seq(Run)
  BY <1>1 DEF RecoveryInv, TypeOK, ExecutionInv, TodoPlanned, RunStored, Executing
<1>3. files'[p] = Ops[p].target /\ \A q \in Paths \ {p} : files'[q] = files[q]
  BY <1>1, <1>2
<1>4. /\ exec'.step \in {"verifying", "guarding"}
      /\ exec'.todo = exec.todo \/ exec'.todo = exec.todo \ {p}
  <2>1. CASE exec' = [exec EXCEPT !.step = "verifying"]
    BY <1>2, <2>1 DEF Execution
  <2>2. CASE exec' = [exec EXCEPT !.step = "guarding", !.todo = exec.todo \ {p}]
    BY <1>2, <2>2 DEF Execution
  <2>3. QED
    BY <1>1, <2>1, <2>2
<1>5. /\ runs'[exec.run].touched = runs[exec.run].touched
      /\ \A i \in DOMAIN runs \ {exec.run} : Undisturbed(i)
  <2>1. CASE Ops[p].target = files[p]
    <3>1. runs' = runs /\ \A q \in Paths : files'[q] = files[q]
      BY <1>1, <1>3, <2>1
    <3>2. QED
      BY <3>1 DEF Undisturbed
  <2>2. CASE Ops[p].target # files[p]
    <3>1. Touch(exec.run, p)
      BY <1>1, <2>2
    <3>2. \A i \in DOMAIN runs :
             /\ i = exec.run => runs'[i].touched = runs[i].touched
             /\ i # exec.run => runs'[i].touched = runs[i].touched \cup {p}
      BY <1>2, <3>1, TouchFacts
    <3>3. runs'[exec.run].touched = runs[exec.run].touched
      BY <1>2, <3>2
    <3>4. ASSUME NEW i \in DOMAIN runs \ {exec.run} PROVE Undisturbed(i)
      <4>1. SUFFICES ASSUME NEW q \in Paths, q \notin runs'[i].touched
                     PROVE  q \notin runs[i].touched /\ files'[q] = files[q]
        BY DEF Undisturbed
      <4>2. runs'[i].touched = runs[i].touched \cup {p}
        BY <3>2, <3>4
      <4>3. q \notin runs[i].touched /\ q # p
        BY <4>1, <4>2
      <4>4. QED
        BY <1>3, <4>3
    <3>5. QED
      BY <3>3, <3>4
  <2>3. QED
    BY <2>1, <2>2
<1>6. QED
  BY <1>1, <1>2, <1>3, <1>4, <1>5

LEMMA PlaceApply ==
    ASSUME RecoveryInv, FormInv, RunInv, PlaceInv, NEW p \in Paths, Apply(p)
    PROVE  PlaceInv'
<1> DEFINE r == exec.run
<1>1. /\ exec.step = "applying" /\ p \in DOMAIN Ops /\ r \in DOMAIN runs
      /\ files'[p] = Ops[p].target /\ \A q \in Paths \ {p} : files'[q] = files[q]
      /\ runs'[r].touched = runs[r].touched
      /\ \A i \in DOMAIN runs \ {r} : Undisturbed(i)
      /\ exec'.step \in {"verifying", "guarding"}
      /\ exec'.todo = exec.todo \/ exec'.todo = exec.todo \ {p}
  BY ApplyFacts
<1>2. exec'.plan = exec.plan /\ exec'.run = r /\ plans' = plans
  BY MoveFacts
<1>3. /\ DOMAIN runs' = DOMAIN runs
      /\ \A i \in DOMAIN runs : RunKept(i) /\ runs'[i].state = runs[i].state
  BY MoveRuns
<1>4. PlansKept /\ Ops' = Ops /\ DOMAIN Ops \subseteq Paths
  BY <1>1, <1>2, PlannedPaths DEF PlansKept, Ops
<1>5. BackupReaches(runs[r])'
  <2>1. SUFFICES ASSUME runs[r].backup # 0
                 PROVE  \A q \in DOMAIN plans[runs[r].backup].ops \ runs[r].touched :
                           files'[q] \in {plans[runs[r].backup].ops[q].target,
                                          plans[runs[r].backup].ops[q].current}
    BY <1>1, <1>2, <1>3 DEF BackupReaches, RunKept
  <2>2. runs[r].backup = exec.backup /\ InPlaceRun
    BY <1>1, <2>1 DEF RecoveryInv, ExecutionInv, RunStored, RunInv, RunUnderWay, Executing
  <2>3. plans[runs[r].backup].ops = exec.saved /\ DOMAIN exec.saved = DOMAIN Ops
    BY <1>1, <2>2 DEF RecoveryInv, ExecutionInv, BackupStored, Executing
  <2>4. SUFFICES ASSUME NEW q \in DOMAIN Ops, q \notin runs[r].touched
                 PROVE  files'[q] \in {exec.saved[q].target, exec.saved[q].current}
    BY <2>3
  <2>5. CASE q = p
    BY <1>1, <2>3, <2>5 DEF FormInv, SavedUndoes
  <2>6. CASE q # p
    <3>1. BackupReaches(runs[r])
      BY <1>1 DEF PlaceInv, BackupsReach
    <3>2. files[q] \in {exec.saved[q].target, exec.saved[q].current}
      BY <2>1, <2>3, <2>4, <3>1 DEF BackupReaches
    <3>3. QED
      BY <1>1, <1>4, <2>4, <2>6, <3>2
  <2>7. QED
    BY <2>5, <2>6
<1>6. BackupsReach'
  <2>1. \A i \in DOMAIN runs \ {r} : BackupReaches(runs[i])'
    BY <1>1, <1>3, <1>4, BackupReachesKept DEF PlaceInv, BackupsReach
  <2>2. QED
    BY <1>2, <1>3, <1>5, <2>1 DEF BackupsReach
<1>7. SucceededMeansRestored'
  <2>1. \A i \in DOMAIN runs \ {r} : Restored(runs[i])'
    BY <1>1, <1>3, <1>4, RestoredKept, SucceededIsRestored DEF PlaceInv
  <2>2. runs'[r].state = "running"
    BY <1>1, <1>3 DEF RunInv, RunUnderWay, Executing
  <2>3. Restored(runs[r])'
    BY <1>2, <2>2 DEF Restored
  <2>4. QED
    BY <1>2, <1>3, <2>1, <2>3, SucceededIsRestoredNext
<1>8. DoneRestored'
  <2>1. SUFFICES ASSUME NEW q \in DOMAIN Ops, q \notin exec'.todo, q \notin runs[r].touched
                 PROVE  files'[q] = Ops[q].target
    BY <1>1, <1>2, <1>4 DEF DoneRestored
  <2>2. CASE q = p
    BY <1>1, <2>2
  <2>3. CASE q # p
    <3>1. q \notin exec.todo
      BY <1>1, <2>1, <2>3
    <3>2. files[q] = Ops[q].target
      BY <1>1, <2>1, <3>1 DEF PlaceInv, DoneRestored, Working
    <3>3. QED
      BY <1>1, <1>4, <2>1, <2>3, <3>2
  <2>4. QED
    BY <2>2, <2>3
<1>9. CapturedHeld'
  BY <1>1 DEF CapturedHeld
<1>10. QED
  BY <1>6, <1>7, <1>8, <1>9 DEF PlaceInv

\* The outcome of the run: what is reported as succeeded has nothing left to do.
LEMMA PlaceOutcome ==
    ASSUME RecoveryInv, RunInv, PlaceInv, Succeed \/ Fail
    PROVE  PlaceInv'
<1> DEFINE r == exec.run
<1>1. /\ exec.step \in Executing /\ UNCHANGED <<files, plans>> /\ exec \in Execution
      /\ \/ /\ exec.step = "guarding" /\ exec.todo = {}
            /\ runs' = [runs EXCEPT ![r].state = "succeeded"]
            /\ exec' = [exec EXCEPT !.step = "closing"]
         \/ /\ runs' = [runs EXCEPT ![r].state = "failed"]
            /\ exec' = Idle
  BY DEF Succeed, Fail, RecoveryInv, TypeOK, Executing
<1>2. /\ DOMAIN runs' = DOMAIN runs /\ r \in DOMAIN runs
      /\ \A i \in DOMAIN runs : /\ RunKept(i) /\ runs'[i].touched = runs[i].touched
                                /\ i # r => runs'[i].state = runs[i].state
      /\ runs'[r].state = "failed" \/ (exec.step = "guarding" /\ exec.todo = {})
  <2>1. CASE runs' = [runs EXCEPT ![r].state = "failed"]
    BY <1>1, <2>1, OutcomeFacts
  <2>2. CASE /\ runs' = [runs EXCEPT ![r].state = "succeeded"]
             /\ exec.step = "guarding" /\ exec.todo = {}
    BY <1>1, <2>2, OutcomeFacts
  <2>3. QED
    BY <1>1, <2>1, <2>2
<1>3. PlansKept /\ \A i \in DOMAIN runs : Undisturbed(i)
  BY <1>1, <1>2 DEF PlansKept, Undisturbed
<1>4. BackupsReach'
  BY <1>2, <1>3, BackupReachesKept DEF PlaceInv, BackupsReach
<1>5. SucceededMeansRestored'
  <2>1. \A i \in DOMAIN runs \ {r} : Restored(runs[i])'
    BY <1>2, <1>3, RestoredKept, SucceededIsRestored DEF PlaceInv
  <2>2. ASSUME NEW i \in DOMAIN runs, i = r PROVE Restored(runs[i])'
    <3>1. CASE runs'[r].state = "failed"
      BY <2>2, <3>1 DEF Restored
    <3>2. CASE exec.step = "guarding" /\ exec.todo = {}
      <4>1. runs'[i].plan = exec.plan /\ runs'[i].touched = runs[r].touched
        BY <1>1, <1>2, <2>2 DEF RunKept, RunInv, RunUnderWay
      <4>2. \A p \in DOMAIN Ops \ runs[r].touched : files[p] = Ops[p].target
        BY <3>2 DEF PlaceInv, DoneRestored, Working
      <4>3. plans' = plans /\ files' = files
        BY <1>1
      <4>4. QED
        BY <4>1, <4>2, <4>3 DEF Restored, Ops
    <3>3. QED
      BY <1>2, <3>1, <3>2
  <2>3. QED
    BY <1>2, <2>1, <2>2, SucceededIsRestoredNext
<1>6. exec'.step \in {"closing", "idle"}
  BY <1>1, IdleFacts DEF Execution
<1>7. CapturedHeld' /\ DoneRestored'
  BY <1>6 DEF CapturedHeld, DoneRestored, Working
<1>8. QED
  BY <1>4, <1>5, <1>7 DEF PlaceInv

\* An edit is noted by the execution and by every run.
LEMMA PlaceUserEdit ==
    ASSUME RecoveryInv, RunInv, PlaceInv,
           NEW p \in Paths, NEW place \in Contents \cup {Absent}, UserEdit(p, place)
    PROVE  PlaceInv'
<1>1. /\ files' = [files EXCEPT ![p] = place] /\ plans' = plans
      /\ DOMAIN runs' = DOMAIN runs
      /\ \A i \in DOMAIN runs : /\ RunKept(i) /\ runs'[i].state = runs[i].state
                                /\ runs'[i].touched = runs[i].touched \cup {p}
      /\ exec'.step = exec.step /\ exec'.plan = exec.plan /\ exec'.saved = exec.saved
      /\ exec'.run = exec.run /\ exec'.todo = exec.todo
      /\ exec.step # "idle" => exec'.touched = exec.touched \cup {p}
  BY EditFacts
<1>2. \A q \in Paths \ {p} : files'[q] = files[q]
  BY <1>1 DEF RecoveryInv, TypeOK
<1>3. PlansKept /\ \A i \in DOMAIN runs : Undisturbed(i)
  BY <1>1, <1>2 DEF PlansKept, Undisturbed
<1>4. BackupsReach'
  BY <1>1, <1>3, BackupReachesKept DEF PlaceInv, BackupsReach
<1>5. SucceededMeansRestored'
  BY <1>1, <1>3, RestoredKept, SucceededIsRestored, SucceededIsRestoredNext DEF PlaceInv
<1>6. CapturedHeld'
  <2>1. exec.saved \in Operations
    BY DEF RecoveryInv, TypeOK, Execution
  <2>2. DOMAIN exec.saved \subseteq Paths
    BY <2>1, OperationsElim
  <2>3. SUFFICES ASSUME exec.step \in {"capturing", "starting"},
                        NEW q \in DOMAIN exec.saved, q \notin exec.touched \cup {p}
                 PROVE  files'[q] = exec.saved[q].target
    BY <1>1 DEF CapturedHeld
  <2>4. files[q] = exec.saved[q].target
    BY <2>3 DEF PlaceInv, CapturedHeld
  <2>5. QED
    BY <1>2, <2>2, <2>3, <2>4
<1>7. DoneRestored'
  <2>1. SUFFICES ASSUME exec.step \in Working
                 PROVE  \A q \in DOMAIN Ops \ (exec.todo \cup runs'[exec.run].touched) :
                            files'[q] = Ops[q].target
    BY <1>1 DEF DoneRestored, Ops
  <2>2. exec.run \in DOMAIN runs /\ DOMAIN Ops \subseteq Paths
    BY <2>1, PlannedPaths DEF RecoveryInv, ExecutionInv, RunStored, Working, Executing
  <2>3. runs'[exec.run].touched = runs[exec.run].touched \cup {p}
    BY <1>1, <2>2
  <2>4. QED
    BY <1>2, <2>1, <2>2, <2>3 DEF PlaceInv, DoneRestored
<1>8. QED
  BY <1>4, <1>5, <1>6, <1>7 DEF PlaceInv

LEMMA PlaceNext == ASSUME RecoveryInv, FormInv, RunInv, PlaceInv, [Next]_vars PROVE PlaceInv'
<1>1. CASE PlanRecovery
  <2>1. PICK action \in Actions, ops \in Operations : SavePlan(action, ops)
    BY <1>1, RequestFormed
  <2>2. PlansKept
    BY <2>1, GrowthKeepsPlans DEF PlansKept
  <2>3. exec' = exec /\ UNCHANGED <<files, runs>>
    BY <1>1 DEF PlanRecovery
  <2>4. QED
    BY <2>2, <2>3, PlaceQuiet
<1>2. CASE \E i \in DOMAIN plans, overwrite \in BOOLEAN : Begin(i, overwrite)
  <2>1. PICK i \in DOMAIN plans, overwrite \in BOOLEAN : Begin(i, overwrite)
    BY <1>2
  <2>2. /\ exec'.step \in {"capturing", "starting"} /\ DOMAIN exec'.saved = {}
        /\ UNCHANGED <<files, plans, runs>>
    BY <2>1, BeginFacts
  <2>3. QED
    BY <2>2, PlaceQuiet DEF PlansKept
<1>3. CASE SaveExecuted
  <2>1. PlansKept
    BY <1>3, ExecutedKeepsOps DEF PlansKept
  <2>2. UNCHANGED <<files, runs>> /\ exec'.step = "idle"
    BY <1>3, IdleFacts DEF SaveExecuted
  <2>3. QED
    BY <2>1, <2>2, PlaceQuiet
<1>4. CASE Abandon
  <2>1. UNCHANGED <<files, plans, runs>> /\ exec'.step = "idle"
    BY <1>4, IdleFacts DEF Abandon
  <2>2. QED
    BY <2>1, PlaceQuiet DEF PlansKept
<1>5. CASE UNCHANGED vars
  BY <1>5, PlaceQuiet DEF vars, PlansKept
<1>6. QED
  BY <1>1, <1>2, <1>3, <1>4, <1>5, PlaceCapture, PlacePersistBackup, PlaceSaveRun, PlaceCheck,
     PlaceGuard, PlaceApply, PlaceVerify, PlaceOutcome, PlaceUserEdit DEF Next, Execute

LEMMA AlwaysInPlace == Spec => [](RunInv /\ PlaceInv)
<1> DEFINE Inv == RunInv /\ PlaceInv
<1>1. Init => Inv
  BY RunInit, PlaceInit
<1>2. RecoveryInv /\ FormInv /\ Inv /\ [Next]_vars => Inv'
  BY RunNext, PlaceNext
<1>3. QED
  BY <1>1, <1>2, AlwaysInv, AlwaysFormed, PTL DEF Spec
-----------------------------------------------------------------------------
\* After a run that is reported as succeeded, every path of its plan that nobody
\* else changed holds what the plan restores, whatever ran and failed in between.
THEOREM SuccessMeansRestored == Spec => []SucceededMeansRestored
<1>1. PlaceInv => SucceededMeansRestored
  BY DEF PlaceInv
<1>2. QED
  BY <1>1, AlwaysInPlace, PTL

\* However a run ended, and wherever it is, executing its backup finds no conflict
\* at a path that nobody else changed: the restore can always be undone.
THEOREM UndoStaysPossible == Spec => []UndoPossible
<1>1. ASSUME RunInv, PlaceInv PROVE UndoPossible
  <2>1. SUFFICES ASSUME NEW i \in DOMAIN runs, runs[i].backup # 0,
                        NEW p \in DOMAIN plans[runs[i].backup].ops, p \notin runs[i].touched
                 PROVE  ~Conflicts(plans[runs[i].backup].ops[p], files[p])
    BY DEF UndoPossible
  <2> DEFINE undo == plans[runs[i].backup].ops[p]
  <2>2. undo.kind = IF undo.target = Absent THEN "remove" ELSE "write"
    BY <1>1, <2>1 DEF RunInv, RunsPlanned, RunPlanned, Undoes
  <2>3. files[p] = undo.target \/ files[p] = undo.current
    BY <1>1, <2>1 DEF PlaceInv, BackupsReach, BackupReaches
  <2>4. QED
    BY <2>2, <2>3 DEF Conflicts
<1>2. QED
  BY <1>1, AlwaysInPlace, PTL
=============================================================================
