------------------------------- MODULE Recovery -------------------------------
(***************************************************************************)
(* Recovery into one destination root: plans                               *)
(* (crates/agenttraceback-recovery/src/lib.rs), their execution under the  *)
(* lock of the RecoveryCoordinator                                         *)
(* (crates/agenttraceback-daemon/src/recovery_coordinator.rs), the backup  *)
(* of an in-place restore and its undo, against a user who edits the same  *)
(* files and a daemon that stops at any step.  Roots are independent.      *)
(* A file is its content; its digest, its blob and the content are one     *)
(* value, and a blob is sound or damaged.  The conflict checks over all    *)
(* operations are one step, every read and write of one file another.      *)
(***************************************************************************)
EXTENDS Naturals, Sequences

CONSTANTS
    Paths,          \* paths below the root, ordered as the plans order them
    Contents,       \* file contents
    Absent, Link,   \* no file; a symbolic link that a plan created
    Snapshots,      \* pre-session snapshots: what can be restored, by path
    Selections,     \* selections of paths for an in-place restore
    Damages,        \* sets of contents whose blobs fail authentication
    Gaps,           \* whether edits hit the window between guard and rename
    MaxPlans, MaxRuns, MaxEdits,    \* bounds of the model
    MaxRequests     \* bound on the plans stored when another is requested

Places == Contents \cup {Absent, Link}
Actions == {"reconstruct", "worktree", "single", "in_place"}

ASSUME PathsAssumption == Paths \subseteq Nat
ASSUME PlacesAssumption == Absent \notin Contents \cup {Link} /\ Link \notin Contents
\* Absent in a snapshot: captured without content, so not restorable.
ASSUME SnapshotsAssumption == Snapshots \subseteq [Paths -> Places]
ASSUME SelectionsAssumption == Selections \subseteq SUBSET Paths
ASSUME DamagesAssumption == Damages \subseteq SUBSET Contents
ASSUME GapsAssumption == Gaps \subseteq BOOLEAN
ASSUME BoundsAssumption == {MaxPlans, MaxRuns, MaxEdits, MaxRequests} \subseteq Nat

VARIABLES
    files,          \* files[p]: what the root holds at p
    checkedOut,     \* the root holds the .git of a recovery worktree
    plans,          \* the stored recovery plans
    runs,           \* the stored recovery runs
    exec,           \* the execution that holds the execution lock
    edits,          \* user edits so far
    snapshot, damaged, gap      \* the circumstances, which do not change

circumstances == <<snapshot, damaged, gap>>
vars == <<files, checkedOut, plans, runs, exec, edits, circumstances>>

\* current: the place the operation expects to find (expected_current_hash).
Operation == [kind : {"write", "remove", "link"}, target : Places, current : Places]
Operations == UNION {[D -> Operation] : D \in SUBSET Paths}
NoOperations == [p \in {} |-> Absent]

Plan == [action : Actions, ops : Operations, status : {"prepared", "executed"}]
\* touched: the paths that someone else changed since the run read them.
Run == [plan : 1..MaxPlans, backup : 0..MaxPlans,
        state : {"running", "failed", "succeeded"}, touched : SUBSET Paths]
Steps == {"idle", "capturing", "starting", "checking", "guarding", "applying",
          "verifying", "closing"}
Execution == [step : Steps, plan : 0..MaxPlans, overwrite : BOOLEAN, saved : Operations,
              backup : 0..MaxPlans, run : 0..MaxRuns, todo : SUBSET Paths,
              touched : SUBSET Paths]

Idle == [step |-> "idle", plan |-> 0, overwrite |-> FALSE, saved |-> NoOperations,
         backup |-> 0, run |-> 0, todo |-> {}, touched |-> {}]

Init ==
    /\ files \in [Paths -> Contents \cup {Absent}]
    /\ checkedOut = FALSE
    /\ plans = <<>> /\ runs = <<>>
    /\ exec = Idle
    /\ edits = 0
    /\ snapshot \in Snapshots /\ damaged \in Damages /\ gap \in Gaps
-----------------------------------------------------------------------------
(* Planning *)

Op(kind, target, current) == [kind |-> kind, target |-> target, current |-> current]

Reconstruction ==
    [p \in {q \in Paths : snapshot[q] # Absent} |->
        Op(IF snapshot[p] = Link THEN "link" ELSE "write", snapshot[p], Absent)]

InPlace(selection) ==
    [p \in {q \in selection : snapshot[q] \in Contents} |->
        Op("write", snapshot[p], files[p])]

Prepared(action, ops) == [action |-> action, ops |-> ops, status |-> "prepared"]

\* persist_plan: the blob of the plan and its row.
SavePlan(action, ops) ==
    /\ Len(plans) < MaxPlans
    /\ plans' = Append(plans, Prepared(action, ops))

PlanRecovery ==
    /\ Len(plans) < MaxRequests
    /\ \/ \E action \in {"reconstruct", "worktree"} : SavePlan(action, Reconstruction)
       \/ \E selection \in Selections : SavePlan("in_place", InPlace(selection))
       \/ \E source, p \in Paths :
            /\ snapshot[source] \in Contents
            /\ SavePlan("single", [q \in {p} |-> Op("write", snapshot[source], Absent)])
    /\ UNCHANGED <<files, checkedOut, runs, exec, edits, circumstances>>
-----------------------------------------------------------------------------
(* Execution *)

\* Faulty variant: an undo that has nothing to remove is a conflict.
ConflictsStrictly(op, place) ==
    /\ ~(op.kind = "write" /\ place = op.target)
    /\ place # op.current

\* The place differs from what the operation expects, unless the operation
\* has nothing left to do there.
Conflicts(op, place) ==
    /\ ~(op.kind = "remove" /\ place = Absent)
    /\ ~(op.kind = "write" /\ place = op.target)
    /\ place # op.current

Ops == plans[exec.plan].ops
InPlaceRun == plans[exec.plan].action = "in_place"
RootEmpty == ~checkedOut /\ \A p \in Paths : files[p] = Absent

\* The operation with what the backup saw in place of what the plan expects.
Guarded(p) == [Ops[p] EXCEPT !.current = exec.saved[p].target]

First(p) == p \in exec.todo /\ \A q \in exec.todo : p <= q

\* The lock is free, the plan is loaded and its digest matches.  An in-place
\* restore looks for conflicts; a worktree is created in an empty directory.
Begin(i, overwrite) ==
    /\ exec.step = "idle"
    /\ \/ /\ plans[i].action = "in_place"
          /\ \/ overwrite
             \/ \A p \in DOMAIN plans[i].ops : ~Conflicts(plans[i].ops[p], files[p])
          /\ exec' = [Idle EXCEPT !.step = "capturing", !.plan = i, !.overwrite = overwrite,
                                  !.todo = DOMAIN plans[i].ops]
          /\ UNCHANGED checkedOut
       \/ /\ plans[i].action # "in_place"
          /\ exec' = [Idle EXCEPT !.step = "starting", !.plan = i, !.overwrite = overwrite]
          /\ \/ plans[i].action # "worktree" /\ UNCHANGED checkedOut
             \/ plans[i].action = "worktree" /\ RootEmpty /\ checkedOut' = TRUE
    /\ UNCHANGED <<files, plans, runs, edits, circumstances>>

\* backup_before_restore reads one file and puts it into the blob store, which
\* refuses content whose stored blob is damaged.
Capture(p) ==
    /\ exec.step = "capturing" /\ First(p)
    /\ files[p] \notin damaged
    /\ LET undo == Op(IF files[p] = Absent THEN "remove" ELSE "write", files[p], Ops[p].target)
       IN exec' = [exec EXCEPT
            !.saved = [q \in DOMAIN @ \cup {p} |-> IF q = p THEN undo ELSE @[q]],
            !.todo = @ \ {p}, !.touched = @ \ {p}]
    /\ UNCHANGED <<files, checkedOut, plans, runs, edits, circumstances>>

PersistBackup ==
    /\ exec.step = "capturing" /\ exec.todo = {}
    /\ SavePlan("in_place", exec.saved)
    /\ exec' = [exec EXCEPT !.step = "starting", !.backup = Len(plans')]
    /\ UNCHANGED <<files, checkedOut, runs, edits, circumstances>>

SaveRun ==
    /\ exec.step = "starting"
    /\ Len(runs) < MaxRuns
    /\ runs' = Append(runs, [plan |-> exec.plan, backup |-> exec.backup,
                             state |-> "running", touched |-> exec.touched])
    /\ exec' = [exec EXCEPT !.step = "checking", !.run = Len(runs')]
    /\ UNCHANGED <<files, checkedOut, plans, edits, circumstances>>

\* What execute checks before it writes: the destination, then the blobs.
DestinationFree ==
    CASE plans[exec.plan].action = "in_place" ->
            \A p \in DOMAIN Ops : ~Conflicts(Guarded(p), files[p])
      [] plans[exec.plan].action = "reconstruct" -> RootEmpty
      [] plans[exec.plan].action = "single" -> \A p \in DOMAIN Ops : files[p] = Absent
      [] plans[exec.plan].action = "worktree" -> TRUE

\* Faulty variant: only the first blob is checked.
FirstBlobSound ==
    \A p \in DOMAIN Ops :
        (Ops[p].kind = "write" /\ \A q \in DOMAIN Ops : p <= q) => Ops[p].target \notin damaged

BlobsSound == \A p \in DOMAIN Ops : Ops[p].kind = "write" => Ops[p].target \notin damaged

\* Faulty variant: a file that is not where the plan expects it is skipped.
CheckSelects ==
    /\ exec.step = "checking"
    /\ DestinationFree /\ BlobsSound
    /\ exec' = [exec EXCEPT !.step = "guarding",
                    !.todo = {p \in DOMAIN Ops : files[p] = Ops[p].current}]
    /\ UNCHANGED <<files, checkedOut, plans, runs, edits, circumstances>>

Check ==
    /\ exec.step = "checking"
    /\ DestinationFree /\ BlobsSound
    /\ exec' = [exec EXCEPT !.step = "guarding", !.todo = DOMAIN Ops]
    /\ UNCHANGED <<files, checkedOut, plans, runs, edits, circumstances>>

\* Faulty variant: the file is not checked again before it is replaced.
GuardNothing(p) ==
    /\ exec.step = "guarding" /\ First(p)
    /\ exec' = [exec EXCEPT !.step = "applying"]
    /\ UNCHANGED <<files, checkedOut, plans, runs, edits, circumstances>>

\* The second conflict check, of one in-place operation.
Guard(p) ==
    /\ exec.step = "guarding" /\ First(p)
    /\ InPlaceRun => ~Conflicts(Guarded(p), files[p])
    /\ exec' = [exec EXCEPT !.step = "applying"]
    /\ UNCHANGED <<files, checkedOut, plans, runs, edits, circumstances>>

\* Every stored run but r notes that someone else changed p.
Touch(r, p) ==
    runs' = [i \in DOMAIN runs |->
        IF i = r THEN runs[i] ELSE [runs[i] EXCEPT !.touched = @ \cup {p}]]

\* A rename, which replaces an existing file only in place and in a worktree;
\* a removal; or a link.  Only a written file is read back.
Apply(p) ==
    /\ exec.step = "applying" /\ First(p)
    /\ \/ plans[exec.plan].action \in {"in_place", "worktree"} /\ Ops[p].kind # "link"
       \/ files[p] = Absent
    /\ files' = [files EXCEPT ![p] = Ops[p].target]
    /\ IF Ops[p].target = files[p] THEN UNCHANGED runs ELSE Touch(exec.run, p)
    /\ IF Ops[p].kind = "write"
       THEN exec' = [exec EXCEPT !.step = "verifying"]
       ELSE exec' = [exec EXCEPT !.step = "guarding", !.todo = @ \ {p}]
    /\ UNCHANGED <<checkedOut, plans, edits, circumstances>>

Verify(p) ==
    /\ exec.step = "verifying" /\ First(p)
    /\ files[p] = Ops[p].target
    /\ exec' = [exec EXCEPT !.step = "guarding", !.todo = @ \ {p}]
    /\ UNCHANGED <<files, checkedOut, plans, runs, edits, circumstances>>

Succeed ==
    /\ exec.step = "guarding" /\ exec.todo = {}
    /\ runs' = [runs EXCEPT ![exec.run].state = "succeeded"]
    /\ exec' = [exec EXCEPT !.step = "closing"]
    /\ UNCHANGED <<files, checkedOut, plans, edits, circumstances>>

SaveExecuted ==
    /\ exec.step = "closing"
    /\ plans' = [plans EXCEPT ![exec.plan].status = "executed"]
    /\ exec' = Idle
    /\ UNCHANGED <<files, checkedOut, runs, edits, circumstances>>

\* A conflict, a damaged blob, a changed file or an I/O error inside execute.
Fail ==
    /\ exec.step \in {"checking", "guarding", "applying", "verifying"}
    /\ runs' = [runs EXCEPT ![exec.run].state = "failed"]
    /\ exec' = Idle
    /\ UNCHANGED <<files, checkedOut, plans, edits, circumstances>>

\* The daemon stops, or a call outside execute fails, the one that records the
\* failure included: the run stays as it was last stored.
Abandon ==
    /\ exec.step # "idle"
    /\ exec' = Idle
    /\ UNCHANGED <<files, checkedOut, plans, runs, edits, circumstances>>

Execute ==
    \/ \E i \in DOMAIN plans, overwrite \in BOOLEAN : Begin(i, overwrite)
    \/ \E p \in Paths : Capture(p) \/ Guard(p) \/ Apply(p) \/ Verify(p)
    \/ PersistBackup \/ SaveRun \/ Check \/ Succeed \/ SaveExecuted \/ Fail \/ Abandon
-----------------------------------------------------------------------------
\* The user replaces, creates or deletes a file.
UserEdit(p, place) ==
    /\ edits < MaxEdits
    /\ exec.step = "applying" /\ First(p) => gap
    /\ place # files[p]
    /\ files' = [files EXCEPT ![p] = place]
    /\ Touch(0, p)
    /\ exec' = IF exec.step = "idle" THEN exec ELSE [exec EXCEPT !.touched = @ \cup {p}]
    /\ edits' = edits + 1
    /\ UNCHANGED <<checkedOut, plans, circumstances>>

Next ==
    \/ PlanRecovery
    \/ Execute
    \/ \E p \in Paths, place \in Contents \cup {Absent} : UserEdit(p, place)

Spec == Init /\ [][Next]_vars
-----------------------------------------------------------------------------
\* The values the variables may take; a link is only where the snapshot has one.
TypeOK ==
    /\ files \in [Paths -> Places] /\ checkedOut \in BOOLEAN
    /\ plans \in Seq(Plan) /\ Len(plans) <= MaxPlans
    /\ runs \in Seq(Run) /\ Len(runs) <= MaxRuns
    /\ exec \in Execution
    /\ edits \in 0..MaxEdits
    /\ snapshot \in Snapshots /\ damaged \in Damages /\ gap \in Gaps
    /\ \A p \in Paths : files[p] = Link => snapshot[p] = Link

\* The stored backup of the run holds what the root holds at p.
BackedUp(p) ==
    /\ exec.run # 0
    /\ runs[exec.run].backup # 0
    /\ LET saved == plans[runs[exec.run].backup].ops
       IN p \in DOMAIN saved /\ saved[p].target = files[p]

\* A recovery changes a file only where there was none or when the stored
\* backup that its stored run names holds it.  A worktree, which is filled
\* after its creation, and an edit inside the window that no program can close
\* are excluded.
OverwritesOnlyBackedUp ==
    [][~gap /\ edits' = edits /\ files' # files =>
        \A p \in Paths : files'[p] # files[p] =>
            files[p] = Absent \/ BackedUp(p) \/ plans[exec.plan].action = "worktree"]_vars

\* However a run ended, and wherever it is, executing its backup finds no
\* conflict at a path that nobody else changed.
UndoPossible ==
    \A i \in DOMAIN runs : runs[i].backup # 0 =>
        LET undo == plans[runs[i].backup].ops
        IN \A p \in DOMAIN undo \ runs[i].touched : ~Conflicts(undo[p], files[p])

\* After a run that is reported as succeeded, every path of the plan that
\* nobody else changed holds what the plan restores there.
SucceededMeansRestored ==
    \A i \in DOMAIN runs : runs[i].state = "succeeded" =>
        LET ops == plans[runs[i].plan].ops
        IN \A p \in DOMAIN ops \ runs[i].touched : files[p] = ops[p].target

\* No file is changed for a plan one of whose blobs is damaged.
NoWriteFromDamagedPlan ==
    [][edits' = edits /\ files' # files => \A p \in DOMAIN Ops : Ops[p].target \notin damaged]_vars

\* Without an explicit overwrite, an in-place restore changes a file only from
\* the place that its plan expects.
ChangedFilesRefused ==
    [][edits' = edits /\ files' # files /\ ~exec.overwrite /\ InPlaceRun =>
        \A p \in Paths : files'[p] # files[p] => files[p] = Ops[p].current]_vars
=============================================================================
