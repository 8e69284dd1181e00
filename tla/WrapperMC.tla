------------------------------ MODULE WrapperMC ------------------------------
\* The daemon's side of one project's sessions, and whole runs with what they store:
\* a behaviour is one or the other, so that each keeps to its own detail.
EXTENDS WrapperCoordinatorMC, WrapperRun

CONSTANTS r1, r2, a, b
MCRuns == {r1, r2}
MCContents == {a, b}
MCWriters == {MainOf(r) : r \in MCRuns} \cup {ChunkOf(r) : r \in MCRuns}
MCOutput == r1 :> <<a, b>> @@ r2 :> <<b>>
MCTrees == {[f \in 1..2 |-> a]}

\* Two runs at once whose files and Git states collide in the blob store; one run with
\* its transcript, under whatever can go wrong; and one whose agent cannot be launched.
MCCircumstances ==
    [runs : {{r1, r2}}, taped : {{}}, ends : {{"succeeded"}}, trouble : {{"disk"}}] \cup
    [runs : {{r1}}, taped : {{r1}}, ends : {{"failed", "cancelled"}},
     trouble : {{"refusal", "stop"}, {"timeout", "stop"}, {"disk", "edits"}}] \cup
    [runs : {{r2}}, taped : {{r2}}, ends : {{"failed"}}, trouble : {{"launch"}}]

VARIABLE world

MCInit ==
    /\ world \in {"lifecycle", "runs"} /\ Init /\ RunInit
    /\ world = "lifecycle" => given = CHOOSE g \in Circumstances : TRUE
    /\ world = "runs" => mode = FreeMode

OfLifecycle == world = "lifecycle" /\ Next /\ UNCHANGED <<runVars, world>>
OfRuns == world = "runs" /\ RunNext /\ UNCHANGED <<vars, world>>

MCSpec ==
    /\ MCInit /\ [][OfLifecycle \/ OfRuns]_<<vars, runVars, world>>
    /\ Fairness /\ RunFairness
=============================================================================
