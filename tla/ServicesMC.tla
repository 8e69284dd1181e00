----------------------------- MODULE ServicesMC -----------------------------
(* A small instance for TLC of four services of the daemon that share no state: *)
(* the verification of a chain, the demo dataset with the export, the reading  *)
(* of a timeline, and the hooks of Claude Code.  A behaviour is one of them.   *)
EXTENDS ChainVerifier, LocalApi, HookInstallation, TLC

VARIABLE world

\* Two requests side by side, and one event, since events do not depend on each other.
Symmetric == Permutations(Requests) \cup Permutations(Users)

MCInit ==
    /\ Init /\ ApiInit /\ HookInit
    /\ world \in {"chain", "demo", "timeline", "hooks"}
    /\ world # "hooks" => file = None

OfChain == world = "chain" /\ Next /\ UNCHANGED <<apiVars, hookVars, world>>
OfDemo == world = "demo" /\ DemoNext /\ UNCHANGED <<vars, hookVars, world>>
OfTimeline == world = "timeline" /\ TimelineNext /\ UNCHANGED <<vars, hookVars, world>>
OfHooks == world = "hooks" /\ HookNext /\ UNCHANGED <<vars, apiVars, world>>

MCSpec ==
    MCInit /\ [][OfChain \/ OfDemo \/ OfTimeline \/ OfHooks]_<<vars, apiVars, hookVars, world>>
=============================================================================
