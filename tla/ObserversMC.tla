---------------------------- MODULE ObserversMC ----------------------------
\* The two observers share nothing but the pipeline they record through, so a
\* behaviour is one of the files of a project or one of the process table.
EXTENDS ProjectObserver, ProcessObserver, TLC

CONSTANTS b, t
MCPaths == {b, t}
MCInside == {b}
MCIgnored == {t}
MCTracked == {t}

\* One content is as good as another.
Alike == Permutations(Contents)

VARIABLE world

MCInit ==
    /\ Init /\ ProcessInit
    /\ world \in {"files", "processes"}
    /\ world = "processes" => disk = Empty

OfFiles == world = "files" /\ Next /\ UNCHANGED <<processVars, world>>
OfProcesses == world = "processes" /\ ProcessNext /\ UNCHANGED <<vars, world>>

MCSpec == MCInit /\ [][OfFiles \/ OfProcesses]_<<vars, processVars, world>>
=============================================================================
