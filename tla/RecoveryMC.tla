------------------------------ MODULE RecoveryMC ------------------------------
(* Small instances of Recovery for TLC. *)
EXTENDS Recovery

CONSTANTS a, b

MCPaths == {1, 2}
MCContents == {a, b}

\* Two files; a file and a link; a file and one captured without content.
MCSnapshots == {[p \in MCPaths |-> IF p = 1 THEN a ELSE b],
                [p \in MCPaths |-> IF p = 1 THEN a ELSE Link],
                [p \in MCPaths |-> IF p = 1 THEN Absent ELSE a]}
MCSelections == {{1}, MCPaths}
MCDamages == {{}, {b}}
AnyGap == BOOLEAN
=============================================================================
