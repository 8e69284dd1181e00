---------------------------- MODULE NativeImportMC ----------------------------
(* A small instance of NativeImport for TLC: a machine has OpenCode and an       *)
(* adapter without messages, Hermes and a wrapper of its agent, or Gemini.      *)
EXTENDS NativeImport

CONSTANTS opencode, hermes, gemini, quiet, o1, h1, h2, g1, w

MCAdapterOrder == <<quiet, hermes, opencode, gemini>>
MCInstallations == {{opencode, quiet}, {hermes}, {gemini}}
MCFormat == [a \in {opencode, hermes, gemini, quiet} |->
    CASE a = opencode -> "opencode" [] a = gemini -> "gemini" [] OTHER -> "hermes"]
MCMaxWrites == [a \in {opencode, hermes, gemini, quiet} |->
    CASE a = gemini -> 4 [] a = quiet -> 0 [] OTHER -> 2]
MCSessionsOf == [a \in {opencode, hermes, gemini, quiet} |->
    CASE a = opencode -> {o1} [] a = hermes -> {h1, h2} [] a = gemini -> {g1} [] a = quiet -> {}]
MCWrappers == {w}
MCAgentOf == [s \in {w} |-> hermes]
MCTimeOf == [n \in {o1, h1, h2, g1} |-> IF n = h2 THEN 3 ELSE 2]
MCStartOf == [s \in {w} |-> 3]
MCEndOf == [s \in {w} |-> 3]
=============================================================================
