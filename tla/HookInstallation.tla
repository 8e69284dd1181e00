---------------------------- MODULE HookInstallation ----------------------------
(* Optional hooks in the settings of Claude Code: the user asks for a plan,     *)
(* approves it, and may have the hooks removed again.  Requests run side by     *)
(* side, the user and the agent edit the file, and the daemon may die between   *)
(* any two steps.                                                               *)
EXTENDS Integers, FiniteSets

CONSTANTS
    Requests,   \* concurrent requests
    Users,      \* what the user keeps in the file, the hooks aside
    HookEvents, \* the events hooks are installed for
    None,
    MaxEdits,   \* bound: edits of the file by others
    MaxCalls    \* bound: requests made


VARIABLES
    file,       \* settings.json, or None
    backups,    \* the copies made
    receipt,    \* there is a row in adapter_hooks
    approved,   \* the contents of which the user holds a plan, or None
    request,    \* request[r]: where r is; its seen is history, the contents that r
                \* last looked at
    uncertain,  \* history: a request was cut short or overlapped another one,
                \* or someone else edited the hooks
    edits, calls    \* bounds

hookVars == <<file, backups, receipt, approved, request, uncertain, edits, calls>>

\* An entry of an event's list: tagged with the stable id, with the command of
\* AgentTraceback, with a command of the user.
Entry == [managed : BOOLEAN, ours : BOOLEAN, theirs : BOOLEAN]
Hooks == [HookEvents -> SUBSET Entry]

\* A text that is no JSON, a JSON value that is no object, or an object.
Settings == [kind : {"text", "value", "object"}, user : Users \cup {None}, hooks : Hooks]

ASSUME HookAssumption == None \notin Users \cup Settings /\ HookEvents # {}

NoHooks == [e \in HookEvents |-> {}]
\* What a missing file reads as; no user's settings are in it.
Empty == [kind |-> "object", user |-> None, hooks |-> NoHooks]
ReadOptional == IF file = None THEN Empty ELSE file

NoRequest == [phase |-> "idle"]
-----------------------------------------------------------------------------
(* merge_agenttraceback_hooks, remove_agenttraceback_hooks *)

OurEntry == [managed |-> TRUE, ours |-> TRUE, theirs |-> FALSE]

AlreadyPresent(entries) == \E entry \in entries : entry.managed \/ entry.ours

\* What is no object is replaced by one.
Merged(before) ==
    LET object == IF before.kind = "object" THEN before ELSE Empty
    IN [object EXCEPT !.hooks = [e \in HookEvents |->
            IF AlreadyPresent(object.hooks[e]) THEN object.hooks[e]
            ELSE object.hooks[e] \cup {OurEntry}]]

\* Our command goes; so does an entry without commands; what is left of a
\* tagged entry is the user's.
Cleaned(entries) ==
    {[managed |-> FALSE, ours |-> FALSE, theirs |-> TRUE] : entry \in {e \in entries : e.theirs}}

Removed(before) ==
    CASE before.kind = "text" -> Empty
      [] before.kind = "value" -> before
      [] OTHER -> [before EXCEPT !.hooks = [e \in HookEvents |-> Cleaned(before.hooks[e])]]
-----------------------------------------------------------------------------
(* Requests *)

Working == {r \in Requests : request[r].phase # "idle"}

Begin(r, record) ==
    /\ request[r] = NoRequest
    /\ calls < MaxCalls /\ calls' = calls + 1
    /\ request' = [request EXCEPT ![r] = record]
    /\ uncertain' = (uncertain \/ Working # {})
    /\ UNCHANGED <<file, backups, receipt, approved, edits>>

\* plan_adapter_hook: digests of what is there and of what it becomes.
Plan ==
    /\ approved' = ReadOptional
    /\ UNCHANGED <<file, backups, receipt, request, uncertain, edits, calls>>

InstallHook(r) == approved # None /\ Begin(r, [phase |-> "replan", plan |-> approved])

UninstallHook(r) == Begin(r, [phase |-> "lookup"])

Goes(r, phase) == request' = [request EXCEPT ![r].phase = phase]
Ends(r) == request' = [request EXCEPT ![r] = NoRequest]

\* install_adapter_hook: the plan is made again and compared.
Replan(r) ==
    /\ request[r].phase = "replan"
    /\ IF ReadOptional = request[r].plan THEN Goes(r, "read") ELSE Ends(r)
    /\ UNCHANGED <<file, backups, receipt, approved, uncertain, edits, calls>>

\* Faulty variant: the plan was compared already.
ComparedBefore(r) == TRUE

\* install_hook compares once more with the bytes it goes on with.
HashUnchanged(r) == ReadOptional = request[r].plan

ReadForInstall(r) ==
    /\ request[r].phase = "read"
    /\ request' = [request EXCEPT ![r] =
         IF HashUnchanged(r)
         THEN [phase |-> "copy", plan |-> request[r].plan, output |-> Merged(ReadOptional),
               seen |-> ReadOptional]
         ELSE NoRequest]
    /\ UNCHANGED <<file, backups, receipt, approved, uncertain, edits, calls>>

\* The backup is a copy of the file as it is now.
BackupContent(r) == ReadOptional

Copy(r) ==
    /\ request[r].phase = "copy"
    /\ backups' = backups \cup {BackupContent(r)}
    /\ request' = [request EXCEPT ![r].phase = "rename", ![r].seen = ReadOptional]
    /\ UNCHANGED <<file, receipt, approved, uncertain, edits, calls>>

\* atomic_write_json
Rename(r) ==
    /\ request[r].phase = "rename"
    /\ file' = request[r].output
    /\ Goes(r, IF "plan" \in DOMAIN request[r] THEN "save" ELSE "delete")
    /\ UNCHANGED <<backups, receipt, approved, uncertain, edits, calls>>

SaveReceipt(r) ==
    /\ request[r].phase = "save"
    /\ receipt' = TRUE
    /\ Ends(r)
    /\ UNCHANGED <<file, backups, approved, uncertain, edits, calls>>

\* uninstall_adapter_hook: nothing is removed without a receipt.
LookUpReceipt(r) ==
    /\ request[r].phase = "lookup"
    /\ IF receipt THEN Goes(r, "unmerge") ELSE Ends(r)
    /\ UNCHANGED <<file, backups, receipt, approved, uncertain, edits, calls>>

ReadForUninstall(r) ==
    /\ request[r].phase = "unmerge"
    /\ request' = [request EXCEPT ![r] = [phase |-> "rename", output |-> Removed(ReadOptional),
                                          seen |-> ReadOptional]]
    /\ UNCHANGED <<file, backups, receipt, approved, uncertain, edits, calls>>

\* Faulty variant: the receipt stays for another uninstall.
ReceiptStays == receipt

ReceiptAfterUninstall == FALSE

DeleteReceipt(r) ==
    /\ request[r].phase = "delete"
    /\ receipt' = ReceiptAfterUninstall
    /\ Ends(r)
    /\ UNCHANGED <<file, backups, approved, uncertain, edits, calls>>

\* Reading, copying, renaming or the store failed: nothing is undone.
HookFails(r) ==
    /\ request[r].phase # "idle"
    /\ Ends(r)
    /\ uncertain' = (uncertain \/ request[r].phase \in {"save", "delete"})
    /\ UNCHANGED <<file, backups, receipt, approved, edits, calls>>

\* The daemon dies; the user's plans are still good.
HookCrash ==
    /\ Working # {}
    /\ request' = [r \in Requests |-> NoRequest]
    /\ uncertain' = (uncertain \/ \E r \in Requests : request[r].phase \in {"save", "delete"})
    /\ UNCHANGED <<file, backups, receipt, approved, edits, calls>>

Step(r) == \/ InstallHook(r) \/ UninstallHook(r) \/ Replan(r) \/ ReadForInstall(r) \/ Copy(r)
           \/ Rename(r) \/ SaveReceipt(r) \/ LookUpReceipt(r) \/ ReadForUninstall(r)
           \/ DeleteReceipt(r) \/ HookFails(r)

Present(f) == f # None /\ f.kind = "object" /\ \E e \in HookEvents : \E h \in f.hooks[e] : h.ours

\* The user puts a command into an entry, or one of their own.
Shared(hooks) ==
    {[hooks EXCEPT ![e] = @ \cup {[managed |-> FALSE, ours |-> FALSE, theirs |-> TRUE]}] :
        e \in HookEvents}
    \cup UNION {{[hooks EXCEPT ![e] = (@ \ {h}) \cup {[h EXCEPT !.theirs = TRUE]}] :
                    h \in hooks[e]} : e \in HookEvents}

\* Someone else edits the file, breaks it in the middle of an edit, repairs it,
\* or removes it.
Edit ==
    /\ edits < MaxEdits /\ edits' = edits + 1
    /\ LET now == ReadOptional
           hooks == IF now.kind = "object" THEN now.hooks ELSE NoHooks
       IN file' \in
            {[kind |-> k, user |-> u, hooks |-> IF k = "object" THEN hooks ELSE NoHooks] :
                k \in {"text", "value", "object"}, u \in Users}
            \cup {[kind |-> "object", user |-> now.user, hooks |-> h] : h \in Shared(hooks)}
            \cup {None}
    /\ file' # file
    /\ uncertain' = (uncertain \/ Present(file) # Present(file'))
    /\ UNCHANGED <<backups, receipt, approved, request, calls>>

HookInit ==
    /\ file \in {None} \cup [kind : {"object"}, user : Users, hooks : {NoHooks}]
    /\ backups = {} /\ receipt = FALSE /\ approved = None
    /\ request = [r \in Requests |-> NoRequest]
    /\ uncertain = FALSE
    /\ edits = 0 /\ calls = 0

HookNext == Plan \/ HookCrash \/ Edit \/ \E r \in Requests : Step(r)

HookSpec == HookInit /\ [][HookNext]_hookVars
-----------------------------------------------------------------------------
(* Correctness *)

\* The user's part of the settings: the rest of the file, and their commands.
Theirs(f) == <<f.user, [e \in HookEvents |-> \E h \in f.hooks[e] : h.theirs]>>

Kept(old, new) == old = None \/ Theirs(new) = Theirs(old)

\* What a request writes has the user's settings and commands in it, or they are
\* in a backup: unless the file was edited since the request last looked at it, or
\* the hooks are removed from a file that is no JSON.
SettingsKept(r) ==
    \/ Kept(file, file')
    \/ file \in backups
    \/ file # request[r].seen
    \/ request'[r].phase = "delete" /\ file.kind = "text"

\* An installation writes what the approved plan showed, and nothing else.
OnlyApproved(r) == request'[r].phase = "save" => file' = Merged(request[r].plan)

\* However installations, removals and edits are interleaved, a request that replaces
\* the settings loses nothing of the user's and adds nothing that was not approved.
SettingsSafe ==
    [][\A r \in Requests :
         (request[r].phase = "rename" /\ request'[r].phase \in {"save", "delete"}) =>
             SettingsKept(r) /\ OnlyApproved(r)]_hookVars

\* Undisturbed, there is a receipt exactly while the hooks are in the file: they
\* can be removed, and a receipt is never of nothing.
ReceiptAgrees ==
    (Working = {} /\ ~uncertain) => (receipt <=> Present(file))
=============================================================================
