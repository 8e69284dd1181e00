------------------------------- MODULE BlobStore -------------------------------
(***************************************************************************)
(* The content-addressed store (crates/agenttraceback-blobs/src/lib.rs)    *)
(* and the blobs table beside it.  A file is named by the digest of what   *)
(* it holds, so a content stands for its digest and its file name.  Any    *)
(* number of callers put at once: between the look for the file and the    *)
(* rename of the temporary one others may have stored the same content,    *)
(* the disk may fail, and a file already stored may decay.                 *)
(***************************************************************************)
EXTENDS Naturals, Sequences, FiniteSets, TLC

CONSTANTS
    Contents,       \* what is stored, and the names it is stored under
    Fragile,        \* the contents whose stored file may decay, once
    Writers         \* the calls that may put at the same time

ASSUME FragileAssumption == Fragile \subseteq Contents

VARIABLES
    blobs,      \* blobs[c]: the file named c
    put,        \* put[w]: how far the put of w has come
    blobRows,   \* the ids in the blobs table
    decayed     \* the contents whose file has decayed

blobVars == <<blobs, put, blobRows, decayed>>

\* A put is sealed, then writes or finds its file stored; what is stored is recorded,
\* what cannot be is refused.
NoPut == [stage |-> "none"]
Putting(c, stage) == [stage |-> stage, content |-> c]

BlobInit ==
    /\ blobs = [c \in Contents |-> "absent"]
    /\ put = [w \in Writers |-> NoPut]
    /\ blobRows = {}
    /\ decayed = {}

\* A put moves on to another stage.
Turns(w, stage) == put' = [put EXCEPT ![w] = Putting(put[w].content, stage)]

\* A file that is there is opened: it holds the content and is used as it is, or
\* the put is refused.
Look(w) ==
    /\ put[w].stage = "sealed"
    /\ Turns(w, CASE blobs[put[w].content] = "absent" -> "writing"
                  [] blobs[put[w].content] = "whole" -> "stored"
                  [] blobs[put[w].content] = "damaged" -> "refused")
    /\ UNCHANGED <<blobs, blobRows, decayed>>

\* The temporary file is written and synced in the directory of its name, then
\* renamed: readers find all of it or nothing.  It replaces whatever was stored
\* under the name meanwhile.
Persist(w) ==
    /\ put[w].stage = "writing"
    /\ blobs' = [blobs EXCEPT ![put[w].content] = "whole"]
    /\ Turns(w, "stored")
    /\ UNCHANGED <<blobRows, decayed>>

\* The directory, the write, the sync or the rename fails.
CannotWrite(w) ==
    /\ put[w].stage = "writing"
    /\ Turns(w, "refused")
    /\ UNCHANGED <<blobs, blobRows, decayed>>

\* record_blob: the row of what has been stored, again if it is there.
Record(w) ==
    /\ put[w].stage = "stored"
    /\ blobRows' = blobRows \cup {put[w].content}
    /\ Turns(w, "recorded")
    /\ UNCHANGED <<blobs, decayed>>

Decay(c) ==
    /\ c \in Fragile \ decayed
    /\ blobs[c] = "whole"
    /\ blobs' = [blobs EXCEPT ![c] = "damaged"]
    /\ decayed' = decayed \cup {c}
    /\ UNCHANGED <<put, blobRows>>
=============================================================================
