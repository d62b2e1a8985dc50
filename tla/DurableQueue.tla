---------------------------- MODULE DurableQueue ----------------------------
(***************************************************************************)
(* What the pending-upload queue promises across crashes, seen from the    *)
(* disk and from the logbook services only (pancetta-dx/upload_outbox.rs,  *)
(* module comment): an upload reaches a service only from the queue file,  *)
(* it leaves the file only when the service has it, and a file that cannot *)
(* be read is put aside whole, never deleted or overwritten.               *)
(***************************************************************************)
CONSTANT Upload     \* the uploads that can be queued

VARIABLES
    queued,         \* the uploads in the queue file
    arrived,        \* the uploads their service has taken
    aside           \* the uploads in queue files that were put aside

vars == <<queued, arrived, aside>>

Init == queued = {} /\ arrived = {} /\ aside = {}

\* The file is replaced: anything may be added, only arrived uploads dropped.
Replace ==
    /\ queued' \in SUBSET Upload
    /\ queued \ queued' \subseteq arrived
    /\ UNCHANGED <<arrived, aside>>

\* A service takes an upload, possibly again.
Arrive ==
    /\ \E u \in queued : arrived' = arrived \cup {u}
    /\ UNCHANGED <<queued, aside>>

\* An unreadable file is put aside with everything in it.
PutAside ==
    /\ aside' = aside \cup queued
    /\ queued' = {}
    /\ UNCHANGED arrived

Next == Replace \/ Arrive \/ PutAside

Spec == Init /\ [][Next]_vars
=============================================================================
