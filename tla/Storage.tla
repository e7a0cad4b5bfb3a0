------------------------------ MODULE Storage ------------------------------
(***************************************************************************)
(* SurrealStorage with several calls at once.  A client may take as long   *)
(* as it likes between two steps of its call.                              *)
(***************************************************************************)
EXTENDS Documents

storageVars == <<storeVars, derivations, docVars>>

\* The rows and the calls of workload w.
InitStorage(w) ==
    /\ InitStore(w)
    /\ derivations = {}
    /\ mindmap = w.mindmap /\ entity = w.entity /\ relation = {} /\ step = << >>
    /\ graph = [c \in DOMAIN w.calls |-> << >>]

CallStep(c) ==
    \/ (MemoryStep(c) \/ Abandon(c)) /\ UNCHANGED <<derivations, docVars>>
    \/ StreamStep(c) /\ UNCHANGED docVars
    \/ DocumentStep(c)

StorageUnchangedBut(calls) ==
    /\ call' = calls
    /\ UNCHANGED <<memory, history, stream, clock, left, derivations, docVars>>
=============================================================================
