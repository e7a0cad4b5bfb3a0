----------------------------- MODULE EventStream -----------------------------
(***************************************************************************)
(* GET /operations/{id}/events: event_stream() of src/src/operations.rs    *)
(* follows one operation.  It replays the event rows the client has not    *)
(* seen and goes on with the broadcast channel to which every writer sends *)
(* its event after the transaction has committed.  The rows are 1, 2, ...  *)
(* without a gap (OperationLedger!EventLogComplete), so the table is the   *)
(* number of the last one.                                                 *)
(*                                                                         *)
(* submit() writes the first event, the coordinator the others.  An        *)
(* operator's reject() may write one too: record_processing_error() and    *)
(* reject_permanent_failure() run after drain_pending() has cleared        *)
(* in_flight, so both can be in transition() at the same time.             *)
(***************************************************************************)
EXTENDS Naturals, Sequences, FiniteSets

CONSTANTS
    Writers,     \* tasks that may write an event of the operation
    Submitter,   \* the one whose submit() writes event 1, and no other
    Capacity,    \* event_capacity: 1024 in the code
    MaxEvents,   \* bound on the events of the operation; the last one is terminal
    MaxOthers,   \* bound on the events of other operations
    MaxLost,     \* bound on commits whose answer does not reach their writer
    MaxErrors    \* bound on failed reads of the event table

ASSUME StreamAssumption ==
    /\ Submitter \in Writers
    /\ Capacity \in Nat \ {0}
    /\ MaxEvents \in Nat /\ MaxOthers \in Nat /\ MaxLost \in Nat /\ MaxErrors \in Nat

VARIABLES
    committed,   \* progress_seq: events 1 .. committed are rows
    unsent,      \* unsent[w]: the event w has committed and not yet sent, or 0
    channel,     \* all that was ever sent; 0 stands for another operation's event
    pc,          \* where the stream is
    cursor,      \* its receiver's next position in the channel
    rows,        \* rows it has read and not yet yielded
    last,        \* last_sequence
    seen,        \* the events its client has got
    lost,        \* events whose writer never learnt that they committed
    others, errors

stream == <<pc, cursor, rows, last, seen>>
vars   == <<committed, unsent, channel, pc, cursor, rows, last, seen, others, lost, errors>>

-----------------------------------------------------------------------------
(* Writers *)

\* submit() or transition() commits its transaction under the next number ...
Commit(w) ==
    /\ unsent[w] = 0 /\ committed < MaxEvents
    /\ w = Submitter <=> committed = 0
    /\ committed' = committed + 1
    /\ unsent' = [unsent EXCEPT ![w] = committed + 1]
    /\ UNCHANGED <<stream, channel, others, lost, errors>>

\* ... and when its answer arrives the event is sent.
Send(w) ==
    /\ unsent[w] # 0
    /\ channel' = Append(channel, unsent[w])
    /\ unsent' = [unsent EXCEPT ![w] = 0]
    /\ UNCHANGED <<stream, committed, others, lost, errors>>

\* The deadline passes although the transaction has committed.
AnswerLost(w) ==
    /\ unsent[w] # 0 /\ Cardinality(lost) < MaxLost
    /\ lost' = lost \cup {unsent[w]}
    /\ unsent' = [unsent EXCEPT ![w] = 0]
    /\ UNCHANGED <<stream, committed, channel, others, errors>>

OtherOperation ==
    /\ others < MaxOthers
    /\ others' = others + 1
    /\ channel' = Append(channel, 0)
    /\ UNCHANGED <<stream, committed, unsent, lost, errors>>

-----------------------------------------------------------------------------
(* The stream *)

\* The handler has found the operation.  Subscribe, then read the history; a
\* client whose stream broke comes back with after = the last event it has got.
Subscribe ==
    /\ pc \in {"new", "broken"} /\ committed > 0
    /\ pc' = "read"
    /\ cursor' = Len(channel) + 1
    /\ UNCHANGED <<committed, unsent, channel, rows, last, seen, others, lost, errors>>

\* events_after(last): at the start, and again after the receiver has lagged.
ReadRows ==
    /\ pc = "read"
    /\ \/ /\ rows' = [i \in 1..(committed - last) |-> last + i]
          /\ pc' = "yield"
          /\ UNCHANGED errors
       \/ /\ errors < MaxErrors /\ errors' = errors + 1
          /\ pc' = "broken"
          /\ UNCHANGED rows
    /\ UNCHANGED <<committed, unsent, channel, cursor, last, seen, others, lost>>

Deliver(event) ==
    IF event > last THEN last' = event /\ seen' = seen \cup {event}
                    ELSE UNCHANGED <<last, seen>>

Yield ==
    /\ pc = "yield" /\ rows # <<>>
    /\ rows' = Tail(rows)
    /\ Deliver(Head(rows))
    /\ UNCHANGED <<committed, unsent, channel, pc, cursor, others, lost, errors>>

\* Mutant: the receiver is taken only when the history has been sent.
GoLiveSubscribes ==
    /\ pc = "yield" /\ rows = <<>>
    /\ pc' = "live"
    /\ cursor' = Len(channel) + 1
    /\ UNCHANGED <<committed, unsent, channel, rows, last, seen, others, lost, errors>>

GoLive ==
    /\ pc = "yield" /\ rows = <<>>
    /\ pc' = "live"
    /\ UNCHANGED <<committed, unsent, channel, cursor, rows, last, seen, others, lost, errors>>

Oldest == IF Len(channel) > Capacity THEN Len(channel) - Capacity + 1 ELSE 1

Receive ==
    /\ pc = "live" /\ cursor \in Oldest..Len(channel)
    /\ cursor' = cursor + 1
    /\ Deliver(channel[cursor])
    /\ UNCHANGED <<committed, unsent, channel, pc, rows, others, lost, errors>>

\* Mutant: the receiver carries on after RecvError::Lagged.
LaggedIgnored ==
    /\ pc = "live" /\ cursor < Oldest
    /\ cursor' = Oldest
    /\ UNCHANGED <<committed, unsent, channel, pc, rows, last, seen, others, lost, errors>>

\* The channel has overwritten what the receiver was to get next.
Lagged ==
    /\ pc = "live" /\ cursor < Oldest
    /\ cursor' = Oldest
    /\ pc' = "read"
    /\ UNCHANGED <<committed, unsent, channel, rows, last, seen, others, lost, errors>>

StreamStep == ReadRows \/ Yield \/ GoLive \/ Receive \/ Lagged

-----------------------------------------------------------------------------

Init ==
    /\ committed = 0 /\ unsent = [w \in Writers |-> 0] /\ channel = <<>>
    /\ pc = "new" /\ cursor = 1 /\ rows = <<>> /\ last = 0 /\ seen = {}
    /\ others = 0 /\ lost = {} /\ errors = 0

Next ==
    \/ \E w \in Writers : Commit(w) \/ Send(w) \/ AnswerLost(w)
    \/ OtherOperation
    \/ Subscribe
    \/ StreamStep

\* A writer that has its answer sends; the server polls the stream as long as
\* its client reads.  Nobody owes a commit, a subscription or a loss.
Fairness ==
    /\ \A w \in Writers : WF_vars(Send(w))
    /\ WF_vars(StreamStep)

Spec == Init /\ [][Next]_vars /\ Fairness

-----------------------------------------------------------------------------
(* Correctness *)

\* "A racing transition is present in either the snapshot or the receiver"
\* (operations.rs:1551): the client has every event up to the last one it got.
NoGap == seen = 1..last

\* The stream itself loses nothing: what the client misses was never sent.
OnlyUnsentMissing == (1..last) \ seen \subseteq lost

\* A client that stays connected gets every event that is sent, however far its
\* receiver falls behind the channel and whatever other operations send.
AllDelivered ==
    \A k \in 1..MaxEvents :
        (committed >= k /\ pc \in {"read", "yield", "live"})
            ~> (k \in seen \cup lost \/ pc = "broken")

=============================================================================
