-------------------------- MODULE EventStreamProofs --------------------------
(***************************************************************************)
(* What the client of GET /operations/{id}/events can miss, for any        *)
(* channel capacity and any number of events, of other operations' events, *)
(* of lost answers and of failed reads.                                    *)
(*                                                                         *)
(* The hypothesis OneTransition is what the stream relies on and nothing   *)
(* in it enforces: apart from submit() there is one task that writes the   *)
(* events of the operation.  With two of them their sends can pass each    *)
(* other, and the run stream_gap shows the gap.                            *)
(***************************************************************************)
EXTENDS EventStream, SequenceTheorems, TLAPS

OneTransition == \A v, w \in Writers \ {Submitter} : v = w

\* The number of the last event the stream has got hold of.
Reached == last + Len(rows)

TypeInv ==
    /\ committed \in Nat /\ last \in Nat
    /\ unsent \in [Writers -> Nat]
    /\ channel \in Seq(Nat) /\ rows \in Seq(Nat)
    /\ pc \in {"new", "read", "yield", "live", "broken"}
    /\ cursor \in Nat /\ 1 <= cursor /\ cursor <= Len(channel) + 1

\* Every event sent is a row; those of the other writer are sent in order.
Ascending ==
    /\ \A i \in 1..Len(channel) : channel[i] <= committed
    /\ \A i, j \in 1..Len(channel) :
          i < j /\ 2 <= channel[i] /\ 2 <= channel[j] => channel[i] < channel[j]

\* Event 1 comes from submit().  The other writer has at most the newest event
\* in its hands, and everything it has sent before is older.
InHand(w) ==
    unsent[w] # 0 => /\ unsent[w] = committed /\ 2 <= committed
                     /\ \A i \in 1..Len(channel) : channel[i] <= 1 \/ channel[i] < committed

SendOrderInv ==
    /\ unsent[Submitter] <= 1 /\ unsent[Submitter] <= committed
    /\ \A w \in Writers \ {Submitter} : InHand(w)
    /\ Ascending

\* Before the history is read there are no rows; then they follow the last event.
RowsInv ==
    /\ pc # "yield" => rows = <<>>
    /\ pc # "new" => 1 <= committed
    /\ pc \in {"yield", "live"} => 1 <= Reached
    /\ Reached <= committed
    /\ \A i \in 1..Len(rows) : rows[i] = last + i

\* Where event k is while the stream has not got hold of it: it has been sent
\* since the subscription, its writer is about to send it, or nobody will.
OnItsWay(k) ==
    \/ k \in lost
    \/ \E w \in Writers : unsent[w] = k
    \/ \E i \in 1..Len(channel) : cursor <= i /\ channel[i] = k

PendingInv ==
    pc \in {"yield", "live"} =>
        \A k \in Nat : Reached < k /\ k <= committed => OnItsWay(k)

IInv == TypeInv /\ SendOrderInv /\ RowsInv /\ PendingInv /\ OnlyUnsentMissing

-----------------------------------------------------------------------------
(* Types *)

LEMMA TypeStep == ASSUME IInv, [Next]_vars PROVE TypeInv'
<1> USE StreamAssumption DEF IInv, TypeInv, RowsInv, stream, vars
<1>1. CASE \E w \in Writers : Commit(w)
    BY <1>1 DEF Commit
<1>2. CASE \E w \in Writers : Send(w)
    BY <1>2 DEF Send
<1>3. CASE \E w \in Writers : AnswerLost(w)
    BY <1>3 DEF AnswerLost
<1>4. CASE OtherOperation
    BY <1>4 DEF OtherOperation
<1>5. CASE Subscribe
    BY <1>5 DEF Subscribe
<1>6. CASE ReadRows
  <2>1. CASE rows' = [i \in 1..(committed - last) |-> last + i]
    <3>1. committed - last \in Nat
        BY <1>6 DEF ReadRows, Reached
    <3>2. rows' \in [1..(committed - last) -> Nat]
        BY <2>1, <3>1
    <3>3. rows' \in Seq(Nat)
        BY <3>1, <3>2, SeqDef
    <3> QED BY <3>3, <1>6 DEF ReadRows
  <2>2. CASE rows' = rows
      BY <2>2, <1>6 DEF ReadRows
  <2> QED BY <2>1, <2>2, <1>6 DEF ReadRows
<1>7. CASE Yield
  <2>1. Head(rows) \in Nat /\ Tail(rows) \in Seq(Nat)
      BY <1>7 DEF Yield
  <2> QED BY <2>1, <1>7 DEF Yield, Deliver
<1>8. CASE GoLive
    BY <1>8 DEF GoLive
<1>9. CASE Receive
  <2>1. cursor \in 1..Len(channel) /\ channel[cursor] \in Nat
      BY <1>9 DEF Receive, Oldest
  <2> QED BY <2>1, <1>9 DEF Receive, Deliver
<1>10. CASE Lagged
    BY <1>10 DEF Lagged, Oldest
<1>11. CASE UNCHANGED vars
    BY <1>11
<1> QED BY <1>1, <1>2, <1>3, <1>4, <1>5, <1>6, <1>7, <1>8, <1>9, <1>10, <1>11
        DEF Next, StreamStep

-----------------------------------------------------------------------------
(* The order in which events are sent *)

LEMMA SendOrderStep == ASSUME OneTransition, IInv, [Next]_vars PROVE SendOrderInv'
<1>1. /\ committed \in Nat /\ Len(channel) \in Nat /\ channel \in Seq(Nat)
      /\ Submitter \in Writers /\ \A v \in Writers : unsent[v] \in Nat
      /\ \A i \in 1..Len(channel) : channel[i] \in Nat
    BY StreamAssumption DEF IInv, TypeInv
<1>2. /\ unsent[Submitter] <= 1 /\ unsent[Submitter] <= committed
      /\ \A w \in Writers \ {Submitter} : InHand(w)
      /\ Ascending
    BY DEF IInv, SendOrderInv
<1>3. ASSUME NEW w \in Writers, Commit(w) PROVE SendOrderInv'
  <2>1. /\ unsent[w] = 0 /\ committed' = committed + 1 /\ channel' = channel
        /\ w = Submitter <=> committed = 0
        /\ \A v \in Writers : unsent'[v] = IF v = w THEN committed + 1 ELSE unsent[v]
      BY <1>3 DEF Commit, IInv, TypeInv
  <2>2. ASSUME NEW v \in Writers \ {Submitter}, unsent'[v] # 0
        PROVE  unsent'[v] = committed' /\ 2 <= committed'
    <3>1. CASE w = Submitter
        BY <1>1, <1>2, <3>1, <2>1, <2>2 DEF InHand
    <3>2. CASE w # Submitter
        BY <1>1, <3>2, <2>1, <2>2 DEF OneTransition
    <3> QED BY <3>1, <3>2
  <2>3. unsent'[Submitter] <= 1 /\ unsent'[Submitter] <= committed'
      BY <1>1, <1>2, <2>1
  <2>4. \A i \in 1..Len(channel') : channel'[i] < committed'
      BY <1>1, <1>2, <2>1 DEF Ascending
  <2>5. Ascending'
      BY <1>1, <1>2, <2>1 DEF Ascending
  <2> QED BY <2>2, <2>3, <2>4, <2>5 DEF SendOrderInv, InHand
<1>4. ASSUME NEW e \in Nat, channel' = Append(channel, e), committed' = committed, e <= committed,
             e <= 1 \/ (\A i \in 1..Len(channel) : channel[i] <= 1 \/ channel[i] < e)
      PROVE  Ascending'
  <2>1. /\ Len(channel') = Len(channel) + 1
        /\ \A i \in 1..Len(channel) : channel'[i] = channel[i]
        /\ channel'[Len(channel) + 1] = e
      BY <1>1, <1>4
  <2>2. \A i \in 1..Len(channel') : channel'[i] <= committed'
      BY <1>1, <1>2, <1>4, <2>1 DEF Ascending
  <2>3. ASSUME NEW i \in 1..Len(channel'), NEW j \in 1..Len(channel'),
               i < j, 2 <= channel'[i], 2 <= channel'[j]
        PROVE  channel'[i] < channel'[j]
    <3>1. i \in 1..Len(channel) /\ channel[i] \in Nat /\ channel'[i] = channel[i]
        BY <1>1, <2>1, <2>3
    <3>2. CASE j = Len(channel) + 1
        BY <1>4, <2>1, <2>3, <3>1, <3>2
    <3>3. CASE j \in 1..Len(channel)
        BY <1>2, <2>1, <2>3, <3>1, <3>3 DEF Ascending
    <3> QED BY <1>1, <2>1, <3>2, <3>3
  <2> QED BY <2>2, <2>3 DEF Ascending
<1>5. ASSUME NEW w \in Writers \ {Submitter}, unsent'[w] # 0, InHand(w), unsent'[w] = unsent[w],
             NEW e \in Nat, channel' = Append(channel, e), committed' = committed, e <= 1
      PROVE  InHand(w)'
  <2>1. /\ Len(channel') = Len(channel) + 1
        /\ \A i \in 1..Len(channel) : channel'[i] = channel[i]
        /\ channel'[Len(channel) + 1] = e
      BY <1>1, <1>5
  <2>2. ASSUME NEW i \in 1..Len(channel')
        PROVE  channel'[i] <= 1 \/ channel'[i] < committed'
    <3>1. CASE i = Len(channel) + 1
        BY <1>5, <2>1, <3>1
    <3>2. CASE i \in 1..Len(channel)
        BY <1>5, <2>1, <3>2 DEF InHand
    <3> QED BY <1>1, <2>1, <3>1, <3>2
  <2> QED BY <1>5, <2>2 DEF InHand
<1>6. ASSUME NEW w \in Writers, Send(w) PROVE SendOrderInv'
  <2>1. /\ unsent[w] # 0 /\ committed' = committed
        /\ channel' = Append(channel, unsent[w])
        /\ \A v \in Writers : unsent'[v] = IF v = w THEN 0 ELSE unsent[v]
      BY <1>6 DEF Send, IInv, TypeInv
  <2>2. unsent'[Submitter] <= 1 /\ unsent'[Submitter] <= committed'
      BY <1>1, <1>2, <2>1
  <2>3. CASE w = Submitter
    <3>1. unsent[w] = 1 /\ unsent[w] <= committed
        BY <1>1, <1>2, <2>1, <2>3
    <3>2. Ascending'
        BY <1>4, <2>1, <3>1
    <3>3. ASSUME NEW v \in Writers \ {Submitter} PROVE InHand(v)'
      <4>1. CASE unsent'[v] = 0
          BY <4>1 DEF InHand
      <4>2. CASE unsent'[v] # 0
          BY <1>2, <1>5, <2>1, <2>3, <3>1, <4>2
      <4> QED BY <4>1, <4>2
    <3> QED BY <2>2, <3>2, <3>3 DEF SendOrderInv
  <2>4. CASE w # Submitter
    <3>1. /\ unsent[w] = committed /\ 2 <= committed
          /\ \A i \in 1..Len(channel) : channel[i] <= 1 \/ channel[i] < unsent[w]
        BY <1>2, <2>1, <2>4 DEF InHand
    <3>2. \A v \in Writers \ {Submitter} : unsent'[v] = 0
        BY <2>1, <2>4 DEF OneTransition
    <3>3. Ascending'
        BY <1>1, <1>4, <2>1, <3>1
    <3> QED BY <2>2, <3>2, <3>3 DEF SendOrderInv, InHand
  <2> QED BY <2>3, <2>4
<1>7. ASSUME NEW w \in Writers, AnswerLost(w) PROVE SendOrderInv'
  <2>1. /\ UNCHANGED <<committed, channel>>
        /\ \A v \in Writers : unsent'[v] = IF v = w THEN 0 ELSE unsent[v]
      BY <1>7 DEF AnswerLost, IInv, TypeInv
  <2>2. unsent'[Submitter] <= 1 /\ unsent'[Submitter] <= committed'
      BY <1>1, <1>2, <2>1
  <2> QED BY <1>2, <2>1, <2>2 DEF SendOrderInv, InHand, Ascending
<1>8. CASE OtherOperation
  <2>1. UNCHANGED <<committed, unsent>> /\ channel' = Append(channel, 0)
      BY <1>8 DEF OtherOperation
  <2>2. Ascending'
      BY <1>1, <1>4, <2>1
  <2>3. ASSUME NEW v \in Writers \ {Submitter} PROVE InHand(v)'
    <3>1. CASE unsent'[v] = 0
        BY <3>1 DEF InHand
    <3>2. CASE unsent'[v] # 0
        BY <1>2, <1>5, <2>1, <3>2
    <3> QED BY <3>1, <3>2
  <2> QED BY <1>2, <2>1, <2>2, <2>3 DEF SendOrderInv
<1>9. CASE UNCHANGED <<committed, unsent, channel>>
    BY <1>2, <1>9 DEF SendOrderInv, InHand, Ascending
<1>10. CASE Subscribe
    BY <1>9, <1>10 DEF Subscribe
<1>11. CASE StreamStep
    BY <1>9, <1>11 DEF StreamStep, ReadRows, Yield, GoLive, Receive, Lagged
<1> QED BY <1>3, <1>6, <1>7, <1>8, <1>9, <1>10, <1>11 DEF Next, vars

-----------------------------------------------------------------------------
(* What the stream has read and what is on its way *)

LEMMA RowsStep == ASSUME IInv, [Next]_vars PROVE RowsInv'
<1> USE StreamAssumption DEF IInv, TypeInv, RowsInv, Reached, stream, vars
<1>1. CASE \E w \in Writers : Commit(w)
    BY <1>1 DEF Commit
<1>2. CASE \E w \in Writers : Send(w) \/ AnswerLost(w)
    BY <1>2 DEF Send, AnswerLost
<1>3. CASE OtherOperation
    BY <1>3 DEF OtherOperation
<1>4. CASE Subscribe
    BY <1>4 DEF Subscribe
<1>5. CASE ReadRows
  <2>1. CASE pc' = "yield"
    <3>1. /\ rows' = [i \in 1..(committed - last) |-> last + i]
          /\ committed - last \in Nat /\ 1 <= committed
          /\ UNCHANGED <<committed, last>>
        BY <1>5, <2>1 DEF ReadRows
    <3>2. Len(rows') = committed - last
        BY <3>1
    <3> QED BY <2>1, <3>1, <3>2
  <2>2. CASE pc' = "broken"
      BY <1>5, <2>2 DEF ReadRows
  <2> QED BY <1>5, <2>1, <2>2 DEF ReadRows
<1>6. CASE Yield
  <2>1. /\ rows # <<>> /\ rows' = Tail(rows) /\ pc = "yield"
        /\ UNCHANGED <<committed, pc>>
      BY <1>6 DEF Yield
  <2>2. /\ Len(rows') = Len(rows) - 1 /\ 1 \in 1..Len(rows)
        /\ Head(rows) = rows[1]
        /\ \A i \in 1..Len(rows') : i + 1 \in 1..Len(rows) /\ rows'[i] = rows[i + 1]
      BY <2>1
  <2>3. last' = last + 1
      BY <2>2, <1>6 DEF Yield, Deliver
  <2>4. \A i \in 1..Len(rows') : rows'[i] = last' + i
      BY <2>2, <2>3
  <2>5. Len(rows') \in Nat /\ Len(rows) \in Nat
      BY <2>1
  <2>6. Reached' = Reached
      BY <2>2, <2>3, <2>5
  <2> QED BY <2>1, <2>3, <2>4, <2>6
<1>7. CASE GoLive
    BY <1>7 DEF GoLive
<1>8. CASE Receive
  <2>1. /\ cursor \in 1..Len(channel) /\ channel[cursor] \in Nat
        /\ channel[cursor] <= committed
      BY <1>8 DEF Receive, Oldest, SendOrderInv, Ascending
  <2> QED BY <2>1, <1>8 DEF Receive, Deliver
<1>9. CASE Lagged
    BY <1>9 DEF Lagged
<1>10. CASE UNCHANGED vars
    BY <1>10
<1> QED BY <1>1, <1>2, <1>3, <1>4, <1>5, <1>6, <1>7, <1>8, <1>9, <1>10 DEF Next, StreamStep

\* An event that is on its way stays so while the receiver does not move.
LEMMA StaysOnItsWay ==
    ASSUME IInv, NEW k \in Nat, OnItsWay(k), cursor' = cursor, k # 0,
           \/ \E w \in Writers : Commit(w) \/ Send(w) \/ AnswerLost(w)
           \/ OtherOperation
           \/ UNCHANGED <<unsent, channel, lost>>
    PROVE  OnItsWay(k)'
<1>1. /\ channel \in Seq(Nat) /\ Len(channel) \in Nat /\ cursor <= Len(channel) + 1
      /\ cursor \in Nat /\ \A v \in Writers : unsent[v] \in Nat
    BY DEF IInv, TypeInv
<1>2. ASSUME NEW e \in Nat, channel' = Append(channel, e)
      PROVE  /\ 1..Len(channel) \subseteq 1..Len(channel')
             /\ \A i \in 1..Len(channel) : channel'[i] = channel[i]
             /\ Len(channel) + 1 \in 1..Len(channel') /\ channel'[Len(channel) + 1] = e
    BY <1>1, <1>2
<1>3. ASSUME NEW w \in Writers, Commit(w) PROVE OnItsWay(k)'
  <2>1. /\ unsent[w] = 0 /\ UNCHANGED <<channel, lost>>
        /\ \A v \in Writers : v # w => unsent'[v] = unsent[v]
      BY <1>3 DEF Commit, IInv, TypeInv
  <2> QED BY <2>1 DEF OnItsWay
<1>4. ASSUME NEW w \in Writers, Send(w) PROVE OnItsWay(k)'
  <2>1. /\ channel' = Append(channel, unsent[w]) /\ UNCHANGED lost
        /\ \A v \in Writers : v # w => unsent'[v] = unsent[v]
      BY <1>4 DEF Send, IInv, TypeInv
  <2>2. CASE unsent[w] = k
      BY <1>1, <1>2, <2>1, <2>2 DEF OnItsWay
  <2>3. CASE unsent[w] # k
      BY <1>1, <1>2, <2>1, <2>3 DEF OnItsWay
  <2> QED BY <2>2, <2>3
<1>5. ASSUME NEW w \in Writers, AnswerLost(w) PROVE OnItsWay(k)'
  <2>1. /\ lost' = lost \cup {unsent[w]} /\ UNCHANGED channel
        /\ \A v \in Writers : v # w => unsent'[v] = unsent[v]
      BY <1>5 DEF AnswerLost, IInv, TypeInv
  <2> QED BY <2>1 DEF OnItsWay
<1>6. CASE OtherOperation
  <2>1. channel' = Append(channel, 0) /\ UNCHANGED <<unsent, lost>>
      BY <1>6 DEF OtherOperation
  <2> QED BY <1>2, <2>1 DEF OnItsWay
<1>7. CASE UNCHANGED <<unsent, channel, lost>>
    BY <1>7 DEF OnItsWay
<1> QED BY <1>3, <1>4, <1>5, <1>6, <1>7

LEMMA PendingStep == ASSUME IInv, [Next]_vars, RowsInv' PROVE PendingInv'
<1>1. ASSUME UNCHANGED <<pc, cursor, rows, last>>, committed' = committed,
             \/ \E w \in Writers : Send(w) \/ AnswerLost(w)
             \/ OtherOperation
             \/ UNCHANGED <<unsent, channel, lost>>
      PROVE  PendingInv'
  <2> SUFFICES ASSUME pc' \in {"yield", "live"}, NEW k \in Nat, Reached' < k, k <= committed'
               PROVE  OnItsWay(k)'
      BY DEF PendingInv
  <2>1. OnItsWay(k) /\ k # 0
      BY <1>1 DEF IInv, PendingInv, Reached, TypeInv
  <2> QED BY <1>1, <2>1, StaysOnItsWay
<1>2. ASSUME NEW w \in Writers, Commit(w) PROVE PendingInv'
  <2> SUFFICES ASSUME pc' \in {"yield", "live"}, NEW k \in Nat, Reached' < k, k <= committed'
               PROVE  OnItsWay(k)'
      BY DEF PendingInv
  <2>1. /\ UNCHANGED <<pc, cursor, rows, last>> /\ committed' = committed + 1
        /\ unsent'[w] = committed + 1
      BY <1>2 DEF Commit, stream, IInv, TypeInv
  <2>2. CASE k = committed + 1
      BY <2>1, <2>2 DEF OnItsWay
  <2>3. CASE k # committed + 1
    <3>1. k <= committed /\ Reached < k /\ k # 0
        BY <2>1, <2>3 DEF IInv, TypeInv, Reached
    <3>2. OnItsWay(k)
        BY <2>1, <3>1 DEF IInv, PendingInv
    <3> QED BY <1>2, <2>1, <3>1, <3>2, StaysOnItsWay
  <2> QED BY <2>2, <2>3
<1>3. ASSUME NEW w \in Writers, Send(w) \/ AnswerLost(w) PROVE PendingInv'
    BY <1>1, <1>3 DEF Send, AnswerLost, stream
<1>4. CASE OtherOperation
    BY <1>1, <1>4 DEF OtherOperation, stream
<1>5. CASE Subscribe
    BY <1>5 DEF Subscribe, PendingInv
<1>6. CASE ReadRows
  <2>1. CASE pc' = "yield"
    <3>1. rows' = [i \in 1..(committed - last) |-> last + i] /\ UNCHANGED <<committed, last>>
        BY <1>6, <2>1 DEF ReadRows
    <3>2. committed - last \in Nat
        BY <1>6 DEF ReadRows, IInv, RowsInv, TypeInv, Reached
    <3>3. Reached' = committed'
        BY <3>1, <3>2 DEF Reached, IInv, TypeInv
    <3> QED BY <3>1, <3>3 DEF PendingInv, IInv, TypeInv
  <2>2. CASE pc' = "broken"
      BY <2>2 DEF PendingInv
  <2> QED BY <1>6, <2>1, <2>2 DEF ReadRows
<1>7. CASE Yield
  <2>1. /\ rows # <<>> /\ rows' = Tail(rows) /\ pc = "yield"
        /\ UNCHANGED <<committed, pc, cursor, unsent, channel, lost>>
      BY <1>7 DEF Yield
  <2>2. Len(rows') = Len(rows) - 1 /\ Head(rows) = last + 1
      BY <2>1 DEF IInv, RowsInv, TypeInv
  <2>3. last' = last + 1
      BY <2>2, <1>7 DEF Yield, Deliver, IInv, TypeInv
  <2>4. Reached' = Reached
      BY <2>1, <2>2, <2>3 DEF Reached, IInv, TypeInv
  <2> QED BY <2>1, <2>4 DEF IInv, PendingInv, OnItsWay
<1>8. CASE GoLive
    BY <1>8 DEF GoLive, IInv, PendingInv, OnItsWay, Reached
<1>9. CASE Receive
  <2> SUFFICES ASSUME pc' \in {"yield", "live"}, NEW k \in Nat, Reached' < k, k <= committed'
               PROVE  OnItsWay(k)'
      BY DEF PendingInv
  <2>1. /\ cursor \in 1..Len(channel) /\ channel[cursor] \in Nat
        /\ pc = "live" /\ rows = <<>> /\ cursor' = cursor + 1
        /\ UNCHANGED <<committed, unsent, channel, lost, rows>>
      BY <1>9 DEF Receive, Oldest, IInv, TypeInv, RowsInv
  <2>2. last' = IF channel[cursor] > last THEN channel[cursor] ELSE last
      BY <1>9 DEF Receive, Deliver
  <2>3. last' < k /\ last < k /\ channel[cursor] # k
      BY <2>1, <2>2 DEF Reached, IInv, TypeInv
  <2>4. OnItsWay(k)
      BY <2>1, <2>3 DEF IInv, TypeInv, PendingInv, Reached
  <2> QED BY <2>1, <2>3, <2>4 DEF OnItsWay, IInv, TypeInv
<1>10. CASE Lagged
    BY <1>10 DEF Lagged, PendingInv
<1>11. CASE UNCHANGED vars
    BY <1>1, <1>11 DEF vars
<1> QED BY <1>2, <1>3, <1>4, <1>5, <1>6, <1>7, <1>8, <1>9, <1>10, <1>11 DEF Next, StreamStep

\* What the client has not got was never sent: everything between its last
\* event and the one it receives would be behind that one in the channel, or
\* still in the hands of a writer that can only hold the newest event.
LEMMA DeliveryStep == ASSUME OneTransition, IInv, [Next]_vars PROVE OnlyUnsentMissing'
<1>1. CASE UNCHANGED <<last, seen>> /\ lost \subseteq lost'
    BY <1>1 DEF IInv, OnlyUnsentMissing
<1>2. CASE Yield
  <2>1. /\ rows # <<>> /\ lost' = lost
      BY <1>2 DEF Yield
  <2>2. Head(rows) = last + 1
      BY <2>1 DEF IInv, RowsInv, TypeInv
  <2>3. last' = last + 1 /\ seen' = seen \cup {last + 1}
      BY <2>2, <1>2 DEF Yield, Deliver, IInv, TypeInv
  <2> QED BY <2>1, <2>3 DEF IInv, TypeInv, OnlyUnsentMissing
<1>3. CASE Receive
  <2> DEFINE e == channel[cursor]
  <2>1. /\ cursor \in 1..Len(channel) /\ e \in Nat /\ lost' = lost
        /\ pc = "live" /\ last \in Nat /\ last >= 1 /\ Reached = last
      BY <1>3 DEF Receive, Oldest, IInv, TypeInv, RowsInv, Reached
  <2>2. CASE e > last
    <3>1. last' = e /\ seen' = seen \cup {e}
        BY <1>3, <2>2 DEF Receive, Deliver
    <3>2. ASSUME NEW k \in Nat, last < k, k < e PROVE k \in lost
      <4>1. k >= 2 /\ e >= 2 /\ e <= committed
          BY <2>1, <3>2 DEF IInv, SendOrderInv, Ascending, TypeInv
      <4>2. OnItsWay(k)
          BY <2>1, <3>2, <4>1 DEF IInv, PendingInv, TypeInv
      <4>3. ASSUME NEW w \in Writers, unsent[w] = k PROVE FALSE
        <5>1. w # Submitter
            BY <4>1, <4>3 DEF IInv, SendOrderInv
        <5>2. k = committed
            BY <4>1, <4>3, <5>1 DEF IInv, SendOrderInv, InHand
        <5> QED BY <2>1, <3>2, <4>1, <5>2 DEF IInv, TypeInv
      <4>4. ASSUME NEW i \in 1..Len(channel), cursor <= i, channel[i] = k PROVE FALSE
        <5>1. i # cursor /\ cursor < i
            BY <2>1, <3>2, <4>4
        <5>2. e < k
            BY <2>1, <4>1, <4>4, <5>1 DEF IInv, SendOrderInv, Ascending
        <5> QED BY <2>1, <3>2, <5>2
      <4> QED BY <4>2, <4>3, <4>4 DEF OnItsWay
    <3> HIDE DEF e
    <3>3. ASSUME NEW k \in 1..last', k \notin seen' PROVE k \in lost
      <4>1. k # e /\ k <= e /\ k \in Nat
          BY <2>1, <3>1, <3>3
      <4>2. CASE k \in 1..last
          BY <3>1, <3>3, <4>2 DEF IInv, OnlyUnsentMissing
      <4>3. CASE k \notin 1..last
          BY <2>1, <3>2, <3>3, <4>1, <4>3
      <4> QED BY <4>2, <4>3
    <3> QED BY <2>1, <3>3 DEF OnlyUnsentMissing
  <2>3. CASE ~(e > last)
      BY <1>1, <1>3, <2>1, <2>3 DEF Receive, Deliver
  <2> QED BY <2>2, <2>3
<1>4. CASE \E w \in Writers : Commit(w) \/ Send(w) \/ AnswerLost(w)
    BY <1>1, <1>4 DEF Commit, Send, AnswerLost, stream
<1>5. CASE OtherOperation
    BY <1>1, <1>5 DEF OtherOperation, stream
<1>6. CASE Subscribe \/ ReadRows \/ GoLive \/ Lagged \/ UNCHANGED vars
    BY <1>1, <1>6 DEF Subscribe, ReadRows, GoLive, Lagged, vars
<1> QED BY <1>2, <1>3, <1>4, <1>5, <1>6 DEF Next, StreamStep

-----------------------------------------------------------------------------

\* With one task that writes the operation's events after submit(), a client
\* misses only events that were never sent, whatever the channel overwrites,
\* however often the stream breaks and whatever else is sent (event_stream(),
\* operations.rs).
THEOREM StreamLosesNothing == ASSUME OneTransition PROVE Spec => []OnlyUnsentMissing
<1>1. Init => IInv
  <2> SUFFICES ASSUME Init PROVE IInv
      OBVIOUS
  <2>1. TypeInv
      BY StreamAssumption DEF Init, TypeInv
  <2>2. SendOrderInv
      BY StreamAssumption DEF Init, SendOrderInv, InHand, Ascending
  <2>3. RowsInv /\ PendingInv /\ OnlyUnsentMissing
      BY DEF Init, RowsInv, Reached, PendingInv, OnlyUnsentMissing
  <2> QED BY <2>1, <2>2, <2>3 DEF IInv
<1>2. IInv /\ [Next]_vars => IInv'
    BY TypeStep, SendOrderStep, RowsStep, PendingStep, DeliveryStep DEF IInv
<1>3. IInv => OnlyUnsentMissing
    BY DEF IInv
<1> QED BY <1>1, <1>2, <1>3, PTL DEF Spec
=============================================================================
