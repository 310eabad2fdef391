-------------------------- MODULE EventStreamProofs --------------------------
(***************************************************************************)
(* Exactly-once, in-order delivery, for any number of events, batches,     *)
(* faults and unparsable frames and any page size.                         *)
(*                                                                         *)
(* The inductive invariant is DeliveryInv: the types, which say that every *)
(* event on its way to the consumer is durable, and that the consumer's    *)
(* cursor counts what it was given.  Without the first a yielded event     *)
(* might not be in the log; without the second "the cursor's successor"    *)
(* would not be "the next event".                                          *)
(***************************************************************************)
EXTENDS EventStream, SequenceTheorems, TLAPS

DeliveryInv == EventTypeOK /\ cursor = Len(out)

\* A page of the log is a sequence of its events.
LEMMA AfterIsASequence ==
  ASSUME NEW a \in Nat, NEW b \in Int, NEW n \in Nat, b <= n
  PROVE  After(a, b) \in Seq(1..n)
<1>1. PICK k \in Nat : 1..(b - a) = 1..k /\ (k = 0 \/ a + k <= n)
  <2>1. CASE b <= a
    <3>1. 1..(b - a) = 1..0  BY <2>1
    <3> QED  BY <3>1
  <2>2. CASE a < b
    <3>1. b - a \in Nat /\ a + (b - a) <= n  BY <2>2
    <3> QED  BY <3>1
  <2> QED  BY <2>1, <2>2
<1>2. \A i \in 1..k : a + i \in 1..n  BY <1>1
<1>3. [i \in 1..k |-> a + i] \in [1..k -> 1..n]  BY <1>2
<1>4. After(a, b) = [i \in 1..k |-> a + i]  BY <1>1 DEF After
<1>5. \E m \in Nat : After(a, b) \in [1..m -> 1..n]  BY <1>3, <1>4
<1> QED  BY <1>5, SeqDef

\* The two kinds of step a consumer's sequence can take: none, and the next
\* event of the log.
LEMMA YieldsTheNext ==
  ASSUME DeliveryInv, NEW e \in 1..log, e = cursor + 1, Yields(e)
  PROVE  /\ out' = Append(out, Len(out) + 1)
         /\ Len(out) < log
         /\ out' \in Seq(Nat)
         /\ cursor' = Len(out')
         /\ cursor' \in 0..log
BY AppendProperties DEF DeliveryInv, EventTypeOK, Yields

\* Every step keeps the invariant.
LEMMA DeliveryInvNext ==
  ASSUME DeliveryInv, [Next]_vars
  PROVE  DeliveryInv'
<1> USE DEF DeliveryInv
<1>t. /\ log \in Nat /\ sent \in Nat /\ cursor \in Nat
      /\ Events = 1..log
  BY EventConstants DEF EventTypeOK, Events
<1>1. CASE AppendEvents
  <2>1. PICK k \in 1..MaxBatch : /\ log + k <= MaxEvents
                                 /\ log' = log + k
                                 /\ unpub' = unpub \union {(log + 1)..(log + k)}
    BY <1>1 DEF AppendEvents
  <2>2. log' \in 0..MaxEvents /\ Events \subseteq Events' /\ Events' = 1..log'
    BY <2>1, EventConstants DEF EventTypeOK, Events
  <2>3. UNCHANGED <<server, wire, client, bounds>>  BY <1>1 DEF AppendEvents
  <2>4. unpub' \subseteq SUBSET Events'
    BY <2>1, <2>2, EventConstants DEF EventTypeOK, Events
  <2>5. queue' \in Seq(SUBSET Events') /\ wire' \in Seq(Events')
    <3>1. queue' = queue /\ wire' = wire  BY <2>3 DEF server
    <3>2. SUBSET Events \subseteq SUBSET Events'  BY <2>2
    <3>3. queue \in Seq(SUBSET Events) /\ wire \in Seq(Events)  BY DEF EventTypeOK
    <3>4. queue \in Seq(SUBSET Events')  BY <3>2, <3>3, SeqMonotonic
    <3>5. wire \in Seq(Events')  BY <2>2, <3>3, SeqMonotonic
    <3> QED  BY <3>1, <3>4, <3>5
  <2>6. /\ sent' \in 0..log' /\ cursor' \in 0..log' /\ fill' \in 0..log'
        /\ 0..log \union {NoRead} \subseteq 0..log' \union {NoRead}
    BY <2>1, <2>3, EventConstants DEF EventTypeOK, server, client
  <2>7. /\ from' \in [Tasks -> 0..log' \union {NoRead}]
        /\ todo' \in [Tasks -> SUBSET Events']
        /\ buffered' \subseteq Events'
    BY <2>2, <2>3, <2>6 DEF EventTypeOK, server
  <2> QED  BY <2>2, <2>3, <2>4, <2>5, <2>6, <2>7 DEF EventTypeOK, server, client, bounds
<1>2. CASE Publish
  <2>1. PICK b \in unpub : PublishBatch(b)  BY <1>2 DEF Publish
  <2>2. b \in SUBSET Events  BY DEF EventTypeOK
  <2>3. queue' \in Seq(SUBSET Events)
    BY <2>1, <2>2, AppendProperties DEF EventTypeOK, PublishBatch
  <2> QED  BY <2>1, <2>3 DEF PublishBatch, EventTypeOK, client, bounds, Events
<1>3. CASE LosePublish
  BY <1>3, EventConstants DEF LosePublish, EventTypeOK, server, client, Events
<1>4. CASE SubscriptionTakes
  BY <1>4 DEF SubscriptionTakes, EventTypeOK, bus, client, bounds, Events
<1>5. CASE ReplayPage
  <2> DEFINE last == IF log < sent + PageSize THEN log ELSE sent + PageSize
  <2>1. last \in 0..log /\ last \in Int /\ last <= log  BY <1>t, EventConstants DEF EventTypeOK
  <2>2. wire' = wire \o After(sent, last) /\ sent' = last
    BY <1>5 DEF ReplayPage
  <2> HIDE DEF last
  <2>3. After(sent, last) \in Seq(1..log)  BY <1>t, <2>1, AfterIsASequence
  <2>4. wire' \in Seq(1..log)  BY <1>t, <2>2, <2>3, ConcatProperties DEF EventTypeOK
  <2> QED  BY <1>5, <1>t, <2>1, <2>2, <2>4 DEF ReplayPage, EventTypeOK, bus, client, bounds, Events
<1>6. CASE EndReplay
  BY <1>6 DEF EndReplay, EventTypeOK, bus, client, bounds, Events, Tasks
<1>7. CASE Callback
  <2>1. Head(queue) \subseteq Events /\ Tail(queue) \in Seq(SUBSET Events)
    BY <1>7, HeadTailProperties DEF Callback, EventTypeOK
  <2> QED  BY <1>7, <2>1 DEF Callback, EventTypeOK, bus, client, bounds, Events, Tasks
<1>8. ASSUME NEW t \in Tasks, SendNext(t)  PROVE DeliveryInv'
  <2>1. PICK e \in todo[t] : SendNext(t)!(e)
    BY <1>8 DEF SendNext
  <2>2. e \in 1..log  BY <1>t DEF EventTypeOK
  <2>3. wire' \in Seq(1..log)
    <3>1. wire \in Seq(1..log)  BY <1>t DEF EventTypeOK
    <3>2. Append(wire, e) \in Seq(1..log)  BY <2>2, <3>1, AppendProperties
    <3> QED  BY <2>1, <3>1, <3>2
  <2>4. sent' \in 0..log  BY <2>1, <2>2 DEF EventTypeOK
  <2>5. todo' \in [Tasks -> SUBSET Events]  BY <2>1 DEF EventTypeOK
  <2>6. from' \in [Tasks -> 0..log \union {NoRead}]  BY <2>1 DEF EventTypeOK
  <2> QED  BY <1>t, <2>1, <2>3, <2>4, <2>5, <2>6 DEF EventTypeOK, bus, client, bounds, Events
<1>9. ASSUME NEW t \in Tasks, GapFilled(t)  PROVE DeliveryInv'
  <2>1. PICK e \in todo[t] : GapFilled(t)!(e)
    BY <1>9 DEF GapFilled
  <2>2. e \in 1..log  BY <1>t DEF EventTypeOK
  <2>3. from[t] \in Nat  BY <1>t, <2>1 DEF EventTypeOK
  <2> DEFINE known == IF from[t] > sent THEN from[t] ELSE sent
  <2>4. known \in Nat  BY <1>t, <2>3
  <2> HIDE DEF known
  <2>5. After(known, e - 1) \in Seq(1..log)
    <3>1. e - 1 \in Int /\ e - 1 <= log  BY <1>t, <2>2
    <3> QED  BY <1>t, <2>4, <3>1, AfterIsASequence
  <2>6. <<e>> \in Seq(1..log)  BY <2>2
  <2>7. wire' = wire \o After(known, e - 1) \o <<e>>  BY <2>1 DEF known
  <2>8. wire' \in Seq(1..log)
    BY <1>t, <2>5, <2>6, <2>7, ConcatProperties DEF EventTypeOK
  <2>9. /\ sent' \in 0..log
        /\ todo' \in [Tasks -> SUBSET Events]
        /\ from' \in [Tasks -> 0..log \union {NoRead}]
    BY <1>t, <2>1, <2>2 DEF EventTypeOK
  <2> QED  BY <1>t, <2>1, <2>8, <2>9 DEF EventTypeOK, bus, client, bounds, Events
<1>10. CASE LoseConnection
  <2>1. PICK n \in 0..Len(wire) : wire' = SubSeq(wire, 1, n)  BY <1>10 DEF LoseConnection
  <2>2. \A i \in 1..n : wire[i] \in Events
    BY <2>1, ElementOfSeq, LenProperties DEF EventTypeOK
  <2>3. wire' \in Seq(Events)  BY <2>1, <2>2, SubSeqProperties, LenProperties DEF EventTypeOK
  <2> QED  BY <1>10, <2>3, EventConstants
           DEF LoseConnection, TornDown, Idle, Unread, EventTypeOK, bus, Events
<1>11. CASE CallbackFails
  BY <1>11, EventConstants
     DEF CallbackFails, EventTypeOK, bus, client, Events, Tasks
<1>12. CASE Connect
  BY <1>12 DEF Connect, ResumesAfter, Idle, Unread, EventTypeOK, bus, bounds, Events
<1>13. CASE TakeFrame
  <2> DEFINE e == Head(wire)
  <2>1. e \in 1..log /\ Tail(wire) \in Seq(Events)
    BY <1>13, <1>t, HeadTailProperties DEF TakeFrame, EventTypeOK
  <2>2. wire' = Tail(wire) /\ UNCHANGED <<bus, server, conn, bounds>>
    BY <1>13 DEF TakeFrame
  <2>3. CASE Known(e)
    BY <1>13, <2>1, <2>2, <2>3
       DEF TakeFrame, EventTypeOK, bus, server, bounds, Events
  <2>4. CASE ~Known(e) /\ e > cursor + 1
    BY <1>13, <2>1, <2>2, <2>4
       DEF TakeFrame, EventTypeOK, bus, server, bounds, Events
  <2>5. CASE ~Known(e) /\ ~(e > cursor + 1)
    <3>1. e = cursor + 1  BY <1>t, <2>1, <2>5 DEF Known
    <3>2. Yields(e) /\ UNCHANGED fill  BY <1>13, <2>5 DEF TakeFrame
    <3> HIDE DEF e
    <3>3. out' \in Seq(Nat) /\ cursor' = Len(out') /\ cursor' \in 0..log
      BY <2>1, <3>1, <3>2, YieldsTheNext
    <3> QED  BY <2>1, <2>2, <3>2, <3>3
             DEF EventTypeOK, bus, server, bounds, Events
  <2> QED  BY <2>3, <2>4, <2>5
<1>14. CASE SkipFrame
  <2>1. Tail(wire) \in Seq(Events)
    BY <1>14, HeadTailProperties DEF SkipFrame, EventTypeOK
  <2> QED  BY <1>14, <2>1, EventConstants DEF SkipFrame, EventTypeOK, bus, server, client, Events
<1>15. CASE Backfill
  <2>1. cursor + 1 \in 1..log /\ Yields(cursor + 1)  BY <1>15, <1>t DEF Backfill
  <2>2. out' \in Seq(Nat) /\ cursor' = Len(out') /\ cursor' \in 0..log
    BY <2>1, YieldsTheNext
  <2> QED  BY <1>15, <2>2 DEF Backfill, EventTypeOK, bus, server, bounds, Events
<1>16. CASE BackfillFails
  <2>1. << >> \in Seq(Events)  BY EmptySeq
  <2> QED  BY <1>16, <2>1, EventConstants
           DEF BackfillFails, TornDown, Idle, Unread, EventTypeOK, bus, Events
<1>17. CASE NoticeClose
  BY <1>17 DEF NoticeClose, EventTypeOK, bus, server, bounds, Events
<1>18. CASE Abort
  BY <1>18 DEF Abort, TornDown, Idle, Unread, EventTypeOK, bus, bounds, Events
<1>19. CASE UNCHANGED vars
  BY <1>19 DEF vars, EventTypeOK, bus, server, client, bounds, Events
<1> QED
  BY <1>1, <1>2, <1>3, <1>4, <1>5, <1>6, <1>7, <1>8, <1>9, <1>10, <1>11, <1>12,
     <1>13, <1>14, <1>15, <1>16, <1>17, <1>18, <1>19
     DEF Next, ServerStep, ClientStep

\* Every step of the stream is a step of the promised delivery or leaves the
\* log and the consumer's sequence alone.
LEMMA StepDelivers ==
  ASSUME DeliveryInv, [Next]_vars
  PROVE  [Delivery!Grow \/ Delivery!Deliver]_<<log, out>>
<1>1. CASE AppendEvents
  <2>1. log \in Nat  BY EventConstants DEF DeliveryInv, EventTypeOK
  <2>2. PICK k \in 1..MaxBatch : log' = log + k  BY <1>1 DEF AppendEvents
  <2>3. log' \in Nat /\ log' > log  BY <2>1, <2>2, EventConstants
  <2>4. UNCHANGED out  BY <1>1 DEF AppendEvents, client
  <2> QED  BY <2>3, <2>4 DEF Delivery!Grow
<1>2. CASE TakeFrame
  <2> DEFINE e == Head(wire)
  <2>1. e \in 1..log /\ log \in Nat /\ cursor \in Nat
    BY <1>2, HeadTailProperties, EventConstants DEF TakeFrame, DeliveryInv, EventTypeOK, Events
  <2>2. UNCHANGED log  BY <1>2 DEF TakeFrame, bus
  <2>3. CASE ~Known(e) /\ ~(e > cursor + 1)
    <3>1. e = cursor + 1 /\ Yields(e)  BY <1>2, <2>1, <2>3 DEF Known, TakeFrame
    <3> HIDE DEF e
    <3>2. out' = Append(out, Len(out) + 1) /\ Len(out) < log
      BY <2>1, <3>1, YieldsTheNext
    <3> QED  BY <2>2, <3>2 DEF Delivery!Deliver
  <2>4. CASE Known(e) \/ e > cursor + 1
    <3>1. UNCHANGED out  BY <1>2, <2>4 DEF TakeFrame
    <3> QED  BY <2>2, <3>1
  <2> QED  BY <2>3, <2>4
<1>3. CASE Backfill
  <2>1. cursor + 1 \in 1..log /\ Yields(cursor + 1) /\ UNCHANGED log
    BY <1>3, EventConstants DEF Backfill, DeliveryInv, EventTypeOK, bus
  <2>2. out' = Append(out, Len(out) + 1) /\ Len(out) < log  BY <2>1, YieldsTheNext
  <2> QED  BY <2>1, <2>2 DEF Delivery!Deliver
<1>4. CASE ~AppendEvents /\ ~TakeFrame /\ ~Backfill
  <2>1. CASE ServerStep
    BY <2>1 DEF ServerStep, SubscriptionTakes, ReplayPage, EndReplay, Callback, SendNext,
                GapFilled, bus, client
  <2>2. CASE ~ServerStep
    BY <1>4, <2>2 DEF Next, ClientStep, Publish, PublishBatch, SkipFrame, LosePublish,
                LoseConnection, CallbackFails, BackfillFails, Abort, Connect, NoticeClose,
                bus, client, vars
  <2> QED  BY <2>1, <2>2
<1> QED  BY <1>1, <1>2, <1>3, <1>4

-----------------------------------------------------------------------------
\* Types, and with them "durable before it is published": no event is ever
\* announced, buffered, sent or filled up to that is not in the log.
THEOREM EventTypesHold == Spec => []EventTypeOK
<1>1. Init => DeliveryInv
  BY EventConstants
     DEF Init, DeliveryInv, EventTypeOK, Events, Idle, Unread
<1>2. DeliveryInv /\ [Next]_vars => DeliveryInv'  BY DeliveryInvNext
<1>3. DeliveryInv => EventTypeOK  BY DEF DeliveryInv
<1> QED  BY <1>1, <1>2, <1>3, PTL DEF Spec

\* The stream implements exactly-once, in-order, gap-free delivery of the
\* durable log, whatever is lost, repeated or interleaved on the way.
THEOREM StreamImplementsDelivery == Spec => ImplementsDelivery
<1>1. Init => DeliveryInv
  BY EventConstants
     DEF Init, DeliveryInv, EventTypeOK, Events, Idle, Unread
<1>2. DeliveryInv /\ [Next]_vars => DeliveryInv'  BY DeliveryInvNext
<1>3. Init => Delivery!DeliveryInit  BY DEF Init, Delivery!DeliveryInit
<1>4. DeliveryInv /\ [Next]_vars => [Delivery!Grow \/ Delivery!Deliver]_<<log, out>>
  BY StepDelivers
<1> QED  BY <1>1, <1>2, <1>3, <1>4, PTL DEF Spec, ImplementsDelivery, Delivery!DeliverySpec
-----------------------------------------------------------------------------
(* A response skips nothing.  Every frame on the wire is at most one past  *)
(* the cursor or past an earlier frame, and every lastSent that a task of  *)
(* the response goes on from is covered by the cursor or by some frame.    *)

Covered(n, w, c) == n <= c \/ \E i \in 1..Len(w) : n <= w[i]
GapFree(w, c) ==
  \A i \in 1..Len(w) : w[i] <= c + 1 \/ \E j \in 1..(i - 1) : w[i] <= w[j] + 1

NoSender == sub = "off" /\ replay = "over" /\ todo = Idle /\ from = Unread

SkipInv ==
  /\ conn # "up" => NoSender
  /\ garbles = 0 => /\ fill = 0
                    /\ GapFree(wire, cursor)
                    /\ conn = "up" => /\ Covered(sent, wire, cursor)
                                      /\ \A t \in Tasks : from[t] # NoRead => Covered(from[t], wire, cursor)

\* What was covered stays covered behind more frames.
LEMMA CoveredStays ==
  ASSUME NEW w \in Seq(Nat), NEW s \in Seq(Nat), NEW c \in Nat, NEW n \in Nat, Covered(n, w, c)
  PROVE  Covered(n, w \o s, c)
<1>1. Len(w \o s) = Len(w) + Len(s) /\ \A i \in 1..Len(w) : (w \o s)[i] = w[i]
  BY ConcatProperties
<1>2. Len(w) \in Nat /\ Len(s) \in Nat  BY LenProperties
<1> QED  BY <1>1, <1>2 DEF Covered

\* A run of events that goes on from a covered one leaves no gap.
LEMMA RunLeavesNoGap ==
  ASSUME NEW w \in Seq(Nat), NEW c \in Nat, NEW a \in Nat, NEW k \in Nat,
         GapFree(w, c), Covered(a, w, c)
  PROVE  LET s == [i \in 1..k |-> a + i]
         IN  s \in Seq(Nat) /\ GapFree(w \o s, c) /\ Covered(a + k, w \o s, c)
<1> DEFINE s == [i \in 1..k |-> a + i]
           v == w \o s
<1>1. s \in Seq(Nat) /\ Len(s) = k
  <2>1. s \in [1..k -> Nat]  OBVIOUS
  <2>2. s \in Seq(Nat)  BY <2>1, SeqDef
  <2>3. DOMAIN s = 1..k  OBVIOUS
  <2> QED  BY <2>2, <2>3, LenProperties
<1>2. Len(w) \in Nat  BY LenProperties
<1>3. /\ Len(v) = Len(w) + k
      /\ \A i \in 1..Len(w) : v[i] = w[i]
      /\ \A i \in 1..k : v[Len(w) + i] = a + i
  <2>1. /\ Len(v) = Len(w) + Len(s)
        /\ \A i \in 1..Len(v) : v[i] = IF i <= Len(w) THEN w[i] ELSE s[i - Len(w)]
    BY <1>1, ConcatProperties
  <2>2. \A i \in 1..k : Len(w) + i \in 1..Len(v) /\ ~(Len(w) + i <= Len(w)) /\ (Len(w) + i) - Len(w) = i
    BY <1>1, <1>2, <2>1
  <2>3. \A i \in 1..Len(w) : i \in 1..Len(v)  BY <1>1, <1>2, <2>1
  <2> QED  BY <1>1, <1>2, <2>1, <2>2, <2>3
<1> HIDE DEF s, v
<1>4. \A i \in 1..Len(w) : w[i] \in Nat  BY ElementOfSeq
<1>5. GapFree(v, c)
  <2> SUFFICES ASSUME NEW i \in 1..Len(v)
               PROVE  v[i] <= c + 1 \/ \E j \in 1..(i - 1) : v[i] <= v[j] + 1
    BY DEF GapFree
  <2>1. CASE i \in 1..Len(w)
    <3>1. w[i] <= c + 1 \/ \E j \in 1..(i - 1) : w[i] <= w[j] + 1  BY <2>1 DEF GapFree
    <3>2. \A j \in 1..(i - 1) : j \in 1..Len(w)  BY <1>2, <2>1
    <3>3. v[i] = w[i] /\ \A j \in 1..(i - 1) : v[j] = w[j]  BY <1>3, <2>1, <3>2
    <3> QED  BY <3>1, <3>3
  <2>2. CASE i = Len(w) + 1
    <3>1. v[i] = a + 1  BY <1>2, <1>3, <2>2
    <3>2. CASE a <= c  BY <3>1, <3>2
    <3>3. CASE \E j \in 1..Len(w) : a <= w[j]
      <4>1. PICK j \in 1..Len(w) : a <= w[j]  BY <3>3
      <4>2. j \in 1..(i - 1) /\ v[j] = w[j]  BY <1>2, <1>3, <2>2
      <4>3. v[i] <= v[j] + 1  BY <1>4, <3>1, <4>1, <4>2
      <4> QED  BY <4>2, <4>3
    <3> QED  BY <3>2, <3>3 DEF Covered
  <2>3. CASE i > Len(w) + 1
    <3>1. PICK m \in 2..k : i = Len(w) + m  BY <1>2, <1>3, <2>3
    <3>2. v[i] = a + m /\ v[i - 1] = a + (m - 1)
      <4>1. m \in 1..k /\ m - 1 \in 1..k /\ i - 1 = Len(w) + (m - 1)  BY <1>2, <3>1
      <4> QED  BY <1>3, <3>1, <4>1
    <3>3. i - 1 \in 1..(i - 1) /\ v[i] <= v[i - 1] + 1  BY <1>2, <2>3, <3>1, <3>2
    <3> QED  BY <3>3
  <2>4. i \in 1..Len(w) \/ i = Len(w) + 1 \/ i > Len(w) + 1  BY <1>2
  <2> QED  BY <2>1, <2>2, <2>3, <2>4
<1>6. Covered(a + k, v, c)
  <2>1. CASE k = 0
    <3>1. Len(v) = Len(w) /\ a + k = a  BY <1>2, <1>3, <2>1
    <3> QED  BY <1>3, <3>1 DEF Covered
  <2>2. CASE k # 0
    <3>1. k \in 1..k /\ Len(w) + k \in 1..Len(v)  BY <1>2, <1>3, <2>2
    <3>2. v[Len(w) + k] = a + k  BY <1>3, <3>1
    <3> QED  BY <3>1, <3>2 DEF Covered
  <2> QED  BY <2>1, <2>2
<1> QED  BY <1>1, <1>5, <1>6 DEF s, v

\* An event that is no more than one past a covered one, a repeated event too,
\* leaves no gap.
LEMMA EventLeavesNoGap ==
  ASSUME NEW w \in Seq(Nat), NEW c \in Nat, NEW e \in Nat, NEW n \in Nat,
         GapFree(w, c), Covered(n, w, c), e <= n + 1
  PROVE  GapFree(w \o <<e>>, c) /\ Covered(e, w \o <<e>>, c)
<1> DEFINE v == w \o <<e>>
<1>1. Len(w) \in Nat /\ \A i \in 1..Len(w) : w[i] \in Nat  BY LenProperties, ElementOfSeq
<1>2. /\ Len(v) = Len(w) + 1 /\ v[Len(w) + 1] = e
      /\ \A i \in 1..Len(w) : v[i] = w[i]
  <2>1. <<e>> \in Seq(Nat) /\ Len(<<e>>) = 1 /\ <<e>>[1] = e  OBVIOUS
  <2>2. /\ Len(v) = Len(w) + 1
        /\ \A i \in 1..(Len(w) + 1) : v[i] = IF i <= Len(w) THEN w[i] ELSE <<e>>[i - Len(w)]
    BY <2>1, ConcatProperties
  <2>3. Len(w) + 1 \in 1..(Len(w) + 1) /\ ~(Len(w) + 1 <= Len(w)) /\ (Len(w) + 1) - Len(w) = 1
    BY <1>1
  <2>4. \A i \in 1..Len(w) : i \in 1..(Len(w) + 1) /\ i <= Len(w)  BY <1>1
  <2> HIDE DEF v
  <2> QED  BY <2>1, <2>2, <2>3, <2>4
<1> HIDE DEF v
<1>3. GapFree(v, c)
  <2> SUFFICES ASSUME NEW i \in 1..Len(v)
               PROVE  v[i] <= c + 1 \/ \E j \in 1..(i - 1) : v[i] <= v[j] + 1
    BY DEF GapFree
  <2>1. CASE i \in 1..Len(w)
    <3>1. w[i] <= c + 1 \/ \E j \in 1..(i - 1) : w[i] <= w[j] + 1  BY <2>1 DEF GapFree
    <3>2. \A j \in 1..(i - 1) : j \in 1..Len(w)  BY <1>1, <2>1
    <3>3. v[i] = w[i] /\ \A j \in 1..(i - 1) : v[j] = w[j]  BY <1>2, <2>1, <3>2
    <3> QED  BY <3>1, <3>3
  <2>2. CASE i = Len(w) + 1
    <3>1. CASE n <= c  BY <1>2, <2>2, <3>1
    <3>2. CASE \E j \in 1..Len(w) : n <= w[j]
      <4>1. PICK j \in 1..Len(w) : n <= w[j]  BY <3>2
      <4>2. j \in 1..(i - 1) /\ v[j] = w[j]  BY <1>1, <1>2, <2>2
      <4>3. v[i] <= v[j] + 1  BY <1>1, <1>2, <2>2, <4>1, <4>2
      <4> QED  BY <4>2, <4>3
    <3> QED  BY <3>1, <3>2 DEF Covered
  <2> QED  BY <1>1, <1>2, <2>1, <2>2
<1>4. Covered(e, v, c)
  <2>1. Len(w) + 1 \in 1..Len(v) /\ e <= v[Len(w) + 1]  BY <1>1, <1>2
  <2> QED  BY <2>1 DEF Covered
<1> QED  BY <1>3, <1>4 DEF v

\* A read of the log is a run of events from its start up to its end.
LEMMA AfterIsARun ==
  ASSUME NEW a \in Nat, NEW b \in Int
  PROVE  \E k \in Nat : After(a, b) = [i \in 1..k |-> a + i] /\ b <= a + k
<1>1. CASE b <= a
  <2>1. 1..(b - a) = 1..0 /\ b <= a + 0  BY <1>1
  <2>2. After(a, b) = [i \in 1..0 |-> a + i]  BY <2>1 DEF After
  <2> QED  BY <2>1, <2>2
<1>2. CASE a < b
  <2>1. b - a \in Nat /\ b <= a + (b - a)  BY <1>2
  <2> QED  BY <2>1 DEF After
<1> QED  BY <1>1, <1>2

\* The first frames of a gap-free wire are gap-free.
LEMMA PrefixKeepsGapFree ==
  ASSUME NEW w \in Seq(Nat), NEW c \in Nat, NEW n \in 0..Len(w), GapFree(w, c)
  PROVE  GapFree(SubSeq(w, 1, n), c)
<1> DEFINE v == SubSeq(w, 1, n)
<1>1. Len(w) \in Nat /\ \A i \in 1..Len(w) : w[i] \in Nat  BY LenProperties, ElementOfSeq
<1>2. n \in Int /\ 1 \in Int /\ \A i \in 1..n : w[i] \in Nat  BY <1>1
<1>3. Len(v) = n /\ \A i \in 1..n : v[i] = w[i]
  <2>1. /\ Len(v) = IF 1 <= n THEN n - 1 + 1 ELSE 0
        /\ \A i \in 1..(n - 1 + 1) : v[i] = w[1 + i - 1]
    BY <1>2, SubSeqProperties
  <2> HIDE DEF v
  <2>2. Len(v) = n  BY <1>1, <2>1
  <2>3. n - 1 + 1 = n /\ \A i \in 1..n : 1 + i - 1 = i  BY <1>2
  <2> QED  BY <2>1, <2>2, <2>3
<1> HIDE DEF v
<1>4. ASSUME NEW i \in 1..n
      PROVE  v[i] <= c + 1 \/ \E j \in 1..(i - 1) : v[i] <= v[j] + 1
  <2>1. i \in 1..Len(w) /\ \A j \in 1..(i - 1) : j \in 1..n  BY <1>1
  <2>2. w[i] <= c + 1 \/ \E j \in 1..(i - 1) : w[i] <= w[j] + 1  BY <2>1 DEF GapFree
  <2>3. v[i] = w[i] /\ \A j \in 1..(i - 1) : v[j] = w[j]  BY <1>3, <2>1
  <2> QED  BY <2>2, <2>3
<1> QED  BY <1>3, <1>4 DEF v, GapFree

\* Taking a frame moves the cursor over it, and nothing else is uncovered.
LEMMA TakingKeepsGapFree ==
  ASSUME NEW w \in Seq(Nat), w # << >>, NEW c \in Nat, NEW d \in Nat, GapFree(w, c),
         d >= c, d >= Head(w)
  PROVE  /\ GapFree(Tail(w), d)
         /\ \A n \in Nat : Covered(n, w, c) => Covered(n, Tail(w), d)
<1> DEFINE v == Tail(w)
<1>1. Len(w) \in Nat /\ Len(w) # 0 /\ \A i \in 1..Len(w) : w[i] \in Nat
  BY LenProperties, EmptySeq, ElementOfSeq
<1>2. /\ Len(v) = Len(w) - 1 /\ w[1] = Head(w)
      /\ \A i \in 1..Len(v) : v[i] = w[i + 1]
  BY <1>1, HeadTailProperties
<1> HIDE DEF v
<1>3. GapFree(v, d)
  <2> SUFFICES ASSUME NEW i \in 1..Len(v)
               PROVE  v[i] <= d + 1 \/ \E j \in 1..(i - 1) : v[i] <= v[j] + 1
    BY DEF GapFree
  <2>1. i + 1 \in 1..Len(w) /\ v[i] = w[i + 1] /\ v[i] \in Nat  BY <1>1, <1>2
  <2>2. w[i + 1] <= c + 1 \/ \E j \in 1..((i + 1) - 1) : w[i + 1] <= w[j] + 1
    BY <2>1 DEF GapFree
  <2>3. CASE w[i + 1] <= c + 1  BY <2>1, <2>3
  <2>4. CASE \E j \in 1..((i + 1) - 1) : w[i + 1] <= w[j] + 1
    <3>1. PICK j \in 1..((i + 1) - 1) : w[i + 1] <= w[j] + 1  BY <2>4
    <3>2. CASE j = 1  BY <1>1, <1>2, <2>1, <3>1, <3>2
    <3>3. CASE j # 1
      <4>1. j - 1 \in 1..(i - 1) /\ j - 1 \in 1..Len(v) /\ (j - 1) + 1 = j  BY <1>1, <1>2, <3>1, <3>3
      <4>2. v[j - 1] = w[j]  BY <1>2, <4>1
      <4> QED  BY <2>1, <3>1, <4>1, <4>2
    <3> QED  BY <3>2, <3>3
  <2> QED  BY <2>2, <2>3, <2>4
<1>4. ASSUME NEW n \in Nat, Covered(n, w, c)  PROVE Covered(n, v, d)
  <2>1. CASE n <= c  BY <2>1 DEF Covered
  <2>2. CASE \E i \in 1..Len(w) : n <= w[i]
    <3>1. PICK i \in 1..Len(w) : n <= w[i]  BY <2>2
    <3>2. CASE i = 1  BY <1>1, <1>2, <3>1, <3>2 DEF Covered
    <3>3. CASE i # 1
      <4>1. i - 1 \in 1..Len(v) /\ (i - 1) + 1 = i  BY <1>1, <1>2, <3>3
      <4>2. v[i - 1] = w[i]  BY <1>2, <4>1
      <4> QED  BY <3>1, <4>1, <4>2 DEF Covered
    <3> QED  BY <3>2, <3>3
  <2> QED  BY <1>4, <2>1, <2>2 DEF Covered
<1> QED  BY <1>3, <1>4 DEF v
\* Every step keeps SkipInv: only the two tasks of an open response send, each
\* from a lastSent that the wire covers.
LEMMA SkipInvNext ==
  ASSUME DeliveryInv, SkipInv, [Next]_vars
  PROVE  SkipInv'
<1>t. /\ wire \in Seq(Nat) /\ cursor \in Nat /\ sent \in Nat /\ log \in Nat /\ sent <= log
      /\ \A t \in Tasks : from[t] \in Nat \union {NoRead} /\ todo[t] \subseteq Nat
  <2>1. log \in Nat /\ Events = 1..log  BY EventConstants DEF DeliveryInv, EventTypeOK, Events
  <2>2. Events \subseteq Nat  BY <2>1
  <2>3. wire \in Seq(Nat)  BY <2>2, SeqMonotonic DEF DeliveryInv, EventTypeOK
  <2> QED  BY <2>1, <2>2, <2>3 DEF DeliveryInv, EventTypeOK
<1>1. CASE AppendEvents \/ LosePublish
  <2>1. UNCHANGED <<server, wire, client, garbles>>
    BY <1>1 DEF AppendEvents, LosePublish, bounds
  <2> QED  BY <2>1 DEF SkipInv, NoSender, server, client
<1>2. CASE Publish
  BY <1>2 DEF Publish, PublishBatch, SkipInv, NoSender, client, bounds
<1>3. CASE SubscriptionTakes
  BY <1>3 DEF SubscriptionTakes, SkipInv, NoSender, client, bounds
<1>4. CASE ReplayPage
  <2> DEFINE last == IF log < sent + PageSize THEN log ELSE sent + PageSize
  <2>1. last \in Nat /\ last - sent \in Nat /\ sent + (last - sent) = last
    BY <1>t, EventConstants
  <2>2. wire' = wire \o After(sent, last) /\ sent' = last
    BY <1>4 DEF ReplayPage
  <2>3. UNCHANGED <<todo, from, sub, client, garbles>> /\ conn = "up"
    BY <1>4 DEF ReplayPage, bounds, SkipInv, NoSender
  <2> HIDE DEF last
  <2>4. ASSUME garbles = 0
        PROVE  /\ fill = 0 /\ GapFree(wire', cursor) /\ Covered(last, wire', cursor)
               /\ \A t \in Tasks : from[t] # NoRead => Covered(from[t], wire', cursor)
    <3>1. /\ fill = 0 /\ GapFree(wire, cursor) /\ Covered(sent, wire, cursor)
          /\ \A t \in Tasks : from[t] # NoRead => Covered(from[t], wire, cursor)
      BY <2>3, <2>4 DEF SkipInv
    <3>2. After(sent, last) = [i \in 1..(last - sent) |-> sent + i]  BY DEF After
    <3>3. /\ After(sent, last) \in Seq(Nat) /\ GapFree(wire', cursor)
          /\ Covered(last, wire', cursor)
      BY <1>t, <2>1, <2>2, <3>1, <3>2, RunLeavesNoGap
    <3>4. \A t \in Tasks : from[t] # NoRead => Covered(from[t], wire', cursor)
      BY <1>t, <2>2, <3>1, <3>3, CoveredStays
    <3> QED  BY <3>1, <3>3, <3>4
  <2> QED  BY <2>2, <2>3, <2>4 DEF SkipInv, client
<1>5. CASE EndReplay \/ Callback
  <2>1. conn = "up"  BY <1>5 DEF EndReplay, Callback, SkipInv, NoSender
  <2>2. UNCHANGED <<sent, from, wire, client, garbles>>
    BY <1>5 DEF EndReplay, Callback, bounds
  <2> QED  BY <2>1, <2>2 DEF SkipInv, client
<1>6. ASSUME NEW t \in Tasks, SendNext(t)  PROVE SkipInv'
  <2>1. PICK e \in todo[t] : SendNext(t)!(e)  BY <1>6 DEF SendNext
  <2>2. e \in Nat  BY <1>t
  <2>3. conn = "up" /\ UNCHANGED <<client, garbles>>
    BY <2>1 DEF SkipInv, NoSender, Idle, bounds
  <2>4. CASE garbles # 0  BY <2>3, <2>4 DEF SkipInv, client
  <2>5. CASE garbles = 0
    <3>1. /\ fill = 0 /\ GapFree(wire, cursor) /\ Covered(sent, wire, cursor)
          /\ \A u \in Tasks : from[u] # NoRead => Covered(from[u], wire, cursor)
      BY <2>3, <2>5 DEF SkipInv
    <3>2. CASE e > sent + 1
      <4>1. UNCHANGED <<wire, sent>> /\ from' = [from EXCEPT ![t] = sent]  BY <2>1, <3>2
      <4>2. \A u \in Tasks : from'[u] # NoRead => Covered(from'[u], wire, cursor)
        BY <3>1, <4>1 DEF DeliveryInv, EventTypeOK
      <4> QED  BY <2>3, <3>1, <4>1, <4>2 DEF SkipInv, client
    <3>3. CASE e = sent + 1
      <4>1. wire' = Append(wire, e) /\ sent' = e /\ from' = from  BY <1>t, <2>1, <3>3
      <4>2. wire' = wire \o <<e>> /\ <<e>> \in Seq(Nat)  BY <1>t, <2>2, <4>1, AppendIsConcat
      <4>3. GapFree(wire', cursor) /\ Covered(e, wire', cursor)
        BY <1>t, <2>2, <3>1, <3>3, <4>2, EventLeavesNoGap
      <4>4. \A u \in Tasks : from[u] # NoRead => Covered(from[u], wire', cursor)
        BY <1>t, <3>1, <4>2, CoveredStays
      <4> QED  BY <2>3, <3>1, <4>1, <4>3, <4>4 DEF SkipInv, client
    <3>4. CASE e <= sent
      <4>1. UNCHANGED <<wire, sent, from>>  BY <1>t, <2>1, <2>2, <3>4
      <4> QED  BY <2>3, <3>1, <4>1 DEF SkipInv, client
    <3> QED  BY <1>t, <2>2, <3>2, <3>3, <3>4
  <2> QED  BY <2>4, <2>5
<1>7. ASSUME NEW t \in Tasks, GapFilled(t)  PROVE SkipInv'
  <2>1. PICK e \in todo[t] : GapFilled(t)!(e)  BY <1>7 DEF GapFilled
  <2>2. e \in Nat /\ from[t] \in Nat  BY <1>t, <2>1
  <2>3. conn = "up" /\ UNCHANGED <<client, garbles>>
    BY <2>1 DEF SkipInv, NoSender, Idle, bounds
  <2>4. CASE garbles # 0  BY <2>3, <2>4 DEF SkipInv, client
  <2>5. CASE garbles = 0
    <3> DEFINE known == IF from[t] > sent THEN from[t] ELSE sent
    <3>1. /\ fill = 0 /\ GapFree(wire, cursor) /\ Covered(sent, wire, cursor)
          /\ \A u \in Tasks : from[u] # NoRead => Covered(from[u], wire, cursor)
      BY <2>3, <2>5 DEF SkipInv
    <3>2. known \in Nat /\ Covered(known, wire, cursor)  BY <1>t, <2>1, <2>2, <3>1
    <3>3. /\ wire' = wire \o After(known, e - 1) \o <<e>> /\ sent' = e
          /\ from' = [from EXCEPT ![t] = NoRead]
      BY <2>1
    <3> HIDE DEF known
    <3>4. PICK k \in Nat : After(known, e - 1) = [i \in 1..k |-> known + i] /\ e - 1 <= known + k
      <4>1. e - 1 \in Int  BY <2>2
      <4> QED  BY <3>2, <4>1, AfterIsARun
    <3> DEFINE w == wire \o After(known, e - 1)
    <3>5. After(known, e - 1) \in Seq(Nat) /\ GapFree(w, cursor) /\ Covered(known + k, w, cursor)
      BY <1>t, <3>1, <3>2, <3>4, RunLeavesNoGap
    <3>6. w \in Seq(Nat)  BY <1>t, <3>5, ConcatProperties
    <3>7. \A n \in Nat : Covered(n, wire, cursor) => Covered(n, w, cursor)
      BY <1>t, <3>5, CoveredStays
    <3>8. wire' = w \o <<e>> /\ <<e>> \in Seq(Nat)  BY <2>2, <3>3
    <3> HIDE DEF w
    <3>9. known + k \in Nat /\ e <= (known + k) + 1  BY <2>2, <3>2, <3>4
    <3>10. GapFree(wire', cursor) /\ Covered(e, wire', cursor)
      BY <1>t, <2>2, <3>5, <3>6, <3>8, <3>9, EventLeavesNoGap
    <3>11. \A n \in Nat : Covered(n, wire, cursor) => Covered(n, wire', cursor)
      BY <1>t, <3>6, <3>7, <3>8, CoveredStays
    <3>12. \A u \in Tasks : from'[u] # NoRead => Covered(from'[u], wire', cursor)
      <4>1. \A u \in Tasks : from'[u] = IF u = t THEN NoRead ELSE from[u]
        BY <3>3 DEF DeliveryInv, EventTypeOK
      <4> QED  BY <1>t, <3>1, <3>11, <4>1
    <3> QED  BY <2>3, <3>1, <3>3, <3>10, <3>12 DEF SkipInv, client
  <2> QED  BY <2>4, <2>5
<1>8. CASE LoseConnection
  <2>1. PICK n \in 0..Len(wire) : wire' = SubSeq(wire, 1, n)  BY <1>8 DEF LoseConnection
  <2>2. NoSender' /\ conn' = "broken" /\ UNCHANGED <<cursor, fill, garbles>>
    BY <1>8 DEF LoseConnection, TornDown, NoSender, Idle, Unread
  <2>3. garbles = 0 => GapFree(wire', cursor)
    BY <1>t, <2>1, PrefixKeepsGapFree DEF SkipInv
  <2> QED  BY <2>2, <2>3 DEF SkipInv
<1>9. CASE CallbackFails
  <2>1. conn = "up"  BY <1>9 DEF CallbackFails, SkipInv, NoSender, Unread, Tasks
  <2>2. UNCHANGED <<sent, wire, client, garbles>> /\ from' = [from EXCEPT !["live"] = NoRead]
    BY <1>9 DEF CallbackFails
  <2>3. \A u \in Tasks : from'[u] = IF u = "live" THEN NoRead ELSE from[u]
    BY <2>2 DEF DeliveryInv, EventTypeOK, Tasks
  <2> QED  BY <2>1, <2>2, <2>3 DEF SkipInv, client
<1>10. CASE Connect
  <2>1. /\ conn' = "up" /\ sent' = cursor /\ wire' = << >> /\ UNCHANGED <<cursor, fill, garbles>>
        /\ \A u \in Tasks : from'[u] = NoRead
    BY <1>10 DEF Connect, ResumesAfter, Unread, bounds
  <2>2. GapFree(<< >>, cursor) /\ Covered(cursor, << >>, cursor)
    BY <1>t, EmptySeq DEF GapFree, Covered
  <2> QED  BY <2>1, <2>2 DEF SkipInv
<1>11. CASE TakeFrame
  <2> DEFINE e == Head(wire)
  <2>1. wire # << >> /\ wire' = Tail(wire) /\ fill = 0 /\ UNCHANGED <<server, conn, garbles>>
    BY <1>11 DEF TakeFrame, bounds
  <2>2. e \in Nat /\ wire[1] = e /\ Len(wire) \in Nat /\ Len(wire) # 0
    BY <1>t, <2>1, HeadTailProperties, LenProperties, EmptySeq
  <2>3. CASE garbles # 0  BY <2>1, <2>3 DEF SkipInv, NoSender, server
  <2>4. CASE garbles = 0
    <3>1. GapFree(wire, cursor)  BY <2>4 DEF SkipInv
    <3>2. e <= cursor + 1
      <4>1. 1 \in 1..Len(wire)  BY <2>2
      <4>2. \A j \in 1..(1 - 1) : FALSE  OBVIOUS
      <4> QED  BY <2>2, <3>1, <4>1, <4>2 DEF GapFree
    <3>3. /\ fill' = 0 /\ cursor' \in Nat /\ cursor' >= cursor /\ cursor' >= e
      BY <1>11, <1>t, <2>1, <2>2, <3>2 DEF TakeFrame, Known, Yields
    <3> HIDE DEF e
    <3>4. GapFree(Tail(wire), cursor')
          /\ \A n \in Nat : Covered(n, wire, cursor) => Covered(n, Tail(wire), cursor')
      BY <1>t, <2>1, <3>1, <3>3, TakingKeepsGapFree DEF e
    <3> QED  BY <1>t, <2>1, <2>4, <3>3, <3>4 DEF SkipInv, NoSender, server
  <2> QED  BY <2>3, <2>4
<1>12. CASE SkipFrame
  <2>1. garbles' # 0
    <3>1. garbles \in Nat  BY EventConstants DEF DeliveryInv, EventTypeOK
    <3> QED  BY <1>12, <3>1 DEF SkipFrame
  <2> QED  BY <1>12, <2>1 DEF SkipFrame, SkipInv, NoSender, server, client
<1>13. CASE Backfill
  BY <1>13 DEF Backfill, SkipInv, NoSender, server, bounds
<1>14. CASE BackfillFails \/ Abort
  <2>1. NoSender' /\ conn' # "up" /\ wire' = << >> /\ fill' = 0 /\ UNCHANGED cursor
    BY <1>14 DEF BackfillFails, Abort, TornDown, NoSender, Idle, Unread
  <2>2. GapFree(<< >>, cursor)  BY EmptySeq DEF GapFree
  <2> QED  BY <2>1, <2>2 DEF SkipInv
<1>15. CASE NoticeClose
  BY <1>15 DEF NoticeClose, SkipInv, NoSender, server, bounds
<1>16. CASE UNCHANGED vars
  BY <1>16 DEF vars, SkipInv, NoSender, server, client, bounds
<1> QED
  BY <1>1, <1>2, <1>3, <1>4, <1>5, <1>6, <1>7, <1>8, <1>9, <1>10, <1>11, <1>12,
     <1>13, <1>14, <1>15, <1>16
     DEF Next, ServerStep, ClientStep

\* Replay, drain and bus callback together send every event: a consumer that
\* can parse its frames never has a gap to fill (sse.ts, send).
THEOREM ResponseSkipsNothing == Spec => []ServerSkipsNothing
<1>1. Init => DeliveryInv /\ SkipInv
  <2> SUFFICES ASSUME Init PROVE DeliveryInv /\ SkipInv  OBVIOUS
  <2>1. DeliveryInv
    BY EventConstants DEF Init, DeliveryInv, EventTypeOK, Events, Idle, Unread
  <2>2. GapFree(wire, cursor)  BY EmptySeq DEF Init, GapFree
  <2> QED  BY <2>1, <2>2 DEF Init, SkipInv, NoSender
<1>2. DeliveryInv /\ SkipInv /\ [Next]_vars => (DeliveryInv /\ SkipInv)'
  BY DeliveryInvNext, SkipInvNext
<1>3. SkipInv => ServerSkipsNothing  BY DEF SkipInv, ServerSkipsNothing
<1> QED  BY <1>1, <1>2, <1>3, PTL DEF Spec
=============================================================================
