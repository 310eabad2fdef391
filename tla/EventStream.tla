----------------------------- MODULE EventStream -----------------------------
(***************************************************************************)
(* The live stream of one session's events, end to end: the writers that   *)
(* append to the durable log and publish on the bus                        *)
(* (packages/db/src/index.ts, packages/events/src/index.ts), the SSE       *)
(* response of the API (apps/api/src/http/sse.ts) and the consumer         *)
(* (packages/sdk/src/stream.ts).                                           *)
(*                                                                         *)
(* An event is its sequence number.  Appends take the session row's lock,  *)
(* so the log is contiguous and is its last number; the publish comes      *)
(* after the commit, outside the lock, so the batches of two writers reach *)
(* the bus in any order.                                                   *)
(***************************************************************************)
EXTENDS Integers, Sequences

CONSTANTS
  MaxEvents,  \* bound: events appended
  MaxBatch,   \* bound: events of one append
  PageSize,   \* replaySessionEvents' page size (1000 in the code)
  MaxFaults,  \* bound: lost publishes, lost connections, failed reads
  MaxGarbles  \* bound: frames the consumer cannot parse

ASSUME EventConstants ==
  /\ MaxEvents \in Nat
  /\ MaxBatch \in Nat \ {0}
  /\ PageSize \in Nat \ {0}
  /\ MaxFaults \in Nat
  /\ MaxGarbles \in Nat

(* The two tasks of one SSE response that call send: the start task, which *)
(* drains what was buffered during the replay, and the bus callback.       *)
Tasks == {"drain", "live"}

NoRead == -1   \* the task has no gap read in flight

VARIABLES
  log,        \* last sequence of the durable log (sessions.last_sequence)
  unpub,      \* batches committed and not yet published
  sub,        \* the API's subscription: "off", "asked", "on" or "dead"
  queue,      \* batches the bus holds for the subscription
  replay,     \* the response's replay of the log: "reading", "read" or "over"
  buffered,   \* events that arrived during the replay
  sent,       \* lastSent of the response
  todo,       \* per task, the events it has yet to send
  from,       \* per task, the lastSent its gap read started from, or NoRead
  wire,       \* frames on their way to the consumer
  conn,       \* the consumer: "idle", "up", "broken" or "stopped"
  cursor,     \* the consumer's cursor
  fill,       \* the event whose gap the consumer is filling, or 0
  out,        \* what the consumer was given
  faults,     \* faults so far
  garbles     \* unparsable frames so far

bus == <<log, unpub>>
server == <<sub, queue, replay, buffered, sent, todo, from>>
client == <<conn, cursor, fill, out>>
bounds == <<faults, garbles>>
vars == <<bus, server, wire, client, bounds>>

Idle == [t \in Tasks |-> {}]
Unread == [t \in Tasks |-> NoRead]

Init ==
  /\ log = 0
  /\ unpub = {}
  /\ sub = "off"
  /\ queue = << >>
  /\ replay = "over"
  /\ buffered = {}
  /\ sent = 0
  /\ todo = Idle
  /\ from = Unread
  /\ wire = << >>
  /\ conn = "idle"
  /\ cursor = 0
  /\ fill = 0
  /\ out = << >>
  /\ faults = 0
  /\ garbles = 0

(* The events after a up to b, in order: listSessionEvents(after a). *)
After(a, b) == [i \in 1..(b - a) |-> a + i]

------------------------------------------------------------------------------
(* The writers and the bus *)

(* Mutant: the batch is announced with one sequence too many. *)
AnnounceOneMore ==
  \E k \in 1..MaxBatch :
    /\ log + k <= MaxEvents
    /\ log' = log + k
    /\ unpub' = unpub \union {(log + 1)..(log + k + 1)}
    /\ UNCHANGED <<server, wire, client, bounds>>

(* Sequences are given out under the session row's lock. *)
AppendEvents ==
  \E k \in 1..MaxBatch :
    /\ log + k <= MaxEvents
    /\ log' = log + k
    /\ unpub' = unpub \union {(log + 1)..(log + k)}
    /\ UNCHANGED <<server, wire, client, bounds>>

(* A subscription the broker does not know of yet gets nothing. *)
PublishBatch(b) ==
  /\ unpub' = unpub \ {b}
  /\ queue' = IF sub = "on" THEN Append(queue, b) ELSE queue
  /\ UNCHANGED <<log, sub, replay, buffered, sent, todo, from, wire, client, bounds>>

Publish == \E b \in unpub : PublishBatch(b)

(* The writer dies between its commit and its publish, or the publish is   *)
(* dropped on the way: best effort, the writer carries on.                 *)
LosePublish ==
  /\ faults < MaxFaults
  /\ faults' = faults + 1
  /\ \E b \in unpub : unpub' = unpub \ {b}
  /\ UNCHANGED <<log, server, wire, client, garbles>>

------------------------------------------------------------------------------
(* The SSE response *)

(* bus.subscribe resolves before the broker has the subscription. *)
SubscriptionTakes ==
  /\ sub = "asked"
  /\ sub' = "on"
  /\ UNCHANGED <<bus, queue, replay, buffered, sent, todo, from, wire, client, bounds>>

(* One page of the replay, read and sent.  A short page is the last one. *)
ReplayPage ==
  LET last == IF log < sent + PageSize THEN log ELSE sent + PageSize
  IN /\ replay = "reading"
     /\ wire' = wire \o After(sent, last)
     /\ sent' = last
     /\ replay' = IF last < sent + PageSize THEN "read" ELSE "reading"
     /\ UNCHANGED <<bus, sub, queue, buffered, todo, from, client, bounds>>

(* Mutant: what was buffered during the replay is thrown away. *)
ForgetBuffered ==
  /\ replay = "read"
  /\ replay' = "over"
  /\ buffered' = {}
  /\ UNCHANGED <<bus, sub, queue, sent, todo, from, wire, client, bounds>>

(* The replay is over; what the callback buffered up to here, after the    *)
(* last page was read too, is drained.                                     *)
EndReplay ==
  /\ replay = "read"
  /\ replay' = "over"
  /\ todo' = [todo EXCEPT !["drain"] = buffered]
  /\ buffered' = {}
  /\ UNCHANGED <<bus, sub, queue, sent, from, wire, client, bounds>>

(* The subscription's loop takes one message at a time and waits for the   *)
(* callback to finish with it.                                             *)
Callback ==
  /\ sub = "on"
  /\ queue # << >>
  /\ todo["live"] = {}
  /\ queue' = Tail(queue)
  /\ IF replay # "over"
       THEN /\ buffered' = buffered \union Head(queue)
            /\ UNCHANGED todo
       ELSE /\ todo' = [todo EXCEPT !["live"] = Head(queue)]
            /\ UNCHANGED buffered
  /\ UNCHANGED <<bus, sub, replay, sent, from, wire, client, bounds>>

IsFirst(e, S) == e \in S /\ \A f \in S : e <= f

(* send(event), up to its first await: a known event is dropped, the next  *)
(* one is sent, and a gap starts a read of the log.                        *)
SendNext(t) == \E e \in todo[t] :
  /\ IsFirst(e, todo[t])
  /\ from[t] = NoRead
  /\ IF e > sent + 1
       THEN /\ from' = [from EXCEPT ![t] = sent]
            /\ UNCHANGED <<wire, sent, todo>>
       ELSE /\ wire' = IF e = sent + 1 THEN Append(wire, e) ELSE wire
            /\ sent' = IF e = sent + 1 THEN e ELSE sent
            /\ todo' = [todo EXCEPT ![t] = @ \ {e}]
            /\ UNCHANGED from
  /\ UNCHANGED <<bus, sub, queue, replay, buffered, client, bounds>>

(* Mutant: the last of the missing events is left out. *)
GapFilledShort(t) == \E e \in todo[t] :
  /\ IsFirst(e, todo[t])
  /\ from[t] # NoRead
  /\ wire' = wire \o After(IF from[t] > sent THEN from[t] ELSE sent, e - 2) \o <<e>>
  /\ sent' = e
  /\ todo' = [todo EXCEPT ![t] = @ \ {e}]
  /\ from' = [from EXCEPT ![t] = NoRead]
  /\ UNCHANGED <<bus, sub, queue, replay, buffered, client, bounds>>

(* send(event) after its read: the missing events the other task has not   *)
(* sent meanwhile, then the event itself whatever lastSent is by now.      *)
GapFilled(t) == \E e \in todo[t] :
  /\ IsFirst(e, todo[t])
  /\ from[t] # NoRead
  /\ wire' = wire \o After(IF from[t] > sent THEN from[t] ELSE sent, e - 1) \o <<e>>
  /\ sent' = e
  /\ todo' = [todo EXCEPT ![t] = @ \ {e}]
  /\ from' = [from EXCEPT ![t] = NoRead]
  /\ UNCHANGED <<bus, sub, queue, replay, buffered, client, bounds>>

(* The response is gone: its subscription ends and nothing is left of it. *)
TornDown ==
  /\ sub' = "off"
  /\ queue' = << >>
  /\ replay' = "over"
  /\ buffered' = {}
  /\ todo' = Idle
  /\ from' = Unread
  /\ UNCHANGED sent

(* The connection ends: a proxy or the server closes it, the process dies, *)
(* or a read of the start task fails and errors the stream.  What had not  *)
(* reached the consumer is lost.                                           *)
LoseConnection ==
  /\ conn = "up"
  /\ faults < MaxFaults
  /\ faults' = faults + 1
  /\ conn' = "broken"
  /\ \E n \in 0..Len(wire) : wire' = SubSeq(wire, 1, n)
  /\ TornDown
  /\ UNCHANGED <<bus, cursor, fill, out, garbles>>

(* The gap read of the callback fails.  Nobody handles the rejection: it   *)
(* ends the subscription's loop, and the response stays open.  (Where it   *)
(* ends the process instead, that is LoseConnection.)                      *)
CallbackFails ==
  /\ from["live"] # NoRead
  /\ faults < MaxFaults
  /\ faults' = faults + 1
  /\ sub' = "dead"
  /\ queue' = << >>
  /\ todo' = [todo EXCEPT !["live"] = {}]
  /\ from' = [from EXCEPT !["live"] = NoRead]
  /\ UNCHANGED <<bus, replay, buffered, sent, wire, client, garbles>>

------------------------------------------------------------------------------
(* The consumer: streamSessionEvents *)

(* Every attempt resumes after the cursor. *)
ResumesAfter == cursor

Connect ==
  /\ conn = "idle"
  /\ conn' = "up"
  /\ sub' = "asked"
  /\ queue' = << >>
  /\ replay' = "reading"
  /\ buffered' = {}
  /\ sent' = ResumesAfter
  /\ todo' = Idle
  /\ from' = Unread
  /\ wire' = << >>
  /\ UNCHANGED <<bus, cursor, fill, out, bounds>>

Yields(e) ==
  /\ cursor' = e
  /\ out' = Append(out, e)

(* What the cursor has passed is dropped: replay overlap, and what the two *)
(* tasks of the response sent twice.                                       *)
Known(e) == e <= cursor

(* One frame: known, next, or beyond a gap that has to be filled first. *)
TakeFrame ==
  LET e == Head(wire) IN
  /\ wire # << >>
  /\ conn \in {"up", "broken"}
  /\ fill = 0
  /\ wire' = Tail(wire)
  /\ IF Known(e) THEN UNCHANGED <<cursor, out, fill>>
     ELSE IF e > cursor + 1 THEN fill' = e /\ UNCHANGED <<cursor, out>>
     ELSE Yields(e) /\ UNCHANGED fill
  /\ UNCHANGED <<bus, server, conn, bounds>>

(* A frame that does not parse is skipped. *)
SkipFrame ==
  /\ wire # << >>
  /\ conn \in {"up", "broken"}
  /\ fill = 0
  /\ garbles < MaxGarbles
  /\ garbles' = garbles + 1
  /\ wire' = Tail(wire)
  /\ UNCHANGED <<bus, server, client, faults>>

(* Mutant: the event beyond the gap is given out before what is missing. *)
BackfillLater ==
  /\ fill # 0
  /\ conn \in {"up", "broken"}
  /\ Yields(fill)
  /\ fill' = 0
  /\ UNCHANGED <<bus, server, wire, conn, bounds>>

(* backfillEvents: the next durable event, until the one that showed the   *)
(* gap has been given out too.                                             *)
Backfill ==
  /\ fill # 0
  /\ conn \in {"up", "broken"}
  /\ cursor + 1 <= log
  /\ Yields(cursor + 1)
  /\ fill' = IF cursor + 1 = fill THEN 0 ELSE fill
  /\ UNCHANGED <<bus, server, wire, conn, bounds>>

(* A page of the backfill fails: the generator leaves the response, which  *)
(* cancels it, and reconnects.                                             *)
BackfillFails ==
  /\ fill # 0
  /\ conn \in {"up", "broken"}
  /\ faults < MaxFaults
  /\ faults' = faults + 1
  /\ fill' = 0
  /\ conn' = "idle"
  /\ wire' = << >>
  /\ TornDown
  /\ UNCHANGED <<bus, cursor, out, garbles>>

(* The end of the body, after every frame that did arrive. *)
NoticeClose ==
  /\ conn = "broken"
  /\ wire = << >>
  /\ fill = 0
  /\ conn' = "idle"
  /\ UNCHANGED <<bus, server, wire, cursor, fill, out, bounds>>

(* The consumer aborts: nothing more is yielded. *)
Abort ==
  /\ conn # "stopped"
  /\ conn' = "stopped"
  /\ wire' = << >>
  /\ fill' = 0
  /\ TornDown
  /\ UNCHANGED <<bus, cursor, out, bounds>>

------------------------------------------------------------------------------
ServerStep ==
  \/ SubscriptionTakes
  \/ ReplayPage
  \/ EndReplay
  \/ Callback
  \/ \E t \in Tasks : SendNext(t) \/ GapFilled(t)

ClientStep == Connect \/ TakeFrame \/ Backfill \/ NoticeClose

Next ==
  \/ AppendEvents
  \/ Publish
  \/ ServerStep
  \/ ClientStep
  \/ SkipFrame
  \/ LosePublish
  \/ LoseConnection
  \/ CallbackFails
  \/ BackfillFails
  \/ Abort

Spec == Init /\ [][Next]_vars

(* The API's event loop runs every task that can run, the consumer keeps   *)
(* reading and reconnects without a limit, which is its default.  Nothing  *)
(* is assumed of the writers.                                              *)
Fairness ==
  /\ WF_vars(SubscriptionTakes)
  /\ WF_vars(ReplayPage)
  /\ WF_vars(EndReplay)
  /\ WF_vars(Callback)
  /\ \A t \in Tasks : WF_vars(SendNext(t)) /\ WF_vars(GapFilled(t))
  /\ WF_vars(ClientStep)

FairSpec == Spec /\ Fairness

------------------------------------------------------------------------------
(* Properties *)

Events == 1..log

(* Types.  Every event that is announced, queued, buffered, about to be    *)
(* sent, on the wire or being filled up to is in the durable log already:  *)
(* the append commits before the publish (events/src/index.ts, the comment *)
(* in appendAndPublishEvents).                                             *)
EventTypeOK ==
  /\ log \in 0..MaxEvents
  /\ unpub \subseteq SUBSET Events
  /\ sub \in {"off", "asked", "on", "dead"}
  /\ queue \in Seq(SUBSET Events)
  /\ replay \in {"reading", "read", "over"}
  /\ buffered \subseteq Events
  /\ sent \in 0..log
  /\ todo \in [Tasks -> SUBSET Events]
  /\ from \in [Tasks -> 0..log \union {NoRead}]
  /\ wire \in Seq(Events)
  /\ conn \in {"idle", "up", "broken", "stopped"}
  /\ cursor \in 0..log
  /\ fill \in 0..log
  /\ out \in Seq(Nat)
  /\ faults \in 0..MaxFaults
  /\ garbles \in 0..MaxGarbles

(* The two tasks of a response, which share lastSent and may both wait for *)
(* a gap read, send some events twice and set lastSent back, but never     *)
(* leave one out: as long as every frame parses, the consumer never sees a *)
(* gap (sse.ts, send).                                                     *)
ServerSkipsNothing == garbles = 0 => fill = 0

Delivery == INSTANCE EventDelivery

(* The whole stream, with its lost publishes, overlapping replays, double  *)
(* sends and reconnects, gives the consumer each durable event once, in    *)
(* order and without a gap (stream.ts, "exactly-once, in-order delivery"). *)
ImplementsDelivery == Delivery!DeliverySpec

(* The response has event n or a later one on its way, or will read it in  *)
(* its replay, or the consumer has yet to reconnect.                       *)
Owed(n) ==
  /\ n <= log
  /\ \/ replay = "reading"
     \/ conn \in {"idle", "broken"}
     \/ \E m \in n..log :
          \/ \E i \in 1..Len(queue) : m \in queue[i]
          \/ m \in buffered \union todo["drain"] \union todo["live"]
          \/ \E i \in 1..Len(wire) : wire[i] = m

Excused == conn = "stopped" \/ sub = "dead" \/ garbles > 0

(* An event that was durable when the consumer connected, or that any      *)
(* later announcement reached the response for, is given to the consumer,  *)
(* however the connection fails meanwhile; the exceptions are a consumer   *)
(* that stopped and a callback whose read failed.  (An announcement that   *)
(* was lost, or came before the broker knew of the subscription, is owed   *)
(* only by the next one or by a reconnect.)                                *)
StreamHeals ==
  \A n \in 1..MaxEvents : Owed(n) ~> (Len(out) >= n \/ Excused)
=============================================================================
