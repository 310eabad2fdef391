------------------------------ MODULE OpStream ------------------------------
(***************************************************************************)
(* A command on a connected machine over the op-stream protocol: the       *)
(* consumer in the turn's worker, the runner's registry and job pump, and  *)
(* the lossy messages between them.  One op id; a later attempt of the     *)
(* turn asks for the same id under a higher attach generation.             *)
(*                                                                         *)
(* Every handler of the runner is one step (its mutexes and the pump's     *)
(* single task), every callback of the consumer is one step.  Payload is   *)
(* counted in chunks: a data or exit frame is one, a progress frame none.  *)
(***************************************************************************)
EXTENDS Naturals, Sequences, FiniteSets, SequencesExt

CONSTANTS
  MaxAttempts,  \* attempts of the turn (model bound)
  MaxData,      \* chunks the command prints (model bound)
  Window,       \* send-credit window granted by the consumer
  Quota,        \* what the runner retains for one op
  MaxTicks,     \* progress frames of a run (model bound)
  MaxFaults     \* losses of a message or a connection, and restarts of the runner (model bound)

ASSUME OpBounds ==
  /\ MaxAttempts \in Nat \ {0} /\ MaxData \in Nat /\ Window \in Nat \ {0}
  /\ Quota \in Nat /\ MaxTicks \in Nat /\ MaxFaults \in Nat

Attempts == 1 .. MaxAttempts

VARIABLES
  reg,       \* the registry entry: [st, acked]
  pump,      \* the job: [run, log, floor, gen, on, window, sent, unacked, exit, route]
  child,     \* the process: [st, pipe, printed]
  wire,      \* frames under way to each subscriber, in the order published: [run, seq, kind]
  acks,      \* OpAck messages under way: [gen, seq, credit, final]
  reqs,      \* OpStart and OpAttach requests under way: [op, a, from]
  con,       \* the consumers by attempt: [pc, got, stash]
  cur,       \* the attempt that the workflow waits for
  durable,   \* the tool result is in the conversation history
  losses, restarts,
  runs,      \* history: spawns of the command
  finished   \* history: the runs that ended by themselves, with their output

runner == <<reg, pump, child, runs, finished>>
net == <<wire, acks, reqs>>
vars == <<reg, pump, child, wire, acks, reqs, con, cur, durable, losses, restarts, runs, finished>>

NoPump == [run |-> 0, log |-> <<>>, floor |-> 0, gen |-> 0, on |-> FALSE, window |-> 0,
           sent |-> 0, unacked |-> 0, exit |-> 0, route |-> FALSE]
NoChild == [st |-> "none", pipe |-> 0, printed |-> 0]

Init ==
  /\ reg = [st |-> "unknown", acked |-> FALSE]
  /\ pump = NoPump /\ child = NoChild
  /\ wire = [a \in Attempts |-> <<>>] /\ acks = {} /\ reqs = {[op |-> "start", a |-> 1, from |-> 0]}
  /\ con = [a \in Attempts |-> [pc |-> IF a = 1 THEN "starting" ELSE "idle", got |-> <<>>, stash |-> {}]]
  /\ cur = 1 /\ durable = FALSE
  /\ losses = 0 /\ restarts = 0 /\ runs = 0 /\ finished = {}

-----------------------------------------------------------------------------
(* The pump's engine: CreditFlow and RetentionLog *)

Payload(kind) == IF kind = "progress" THEN 0 ELSE 1
PayloadIn(p, i, j) == Cardinality({k \in (i + 1) .. j : p.log[k] # "progress"})

\* record_cost: a data frame is large against the others.
Cost(kind) == IF kind = "data" THEN 2 ELSE 1
Retained(p) == FoldLeft(LAMBDA sum, kind : sum + Cost(kind), 0, SubSeq(p.log, p.floor + 1, Len(p.log)))
Fits(p, kind) == Retained(p) + Cost(kind) <= Quota

Allowance(p) == IF p.on /\ p.window > p.unacked THEN p.window - p.unacked ELSE 0
MaySend(p, kind) == p.on /\ (kind = "progress" \/ p.unacked + Payload(kind) <= p.window)
High(p) == Len(p.log)

Subscribed(a) == con[a].pc \in {"starting", "attaching", "stream"}

\* The emit hook: a frame reaches whoever is subscribed when it is published.
Published(p, i, j) ==
  LET frames == [k \in 1 .. (j - i) |-> [run |-> p.run, seq |-> i + k, kind |-> p.log[i + k]]] IN
  wire' = [a \in Attempts |-> IF Subscribed(a) THEN wire[a] \o frames ELSE wire[a]]

\* catch_up: retained and unsent frames in order, until the allowance is used.
SendsTo(p) ==
  LET from == IF p.sent > p.floor THEN p.sent ELSE p.floor
      full == {n \in from .. High(p) : PayloadIn(p, from, n) = Allowance(p)}
  IN IF Allowance(p) = 0 \/ from >= High(p) THEN p.sent
     ELSE IF full = {} THEN High(p)
     ELSE CHOOSE n \in full : \A m \in full : n <= m

CaughtUp(p) ==
  LET to == SendsTo(p) IN
  [p EXCEPT !.sent = to, !.unacked = @ + PayloadIn(p, p.sent, to)]

Publishes(p) == Published(p, p.sent, SendsTo(p))

\* append_and_send: retained first, sent at once only when attached, caught up and in credit.
Appended(p, kind) == [p EXCEPT !.log = Append(@, kind)]
Live(p, kind) == p.sent = High(p) /\ MaySend(p, kind)
AppendSend(p, kind) ==
  IF Live(p, kind)
  THEN LET q == [Appended(p, kind) EXCEPT !.sent = @ + 1, !.unacked = @ + Payload(kind)] IN
       pump' = q /\ Published(q, p.sent, q.sent)
  ELSE pump' = Appended(p, kind) /\ UNCHANGED wire

-----------------------------------------------------------------------------
(* The job: Pump::run *)

MayRead ==
  IF child.st = "running" /\ pump.on THEN pump.sent >= High(pump) /\ Allowance(pump) > 0
  ELSE Fits(pump, "data")

Pumping == reg.st = "running" /\ pump.exit = 0

\* Retention is exhausted: the job fails, its process is killed and its pipes are dropped.
Overflow == child' = [child EXCEPT !.st = "failed", !.pipe = 0]

\* A chunk from the pipe; a process that is not read from blocks.
Read ==
  /\ Pumping /\ MayRead
  /\ \/ child.st = "running" /\ child.printed < MaxData
     \/ child.st = "exited" /\ child.pipe = 1
  /\ IF Fits(pump, "data")
     THEN AppendSend(pump, "data") /\ child' = [child EXCEPT !.pipe = 0, !.printed = @ + 1]
     ELSE Overflow /\ UNCHANGED <<pump, wire>>
  /\ UNCHANGED <<reg, runs, finished, acks, reqs, con, cur, durable, losses, restarts>>

\* Five seconds of data silence.
ProgressTick ==
  /\ Pumping /\ child.st # "failed"
  /\ Cardinality({k \in DOMAIN pump.log : pump.log[k] = "progress"}) < MaxTicks
  /\ IF Fits(pump, "progress") THEN AppendSend(pump, "progress") /\ UNCHANGED child
     ELSE Overflow /\ UNCHANGED <<pump, wire>>
  /\ UNCHANGED <<reg, runs, finished, acks, reqs, con, cur, durable, losses, restarts>>

\* The process ends by itself (or at its deadline), perhaps with output left in its pipe.
ChildExits ==
  /\ child.st = "running"
  /\ \E left \in 0 .. 1 : child.printed + left <= MaxData /\ child' = [child EXCEPT !.st = "exited", !.pipe = left]
  /\ UNCHANGED <<reg, pump, runs, finished, net, con, cur, durable, losses, restarts>>

\* The end of the pipes is read like data (a failure drops them), then finish: the exit
\* frame, if it can be retained, and registry.complete.
Finish ==
  /\ Pumping /\ child.pipe = 0
  /\ \/ child.st = "exited" /\ MayRead
     \/ child.st = "failed"
  /\ LET kind == IF child.st = "exited" THEN "exit" ELSE "failed" IN
       IF Fits(pump, "exit")
       THEN AppendSend([pump EXCEPT !.exit = High(pump) + 1], kind)
       ELSE UNCHANGED <<pump, wire>>
  /\ reg' = [reg EXCEPT !.st = "complete"]
  /\ finished' = IF child.st = "exited" THEN finished \cup {<<pump.run, child.printed>>} ELSE finished
  /\ child' = [child EXCEPT !.printed = 0]
  /\ UNCHANGED <<runs, acks, reqs, con, cur, durable, losses, restarts>>

-----------------------------------------------------------------------------
(* The runner's handlers *)

Generation(a) == a + 1
ConPc(a, pc) == con' = [con EXCEPT ![a].pc = pc]
Fails(a) == con' = [con EXCEPT ![a] = [pc |-> "failed", got |-> <<>>, stash |-> {}]]

\* teardown: the subscription ends.
Teardown(a) == wire' = [wire EXCEPT ![a] = <<>>]

\* The reply of a handler; a lost one leaves the consumer to its timeout.
Replied(a, waits, effect) ==
  \/ con[a].pc = waits /\ effect /\ UNCHANGED losses
  \/ con[a].pc = waits /\ losses + restarts < MaxFaults /\ losses' = losses + 1 /\ UNCHANGED con
  \/ con[a].pc # waits /\ UNCHANGED <<con, losses>>

Request(op, a) == [op |-> op, a |-> a, from |-> Len(con[a].got)]

\* An accepted start is followed by the first attach, which is sent once.
StartReply(r, accepted) ==
  /\ Replied(r.a, "starting", IF accepted THEN ConPc(r.a, "attaching") ELSE Fails(r.a))
  /\ reqs' = (reqs \ {r}) \cup (IF con'[r.a].pc = "attaching" /\ con[r.a].pc = "starting"
                                THEN {Request("attach", r.a)} ELSE {})

\* serve_op_start: only an unknown id is run; the runner attaches generation 1 itself.
ServeStart(r) ==
  /\ r \in reqs /\ r.op = "start"
  /\ \/ /\ reg.st = "unknown"
        /\ reg' = [st |-> "running", acked |-> FALSE]
        /\ pump' = [NoPump EXCEPT !.run = runs + 1, !.gen = 1, !.on = TRUE,
                                  !.window = Window, !.route = TRUE]
        /\ child' = [NoChild EXCEPT !.st = "running"]
        /\ runs' = runs + 1
        /\ StartReply(r, TRUE)
     \/ /\ reg.st \in {"running", "complete"}
        /\ StartReply(r, TRUE)
        /\ UNCHANGED <<reg, pump, child, runs>>
     \/ /\ reg.st = "unknown"       \* the process cannot be spawned
        /\ reg' = [st |-> "complete", acked |-> TRUE]
        /\ pump' = NoPump /\ child' = NoChild
        /\ StartReply(r, FALSE)
        /\ UNCHANGED runs
     \/ /\ reg.st = "lost"
        /\ StartReply(r, FALSE)
        /\ UNCHANGED <<reg, pump, child, runs>>
  /\ UNCHANGED <<finished, wire, acks, cur, durable, restarts>>

\* CreditFlow::attach refuses a lower generation than it has seen.
AttachApplies(r) == pump.route /\ Generation(r.a) >= pump.gen

\* Mutant: the offset is taken as asked.
ResumesAnywhere(r) == r.from
\* apply_attach: never ahead of what there is.
ResumesAt(r) == IF r.from <= High(pump) THEN r.from ELSE High(pump)

\* serve_op_attach, then catch_up under the fresh window; the reply is the op's status.
ServeAttach(r) ==
  /\ r \in reqs /\ r.op \in {"attach", "heal"}
  /\ reqs' = reqs \ {r}
  /\ IF AttachApplies(r)
     THEN LET p == [pump EXCEPT !.gen = Generation(r.a), !.on = TRUE, !.window = Window,
                                !.sent = ResumesAt(r), !.unacked = 0]
          IN pump' = CaughtUp(p) /\ Publishes(p)
     ELSE UNCHANGED <<pump, wire>>
  /\ IF reg.st \in {"unknown", "lost"}
     THEN Replied(r.a, IF r.op = "heal" THEN "stream" ELSE "attaching", Fails(r.a))
     ELSE Replied(r.a, "attaching", ConPc(r.a, "stream"))
  /\ UNCHANGED <<reg, child, runs, finished, acks, cur, durable, restarts>>

\* CreditFlow::on_ack takes only the exact current generation.
AckApplies(k) == pump.route /\ k.gen = pump.gen

\* handle_op_ack: credit, floor and catch_up; a final ack that covers the exit ends the job.
ServeAck(k) ==
  /\ k \in acks
  /\ acks' = acks \ {k}
  /\ IF AckApplies(k)
     THEN LET upper == IF k.seq < pump.sent THEN k.seq ELSE pump.sent
              freed == PayloadIn(pump, pump.floor, upper)
              high == IF k.seq < High(pump) THEN k.seq ELSE High(pump)
              p == [pump EXCEPT !.window = k.credit, !.unacked = IF @ > freed THEN @ - freed ELSE 0,
                                !.floor = IF high > @ THEN high ELSE @]
              over == k.final /\ reg.st = "complete"
                      /\ k.seq >= (IF pump.exit # 0 THEN pump.exit ELSE High(pump))
          IN /\ pump' = IF over THEN NoPump ELSE CaughtUp(p)
             /\ Publishes(p)
             /\ reg' = IF over THEN [reg EXCEPT !.acked = TRUE] ELSE reg
     ELSE UNCHANGED <<pump, reg, wire>>
  /\ UNCHANGED <<child, runs, finished, reqs, con, cur, durable, losses, restarts>>

\* Mutant: an op over its time is forgotten like a collected one.
ForgottenAlways(acked) == "unknown"
ForgottenAs(acked) == IF acked THEN "unknown" ELSE "lost"

\* OpRegistry::gc: a collected op is forgotten, one over its time is marked lost.
Gc ==
  /\ reg.st = "complete"
  /\ reg' = [st |-> ForgottenAs(reg.acked), acked |-> FALSE]
  /\ pump' = NoPump
  /\ UNCHANGED <<child, runs, finished, net, con, cur, durable, losses, restarts>>

\* The agent process restarts: its children die and the registry is empty.  Frames that had
\* not arrived die with it, and nobody receives what is under way to it.
Restart ==
  /\ losses + restarts < MaxFaults
  /\ restarts' = restarts + 1
  /\ reg' = [st |-> "unknown", acked |-> FALSE]
  /\ pump' = NoPump /\ child' = NoChild
  /\ wire' = [a \in Attempts |-> <<>>] /\ acks' = {} /\ reqs' = {}
  /\ UNCHANGED <<runs, finished, con, cur, durable, losses>>

-----------------------------------------------------------------------------
(* The consumer: OpConsumer *)

\* OpStart again after a lost one: its request id is the op id.
SendStart(a) ==
  /\ con[a].pc = "starting" /\ \A r \in reqs : r.a # a
  /\ reqs' = reqs \cup {Request("start", a)}
  /\ UNCHANGED <<runner, wire, acks, con, cur, durable, losses, restarts>>

Healing(a) == \E r \in reqs : r.op = "heal" /\ r.a = a

\* requestAttachHeal: one re-attach in flight at a time.
Heal(a) == reqs' = IF Healing(a) THEN reqs ELSE reqs \cup {Request("heal", a)}

Entry(f) == [run |-> f.run, kind |-> f.kind]
FrameAt(fs, n) == CHOOSE f \in fs : f.seq = n

\* The stashed frames that continue what is applied.
Continuation(n, stash) ==
  LET upto(m) == \A i \in (n + 1) .. m : \E f \in stash : f.seq = i
      last == CHOOSE m \in n .. (n + Cardinality(stash)) :
                upto(m) /\ \A q \in (m + 1) .. (n + Cardinality(stash)) : ~ upto(q)
  IN [i \in 1 .. (last - n) |-> Entry(FrameAt(stash, n + i))]

\* onFramePayload: apply in order, stash what is ahead and ask for the gap, drop the rest.
Deliver(a) ==
  LET c == con[a]
      f == Head(wire[a])
      n == Len(c.got)
      held == {g \in c.stash : g.seq # f.seq}
  IN
  /\ Subscribed(a) /\ wire[a] # <<>>
  /\ IF f.seq = n + 1
     THEN LET rest == Continuation(n + 1, held) IN
          /\ con' = [con EXCEPT ![a].got = (c.got \o <<Entry(f)>>) \o rest,
                                ![a].stash = {g \in held : g.seq > n + 1 + Len(rest)}]
          /\ UNCHANGED reqs
     ELSE IF f.seq > n + 1
     THEN con' = [con EXCEPT ![a].stash = held \cup {f}] /\ Heal(a)
     ELSE UNCHANGED <<con, reqs>>
  /\ wire' = [wire EXCEPT ![a] = Tail(@)]
  /\ UNCHANGED <<runner, acks, cur, durable, losses, restarts>>

\* The exit record applied last.
Exits(a) == {i \in DOMAIN con[a].got : con[a].got[i].kind \in {"exit", "failed"}}
Exited(a) == Exits(a) # {}
ExitOf(a) == con[a].got[CHOOSE i \in Exits(a) : \A j \in Exits(a) : j <= i]

\* The subscription waits for frames (an applied exit settles it at once).
Streaming(a) == con[a].pc = "stream" /\ ~ Exited(a)

Received(a) == Cardinality({i \in DOMAIN con[a].got : con[a].got[i].kind = "data"})

\* Mutant: the credit ack also collects.
AckWhatIsApplied(a) == [gen |-> Generation(a), seq |-> Len(con[a].got), credit |-> Received(a) + Window, final |-> FALSE]
\* sendAck: credit only; the frames stay retained for a later attempt.
CreditAck(a) == [gen |-> Generation(a), seq |-> 0, credit |-> Received(a) + Window, final |-> FALSE]

SendAck(a) ==
  /\ Streaming(a) /\ CreditAck(a) \notin acks
  /\ pump.window # CreditAck(a).credit     \* a repetition changes nothing
  /\ acks' = acks \cup {CreditAck(a)}
  /\ UNCHANGED <<runner, wire, reqs, con, cur, durable, losses, restarts>>

\* Mutant: the probe asks for no frames.
ProbeForLossOnly(a) ==
  /\ Streaming(a) /\ wire[a] = <<>> /\ reg.st \in {"unknown", "lost"}
  /\ Fails(a)
  /\ UNCHANGED <<runner, net, cur, durable, losses, restarts>>

\* probeSilence, when nothing arrives: an answer that the op is gone fails it, frames ahead are asked for.
Probe(a) ==
  /\ Streaming(a) /\ wire[a] = <<>>
  /\ IF reg.st \in {"unknown", "lost"} THEN Fails(a) /\ UNCHANGED reqs
     ELSE High(pump) > Len(con[a].got) /\ ~ Healing(a) /\ Heal(a) /\ UNCHANGED con
  /\ UNCHANGED <<runner, wire, acks, cur, durable, losses, restarts>>

\* verifyByteExact: totals and digests of what was put together against the exit record.
ByteExact(got, out) ==
  /\ Cardinality({i \in DOMAIN got : got[i].kind = "data"}) = out[2]
  /\ \A i \in DOMAIN got : got[i].kind = "data" => got[i].run = out[1]

Output(a) == CHOOSE o \in finished : o[1] = ExitOf(a).run

Settle(a) ==
  /\ con[a].pc = "stream" /\ Exited(a)
  /\ IF ExitOf(a).kind = "exit" /\ ByteExact(con[a].got, Output(a))
     THEN con' = [con EXCEPT ![a].pc = "settled", ![a].stash = {}] ELSE Fails(a)
  /\ Teardown(a)
  /\ UNCHANGED <<runner, acks, reqs, cur, durable, losses, restarts>>

\* The wall, the reconnect hold or the retries are over.
GiveUp(a) ==
  /\ Streaming(a) \/ con[a].pc \in {"starting", "attaching"}
  /\ Fails(a) /\ Teardown(a)
  /\ UNCHANGED <<runner, acks, reqs, cur, durable, losses, restarts>>

-----------------------------------------------------------------------------
(* The turn around the consumer *)

\* reconcileConversationTruth: a later attempt will not repeat the call.
Record(a) ==
  /\ con[a].pc \in {"settled", "failed"} /\ (con[a].pc = "failed" => ~ durable)
  /\ durable' = TRUE
  /\ IF con[a].pc = "settled" THEN ConPc(a, "recorded") ELSE UNCHANGED con
  /\ UNCHANGED <<runner, net, cur, losses, restarts>>

\* finalizeSettledOps, after the result is durable.
FinalAck(a) ==
  /\ con[a].pc = "recorded"
  /\ acks' = acks \cup {[gen |-> Generation(a), seq |-> Len(con[a].got), credit |-> 0, final |-> TRUE]}
  /\ ConPc(a, "done")
  /\ UNCHANGED <<runner, wire, reqs, cur, durable, losses, restarts>>

\* The worker dies or only seems to; the next attempt makes the same call again.
Redispatch ==
  /\ cur < MaxAttempts /\ ~ durable
  /\ cur' = cur + 1
  /\ con' = [con EXCEPT ![cur + 1].pc = "starting"]
  /\ reqs' = reqs \cup {Request("start", cur + 1)}
  /\ UNCHANGED <<runner, wire, acks, durable, losses, restarts>>

-----------------------------------------------------------------------------
(* Losses: a frame, an ack or a request is dropped; a lost connection detaches *)

Lose ==
  /\ losses + restarts < MaxFaults
  /\ losses' = losses + 1
  /\ \/ \E a \in Attempts : \E i \in DOMAIN wire[a] :
          wire' = [wire EXCEPT ![a] = RemoveAt(@, i)] /\ UNCHANGED <<acks, reqs, pump>>
     \/ \E k \in acks : acks' = acks \ {k} /\ UNCHANGED <<wire, reqs, pump>>
     \/ \E r \in reqs : reqs' = reqs \ {r} /\ UNCHANGED <<wire, acks, pump>>
     \/ pump.on /\ pump' = [pump EXCEPT !.on = FALSE] /\ UNCHANGED net
  /\ UNCHANGED <<reg, child, runs, finished, con, cur, durable, restarts>>

RunnerStep == Read \/ ChildExits \/ Finish
Serve == (\E r \in reqs : ServeStart(r) \/ ServeAttach(r)) \/ \E k \in acks : ServeAck(k)
ConsumerStep(a) == SendStart(a) \/ Settle(a) \/ Deliver(a)

Next ==
  \/ RunnerStep \/ ProgressTick \/ Serve \/ Gc \/ Restart \/ Redispatch \/ Lose
  \/ \E a \in Attempts :
       ConsumerStep(a) \/ SendAck(a) \/ Probe(a) \/ GiveUp(a) \/ Record(a) \/ FinalAck(a)

\* The runner and the machine's link run, the workflow waits for the current attempt.
\* Nothing is assumed of the attempts before it, or of giving up.
Fairness ==
  /\ WF_vars(ProgressTick) /\ WF_vars(Read) /\ WF_vars(ChildExits) /\ WF_vars(Finish)
  /\ WF_vars(Serve)
  /\ \A a \in Attempts : WF_vars(a = cur /\ ConsumerStep(a)) /\ WF_vars(a = cur /\ SendAck(a))
                        /\ WF_vars(a = cur /\ Probe(a))

Spec == Init /\ [][Next]_vars
FairSpec == Spec /\ Fairness

-----------------------------------------------------------------------------
(* Properties *)

\* Types; the send cursor and the collected floor never pass the end of the retained log.
OpTypeOK ==
  /\ reg \in [st : {"unknown", "running", "complete", "lost"}, acked : BOOLEAN]
  /\ pump.log \in Seq({"data", "progress", "exit", "failed"})
  /\ pump.floor \in 0 .. High(pump) /\ pump.sent \in 0 .. High(pump) /\ pump.gen \in 0 .. Generation(MaxAttempts)
  /\ pump.exit \in {0, High(pump)} /\ pump.route = (pump.gen > 0)
  /\ child.st \in {"none", "running", "exited", "failed"} /\ child.pipe \in 0 .. 1 /\ child.printed \in 0 .. MaxData
  /\ \A a \in Attempts : con[a].pc \in {"idle", "starting", "attaching", "stream",
                                       "settled", "failed", "recorded", "done"}
  /\ runs \in Nat /\ cur \in Attempts /\ durable \in BOOLEAN

\* What an attempt returned: the run it is of and how much of its output, or a mixture.
OneRun(a) == \A i \in DOMAIN con[a].got : con[a].got[i].kind = "data" => con[a].got[i].run = ExitOf(a).run
Result(a) ==
  IF con[a].pc \in {"settled", "recorded", "done"}
  THEN IF OneRun(a) THEN <<ExitOf(a).run, Received(a)>> ELSE <<"mixed">>
  ELSE IF con[a].pc = "failed" THEN <<"failed">> ELSE <<"none">>

\* A start that could not spawn leaves the command as it was.
Phase == IF reg.st = "unknown" \/ child.st = "none" THEN "new"
         ELSE IF reg.st = "running" THEN "running" ELSE "ended"

Command == INSTANCE RemoteCommand
  WITH phase <- Phase, run <- runs, printed <- IF Phase = "running" THEN child.printed ELSE 0, lives <- restarts,
       answer <- [a \in Attempts |-> Result(a)]

\* Lost, repeated and late messages, a second attempt and the collection of old ops
\* neither run the command twice in a life of the runner before its output is with an
\* attempt, nor give an attempt anything but the whole output of one run that ended
\* (op-stream.ts exec and verifyByteExact, registry.rs begin and gc).
ImplementsRemoteCommand == Command!Spec

\* Until a result is in the history the runner keeps every frame, so a successor that
\* holds nothing can collect the whole output (credit-only acks, op-stream.ts sendAck).
SuccessorCanCollect ==
  pump.route /\ ~ durable => pump.floor = 0

\* An attempt that streams gets its end: a result, or a failure when the op is gone.  Two
\* exceptions wait for the consumer's wall: an exit record that could not be retained (or a
\* spawn that failed), which the consumer does not take from the status, and frames of a run
\* before a restart of the runner, which make it drop those of the new run as duplicates.
ExitOutOfReach == reg.st = "complete" /\ pump.exit = 0
HoldsOlderRun(a) == \E i \in DOMAIN con[a].got : con[a].got[i].run # pump.run
StreamEnds ==
  \A a \in Attempts :
    (con[a].pc = "stream" /\ a = cur)
      ~> (con[a].pc # "stream" \/ a # cur \/ ExitOutOfReach \/ HoldsOlderRun(a))

=============================================================================
