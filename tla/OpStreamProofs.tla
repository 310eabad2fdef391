--------------------------- MODULE OpStreamProofs ---------------------------
(***************************************************************************)
(* Theorems about OpStream, for any number of attempts, chunks of output,  *)
(* losses and restarts, any credit window and any retention quota.         *)
(***************************************************************************)
EXTENDS OpStream, NatExtrema, SequenceTheorems, FiniteSetTheorems, TLAPS

Kinds == {"data", "progress", "exit", "failed"}
ConPcs == {"idle", "starting", "attaching", "stream", "settled", "failed", "recorded", "done"}
Regs == [st : {"unknown", "running", "complete", "lost"}, acked : BOOLEAN]
ChildStates == {"none", "running", "exited", "failed"}
Children == [st : ChildStates, pipe : 0 .. 1, printed : Nat]
Pumps == [run : Nat, log : Seq(Kinds), floor : Nat, gen : Nat, on : BOOLEAN, window : Nat,
          sent : Nat, unacked : Nat, exit : Nat, route : BOOLEAN]

\* An exit record exists only of a run that ended, wherever it has got to.
Ended(r) == \E o \in finished : o[1] = r
Frames == {f \in [run : Nat, seq : Nat, kind : Kinds] : f.kind = "exit" => Ended(f.run)}
Entries == {e \in [run : Nat, kind : Kinds] : e.kind = "exit" => Ended(e.run)}
Consumers == [pc : ConPcs, got : Seq(Entries), stash : SUBSET Frames]

Acks == [gen : Nat, seq : Nat, credit : Nat, final : BOOLEAN]
Reqs == [op : {"start", "attach", "heal"}, a : Attempts, from : Nat]

\* The runner's part.
RunnerTypes ==
  /\ reg \in Regs
  /\ pump \in Pumps
  /\ child \in Children
  /\ runs \in Nat /\ finished \subseteq Nat \X Nat

\* The cursors stay within the log; the exit record is its last; a spool has a generation.
LogInv ==
  /\ pump.floor <= Len(pump.log) /\ pump.sent <= Len(pump.log)
  /\ pump.exit \in {0, Len(pump.log)}
  /\ pump.gen <= MaxAttempts + 1 /\ pump.route = (pump.gen > 0)
  /\ \A k \in 1 .. Len(pump.log) : pump.log[k] = "exit" => Ended(pump.run)

\* What is left in a pipe can still be printed; a running op has a process and is the last run.
ChildInv ==
  /\ child.printed + child.pipe <= MaxData
  /\ reg.st = "running" => child.st # "none" /\ pump.run = runs

\* The messages under way and what the consumers hold.
NetTypes ==
  /\ wire \in [Attempts -> Seq(Frames)]
  /\ acks \subseteq Acks /\ reqs \subseteq Reqs
  /\ con \in [Attempts -> Consumers] /\ \A a \in Attempts : IsFiniteSet(con[a].stash)
  /\ cur \in Attempts /\ durable \in BOOLEAN /\ losses \in Nat /\ restarts \in Nat

\* An attempt after the current one has not begun.
LaterIdle == \A a \in Attempts : a > cur => con[a].pc = "idle"

\* Someone has the output and has said so after it was durable.
SomeoneDone == \E a \in Attempts : con[a].pc = "done"

\* A final ack, and what it does, comes after the result is in the history.
CollectInv ==
  /\ \A a \in Attempts : con[a].pc \in {"recorded", "done"} => durable
  /\ \A k \in acks : IF k.final THEN SomeoneDone ELSE k.seq = 0
  /\ pump.floor > 0 => durable
  /\ reg.acked => child.st = "none" \/ SomeoneDone

OpInv == RunnerTypes /\ LogInv /\ ChildInv /\ NetTypes /\ LaterIdle /\ CollectInv

-----------------------------------------------------------------------------
(* The pump's engine *)

USE DEF Attempts

\* Payload is counted, so it is a natural number.
LEMMA PayloadIsNat ==
  ASSUME NEW p, NEW i \in Nat, NEW j \in Nat
  PROVE  PayloadIn(p, i, j) \in Nat
<1> DEFINE S == {k \in (i + 1) .. j : p.log[k] # "progress"}
<1>1. IsFiniteSet((i + 1) .. j)
  BY FS_Interval
<1>2. IsFiniteSet(S)
  BY <1>1, FS_Subset
<1> QED
  BY <1>2, FS_CardinalityType DEF PayloadIn

\* catch_up sends on from where it was and not past the end of the log.
LEMMA SendsWithinLog ==
  ASSUME NEW p \in Pumps, p.sent <= Len(p.log), p.floor <= Len(p.log)
  PROVE  SendsTo(p) \in Nat /\ p.sent <= SendsTo(p) /\ SendsTo(p) <= Len(p.log)
<1> DEFINE from == IF p.sent > p.floor THEN p.sent ELSE p.floor
           full == {n \in from .. High(p) : PayloadIn(p, from, n) = Allowance(p)}
<1>t. p.sent \in Nat /\ p.floor \in Nat /\ p.log \in Seq(Kinds) /\ Len(p.log) \in Nat
  BY LenProperties DEF Pumps
<1>1. from \in Nat /\ p.sent <= from /\ from <= Len(p.log)
  BY <1>t
<1>2. full \subseteq from .. Len(p.log)
  BY DEF High
<1>3. SendsTo(p) = IF Allowance(p) = 0 \/ from >= High(p) THEN p.sent
                   ELSE IF full = {} THEN High(p)
                   ELSE CHOOSE n \in full : \A m \in full : n <= m
  BY DEF SendsTo
<1> HIDE DEF from, full
<1>4. CASE full # {}
  <2>1. full \in SUBSET Nat
    BY <1>1, <1>2, <1>t
  <2>2. \E n \in full : \A m \in full : n <= m
    BY <1>4, <2>1, LeastExists
  <2> DEFINE c == CHOOSE n \in full : \A m \in full : n <= m
  <2>3. c \in full
    BY <2>2
  <2>5. SendsTo(p) \in {p.sent, c}
    BY <1>3, <1>4
  <2> HIDE DEF c
  <2>4. c \in Nat /\ p.sent <= c /\ c <= Len(p.log)
    BY <1>1, <1>2, <1>t, <2>3
  <2> QED
    BY <1>1, <1>t, <2>4, <2>5
<1>5. CASE full = {}
  BY <1>1, <1>3, <1>5, <1>t DEF High
<1> QED
  BY <1>4, <1>5

LEMMA CaughtUpPump ==
  ASSUME NEW p \in Pumps, p.sent <= Len(p.log), p.floor <= Len(p.log)
  PROVE  LET q == CaughtUp(p) IN
         /\ q \in Pumps /\ q.sent = SendsTo(p) /\ q.sent <= Len(q.log)
         /\ q.run = p.run /\ q.log = p.log /\ q.floor = p.floor /\ q.gen = p.gen
         /\ q.exit = p.exit /\ q.route = p.route
<1> DEFINE to == SendsTo(p)
           u == p.unacked + PayloadIn(p, p.sent, to)
           q == [p EXCEPT !.sent = to, !.unacked = u]
<1>1. to \in Nat /\ to <= Len(p.log)
  BY SendsWithinLog
<1>2. u \in Nat
  BY <1>1, PayloadIsNat DEF Pumps
<1>3. CaughtUp(p) = q
  BY DEF CaughtUp
<1> HIDE DEF to, u
<1>4. q \in Pumps
  BY <1>1, <1>2 DEF Pumps
<1>5. /\ q.sent = to /\ q.run = p.run /\ q.log = p.log /\ q.floor = p.floor /\ q.gen = p.gen
      /\ q.exit = p.exit /\ q.route = p.route
  BY DEF Pumps
<1> QED
  BY <1>1, <1>3, <1>4, <1>5 DEF to

\* What is published are the frames of the log.
LEMMA PublishedFrames ==
  ASSUME NEW p, NEW i \in Nat, NEW j \in Nat, i <= j, NEW S,
         \A k \in 1 .. j : [run |-> p.run, seq |-> k, kind |-> p.log[k]] \in S,
         wire \in [Attempts -> Seq(S)], Published(p, i, j)
  PROVE  wire' \in [Attempts -> Seq(S)]
<1> DEFINE frames == [k \in 1 .. (j - i) |-> [run |-> p.run, seq |-> i + k, kind |-> p.log[i + k]]]
<1>1. frames \in Seq(S)
  <2>1. j - i \in Nat
    OBVIOUS
  <2>2. \A k \in 1 .. (j - i) : i + k \in 1 .. j
    OBVIOUS
  <2>3. \A k \in 1 .. (j - i) : [run |-> p.run, seq |-> i + k, kind |-> p.log[i + k]] \in S
    BY <2>2
  <2>4. frames \in [1 .. (j - i) -> S]
    BY <2>3
  <2> HIDE DEF frames
  <2> QED
    BY <2>1, <2>4
<1>2. wire' = [a \in Attempts |-> IF Subscribed(a) THEN wire[a] \o frames ELSE wire[a]]
  BY DEF Published
<1> HIDE DEF frames
<1>3. \A a \in Attempts : wire[a] \in Seq(S) /\ wire[a] \o frames \in Seq(S)
  BY <1>1, ConcatProperties
<1> QED
  BY <1>2, <1>3

\* append_and_send adds one record, and sends at most that one.
LEMMA AppendSendPump ==
  ASSUME NEW p \in Pumps, NEW kind \in Kinds, p.sent <= Len(p.log), AppendSend(p, kind), NEW S,
         \A k \in 1 .. Len(p.log) : [run |-> p.run, seq |-> k, kind |-> p.log[k]] \in S,
         [run |-> p.run, seq |-> Len(p.log) + 1, kind |-> kind] \in S,
         wire \in [Attempts -> Seq(S)]
  PROVE  /\ pump' \in Pumps /\ pump'.log = Append(p.log, kind) /\ pump'.sent <= Len(p.log) + 1
         /\ pump'.run = p.run /\ pump'.floor = p.floor /\ pump'.gen = p.gen
         /\ pump'.exit = p.exit /\ pump'.route = p.route
         /\ wire' \in [Attempts -> Seq(S)]
<1> DEFINE log == Append(p.log, kind)
           r == [p EXCEPT !.log = log]
<1>t. p.log \in Seq(Kinds) /\ Len(p.log) \in Nat /\ p.sent \in Nat /\ p.unacked \in Nat
  BY LenProperties DEF Pumps
<1>1. /\ log \in Seq(Kinds) /\ Len(log) = Len(p.log) + 1 /\ log[Len(p.log) + 1] = kind
      /\ \A k \in 1 .. Len(p.log) : log[k] = p.log[k]
  BY <1>t, AppendProperties
<1>2. Appended(p, kind) = r
  BY DEF Appended
<1> HIDE DEF log
<1>3. /\ r \in Pumps /\ r.log = log /\ r.sent = p.sent /\ r.unacked = p.unacked
      /\ r.run = p.run /\ r.floor = p.floor /\ r.gen = p.gen /\ r.exit = p.exit /\ r.route = p.route
  BY <1>1 DEF Pumps
<1> HIDE DEF r
<1>4. CASE ~ Live(p, kind)
  <2>1. pump' = r /\ UNCHANGED wire
    BY <1>2, <1>4 DEF AppendSend
  <2> QED
    BY <1>3, <1>t, <2>1 DEF log
<1>5. CASE Live(p, kind)
  <2> DEFINE n == r.sent + 1
             u == r.unacked + Payload(kind)
             q == [r EXCEPT !.sent = n, !.unacked = u]
  <2>1. pump' = q /\ Published(q, p.sent, q.sent)
    BY <1>2, <1>5 DEF AppendSend
  <2>2. n \in Nat /\ u \in Nat /\ n = p.sent + 1
    BY <1>3, <1>t DEF Payload
  <2> HIDE DEF n, u
  <2>3. /\ q \in Pumps /\ q.log = r.log /\ q.sent = n
        /\ q.run = r.run /\ q.floor = r.floor /\ q.gen = r.gen /\ q.exit = r.exit /\ q.route = r.route
    BY <1>3, <2>2 DEF Pumps
  <2> HIDE DEF q
  <2>4. \A k \in 1 .. n : [run |-> q.run, seq |-> k, kind |-> q.log[k]] \in S
    <3> TAKE k \in 1 .. n
    <3>1. CASE k \in 1 .. Len(p.log)
      BY <1>1, <1>3, <2>3, <3>1
    <3>2. CASE k = Len(p.log) + 1
      BY <1>1, <1>3, <2>3, <3>2
    <3> QED
      BY <1>t, <2>2, <3>1, <3>2
  <2>5. wire' \in [Attempts -> Seq(S)]
    <3>1. Published(q, p.sent, n) /\ p.sent <= n
      BY <1>t, <2>1, <2>2, <2>3
    <3> QED
      BY <1>t, <2>2, <2>4, <3>1, PublishedFrames
  <2> QED
    BY <1>3, <1>t, <2>1, <2>2, <2>3, <2>5 DEF log
<1> QED
  BY <1>4, <1>5

-----------------------------------------------------------------------------
(* The consumer's engine *)

LEMMA FrameFields ==
  ASSUME NEW f \in Frames
  PROVE  f.run \in Nat /\ f.seq \in Nat /\ f.kind \in Kinds /\ Entry(f) \in Entries
  BY DEF Frames, Entries, Entry

\* The frames that continue what is applied are frames of the stash.
LEMMA ContinuationEntries ==
  ASSUME NEW n \in Nat, NEW stash \in SUBSET Frames, IsFiniteSet(stash)
  PROVE  Continuation(n, stash) \in Seq(Entries)
<1> DEFINE upto(m) == \A i \in (n + 1) .. m : \E f \in stash : f.seq = i
           top == n + Cardinality(stash)
           good == {m \in n .. top : upto(m)}
           last == CHOOSE m \in n .. top : upto(m) /\ \A q \in (m + 1) .. top : ~ upto(q)
<1>1. top \in Nat /\ n <= top
  BY FS_CardinalityType
<1>2. n \in good
  <2>1. upto(n)
    OBVIOUS
  <2> HIDE DEF upto, top
  <2> QED
    BY <1>1, <2>1
<1>3. Continuation(n, stash) = [i \in 1 .. (last - n) |-> Entry(FrameAt(stash, n + i))]
  BY DEF Continuation
<1>4. last \in n .. top /\ upto(last)
  <2> HIDE DEF upto, top
  <2>1. good \in SUBSET (0 .. top) /\ good # {}
    BY <1>1, <1>2
  <2>2. PICK m \in good : \A q \in good : q <= m
    <3> HIDE DEF good
    <3> QED
      BY <1>1, <2>1, GreatestExists
  <2>3. m \in n .. top /\ upto(m) /\ \A q \in (m + 1) .. top : ~ upto(q)
    BY <1>1, <2>2
  <2> QED
    BY <2>3
<1>5. \A i \in 1 .. (last - n) : Entry(FrameAt(stash, n + i)) \in Entries
  <2> HIDE DEF last, top
  <2> TAKE i \in 1 .. (last - n)
  <2>1. n + i \in (n + 1) .. last
    BY <1>1, <1>4
  <2>2. \E f \in stash : f.seq = n + i
    BY <1>4, <2>1
  <2>3. FrameAt(stash, n + i) \in stash
    BY <2>2 DEF FrameAt
  <2> QED
    BY <2>3, FrameFields
<1> DEFINE s == [i \in 1 .. (last - n) |-> Entry(FrameAt(stash, n + i))]
<1>6. last - n \in Nat
  <2> HIDE DEF last, top
  <2> QED
    BY <1>1, <1>4
<1>7. s \in [1 .. (last - n) -> Entries]
  <2> HIDE DEF last
  <2> QED
    BY <1>5
<1>8. s \in Seq(Entries)
  <2> HIDE DEF last, s
  <2> QED
    BY <1>6, <1>7
<1> QED
  BY <1>3, <1>8

\* The exit record that counts is one that was applied.
LEMMA ExitIsApplied ==
  ASSUME NEW a \in Attempts, con[a].got \in Seq(Entries), Exited(a)
  PROVE  ExitOf(a) \in Entries
<1> DEFINE got == con[a].got
           i == CHOOSE x \in Exits(a) : \A j \in Exits(a) : j <= x
<1>1. Len(got) \in Nat /\ DOMAIN got = 1 .. Len(got)
  BY LenProperties
<1>2. Exits(a) \in SUBSET (0 .. Len(got)) /\ Exits(a) # {} /\ Exits(a) \subseteq 1 .. Len(got)
  BY <1>1 DEF Exits, Exited
<1>3. \E x \in Exits(a) : \A j \in Exits(a) : j <= x
  BY <1>1, <1>2, GreatestExists
<1>4. i \in Exits(a)
  BY <1>3
<1>5. ExitOf(a) = got[i]
  BY DEF ExitOf
<1> HIDE DEF i
<1> QED
  BY <1>2, <1>4, <1>5, ElementOfSeq

\* A frame lost from a queue leaves frames.
LEMMA RemovedFrames ==
  ASSUME NEW S, NEW s \in Seq(S), NEW i \in DOMAIN s
  PROVE  RemoveAt(s, i) \in Seq(S)
<1>1. Len(s) \in Nat /\ i \in 1 .. Len(s) /\ \A k \in 1 .. Len(s) : s[k] \in S
  BY LenProperties, ElementOfSeq
<1>2. SubSeq(s, 1, i - 1) \in Seq(S)
  BY <1>1, SubSeqProperties
<1>3. SubSeq(s, i + 1, Len(s)) \in Seq(S)
  BY <1>1, SubSeqProperties
<1> QED
  BY <1>2, <1>3, ConcatProperties DEF RemoveAt

\* What a consumer has applied can be counted.
LEMMA ReceivedIsNat ==
  ASSUME NEW a \in Attempts, con[a].got \in Seq(Entries)
  PROVE  Received(a) \in Nat /\ Len(con[a].got) \in Nat
<1>1. Len(con[a].got) \in Nat /\ DOMAIN con[a].got = 1 .. Len(con[a].got)
  BY LenProperties
<1>2. IsFiniteSet(1 .. Len(con[a].got))
  BY <1>1, FS_Interval
<1>3. IsFiniteSet({i \in DOMAIN con[a].got : con[a].got[i].kind = "data"})
  BY <1>1, <1>2, FS_Subset
<1> QED
  BY <1>1, <1>3, FS_CardinalityType DEF Received

-----------------------------------------------------------------------------
(* The invariant: the job's steps *)

\* A run that has ended stays ended, so every frame and every entry stays one.
LEMMA FramesGrow ==
  ASSUME finished \subseteq finished'
  PROVE  /\ \A r : Ended(r) => Ended(r)'
         /\ Frames \subseteq Frames' /\ Entries \subseteq Entries'
  BY DEF Ended, Frames, Entries

LEMMA FramesSame ==
  ASSUME UNCHANGED finished
  PROVE  /\ \A r : Ended(r)' = Ended(r)
         /\ Frames' = Frames /\ Entries' = Entries /\ Consumers' = Consumers
  BY DEF Ended, Frames, Entries, Consumers

\* The log is made of frames.
LEMMA LogFrames ==
  ASSUME RunnerTypes, LogInv
  PROVE  \A k \in 1 .. Len(pump.log) :
           [run |-> pump.run, seq |-> k, kind |-> pump.log[k]] \in Frames
<1> TAKE k \in 1 .. Len(pump.log)
<1>1. pump.run \in Nat /\ pump.log \in Seq(Kinds)
  BY DEF RunnerTypes, Pumps
<1>2. pump.log[k] \in Kinds /\ k \in Nat
  BY <1>1, ElementOfSeq, LenProperties
<1>3. pump.log[k] = "exit" => Ended(pump.run)
  BY DEF LogInv
<1> QED
  BY <1>1, <1>2, <1>3 DEF Frames

\* append_and_send keeps what LogInv says; an exit record needs a run that ended.
LEMMA AppendSendInv ==
  ASSUME RunnerTypes, LogInv, NEW p \in Pumps, NEW kind \in Kinds, AppendSend(p, kind),
         p.log = pump.log, p.sent = pump.sent, p.floor = pump.floor, p.run = pump.run,
         p.gen = pump.gen, p.route = pump.route, p.exit \in {0, Len(pump.log) + 1},
         finished \subseteq finished', kind = "exit" => \E o \in finished' : o[1] = p.run,
         wire \in [Attempts -> Seq(Frames)]
  PROVE  /\ pump' \in Pumps /\ LogInv' /\ wire' \in [Attempts -> Seq(Frames')]
         /\ pump'.run = pump.run /\ pump'.floor = pump.floor
<1> DEFINE F == Frames'
<1>g. (\A r : Ended(r) => Ended(r)') /\ Frames \subseteq F
  BY FramesGrow
<1>t. /\ p.log \in Seq(Kinds) /\ Len(p.log) \in Nat /\ p.run \in Nat /\ p.floor \in Nat /\ p.sent \in Nat
      /\ p.gen \in Nat
  BY LenProperties DEF Pumps
<1>1. \A k \in 1 .. Len(p.log) : [run |-> p.run, seq |-> k, kind |-> p.log[k]] \in F
  BY <1>g, LogFrames
<1>2. [run |-> p.run, seq |-> Len(p.log) + 1, kind |-> kind] \in F
  BY <1>t DEF Frames, Ended
<1>3. wire \in [Attempts -> Seq(F)]
  <2>1. \A a \in Attempts : wire[a] \in Seq(F)
    BY <1>g, SeqMonotonic
  <2> HIDE DEF F
  <2> QED
    BY <2>1
<1> HIDE DEF F
<1>4. p.sent <= Len(p.log)
  BY DEF LogInv
<1>5. /\ pump' \in Pumps /\ pump'.log = Append(p.log, kind) /\ pump'.sent <= Len(p.log) + 1
      /\ pump'.run = p.run /\ pump'.floor = p.floor /\ pump'.gen = p.gen
      /\ pump'.exit = p.exit /\ pump'.route = p.route
      /\ wire' \in [Attempts -> Seq(F)]
  BY <1>1, <1>2, <1>3, <1>4, AppendSendPump
<1>6. /\ Len(pump'.log) = Len(p.log) + 1 /\ pump'.log[Len(p.log) + 1] = kind
      /\ \A k \in 1 .. Len(p.log) : pump'.log[k] = p.log[k]
  BY <1>5, <1>t, AppendProperties
<1>7. \A k \in 1 .. Len(pump'.log) : pump'.log[k] = "exit" => \E o \in finished' : o[1] = pump'.run
  <2> TAKE k \in 1 .. Len(pump'.log)
  <2>1. CASE k \in 1 .. Len(p.log)
    BY <1>5, <1>6, <1>g, <2>1 DEF LogInv, Ended
  <2>2. CASE k = Len(p.log) + 1
    BY <1>5, <1>6, <2>2 DEF Ended
  <2> QED
    BY <1>6, <1>t, <2>1, <2>2
<1>8. /\ pump'.floor <= Len(pump'.log) /\ pump'.sent <= Len(pump'.log)
      /\ pump'.exit \in {0, Len(pump'.log)}
      /\ pump'.gen <= MaxAttempts + 1 /\ pump'.route = (pump'.gen > 0)
  BY <1>5, <1>6, <1>t DEF LogInv
<1>9. LogInv'
  BY <1>7, <1>8 DEF LogInv, Ended
<1> QED
  BY <1>5, <1>9 DEF F

\* What the job does not touch: the messages to the runner, the consumers and the turn.
LEMMA NetKept ==
  ASSUME NetTypes, LaterIdle, UNCHANGED <<con, reqs, cur, durable, losses, restarts>>,
         acks' \subseteq acks, finished \subseteq finished', wire' \in [Attempts -> Seq(Frames')]
  PROVE  NetTypes' /\ LaterIdle' /\ SomeoneDone' = SomeoneDone
<1>1. Frames \subseteq Frames' /\ Entries \subseteq Entries'
  BY FramesGrow
<1>2. con \in [Attempts -> Consumers']
  <2>1. Seq(Entries) \subseteq Seq(Entries')
    BY <1>1, SeqMonotonic
  <2>2. Consumers \subseteq Consumers'
    BY <1>1, <2>1 DEF Consumers
  <2> QED
    BY <2>2 DEF NetTypes
<1>3. LaterIdle' /\ SomeoneDone' = SomeoneDone
  BY DEF LaterIdle, SomeoneDone
<1> QED
  BY <1>2, <1>3 DEF NetTypes

LEMMA ChildFields ==
  ASSUME NEW c \in Children
  PROVE  c.st \in ChildStates /\ c.pipe \in 0 .. 1 /\ c.printed \in Nat
  BY DEF Children

LEMMA ReadInv ==
  ASSUME OpInv, Read
  PROVE  OpInv'
<1>i. RunnerTypes /\ LogInv /\ ChildInv /\ NetTypes /\ LaterIdle /\ CollectInv
  BY DEF OpInv
<1>c. /\ child \in Children /\ child.st \in ChildStates /\ child.pipe \in 0 .. 1 /\ child.printed \in Nat
      /\ MaxData \in Nat /\ child.printed + child.pipe <= MaxData
  BY <1>i, ChildFields, OpBounds DEF ChildInv, RunnerTypes
<1>s. UNCHANGED <<reg, runs, finished, acks, reqs, con, cur, durable, losses, restarts>>
  BY DEF Read
<1>p. pump \in Pumps /\ pump.exit = 0 /\ wire \in [Attempts -> Seq(Frames)]
  BY <1>i DEF Read, Pumping, RunnerTypes, NetTypes
<1>1. /\ pump' \in Pumps /\ LogInv' /\ wire' \in [Attempts -> Seq(Frames')]
      /\ pump'.run = pump.run /\ pump'.floor = pump.floor
  <2>1. CASE Fits(pump, "data")
    <3>1. AppendSend(pump, "data")
      BY <2>1 DEF Read
    <3>2. "data" \in Kinds
      BY DEF Kinds
    <3> QED
      BY <1>i, <1>p, <1>s, <3>1, <3>2, AppendSendInv
  <2>2. CASE ~ Fits(pump, "data")
    <3>1. UNCHANGED <<pump, wire>>
      BY <2>2 DEF Read
    <3>2. LogInv'
      BY <1>i, <1>s, <3>1, FramesSame DEF LogInv
    <3> QED
      BY <1>p, <1>s, <3>1, <3>2, FramesSame
  <2> QED
    BY <2>1, <2>2
<1>2. /\ child' \in Children
      /\ child'.printed + child'.pipe <= MaxData /\ (child'.st = "none" => child.st = "none")
  <2>1. CASE Fits(pump, "data")
    <3>1. child' = [child EXCEPT !.pipe = 0, !.printed = child.printed + 1]
      BY <2>1 DEF Read
    <3>2. child.printed + 1 <= MaxData
      BY <1>c DEF Read
    <3>3. child.printed + 1 \in Nat /\ 0 \in 0 .. 1
      BY <1>c
    <3>4. child' \in Children /\ child'.st = child.st /\ child'.pipe = 0 /\ child'.printed = child.printed + 1
      BY <1>c, <3>1, <3>3 DEF Children
    <3> QED
      BY <1>c, <3>2, <3>4
  <2>2. CASE ~ Fits(pump, "data")
    <3>1. child' = [child EXCEPT !.st = "failed", !.pipe = 0]
      BY <2>2 DEF Read, Overflow
    <3>2. 0 \in 0 .. 1 /\ "failed" \in ChildStates
      BY DEF ChildStates
    <3>3. child' \in Children /\ child'.st = "failed" /\ child'.pipe = 0 /\ child'.printed = child.printed
      BY <1>c, <3>1, <3>2 DEF Children
    <3> QED
      BY <1>c, <3>3
  <2> QED
    BY <2>1, <2>2
<1>3. RunnerTypes'
  BY <1>1, <1>2, <1>i, <1>s DEF RunnerTypes
<1>4. ChildInv'
  BY <1>1, <1>2, <1>i, <1>s DEF ChildInv
<1>5. NetTypes' /\ LaterIdle' /\ SomeoneDone' = SomeoneDone
  BY <1>1, <1>i, <1>s, NetKept
<1>6. CollectInv'
  BY <1>1, <1>2, <1>5, <1>i, <1>s DEF CollectInv, Read, Pumping
<1> QED
  BY <1>1, <1>3, <1>4, <1>5, <1>6 DEF OpInv

LEMMA ProgressTickInv ==
  ASSUME OpInv, ProgressTick
  PROVE  OpInv'
<1>i. RunnerTypes /\ LogInv /\ ChildInv /\ NetTypes /\ LaterIdle /\ CollectInv
  BY DEF OpInv
<1>c. /\ child \in Children /\ child.st \in ChildStates /\ child.pipe \in 0 .. 1 /\ child.printed \in Nat
      /\ MaxData \in Nat /\ child.printed + child.pipe <= MaxData
  BY <1>i, ChildFields, OpBounds DEF ChildInv, RunnerTypes
<1>s. UNCHANGED <<reg, runs, finished, acks, reqs, con, cur, durable, losses, restarts>>
  BY DEF ProgressTick
<1>p. pump \in Pumps /\ pump.exit = 0 /\ wire \in [Attempts -> Seq(Frames)]
  BY <1>i DEF ProgressTick, Pumping, RunnerTypes, NetTypes
<1>1. /\ pump' \in Pumps /\ LogInv' /\ wire' \in [Attempts -> Seq(Frames')]
      /\ pump'.run = pump.run /\ pump'.floor = pump.floor
  <2>1. CASE Fits(pump, "progress")
    <3>1. AppendSend(pump, "progress")
      BY <2>1 DEF ProgressTick
    <3>2. "progress" \in Kinds
      BY DEF Kinds
    <3> QED
      BY <1>i, <1>p, <1>s, <3>1, <3>2, AppendSendInv
  <2>2. CASE ~ Fits(pump, "progress")
    <3>1. UNCHANGED <<pump, wire>>
      BY <2>2 DEF ProgressTick
    <3>2. LogInv'
      BY <1>i, <1>s, <3>1, FramesSame DEF LogInv
    <3> QED
      BY <1>p, <1>s, <3>1, <3>2, FramesSame
  <2> QED
    BY <2>1, <2>2
<1>2. /\ child' \in Children
      /\ child'.printed + child'.pipe <= MaxData /\ (child'.st = "none" => child.st = "none")
  <2>1. CASE Fits(pump, "progress")
    BY <1>c, <2>1 DEF ProgressTick
  <2>2. CASE ~ Fits(pump, "progress")
    <3>1. child' = [child EXCEPT !.st = "failed", !.pipe = 0]
      BY <2>2 DEF ProgressTick, Overflow
    <3>2. 0 \in 0 .. 1 /\ "failed" \in ChildStates
      BY DEF ChildStates
    <3>3. child' \in Children /\ child'.st = "failed" /\ child'.pipe = 0 /\ child'.printed = child.printed
      BY <1>c, <3>1, <3>2 DEF Children
    <3> QED
      BY <1>c, <3>3
  <2> QED
    BY <2>1, <2>2
<1>3. RunnerTypes'
  BY <1>1, <1>2, <1>i, <1>s DEF RunnerTypes
<1>4. ChildInv'
  BY <1>1, <1>2, <1>i, <1>s DEF ChildInv
<1>5. NetTypes' /\ LaterIdle' /\ SomeoneDone' = SomeoneDone
  BY <1>1, <1>i, <1>s, NetKept
<1>6. CollectInv'
  <2>1. child.st # "none"
    BY <1>i DEF ProgressTick, Pumping, ChildInv
  <2> QED
    BY <1>1, <1>5, <1>i, <1>s, <2>1 DEF CollectInv
<1> QED
  BY <1>1, <1>3, <1>4, <1>5, <1>6 DEF OpInv

LEMMA ChildExitsInv ==
  ASSUME OpInv, ChildExits
  PROVE  OpInv'
<1>i. RunnerTypes /\ LogInv /\ ChildInv /\ NetTypes /\ LaterIdle /\ CollectInv
  BY DEF OpInv
<1>c. child \in Children /\ child.printed \in Nat
  BY <1>i, ChildFields DEF RunnerTypes
<1>s. UNCHANGED <<reg, pump, runs, finished, wire, acks, reqs, con, cur, durable, losses, restarts>>
  BY DEF ChildExits, net
<1>1. PICK left \in 0 .. 1 : child.printed + left <= MaxData /\ child' = [child EXCEPT !.st = "exited", !.pipe = left]
  BY DEF ChildExits
<1>2. "exited" \in ChildStates
  BY DEF ChildStates
<1>3. child' \in Children /\ child'.st = "exited" /\ child'.pipe = left /\ child'.printed = child.printed
  BY <1>1, <1>2, <1>c DEF Children
<1>4. RunnerTypes' /\ ChildInv'
  BY <1>1, <1>3, <1>i, <1>s DEF RunnerTypes, ChildInv
<1>5. LogInv' /\ wire' \in [Attempts -> Seq(Frames')]
  BY <1>i, <1>s, FramesSame DEF LogInv, NetTypes
<1>6. NetTypes' /\ LaterIdle' /\ SomeoneDone' = SomeoneDone
  BY <1>5, <1>i, <1>s, NetKept
<1>7. CollectInv'
  BY <1>3, <1>6, <1>i, <1>s DEF CollectInv, ChildExits
<1> QED
  BY <1>4, <1>5, <1>6, <1>7 DEF OpInv

\* The exit record is written of a run that has just ended.
LEMMA FinishInv ==
  ASSUME OpInv, Finish
  PROVE  OpInv'
<1> DEFINE kind == IF child.st = "exited" THEN "exit" ELSE "failed"
           p == [pump EXCEPT !.exit = Len(pump.log) + 1]
<1>i. RunnerTypes /\ LogInv /\ ChildInv /\ NetTypes /\ LaterIdle /\ CollectInv
  BY DEF OpInv
<1>c. /\ child \in Children /\ child.st \in ChildStates /\ child.pipe \in 0 .. 1 /\ child.printed \in Nat
      /\ MaxData \in Nat /\ child.pipe = 0
  BY <1>i, ChildFields, OpBounds DEF RunnerTypes, Finish
<1>s. UNCHANGED <<runs, acks, reqs, con, cur, durable, losses, restarts>>
  BY DEF Finish
<1>p. /\ pump \in Pumps /\ pump.exit = 0 /\ wire \in [Attempts -> Seq(Frames)] /\ pump.run \in Nat
      /\ reg.st = "running" /\ Len(pump.log) \in Nat
  BY <1>i, LenProperties DEF Finish, Pumping, RunnerTypes, NetTypes, Pumps
<1>f. finished' = IF child.st = "exited" THEN finished \cup {<<pump.run, child.printed>>} ELSE finished
  BY DEF Finish
<1>1. finished \subseteq finished' /\ finished' \subseteq Nat \X Nat /\ (kind = "exit" => \E o \in finished' : o[1] = pump.run)
  <2>1. <<pump.run, child.printed>> \in Nat \X Nat
    BY <1>c, <1>p
  <2>2. finished \subseteq finished' /\ finished' \subseteq Nat \X Nat
    BY <1>f, <1>i, <2>1 DEF RunnerTypes
  <2>3. kind = "exit" => \E o \in finished' : o[1] = pump.run
    <3>1. CASE child.st = "exited"
      <4>1. <<pump.run, child.printed>> \in finished'
        BY <1>f, <3>1
      <4> QED
        BY <4>1
    <3> QED
      BY <3>1
  <2> QED
    BY <2>2, <2>3
<1>2. /\ p \in Pumps /\ p.log = pump.log /\ p.sent = pump.sent /\ p.floor = pump.floor /\ p.run = pump.run
      /\ p.gen = pump.gen /\ p.route = pump.route /\ p.exit = Len(pump.log) + 1
  <2>1. Len(pump.log) + 1 \in Nat
    BY <1>p
  <2> QED
    BY <1>p, <2>1 DEF Pumps
<1>3. IF Fits(pump, "exit") THEN AppendSend(p, kind) ELSE UNCHANGED <<pump, wire>>
  BY DEF Finish, High
<1>k. kind \in Kinds
  BY DEF Kinds
<1> HIDE DEF p, kind
<1>4. /\ pump' \in Pumps /\ LogInv' /\ wire' \in [Attempts -> Seq(Frames')]
      /\ pump'.run = pump.run /\ pump'.floor = pump.floor
  <2>1. CASE Fits(pump, "exit")
    BY <1>1, <1>2, <1>3, <1>i, <1>k, <1>p, <2>1, AppendSendInv
  <2>2. CASE ~ Fits(pump, "exit")
    <3>1. UNCHANGED <<pump, wire>>
      BY <1>3, <2>2
    <3>2. LogInv'
      BY <1>1, <1>i, <3>1, FramesGrow DEF LogInv
    <3>3. Seq(Frames) \subseteq Seq(Frames')
      BY <1>1, FramesGrow, SeqMonotonic
    <3> QED
      BY <1>p, <3>1, <3>2, <3>3
  <2> QED
    BY <2>1, <2>2
<1>5. child' \in Children /\ child'.st = child.st /\ child'.pipe = 0 /\ child'.printed = 0
  <2>1. child' = [child EXCEPT !.printed = 0] /\ 0 \in Nat
    BY DEF Finish
  <2> QED
    BY <1>c, <2>1 DEF Children
<1>6. reg' \in Regs /\ reg'.st = "complete" /\ reg'.acked = reg.acked
  BY <1>i DEF RunnerTypes, Finish, Regs
<1>7. RunnerTypes'
  BY <1>1, <1>4, <1>5, <1>6, <1>i, <1>s DEF RunnerTypes
<1>8. ChildInv'
  BY <1>5, <1>6, <1>c DEF ChildInv
<1>9. NetTypes' /\ LaterIdle' /\ SomeoneDone' = SomeoneDone
  BY <1>1, <1>4, <1>i, <1>s, NetKept
<1>10. CollectInv'
  BY <1>4, <1>5, <1>6, <1>9, <1>i, <1>s DEF CollectInv
<1> QED
  BY <1>4, <1>7, <1>8, <1>9, <1>10 DEF OpInv

-----------------------------------------------------------------------------
(* The invariant: the runner's handlers *)

\* What a reply, a probe or a wall may do to a consumer that has no result yet.
Moves(a) ==
  \/ UNCHANGED con
  \/ Subscribed(a) /\ (ConPc(a, "attaching") \/ ConPc(a, "stream"))
  \/ Subscribed(a) /\ Fails(a)

LEMMA ConsumerFields ==
  ASSUME NEW c \in Consumers
  PROVE  c.pc \in ConPcs /\ c.got \in Seq(Entries) /\ c.stash \in SUBSET Frames
  BY DEF Consumers

LEMMA PcChange ==
  ASSUME NetTypes, NEW a \in Attempts, NEW pc \in ConPcs, ConPc(a, pc)
  PROVE  /\ con' \in [Attempts -> Consumers] /\ con'[a].pc = pc /\ con'[a].got = con[a].got
         /\ con'[a].stash = con[a].stash /\ \A b \in Attempts \ {a} : con'[b] = con[b]
<1> DEFINE c == [con[a] EXCEPT !.pc = pc]
<1>1. con \in [Attempts -> Consumers] /\ con[a] \in Consumers
  BY DEF NetTypes
<1>2. con' = [con EXCEPT ![a] = c]
  BY DEF ConPc
<1>3. c \in Consumers /\ c.pc = pc /\ c.got = con[a].got /\ c.stash = con[a].stash
  BY <1>1 DEF Consumers
<1> HIDE DEF c
<1> QED
  BY <1>1, <1>2, <1>3

LEMMA FailChange ==
  ASSUME NetTypes, NEW a \in Attempts, Fails(a)
  PROVE  /\ con' \in [Attempts -> Consumers] /\ con'[a].pc = "failed" /\ con'[a].got = <<>>
         /\ con'[a].stash = {} /\ \A b \in Attempts \ {a} : con'[b] = con[b]
<1> DEFINE c == [pc |-> "failed", got |-> <<>>, stash |-> {}]
<1>1. con \in [Attempts -> Consumers]
  BY DEF NetTypes
<1>2. con' = [con EXCEPT ![a] = c]
  BY DEF Fails
<1>3. c \in Consumers /\ c.pc = "failed" /\ c.got = <<>> /\ c.stash = {}
  <2>1. "failed" \in ConPcs /\ <<>> \in Seq(Entries) /\ {} \in SUBSET Frames
    BY DEF ConPcs
  <2> QED
    BY <2>1 DEF Consumers
<1> HIDE DEF c
<1> QED
  BY <1>1, <1>2, <1>3

\* Such a move keeps what the invariant says of the consumers.
LEMMA MovesInv ==
  ASSUME NetTypes, LaterIdle, CollectInv, NEW a \in Attempts, Moves(a),
         UNCHANGED <<finished, cur, durable>>
  PROVE  /\ con' \in [Attempts -> Consumers'] /\ \A b \in Attempts : IsFiniteSet(con'[b].stash)
         /\ LaterIdle' /\ SomeoneDone' = SomeoneDone
         /\ \A b \in Attempts : con'[b].pc \in {"recorded", "done"} => durable'
<1>f. Consumers' = Consumers
  BY FramesSame
<1>c. con \in [Attempts -> Consumers] /\ \A b \in Attempts : IsFiniteSet(con[b].stash)
  BY DEF NetTypes
<1>1. CASE UNCHANGED con
  BY <1>1, <1>c, <1>f DEF LaterIdle, SomeoneDone, CollectInv
<1>2. CASE ~ UNCHANGED con
  <2>1. Subscribed(a)
    BY <1>2 DEF Moves
  <2>2. /\ con' \in [Attempts -> Consumers] /\ con'[a].pc \in {"attaching", "stream", "failed"}
        /\ IsFiniteSet(con'[a].stash) /\ \A b \in Attempts \ {a} : con'[b] = con[b]
    <3>1. CASE ConPc(a, "attaching") \/ ConPc(a, "stream")
      <4>1. "attaching" \in ConPcs /\ "stream" \in ConPcs
        BY DEF ConPcs
      <4> QED
        BY <1>c, <3>1, <4>1, PcChange
    <3>2. CASE Fails(a)
      BY <3>2, FailChange, FS_EmptySet
    <3> QED
      BY <1>2, <3>1, <3>2 DEF Moves
  <2>3. con[a].pc \in {"starting", "attaching", "stream"}
    BY <2>1 DEF Subscribed
  <2>4. LaterIdle'
    BY <2>2, <2>3 DEF LaterIdle
  <2>5. SomeoneDone' = SomeoneDone
    <3>1. ASSUME NEW b \in Attempts
          PROVE  (con'[b].pc = "done") = (con[b].pc = "done")
      BY <2>2, <2>3
    <3> QED
      BY <3>1 DEF SomeoneDone
  <2>6. ASSUME NEW b \in Attempts, con'[b].pc \in {"recorded", "done"}
        PROVE  durable'
    BY <2>2, <2>6 DEF CollectInv
  <2>7. \A b \in Attempts : IsFiniteSet(con'[b].stash)
    BY <1>c, <2>2
  <2> QED
    BY <1>f, <2>2, <2>4, <2>5, <2>6, <2>7
<1> QED
  BY <1>1, <1>2

LEMMA RequestTyped ==
  ASSUME NetTypes, NEW a \in Attempts, NEW op \in {"start", "attach", "heal"}
  PROVE  Request(op, a) \in Reqs
<1>1. con[a] \in Consumers
  BY DEF NetTypes
<1>2. con[a].got \in Seq(Entries)
  BY <1>1, ConsumerFields
<1>3. Len(con[a].got) \in Nat
  BY <1>2, LenProperties
<1> QED
  BY <1>3 DEF Request, Reqs

\* A start that was accepted, refused, or whose reply was lost or late.
LEMMA StartReplied ==
  ASSUME NetTypes, NEW r \in reqs, NEW accepted \in BOOLEAN, StartReply(r, accepted)
  PROVE  /\ r.a \in Attempts /\ Moves(r.a) /\ reqs' \subseteq Reqs /\ losses' \in Nat
         /\ (Fails(r.a) /\ ~ UNCHANGED con) => ~ accepted
<1>1. r.a \in Attempts /\ reqs \subseteq Reqs /\ losses \in Nat
  BY DEF NetTypes, Reqs
<1>2. Replied(r.a, "starting", IF accepted THEN ConPc(r.a, "attaching") ELSE Fails(r.a))
  BY DEF StartReply
<1>3. losses' \in Nat /\ Moves(r.a)
  BY <1>1, <1>2 DEF Replied, Moves, Subscribed
<1>4. reqs' \subseteq Reqs
  <2>1. Request("attach", r.a) \in Reqs
    BY <1>1, RequestTyped
  <2> QED
    BY <1>1, <2>1 DEF StartReply
<1>5. ASSUME Fails(r.a), ~ UNCHANGED con, accepted
      PROVE  FALSE
  <2>1. ConPc(r.a, "attaching")
    BY <1>2, <1>5 DEF Replied
  <2>2. "attaching" \in ConPcs
    BY DEF ConPcs
  <2>3. con'[r.a].pc = "attaching" /\ con'[r.a].pc = "failed"
    BY <1>1, <1>5, <2>1, <2>2, PcChange, FailChange
  <2> QED
    BY <2>3
<1> QED
  BY <1>1, <1>3, <1>4, <1>5

\* The pump of an op that was just started, and no pump.
LEMMA FreshPump ==
  ASSUME NEW p, NEW n \in Nat,
         \/ p = NoPump
         \/ p = [NoPump EXCEPT !.run = n, !.gen = 1, !.on = TRUE, !.window = Window, !.route = TRUE]
  PROVE  /\ p \in Pumps /\ p.log = <<>> /\ p.floor = 0 /\ p.sent = 0 /\ p.exit = 0
         /\ p.gen \in {0, 1} /\ p.route = (p.gen > 0) /\ (p.gen = 1 => p.run = n)
<1>1. <<>> \in Seq(Kinds) /\ Window \in Nat
  BY OpBounds
<1>2. CASE p = NoPump
  <2>1. p \in Pumps /\ p.log = <<>> /\ p.floor = 0 /\ p.sent = 0 /\ p.exit = 0 /\ p.gen = 0 /\ p.route = FALSE
    BY <1>1, <1>2 DEF NoPump, Pumps
  <2>2. (p.gen > 0) = FALSE /\ p.gen # 1
    BY <2>1
  <2> QED
    BY <2>1, <2>2
<1>3. CASE p = [NoPump EXCEPT !.run = n, !.gen = 1, !.on = TRUE, !.window = Window, !.route = TRUE]
  <2> DEFINE e == <<>>
  <2>1. p = [run |-> n, log |-> e, floor |-> 0, gen |-> 1, on |-> TRUE, window |-> Window,
             sent |-> 0, unacked |-> 0, exit |-> 0, route |-> TRUE]
    BY <1>3 DEF NoPump
  <2>2. e \in Seq(Kinds)
    BY <1>1
  <2>4. e = <<>>
    OBVIOUS
  <2> HIDE DEF e
  <2>3. p \in Pumps /\ p.log = e /\ p.floor = 0 /\ p.sent = 0 /\ p.exit = 0 /\ p.gen = 1 /\ p.route = TRUE /\ p.run = n
    BY <1>1, <2>1, <2>2 DEF Pumps
  <2>5. (p.gen > 0) = TRUE
    BY <2>3
  <2> QED
    BY <2>3, <2>4, <2>5
<1> QED
  BY <1>2, <1>3

LEMMA FreshLog ==
  ASSUME NEW n \in Nat,
         \/ pump' = NoPump
         \/ pump' = [NoPump EXCEPT !.run = n, !.gen = 1, !.on = TRUE, !.window = Window, !.route = TRUE]
  PROVE  pump' \in Pumps /\ LogInv' /\ pump'.floor = 0
<1> DEFINE q == pump'
<1>1. /\ q \in Pumps /\ q.log = <<>> /\ q.floor = 0 /\ q.sent = 0 /\ q.exit = 0
      /\ q.gen \in {0, 1} /\ q.route = (q.gen > 0)
  BY FreshPump
<1>2. Len(q.log) = 0
  BY <1>1
<1> HIDE DEF q
<1>3. /\ q.floor <= Len(q.log) /\ q.sent <= Len(q.log) /\ q.exit \in {0, Len(q.log)}
      /\ q.gen <= MaxAttempts + 1 /\ 1 .. Len(q.log) = {}
  BY <1>1, <1>2, OpBounds
<1> QED
  BY <1>1, <1>3 DEF LogInv, q

\* A runner with no op, or with a fresh one, has nothing collected.
LEMMA ServeStartInv ==
  ASSUME OpInv, NEW r \in reqs, ServeStart(r)
  PROVE  OpInv'
<1>i. RunnerTypes /\ LogInv /\ ChildInv /\ NetTypes /\ LaterIdle /\ CollectInv
  BY DEF OpInv
<1>s. UNCHANGED <<finished, wire, acks, cur, durable, restarts>>
  BY DEF ServeStart
<1>f. Frames' = Frames
  BY <1>s, FramesSame
<1>1. r.a \in Attempts /\ Moves(r.a) /\ reqs' \subseteq Reqs /\ losses' \in Nat
  BY <1>i, StartReplied DEF ServeStart
<1>2. /\ con' \in [Attempts -> Consumers'] /\ \A b \in Attempts : IsFiniteSet(con'[b].stash)
      /\ LaterIdle' /\ SomeoneDone' = SomeoneDone
      /\ \A b \in Attempts : con'[b].pc \in {"recorded", "done"} => durable'
  BY <1>1, <1>i, <1>s, MovesInv
<1>3. NetTypes'
  BY <1>1, <1>2, <1>f, <1>i, <1>s DEF NetTypes
<1>4. /\ reg' \in Regs /\ pump' \in Pumps /\ child' \in Children /\ runs' \in Nat /\ LogInv' /\ ChildInv'
      /\ (pump'.floor > 0 => durable) /\ (reg'.acked => child'.st = "none" \/ SomeoneDone)
  <2>t. runs \in Nat /\ runs + 1 \in Nat /\ MaxData \in Nat /\ reg \in Regs /\ child \in Children /\ pump \in Pumps
    BY <1>i, OpBounds DEF RunnerTypes
  <2>1. CASE /\ reg' = [st |-> "running", acked |-> FALSE]
             /\ pump' = [NoPump EXCEPT !.run = runs + 1, !.gen = 1, !.on = TRUE,
                                       !.window = Window, !.route = TRUE]
             /\ child' = [NoChild EXCEPT !.st = "running"]
             /\ runs' = runs + 1
    <3>1. pump' \in Pumps /\ LogInv' /\ pump'.floor = 0
      BY <2>1, <2>t, FreshLog
    <3>2. pump'.run = runs'
      BY <2>1 DEF NoPump
    <3>3. child' \in Children /\ child'.st = "running" /\ child'.pipe = 0 /\ child'.printed = 0
      BY <2>1 DEF NoChild, Children, ChildStates
    <3>4. reg' \in Regs /\ reg'.st = "running" /\ reg'.acked = FALSE
      BY <2>1 DEF Regs
    <3>5. ChildInv'
      BY <2>t, <3>2, <3>3 DEF ChildInv
    <3> QED
      BY <2>1, <2>t, <3>1, <3>3, <3>4, <3>5
  <2>2. CASE UNCHANGED <<reg, pump, child, runs>>
    <3>1. LogInv' /\ ChildInv'
      BY <1>i, <1>s, <2>2, FramesSame DEF LogInv, ChildInv
    <3> QED
      BY <1>i, <2>2, <2>t, <3>1 DEF CollectInv
  <2>3. CASE /\ reg' = [st |-> "complete", acked |-> TRUE]
             /\ pump' = NoPump /\ child' = NoChild /\ UNCHANGED runs
    <3>1. pump' \in Pumps /\ LogInv' /\ pump'.floor = 0
      BY <2>3, <2>t, FreshLog
    <3>3. child' \in Children /\ child'.st = "none" /\ child'.pipe = 0 /\ child'.printed = 0
      BY <2>3 DEF NoChild, Children, ChildStates
    <3>4. reg' \in Regs /\ reg'.st = "complete"
      BY <2>3 DEF Regs
    <3>5. ChildInv'
      BY <2>t, <3>3, <3>4 DEF ChildInv
    <3> QED
      BY <2>3, <2>t, <3>1, <3>3, <3>4, <3>5
  <2> QED
    BY <2>1, <2>2, <2>3 DEF ServeStart
<1>5. RunnerTypes'
  BY <1>4, <1>i, <1>s DEF RunnerTypes
<1>6. CollectInv'
  BY <1>2, <1>4, <1>i, <1>s DEF CollectInv
<1> QED
  BY <1>2, <1>3, <1>4, <1>5, <1>6 DEF OpInv

\* catch_up publishes frames of the log.
LEMMA PublishesInv ==
  ASSUME RunnerTypes, LogInv, NEW p \in Pumps, p.log = pump.log, p.run = pump.run,
         p.sent <= Len(p.log), p.floor <= Len(p.log), wire \in [Attempts -> Seq(Frames)], Publishes(p)
  PROVE  wire' \in [Attempts -> Seq(Frames)]
<1>1. SendsTo(p) \in Nat /\ p.sent <= SendsTo(p) /\ SendsTo(p) <= Len(p.log) /\ p.sent \in Nat /\ Len(p.log) \in Nat
  BY SendsWithinLog, LenProperties DEF Pumps
<1>2. \A k \in 1 .. SendsTo(p) : [run |-> p.run, seq |-> k, kind |-> p.log[k]] \in Frames
  <2> TAKE k \in 1 .. SendsTo(p)
  <2>1. k \in 1 .. Len(pump.log)
    BY <1>1
  <2> QED
    BY <2>1, LogFrames
<1>3. Published(p, p.sent, SendsTo(p))
  BY DEF Publishes
<1> QED
  BY <1>1, <1>2, <1>3, PublishedFrames

LEMMA ServeAttachInv ==
  ASSUME OpInv, NEW r \in reqs, ServeAttach(r)
  PROVE  OpInv'
<1>i. RunnerTypes /\ LogInv /\ ChildInv /\ NetTypes /\ LaterIdle /\ CollectInv
  BY DEF OpInv
<1>s. UNCHANGED <<reg, child, runs, finished, acks, cur, durable, restarts>>
  BY DEF ServeAttach
<1>f. Frames' = Frames
  BY <1>s, FramesSame
<1>r. r \in Reqs /\ r.a \in Attempts /\ r.from \in Nat /\ r.op \in {"attach", "heal"} /\ losses \in Nat
  BY <1>i DEF NetTypes, Reqs, ServeAttach
<1>1. Moves(r.a) /\ losses' \in Nat
  <2>1. CASE reg.st \in {"unknown", "lost"}
    <3>1. Replied(r.a, IF r.op = "heal" THEN "stream" ELSE "attaching", Fails(r.a))
      BY <2>1 DEF ServeAttach
    <3> QED
      BY <1>r, <3>1 DEF Replied, Moves, Subscribed
  <2>2. CASE ~ (reg.st \in {"unknown", "lost"})
    <3>1. Replied(r.a, "attaching", ConPc(r.a, "stream"))
      BY <2>2 DEF ServeAttach
    <3> QED
      BY <1>r, <3>1 DEF Replied, Moves, Subscribed
  <2> QED
    BY <2>1, <2>2
<1>2. /\ con' \in [Attempts -> Consumers'] /\ \A b \in Attempts : IsFiniteSet(con'[b].stash)
      /\ LaterIdle' /\ SomeoneDone' = SomeoneDone
      /\ \A b \in Attempts : con'[b].pc \in {"recorded", "done"} => durable'
  BY <1>1, <1>i, <1>r, <1>s, MovesInv
<1>3. /\ pump' \in Pumps /\ LogInv' /\ wire' \in [Attempts -> Seq(Frames)]
      /\ pump'.run = pump.run /\ pump'.floor = pump.floor
  <2>t. /\ pump \in Pumps /\ pump.log \in Seq(Kinds) /\ Len(pump.log) \in Nat /\ pump.floor \in Nat
        /\ wire \in [Attempts -> Seq(Frames)] /\ pump.route \in BOOLEAN
    BY <1>i, LenProperties DEF RunnerTypes, Pumps, NetTypes
  <2>1. CASE ~ AttachApplies(r)
    <3>1. UNCHANGED <<pump, wire>>
      BY <2>1 DEF ServeAttach
    <3>2. LogInv'
      BY <1>i, <1>s, <3>1, FramesSame DEF LogInv
    <3> QED
      BY <2>t, <3>1, <3>2
  <2>2. CASE AttachApplies(r)
    <3> DEFINE g == r.a + 1
               n == ResumesAt(r)
               p == [pump EXCEPT !.gen = g, !.on = TRUE, !.window = Window, !.sent = n, !.unacked = 0]
    <3>1. pump' = CaughtUp(p) /\ Publishes(p)
      BY <2>2 DEF ServeAttach, Generation
    <3>2. n \in Nat /\ n <= Len(pump.log) /\ g \in Nat /\ g <= MaxAttempts + 1 /\ g > 0 /\ Window \in Nat
      BY <1>r, <2>t, OpBounds DEF ResumesAt, High
    <3> HIDE DEF g, n
    <3>3. /\ p \in Pumps /\ p.run = pump.run /\ p.log = pump.log /\ p.floor = pump.floor /\ p.gen = g
          /\ p.exit = pump.exit /\ p.route = pump.route /\ p.sent = n
      BY <2>t, <3>2 DEF Pumps
    <3> HIDE DEF p
    <3>4. p.sent <= Len(p.log) /\ p.floor <= Len(p.log)
      BY <1>i, <3>2, <3>3 DEF LogInv
    <3>5. wire' \in [Attempts -> Seq(Frames)]
      BY <1>i, <2>t, <3>1, <3>3, <3>4, PublishesInv
    <3>6. /\ pump' \in Pumps /\ pump'.sent <= Len(pump'.log)
          /\ pump'.run = pump.run /\ pump'.log = pump.log /\ pump'.floor = pump.floor /\ pump'.gen = g
          /\ pump'.exit = pump.exit /\ pump'.route = pump.route
      BY <3>1, <3>3, <3>4, CaughtUpPump
    <3>7. pump'.route = TRUE /\ (pump'.gen > 0) = TRUE
      <4>1. pump.route = TRUE
        BY <2>2, <2>t DEF AttachApplies
      <4> QED
        BY <3>2, <3>6, <4>1
    <3>8. /\ pump'.floor <= Len(pump'.log) /\ pump'.exit \in {0, Len(pump'.log)}
          /\ pump'.gen <= MaxAttempts + 1
          /\ \A k \in 1 .. Len(pump'.log) : pump'.log[k] = "exit" => \E o \in finished' : o[1] = pump'.run
      BY <1>i, <1>s, <3>2, <3>6 DEF LogInv, Ended
    <3>9. LogInv'
      BY <3>6, <3>7, <3>8 DEF LogInv, Ended
    <3> QED
      BY <3>5, <3>6, <3>9
  <2> QED
    BY <2>1, <2>2
<1>4. NetTypes'
  <2>1. reqs' \subseteq Reqs
    BY <1>i DEF ServeAttach, NetTypes
  <2> QED
    BY <1>1, <1>2, <1>3, <1>f, <1>i, <1>s, <2>1 DEF NetTypes
<1>5. RunnerTypes'
  BY <1>3, <1>i, <1>s DEF RunnerTypes
<1>6. ChildInv' /\ CollectInv'
  BY <1>2, <1>3, <1>i, <1>s DEF CollectInv, ChildInv
<1> QED
  BY <1>2, <1>3, <1>4, <1>5, <1>6 DEF OpInv

\* Only a final ack moves the floor or collects, and then somebody is done.
LEMMA ServeAckInv ==
  ASSUME OpInv, NEW k \in acks, ServeAck(k)
  PROVE  OpInv'
<1>i. RunnerTypes /\ LogInv /\ ChildInv /\ NetTypes /\ LaterIdle /\ CollectInv
  BY DEF OpInv
<1>s. UNCHANGED <<child, runs, finished, reqs, con, cur, durable, losses, restarts>> /\ acks' \subseteq acks
  BY DEF ServeAck
<1>f. Frames' = Frames
  BY <1>s, FramesSame
<1>k. k \in Acks /\ k.seq \in Nat /\ k.credit \in Nat /\ k.final \in BOOLEAN
  BY <1>i DEF NetTypes, Acks
<1>d. k.seq > 0 \/ k.final => SomeoneDone /\ durable
  BY <1>i, <1>k DEF CollectInv, SomeoneDone
<1>t. /\ pump \in Pumps /\ pump.log \in Seq(Kinds) /\ Len(pump.log) \in Nat /\ pump.floor \in Nat
      /\ pump.unacked \in Nat /\ pump.sent \in Nat /\ pump.exit \in Nat /\ reg \in Regs
      /\ wire \in [Attempts -> Seq(Frames)]
  BY <1>i, LenProperties DEF RunnerTypes, Pumps, NetTypes
<1>1. CASE ~ AckApplies(k)
  <2>1. UNCHANGED <<pump, reg, wire>>
    BY <1>1 DEF ServeAck
  <2>2. LogInv' /\ RunnerTypes' /\ ChildInv' /\ wire' \in [Attempts -> Seq(Frames')]
    BY <1>f, <1>i, <1>s, <1>t, <2>1, FramesSame DEF LogInv, RunnerTypes, ChildInv
  <2>3. NetTypes' /\ LaterIdle' /\ SomeoneDone' = SomeoneDone
    BY <1>i, <1>s, <2>2, NetKept
  <2>4. CollectInv'
    BY <1>i, <1>s, <2>1, <2>3 DEF CollectInv
  <2> QED
    BY <2>2, <2>3, <2>4 DEF OpInv
<1>2. CASE AckApplies(k)
  <2> DEFINE upper == IF k.seq < pump.sent THEN k.seq ELSE pump.sent
             freed == PayloadIn(pump, pump.floor, upper)
             high == IF k.seq < High(pump) THEN k.seq ELSE High(pump)
             u == IF pump.unacked > freed THEN pump.unacked - freed ELSE 0
             fl == IF high > pump.floor THEN high ELSE pump.floor
             p == [pump EXCEPT !.window = k.credit, !.unacked = u, !.floor = fl]
             over == k.final /\ reg.st = "complete"
                     /\ k.seq >= (IF pump.exit # 0 THEN pump.exit ELSE High(pump))
  <2>1. /\ pump' = IF over THEN NoPump ELSE CaughtUp(p)
        /\ Publishes(p) /\ reg' = IF over THEN [reg EXCEPT !.acked = TRUE] ELSE reg
    BY <1>2 DEF ServeAck
  <2>o. over => k.final
    OBVIOUS
  <2>2. u \in Nat
    <3>1. upper \in Nat
      BY <1>k, <1>t
    <3>2. freed \in Nat
      <4> HIDE DEF upper
      <4> QED
        BY <1>t, <3>1, PayloadIsNat
    <3> HIDE DEF freed
    <3> QED
      BY <1>t, <3>2
  <2>3. fl \in Nat /\ fl <= Len(pump.log) /\ (fl > 0 => pump.floor > 0 \/ k.seq > 0)
    BY <1>i, <1>k, <1>t DEF High, LogInv
  <2> HIDE DEF u, fl, over, upper, freed, high
  <2>4. /\ p \in Pumps /\ p.run = pump.run /\ p.log = pump.log /\ p.floor = fl /\ p.gen = pump.gen
        /\ p.exit = pump.exit /\ p.route = pump.route /\ p.sent = pump.sent
    BY <1>k, <1>t, <2>2, <2>3 DEF Pumps
  <2> HIDE DEF p
  <2>5. p.sent <= Len(p.log) /\ p.floor <= Len(p.log)
    BY <1>i, <2>3, <2>4 DEF LogInv
  <2>6. wire' \in [Attempts -> Seq(Frames')]
    BY <1>f, <1>i, <1>t, <2>1, <2>4, <2>5, PublishesInv
  <2>7. /\ pump' \in Pumps /\ LogInv' /\ (pump'.floor > 0 => durable)
        /\ (~ over => pump'.run = pump.run)
    <3>1. CASE over
      <4>1. pump' = NoPump /\ 0 \in Nat
        BY <2>1, <3>1
      <4>2. pump' \in Pumps /\ LogInv' /\ pump'.floor = 0
        BY <4>1, FreshLog
      <4> QED
        BY <3>1, <4>2
    <3>2. CASE ~ over
      <4>1. /\ pump' \in Pumps /\ pump'.sent <= Len(pump'.log)
            /\ pump'.run = pump.run /\ pump'.log = pump.log /\ pump'.floor = fl /\ pump'.gen = pump.gen
            /\ pump'.exit = pump.exit /\ pump'.route = pump.route
        BY <2>1, <2>4, <2>5, <3>2, CaughtUpPump
      <4>2. LogInv'
        BY <1>i, <1>s, <2>3, <4>1 DEF LogInv, Ended
      <4>3. fl > 0 => durable
        BY <1>d, <1>i, <2>3 DEF CollectInv
      <4> QED
        BY <3>2, <4>1, <4>2, <4>3
    <3> QED
      BY <3>1, <3>2
  <2>8. reg' \in Regs /\ reg'.st = reg.st /\ (reg'.acked => reg.acked \/ SomeoneDone)
    BY <1>d, <1>t, <2>1, <2>o DEF Regs
  <2>9. RunnerTypes'
    BY <1>i, <1>s, <2>7, <2>8 DEF RunnerTypes
  <2>10. ChildInv'
    <3>1. reg.st = "running" => ~ over
      BY DEF over
    <3> QED
      BY <1>i, <1>s, <2>7, <2>8, <3>1 DEF ChildInv
  <2>11. NetTypes' /\ LaterIdle' /\ SomeoneDone' = SomeoneDone
    BY <1>i, <1>s, <2>6, NetKept
  <2>12. CollectInv'
    BY <1>i, <1>s, <2>7, <2>8, <2>11 DEF CollectInv
  <2> QED
    BY <2>7, <2>9, <2>10, <2>11, <2>12 DEF OpInv
<1> QED
  BY <1>1, <1>2

LEMMA GcInv ==
  ASSUME OpInv, Gc
  PROVE  OpInv'
<1>i. RunnerTypes /\ LogInv /\ ChildInv /\ NetTypes /\ LaterIdle /\ CollectInv
  BY DEF OpInv
<1>s. UNCHANGED <<child, runs, finished, wire, acks, reqs, con, cur, durable, losses, restarts>>
  BY DEF Gc, net
<1>1. pump' \in Pumps /\ LogInv' /\ pump'.floor = 0
  <2>1. pump' = NoPump /\ 0 \in Nat
    BY DEF Gc
  <2> QED
    BY <2>1, FreshLog
<1>2. reg' \in Regs /\ reg'.st # "running" /\ reg'.acked = FALSE
  BY DEF Gc, ForgottenAs, Regs
<1>3. RunnerTypes' /\ ChildInv' /\ wire' \in [Attempts -> Seq(Frames')]
  BY <1>1, <1>2, <1>i, <1>s, FramesSame DEF RunnerTypes, ChildInv, NetTypes
<1>4. NetTypes' /\ LaterIdle' /\ SomeoneDone' = SomeoneDone
  BY <1>3, <1>i, <1>s, NetKept
<1>5. CollectInv'
  BY <1>1, <1>2, <1>4, <1>i, <1>s DEF CollectInv
<1> QED
  BY <1>1, <1>3, <1>4, <1>5 DEF OpInv

LEMMA RestartInv ==
  ASSUME OpInv, Restart
  PROVE  OpInv'
<1>i. RunnerTypes /\ LogInv /\ ChildInv /\ NetTypes /\ LaterIdle /\ CollectInv
  BY DEF OpInv
<1>s. UNCHANGED <<runs, finished, con, cur, durable, losses>>
  BY DEF Restart
<1>1. pump' \in Pumps /\ LogInv' /\ pump'.floor = 0
  <2>1. pump' = NoPump /\ 0 \in Nat
    BY DEF Restart
  <2> QED
    BY <2>1, FreshLog
<1>2. reg' \in Regs /\ reg'.st # "running" /\ reg'.acked = FALSE
  BY DEF Restart, Regs
<1>3. child' \in Children /\ child'.pipe = 0 /\ child'.printed = 0
  BY DEF Restart, NoChild, Children, ChildStates
<1>4. RunnerTypes' /\ ChildInv'
  BY <1>1, <1>2, <1>3, <1>i, <1>s, OpBounds DEF RunnerTypes, ChildInv
<1>5. wire' \in [Attempts -> Seq(Frames')] /\ acks' = {} /\ reqs' = {} /\ restarts' \in Nat
  BY <1>i DEF Restart, NetTypes
<1>6. NetTypes' /\ LaterIdle' /\ SomeoneDone' = SomeoneDone
  BY <1>5, <1>i, <1>s, FramesSame DEF NetTypes, LaterIdle, SomeoneDone
<1>7. CollectInv'
  BY <1>1, <1>2, <1>5, <1>6, <1>i, <1>s DEF CollectInv
<1> QED
  BY <1>1, <1>4, <1>6, <1>7 DEF OpInv

-----------------------------------------------------------------------------
(* The invariant: the consumers, the turn and the losses *)

LEMMA RunnerKept ==
  ASSUME RunnerTypes, LogInv, ChildInv, UNCHANGED runner
  PROVE  /\ RunnerTypes' /\ LogInv' /\ ChildInv' /\ UNCHANGED <<reg, pump, child, runs, finished>>
         /\ Frames' = Frames /\ Consumers' = Consumers
<1>1. UNCHANGED <<reg, pump, child, runs, finished>>
  BY DEF runner
<1> QED
  BY <1>1, FramesSame DEF RunnerTypes, LogInv, ChildInv

\* Applying frames changes what one consumer holds and nothing else of it.
LEMMA HeldChange ==
  ASSUME NetTypes, NEW a \in Attempts, NEW g \in Seq(Entries), NEW s \in SUBSET Frames, IsFiniteSet(s),
         con' = [con EXCEPT ![a].got = g, ![a].stash = s]
  PROVE  /\ con' \in [Attempts -> Consumers] /\ con'[a].pc = con[a].pc
         /\ IsFiniteSet(con'[a].stash) /\ \A b \in Attempts \ {a} : con'[b] = con[b]
<1> DEFINE c == [con[a] EXCEPT !.got = g, !.stash = s]
<1>1. con \in [Attempts -> Consumers] /\ con[a] \in Consumers
  BY DEF NetTypes
<1>2. con' = [con EXCEPT ![a] = c]
  BY <1>1
<1>3. c \in Consumers /\ c.pc = con[a].pc /\ c.stash = s
  BY <1>1 DEF Consumers
<1> HIDE DEF c
<1> QED
  BY <1>1, <1>2, <1>3

\* What one consumer does keeps the invariant of the others.
LEMMA OneConsumer ==
  ASSUME NetTypes, LaterIdle, CollectInv, NEW a \in Attempts, UNCHANGED <<finished, cur>>,
         con' \in [Attempts -> Consumers], IsFiniteSet(con'[a].stash), con[a].pc # "idle",
         \A b \in Attempts \ {a} : con'[b] = con[b],
         con[a].pc = "done" => con'[a].pc = "done",
         con'[a].pc \in {"recorded", "done"} => durable', durable => durable'
  PROVE  /\ con' \in [Attempts -> Consumers'] /\ \A b \in Attempts : IsFiniteSet(con'[b].stash)
         /\ LaterIdle' /\ (SomeoneDone => SomeoneDone')
         /\ \A b \in Attempts : con'[b].pc \in {"recorded", "done"} => durable'
<1>1. con' \in [Attempts -> Consumers']
  BY FramesSame
<1>2. \A b \in Attempts : IsFiniteSet(con'[b].stash)
  BY DEF NetTypes
<1>3. LaterIdle'
  BY DEF LaterIdle
<1>4. SomeoneDone => SomeoneDone'
  <2>1. ASSUME NEW b \in Attempts, con[b].pc = "done"
        PROVE  con'[b].pc = "done"
    BY <2>1
  <2> QED
    BY <2>1 DEF SomeoneDone
<1>5. \A b \in Attempts : con'[b].pc \in {"recorded", "done"} => durable'
  BY DEF CollectInv
<1> QED
  BY <1>1, <1>2, <1>3, <1>4, <1>5

LEMMA SendStartInv ==
  ASSUME OpInv, NEW a \in Attempts, SendStart(a)
  PROVE  OpInv'
<1>i. RunnerTypes /\ LogInv /\ ChildInv /\ NetTypes /\ LaterIdle /\ CollectInv
  BY DEF OpInv
<1>s. UNCHANGED <<runner, wire, acks, con, cur, durable, losses, restarts>>
  BY DEF SendStart
<1>1. /\ RunnerTypes' /\ LogInv' /\ ChildInv' /\ UNCHANGED <<reg, pump, child, runs, finished>>
      /\ Frames' = Frames /\ Consumers' = Consumers
  BY <1>i, <1>s, RunnerKept
<1>2. reqs' \subseteq Reqs
  <2>1. Request("start", a) \in Reqs
    BY <1>i, RequestTyped
  <2> QED
    BY <1>i, <2>1 DEF SendStart, NetTypes
<1>3. NetTypes' /\ LaterIdle' /\ CollectInv'
  BY <1>1, <1>2, <1>i, <1>s DEF NetTypes, LaterIdle, CollectInv, SomeoneDone
<1> QED
  BY <1>1, <1>3 DEF OpInv

LEMMA HealTyped ==
  ASSUME NetTypes, NEW a \in Attempts, Heal(a)
  PROVE  reqs' \subseteq Reqs
<1>1. Request("heal", a) \in Reqs
  BY RequestTyped
<1> QED
  BY <1>1 DEF Heal, NetTypes

\* Frames are applied, stashed or dropped; what they say stays true.
LEMMA DeliverInv ==
  ASSUME OpInv, NEW a \in Attempts, Deliver(a)
  PROVE  OpInv'
<1> DEFINE c == con[a]
           f == Head(wire[a])
           n == Len(c.got)
           held == {g \in c.stash : g.seq # f.seq}
<1>i. RunnerTypes /\ LogInv /\ ChildInv /\ NetTypes /\ LaterIdle /\ CollectInv
  BY DEF OpInv
<1>s. UNCHANGED <<runner, acks, cur, durable, losses, restarts>>
  BY DEF Deliver
<1>1. /\ RunnerTypes' /\ LogInv' /\ ChildInv' /\ UNCHANGED <<reg, pump, child, runs, finished>>
      /\ Frames' = Frames /\ Consumers' = Consumers
  BY <1>i, <1>s, RunnerKept
<1>w. wire[a] \in Seq(Frames) /\ wire[a] # <<>>
  BY <1>i DEF Deliver, NetTypes
<1>f. f \in Frames /\ Tail(wire[a]) \in Seq(Frames)
  BY <1>w, HeadTailProperties
<1>t. c \in Consumers /\ IsFiniteSet(c.stash)
  BY <1>i DEF NetTypes
<1>c. c.got \in Seq(Entries) /\ c.stash \in SUBSET Frames /\ n \in Nat
  BY <1>t, ConsumerFields, LenProperties
<1>h. held \in SUBSET Frames /\ IsFiniteSet(held)
  BY <1>c, <1>t, FS_Subset
<1>2. wire' \in [Attempts -> Seq(Frames)]
  <2>1. wire' = [wire EXCEPT ![a] = Tail(wire[a])]
    BY DEF Deliver
  <2> QED
    BY <1>f, <1>i, <2>1 DEF NetTypes
<1>d. IF f.seq = n + 1
      THEN LET rest == Continuation(n + 1, held) IN
           /\ con' = [con EXCEPT ![a].got = (c.got \o <<Entry(f)>>) \o rest,
                                 ![a].stash = {g \in held : g.seq > n + 1 + Len(rest)}]
           /\ UNCHANGED reqs
      ELSE IF f.seq > n + 1
      THEN con' = [con EXCEPT ![a].stash = held \cup {f}] /\ Heal(a)
      ELSE UNCHANGED <<con, reqs>>
  BY DEF Deliver
<1> HIDE DEF f, held, n
<1>3. /\ con' \in [Attempts -> Consumers] /\ con'[a].pc = con[a].pc
      /\ IsFiniteSet(con'[a].stash) /\ \A b \in Attempts \ {a} : con'[b] = con[b]
  <2>1. CASE f.seq = n + 1
    <3> DEFINE rest == Continuation(n + 1, held)
               g == (c.got \o <<Entry(f)>>) \o rest
               s == {x \in held : x.seq > n + 1 + Len(rest)}
    <3>1. con' = [con EXCEPT ![a].got = g, ![a].stash = s]
      BY <1>d, <2>1
    <3>2. n + 1 \in Nat
      BY <1>c
    <3>3. rest \in Seq(Entries)
      BY <1>h, <3>2, ContinuationEntries
    <3>4. Entry(f) \in Entries
      BY <1>f, FrameFields
    <3>5. s \in SUBSET Frames /\ IsFiniteSet(s)
      BY <1>h, FS_Subset
    <3> HIDE DEF rest, s
    <3>6. g \in Seq(Entries)
      <4>1. <<Entry(f)>> \in Seq(Entries)
        BY <3>4
      <4>2. c.got \o <<Entry(f)>> \in Seq(Entries)
        BY <1>c, <4>1, ConcatProperties
      <4> QED
        BY <3>3, <4>2, ConcatProperties
    <3> HIDE DEF g
    <3> QED
      BY <1>i, <3>1, <3>5, <3>6, HeldChange
  <2>2. CASE f.seq # n + 1 /\ f.seq > n + 1
    <3> DEFINE s == held \cup {f}
    <3>1. con' = [con EXCEPT ![a].stash = s]
      BY <1>d, <2>2
    <3>2. s \in SUBSET Frames /\ IsFiniteSet(s)
      BY <1>f, <1>h, FS_AddElement
    <3> HIDE DEF s
    <3>3. con' = [con EXCEPT ![a].got = con[a].got, ![a].stash = s]
      BY <1>i, <3>1 DEF NetTypes, Consumers
    <3> QED
      BY <1>c, <1>i, <3>2, <3>3, HeldChange
  <2>3. CASE f.seq # n + 1 /\ ~ (f.seq > n + 1)
    <3>1. UNCHANGED con
      BY <1>d, <2>3
    <3> QED
      BY <1>i, <1>t, <3>1 DEF NetTypes
  <2> QED
    BY <2>1, <2>2, <2>3
<1>4. reqs' \subseteq Reqs
  <2>1. Heal(a) \/ UNCHANGED reqs
    BY <1>d
  <2> QED
    BY <1>i, <2>1, HealTyped DEF NetTypes
<1>5. /\ con' \in [Attempts -> Consumers'] /\ \A b \in Attempts : IsFiniteSet(con'[b].stash)
      /\ LaterIdle' /\ (SomeoneDone => SomeoneDone')
      /\ \A b \in Attempts : con'[b].pc \in {"recorded", "done"} => durable'
  <2>1. con[a].pc \in {"starting", "attaching", "stream"}
    BY DEF Deliver, Subscribed
  <2> QED
    BY <1>1, <1>3, <1>i, <1>s, <2>1, OneConsumer
<1>6. NetTypes'
  BY <1>1, <1>2, <1>4, <1>5, <1>i, <1>s DEF NetTypes
<1>7. CollectInv'
  BY <1>1, <1>5, <1>i, <1>s DEF CollectInv
<1> QED
  BY <1>1, <1>5, <1>6, <1>7 DEF OpInv

\* A credit ack collects nothing.
LEMMA SendAckInv ==
  ASSUME OpInv, NEW a \in Attempts, SendAck(a)
  PROVE  OpInv'
<1>i. RunnerTypes /\ LogInv /\ ChildInv /\ NetTypes /\ LaterIdle /\ CollectInv
  BY DEF OpInv
<1>s. UNCHANGED <<runner, wire, reqs, con, cur, durable, losses, restarts>>
  BY DEF SendAck
<1>1. /\ RunnerTypes' /\ LogInv' /\ ChildInv' /\ UNCHANGED <<reg, pump, child, runs, finished>>
      /\ Frames' = Frames /\ Consumers' = Consumers
  BY <1>i, <1>s, RunnerKept
<1>2. con[a].got \in Seq(Entries)
  BY <1>i, ConsumerFields DEF NetTypes
<1>3. CreditAck(a) \in Acks /\ CreditAck(a).final = FALSE /\ CreditAck(a).seq = 0
  <2>1. Received(a) + Window \in Nat /\ Generation(a) \in Nat
    BY <1>2, ReceivedIsNat, OpBounds DEF Generation
  <2> QED
    BY <2>1 DEF CreditAck, Acks
<1>4. acks' = acks \cup {CreditAck(a)}
  BY DEF SendAck
<1>5. NetTypes' /\ LaterIdle'
  BY <1>1, <1>3, <1>4, <1>i, <1>s DEF NetTypes, LaterIdle
<1>6. CollectInv'
  <2>1. SomeoneDone' = SomeoneDone
    BY <1>s DEF SomeoneDone
  <2>2. \A k \in acks' : IF k.final THEN SomeoneDone ELSE k.seq = 0
    BY <1>3, <1>4, <1>i DEF CollectInv
  <2> QED
    BY <1>1, <1>i, <1>s, <2>1, <2>2 DEF CollectInv
<1> QED
  BY <1>1, <1>5, <1>6 DEF OpInv

\* The steps in which a consumer without a result fails or asks again.
LEMMA ProbeInv ==
  ASSUME OpInv, NEW a \in Attempts, Probe(a) \/ GiveUp(a)
  PROVE  OpInv' /\ Moves(a)
<1>i. RunnerTypes /\ LogInv /\ ChildInv /\ NetTypes /\ LaterIdle /\ CollectInv
  BY DEF OpInv
<1>s. UNCHANGED <<runner, acks, cur, durable, losses, restarts>>
  BY DEF Probe, GiveUp
<1>1. /\ RunnerTypes' /\ LogInv' /\ ChildInv' /\ UNCHANGED <<reg, pump, child, runs, finished>>
      /\ Frames' = Frames /\ Consumers' = Consumers
  BY <1>i, <1>s, RunnerKept
<1>m. Moves(a)
  BY DEF Probe, GiveUp, Moves, Streaming, Subscribed
<1>2. /\ con' \in [Attempts -> Consumers'] /\ \A b \in Attempts : IsFiniteSet(con'[b].stash)
      /\ LaterIdle' /\ SomeoneDone' = SomeoneDone
      /\ \A b \in Attempts : con'[b].pc \in {"recorded", "done"} => durable'
  BY <1>1, <1>i, <1>m, <1>s, MovesInv
<1>3. reqs' \subseteq Reqs
  <2>1. Heal(a) \/ UNCHANGED reqs
    BY DEF Probe, GiveUp
  <2> QED
    BY <1>i, <2>1, HealTyped DEF NetTypes
<1>4. wire' \in [Attempts -> Seq(Frames)]
  <2>1. wire' = [wire EXCEPT ![a] = <<>>] \/ UNCHANGED wire
    BY DEF Probe, GiveUp, Teardown
  <2>2. <<>> \in Seq(Frames) /\ wire \in [Attempts -> Seq(Frames)]
    BY <1>i DEF NetTypes
  <2> QED
    BY <2>1, <2>2
<1>5. NetTypes'
  BY <1>1, <1>2, <1>3, <1>4, <1>i, <1>s DEF NetTypes
<1>6. CollectInv'
  BY <1>1, <1>2, <1>i, <1>s DEF CollectInv
<1> QED
  BY <1>1, <1>2, <1>5, <1>6, <1>m DEF OpInv

\* A result that was verified keeps what was applied.
LEMMA SettledChange ==
  ASSUME NetTypes, NEW a \in Attempts, con' = [con EXCEPT ![a].pc = "settled", ![a].stash = {}]
  PROVE  /\ con' \in [Attempts -> Consumers] /\ con'[a].pc = "settled" /\ con'[a].got = con[a].got
         /\ con'[a].stash = {} /\ \A b \in Attempts \ {a} : con'[b] = con[b]
<1> DEFINE c == [con[a] EXCEPT !.pc = "settled", !.stash = {}]
<1>1. con \in [Attempts -> Consumers] /\ con[a] \in Consumers
  BY DEF NetTypes
<1>2. con' = [con EXCEPT ![a] = c]
  BY <1>1
<1>3. c \in Consumers /\ c.pc = "settled" /\ c.got = con[a].got /\ c.stash = {}
  BY <1>1 DEF Consumers, ConPcs
<1> HIDE DEF c
<1> QED
  BY <1>1, <1>2, <1>3

LEMMA SettleInv ==
  ASSUME OpInv, NEW a \in Attempts, Settle(a)
  PROVE  OpInv'
<1>i. RunnerTypes /\ LogInv /\ ChildInv /\ NetTypes /\ LaterIdle /\ CollectInv
  BY DEF OpInv
<1>s. UNCHANGED <<runner, acks, reqs, cur, durable, losses, restarts>>
  BY DEF Settle
<1>1. /\ RunnerTypes' /\ LogInv' /\ ChildInv' /\ UNCHANGED <<reg, pump, child, runs, finished>>
      /\ Frames' = Frames /\ Consumers' = Consumers
  BY <1>i, <1>s, RunnerKept
<1>2. /\ con' \in [Attempts -> Consumers] /\ con'[a].pc \in {"settled", "failed"}
      /\ con'[a].stash = {} /\ \A b \in Attempts \ {a} : con'[b] = con[b]
  <2>1. con' = [con EXCEPT ![a].pc = "settled", ![a].stash = {}] \/ Fails(a)
    BY DEF Settle
  <2> QED
    BY <1>i, <2>1, FailChange, SettledChange
<1>3. /\ con' \in [Attempts -> Consumers'] /\ \A b \in Attempts : IsFiniteSet(con'[b].stash)
      /\ LaterIdle' /\ (SomeoneDone => SomeoneDone')
      /\ \A b \in Attempts : con'[b].pc \in {"recorded", "done"} => durable'
  <2>1. con[a].pc = "stream" /\ IsFiniteSet(con'[a].stash)
    BY <1>2, FS_EmptySet DEF Settle
  <2> QED
    BY <1>1, <1>2, <1>i, <1>s, <2>1, OneConsumer
<1>4. wire' \in [Attempts -> Seq(Frames)]
  <2>1. wire' = [wire EXCEPT ![a] = <<>>]
    BY DEF Settle, Teardown
  <2>2. <<>> \in Seq(Frames) /\ wire \in [Attempts -> Seq(Frames)]
    BY <1>i DEF NetTypes
  <2> QED
    BY <2>1, <2>2
<1>5. NetTypes'
  BY <1>1, <1>3, <1>4, <1>i, <1>s DEF NetTypes
<1>6. CollectInv'
  BY <1>1, <1>3, <1>i, <1>s DEF CollectInv
<1> QED
  BY <1>1, <1>3, <1>5, <1>6 DEF OpInv

\* A result is in the history before its final ack is sent.
LEMMA RecordInv ==
  ASSUME OpInv, NEW a \in Attempts, Record(a)
  PROVE  OpInv'
<1>i. RunnerTypes /\ LogInv /\ ChildInv /\ NetTypes /\ LaterIdle /\ CollectInv
  BY DEF OpInv
<1>s. UNCHANGED <<runner, wire, acks, reqs, cur, losses, restarts>> /\ durable' = TRUE
  BY DEF Record, net
<1>1. /\ RunnerTypes' /\ LogInv' /\ ChildInv' /\ UNCHANGED <<reg, pump, child, runs, finished>>
      /\ Frames' = Frames /\ Consumers' = Consumers
  BY <1>i, <1>s, RunnerKept
<1>2. /\ con' \in [Attempts -> Consumers] /\ IsFiniteSet(con'[a].stash)
      /\ \A b \in Attempts \ {a} : con'[b] = con[b]
  <2>1. CASE UNCHANGED con
    BY <1>i, <2>1 DEF NetTypes
  <2>2. CASE ConPc(a, "recorded")
    <3>1. "recorded" \in ConPcs
      BY DEF ConPcs
    <3> QED
      BY <1>i, <2>2, <3>1, PcChange DEF NetTypes
  <2> QED
    BY <2>1, <2>2 DEF Record
<1>3. /\ con' \in [Attempts -> Consumers'] /\ \A b \in Attempts : IsFiniteSet(con'[b].stash)
      /\ LaterIdle' /\ (SomeoneDone => SomeoneDone')
      /\ \A b \in Attempts : con'[b].pc \in {"recorded", "done"} => durable'
  <2>1. con[a].pc \in {"settled", "failed"}
    BY DEF Record
  <2> QED
    BY <1>1, <1>2, <1>i, <1>s, <2>1, OneConsumer
<1>5. NetTypes'
  BY <1>1, <1>3, <1>i, <1>s DEF NetTypes
<1>6. CollectInv'
  BY <1>1, <1>3, <1>i, <1>s DEF CollectInv
<1> QED
  BY <1>1, <1>3, <1>5, <1>6 DEF OpInv

LEMMA FinalAckInv ==
  ASSUME OpInv, NEW a \in Attempts, FinalAck(a)
  PROVE  OpInv'
<1> DEFINE k == [gen |-> Generation(a), seq |-> Len(con[a].got), credit |-> 0, final |-> TRUE]
<1>i. RunnerTypes /\ LogInv /\ ChildInv /\ NetTypes /\ LaterIdle /\ CollectInv
  BY DEF OpInv
<1>s. UNCHANGED <<runner, wire, reqs, cur, durable, losses, restarts>> /\ acks' = acks \cup {k}
  BY DEF FinalAck
<1>1. /\ RunnerTypes' /\ LogInv' /\ ChildInv' /\ UNCHANGED <<reg, pump, child, runs, finished>>
      /\ Frames' = Frames /\ Consumers' = Consumers
  BY <1>i, <1>s, RunnerKept
<1>2. /\ con' \in [Attempts -> Consumers] /\ con'[a].pc = "done" /\ IsFiniteSet(con'[a].stash)
      /\ \A b \in Attempts \ {a} : con'[b] = con[b]
  <2>1. "done" \in ConPcs /\ ConPc(a, "done")
    BY DEF ConPcs, FinalAck
  <2> QED
    BY <1>i, <2>1, PcChange DEF NetTypes
<1>3. /\ con' \in [Attempts -> Consumers'] /\ \A b \in Attempts : IsFiniteSet(con'[b].stash)
      /\ LaterIdle' /\ (SomeoneDone => SomeoneDone')
      /\ \A b \in Attempts : con'[b].pc \in {"recorded", "done"} => durable'
  <2>1. con[a].pc = "recorded" /\ durable /\ durable'
    BY <1>i, <1>s DEF FinalAck, CollectInv
  <2> QED
    BY <1>1, <1>2, <1>i, <1>s, <2>1, OneConsumer
<1>4. k \in Acks /\ k.final = TRUE /\ SomeoneDone'
  <2>1. con[a].got \in Seq(Entries)
    BY <1>i, ConsumerFields DEF NetTypes
  <2>2. Len(con[a].got) \in Nat /\ Generation(a) \in Nat
    BY <2>1, LenProperties DEF Generation
  <2>3. SomeoneDone'
    BY <1>2 DEF SomeoneDone
  <2> QED
    BY <2>2, <2>3 DEF Acks
<1> HIDE DEF k
<1>5. NetTypes'
  BY <1>1, <1>3, <1>4, <1>i, <1>s DEF NetTypes
<1>6. CollectInv'
  BY <1>1, <1>3, <1>4, <1>i, <1>s DEF CollectInv
<1> QED
  BY <1>1, <1>3, <1>5, <1>6 DEF OpInv

LEMMA RedispatchInv ==
  ASSUME OpInv, Redispatch
  PROVE  OpInv' /\ cur + 1 \in Attempts /\ con[cur + 1].pc = "idle" /\ ConPc(cur + 1, "starting")
<1> DEFINE n == cur + 1
<1>i. RunnerTypes /\ LogInv /\ ChildInv /\ NetTypes /\ LaterIdle /\ CollectInv
  BY DEF OpInv
<1>s. UNCHANGED <<runner, wire, acks, durable, losses, restarts>> /\ cur' = n /\ ConPc(n, "starting")
  BY DEF Redispatch, ConPc
<1>n. n \in Attempts /\ cur \in Attempts /\ con[n].pc = "idle"
  BY <1>i, OpBounds DEF Redispatch, NetTypes, LaterIdle
<1>1. /\ RunnerTypes' /\ LogInv' /\ ChildInv' /\ UNCHANGED <<reg, pump, child, runs, finished>>
      /\ Frames' = Frames /\ Consumers' = Consumers
  BY <1>i, <1>s, RunnerKept
<1>3. reqs' \subseteq Reqs
  <2>1. Request("start", n) \in Reqs
    BY <1>i, <1>n, RequestTyped
  <2> QED
    BY <1>i, <2>1 DEF Redispatch, NetTypes
<1> HIDE DEF n
<1>2. /\ con' \in [Attempts -> Consumers] /\ con'[n].pc = "starting" /\ con'[n].stash = con[n].stash
      /\ \A b \in Attempts \ {n} : con'[b] = con[b]
  <2>1. "starting" \in ConPcs
    BY DEF ConPcs
  <2> QED
    BY <1>i, <1>n, <1>s, <2>1, PcChange
<1>4. LaterIdle'
  <2> SUFFICES ASSUME NEW b \in Attempts, b > cur'
               PROVE  con'[b].pc = "idle"
    BY DEF LaterIdle
  <2>1. b # n /\ b > cur
    BY <1>n, <1>s DEF n
  <2> QED
    BY <1>2, <1>i, <2>1 DEF LaterIdle
<1>5. NetTypes'
  <2>1. \A b \in Attempts : IsFiniteSet(con'[b].stash)
    BY <1>2, <1>i DEF NetTypes
  <2> QED
    BY <1>1, <1>2, <1>3, <1>i, <1>n, <1>s, <2>1 DEF NetTypes
<1>6. CollectInv'
  <2>1. \A b \in Attempts : con'[b].pc \in {"recorded", "done"} => con'[b].pc = con[b].pc
    BY <1>2
  <2>2. SomeoneDone => SomeoneDone'
    BY <1>2, <1>n DEF SomeoneDone
  <2> QED
    BY <1>1, <1>i, <1>s, <2>1, <2>2 DEF CollectInv
<1> QED
  BY <1>1, <1>4, <1>5, <1>6, <1>n, <1>s DEF OpInv, n

LEMMA LoseInv ==
  ASSUME OpInv, Lose
  PROVE  OpInv'
<1>i. RunnerTypes /\ LogInv /\ ChildInv /\ NetTypes /\ LaterIdle /\ CollectInv
  BY DEF OpInv
<1>s. UNCHANGED <<reg, child, runs, finished, con, cur, durable, restarts>> /\ losses' = losses + 1
  BY DEF Lose
<1>1. wire' \in [Attempts -> Seq(Frames)] /\ acks' \subseteq acks /\ reqs' \subseteq reqs
  <2>t. wire \in [Attempts -> Seq(Frames)]
    BY <1>i DEF NetTypes
  <2>1. CASE UNCHANGED wire
    BY <2>1, <2>t DEF Lose, net
  <2>2. ASSUME NEW a \in Attempts, NEW i \in DOMAIN wire[a],
               wire' = [wire EXCEPT ![a] = RemoveAt(@, i)], UNCHANGED <<acks, reqs, pump>>
        PROVE  wire' \in [Attempts -> Seq(Frames)] /\ acks' \subseteq acks /\ reqs' \subseteq reqs
    <3>1. RemoveAt(wire[a], i) \in Seq(Frames)
      BY <2>t, RemovedFrames
    <3> QED
      BY <2>2, <2>t, <3>1
  <2> QED
    BY <2>1, <2>2 DEF Lose, net
<1>2. /\ pump' \in Pumps /\ pump'.run = pump.run /\ pump'.log = pump.log /\ pump'.floor = pump.floor
      /\ pump'.gen = pump.gen /\ pump'.exit = pump.exit /\ pump'.route = pump.route /\ pump'.sent = pump.sent
  <2>1. pump' = pump \/ pump' = [pump EXCEPT !.on = FALSE]
    BY DEF Lose
  <2> QED
    BY <1>i, <2>1 DEF RunnerTypes, Pumps
<1>3. RunnerTypes' /\ LogInv' /\ ChildInv'
  BY <1>2, <1>i, <1>s DEF RunnerTypes, LogInv, ChildInv, Ended
<1>4. NetTypes' /\ LaterIdle'
  BY <1>1, <1>i, <1>s, FramesSame DEF NetTypes, LaterIdle
<1>5. CollectInv'
  <2>1. SomeoneDone' = SomeoneDone
    BY <1>s DEF SomeoneDone
  <2> QED
    BY <1>1, <1>2, <1>i, <1>s, <2>1 DEF CollectInv
<1> QED
  BY <1>3, <1>4, <1>5 DEF OpInv

-----------------------------------------------------------------------------
(* The invariant of the specification *)

LEMMA InitInv ==
  ASSUME Init
  PROVE  OpInv
<1>t. cur = 1 /\ durable = FALSE /\ losses = 0 /\ restarts = 0 /\ acks = {}
  BY DEF Init
<1>1. RunnerTypes
  <2>1. pump \in Pumps
    <3>1. pump = NoPump /\ 0 \in Nat
      BY DEF Init
    <3> QED
      BY <3>1, FreshPump
  <2> QED
    BY <2>1 DEF Init, RunnerTypes, Regs, Children, ChildStates, NoChild
<1>2. LogInv
  <2>1. pump = NoPump /\ 0 \in Nat
    BY DEF Init
  <2>2. /\ pump.log = <<>> /\ pump.floor = 0 /\ pump.sent = 0 /\ pump.exit = 0
        /\ pump.gen \in {0, 1} /\ pump.route = (pump.gen > 0)
    BY <2>1, FreshPump
  <2>3. Len(pump.log) = 0
    BY <2>2
  <2>4. /\ pump.floor <= Len(pump.log) /\ pump.sent <= Len(pump.log) /\ pump.exit \in {0, Len(pump.log)}
        /\ pump.gen <= MaxAttempts + 1 /\ 1 .. Len(pump.log) = {}
    BY <2>2, <2>3, OpBounds
  <2> QED
    BY <2>2, <2>4 DEF LogInv
<1>3. ChildInv
  BY OpBounds DEF Init, ChildInv, NoChild
<1>c. ASSUME NEW a \in Attempts
      PROVE  con[a] \in Consumers /\ con[a].pc = (IF a = 1 THEN "starting" ELSE "idle") /\ con[a].stash = {}
  <2>1. con[a] = [pc |-> IF a = 1 THEN "starting" ELSE "idle", got |-> <<>>, stash |-> {}]
    BY DEF Init
  <2>2. <<>> \in Seq(Entries) /\ {} \in SUBSET Frames /\ "starting" \in ConPcs /\ "idle" \in ConPcs
    BY DEF ConPcs
  <2> QED
    BY <2>1, <2>2 DEF Consumers
<1>4. NetTypes
  <2>1. con \in [Attempts -> Consumers] /\ \A a \in Attempts : IsFiniteSet(con[a].stash)
    <3>1. con = [a \in Attempts |-> con[a]]
      BY DEF Init
    <3> QED
      BY <1>c, <3>1, FS_EmptySet
  <2>2. wire \in [Attempts -> Seq(Frames)]
    BY DEF Init
  <2>3. cur \in Attempts /\ losses \in Nat /\ restarts \in Nat
    BY <1>t, OpBounds
  <2>4. durable \in BOOLEAN
    BY <1>t
  <2>5. acks \subseteq Acks /\ reqs \subseteq Reqs
    BY OpBounds DEF Init, Reqs
  <2> QED
    BY <2>1, <2>2, <2>3, <2>4, <2>5 DEF NetTypes
<1>5. LaterIdle
  <2> SUFFICES ASSUME NEW a \in Attempts, a > cur
               PROVE  con[a].pc = "idle"
    BY DEF LaterIdle
  <2>1. a # 1
    BY <1>t
  <2> QED
    BY <1>c, <2>1
<1>6. CollectInv
  BY <1>c DEF CollectInv, Init, NoPump
<1> QED
  BY <1>1, <1>2, <1>3, <1>4, <1>5, <1>6 DEF OpInv

LEMMA NextInv ==
  ASSUME OpInv, [Next]_vars
  PROVE  OpInv'
<1>1. CASE UNCHANGED vars
  <2>1. UNCHANGED <<reg, pump, child, wire, acks, reqs, con, cur, durable, losses, restarts, runs, finished>>
    BY <1>1 DEF vars
  <2> QED
    BY <2>1, FramesSame
       DEF OpInv, RunnerTypes, LogInv, ChildInv, NetTypes, LaterIdle, CollectInv, SomeoneDone
<1>2. CASE RunnerStep \/ ProgressTick \/ Gc \/ Restart \/ Redispatch \/ Lose
  BY <1>2, ReadInv, ChildExitsInv, FinishInv, ProgressTickInv, GcInv, RestartInv, RedispatchInv, LoseInv
     DEF RunnerStep
<1>3. CASE Serve
  BY <1>3, ServeStartInv, ServeAttachInv, ServeAckInv DEF Serve
<1>4. ASSUME NEW a \in Attempts,
             ConsumerStep(a) \/ SendAck(a) \/ Probe(a) \/ GiveUp(a) \/ Record(a) \/ FinalAck(a)
      PROVE  OpInv'
  BY <1>4, SendStartInv, SettleInv, DeliverInv, SendAckInv, ProbeInv, RecordInv, FinalAckInv
     DEF ConsumerStep
<1> QED
  BY <1>1, <1>2, <1>3, <1>4 DEF Next

\* The frames, acks, requests and results of every behaviour are well formed, and
\* nothing is collected before a result is in the history.
THEOREM OpInvariant == Spec => []OpInv
<1>1. Init => OpInv
  BY InitInv
<1>2. OpInv /\ [Next]_vars => OpInv'
  BY NextInv
<1> QED
  BY <1>1, <1>2, PTL DEF Spec

\* Types, and the bounds of the send cursor and of the collected floor, for any window,
\* quota and number of faults (op_stream.rs CreditFlow and RetentionLog).
THEOREM OpTypesHold == Spec => []OpTypeOK
<1>1. OpInv => OpTypeOK
  <2> SUFFICES ASSUME OpInv
               PROVE  OpTypeOK
    OBVIOUS
  <2>i. RunnerTypes /\ LogInv /\ ChildInv /\ NetTypes
    BY DEF OpInv
  <2>1. /\ pump.log \in Seq(Kinds) /\ Len(pump.log) \in Nat /\ pump.floor \in Nat /\ pump.sent \in Nat
        /\ pump.gen \in Nat
    BY <2>i, LenProperties DEF RunnerTypes, Pumps
  <2>2. child.st \in ChildStates /\ child.pipe \in 0 .. 1 /\ child.printed \in 0 .. MaxData
    <3>1. child.st \in ChildStates /\ child.pipe \in 0 .. 1 /\ child.printed \in Nat
      BY <2>i, ChildFields DEF RunnerTypes
    <3> QED
      BY <2>i, <3>1, OpBounds DEF ChildInv
  <2>3. \A a \in Attempts : con[a].pc \in ConPcs
    BY <2>i, ConsumerFields DEF NetTypes
  <2>4. pump.floor \in 0 .. Len(pump.log) /\ pump.sent \in 0 .. Len(pump.log) /\ pump.gen \in 0 .. (MaxAttempts + 1)
    BY <2>1, <2>i, OpBounds DEF LogInv
  <2>5. pump.exit \in {0, Len(pump.log)} /\ pump.route = (pump.gen > 0)
    BY <2>i DEF LogInv
  <2>6. reg \in Regs /\ runs \in Nat /\ cur \in Attempts /\ durable \in BOOLEAN
    BY <2>i DEF RunnerTypes, NetTypes
  <2> QED
    BY <2>1, <2>2, <2>3, <2>4, <2>5, <2>6
       DEF OpTypeOK, High, Generation, Kinds, ChildStates, ConPcs, Regs
<1> QED
  BY <1>1, OpInvariant, PTL

\* Until a result is in the history the runner keeps every frame (sendAck's credit-only acks
\* and finalizeSettledOps after the history, op-stream.ts), whatever is lost or repeated.
THEOREM SuccessorsCanCollect == Spec => []SuccessorCanCollect
<1>1. OpInv => SuccessorCanCollect
  BY DEF OpInv, RunnerTypes, Pumps, CollectInv, SuccessorCanCollect
<1> QED
  BY <1>1, OpInvariant, PTL

-----------------------------------------------------------------------------
(* The protocol implements the remote command *)

Answers == [a \in Attempts |-> Result(a)]
Printed == IF Phase = "running" THEN child.printed ELSE 0

\* A consumer's result, of its control state and of what it applied.
ExitsIn(got) == {i \in DOMAIN got : got[i].kind \in {"exit", "failed"}}
ExitIn(got) == got[CHOOSE i \in ExitsIn(got) : \A j \in ExitsIn(got) : j <= i]
DataIn(got) == Cardinality({i \in DOMAIN got : got[i].kind = "data"})
PureIn(got) == \A i \in DOMAIN got : got[i].kind = "data" => got[i].run = ExitIn(got).run
HasResult(pc) == pc \in {"settled", "recorded", "done"}
ResultOf(pc, got) ==
  IF HasResult(pc) THEN IF PureIn(got) THEN <<ExitIn(got).run, DataIn(got)>> ELSE <<"mixed">>
  ELSE IF pc = "failed" THEN <<"failed">> ELSE <<"none">>

LEMMA ResultIs ==
  ASSUME NEW a \in Attempts
  PROVE  /\ Result(a) = ResultOf(con[a].pc, con[a].got)
         /\ Result(a)' = ResultOf(con'[a].pc, con'[a].got)
  BY DEF Result, ResultOf, HasResult, PureIn, OneRun, ExitIn, ExitsIn, ExitOf, Exits, DataIn, Received

LEMMA AnswersAre ==
  /\ Answers = [a \in Attempts |-> ResultOf(con[a].pc, con[a].got)]
  /\ Answers' = [a \in Attempts |-> ResultOf(con'[a].pc, con'[a].got)]
  BY ResultIs DEF Answers

\* An answer changes only when a consumer settles or fails.
LEMMA SameAnswers ==
  ASSUME \A a \in Attempts :
           \/ con'[a] = con[a]
           \/ HasResult(con[a].pc) /\ HasResult(con'[a].pc) /\ con'[a].got = con[a].got
           \/ /\ ~ HasResult(con[a].pc) /\ ~ HasResult(con'[a].pc)
              /\ (con[a].pc = "failed") = (con'[a].pc = "failed")
  PROVE  Answers' = Answers
<1>1. ASSUME NEW a \in Attempts
      PROVE  ResultOf(con'[a].pc, con'[a].got) = ResultOf(con[a].pc, con[a].got)
  <2>1. CASE con'[a] = con[a]
    BY <2>1
  <2>2. CASE HasResult(con[a].pc) /\ HasResult(con'[a].pc) /\ con'[a].got = con[a].got
    BY <2>2 DEF ResultOf
  <2>3. CASE /\ ~ HasResult(con[a].pc) /\ ~ HasResult(con'[a].pc)
             /\ (con[a].pc = "failed") = (con'[a].pc = "failed")
    BY <2>3 DEF ResultOf
  <2> QED
    BY <2>1, <2>2, <2>3
<1> QED
  BY <1>1, AnswersAre

LEMMA OneAnswer ==
  ASSUME NEW a \in Attempts, \A b \in Attempts \ {a} : con'[b] = con[b]
  PROVE  Answers' = [Answers EXCEPT ![a] = ResultOf(con'[a].pc, con'[a].got)]
<1>1. \A b \in Attempts \ {a} : ResultOf(con'[b].pc, con'[b].got) = ResultOf(con[b].pc, con[b].got)
  OBVIOUS
<1> QED
  BY <1>1, AnswersAre

LEMMA Unanswered ==
  ASSUME NEW a \in Attempts, Subscribed(a)
  PROVE  Answers[a] = <<"none">>
<1>1. ResultOf(con[a].pc, con[a].got) = <<"none">>
  BY DEF Subscribed, ResultOf, HasResult
<1> QED
  BY <1>1, AnswersAre

\* A move leaves every answer or gives one attempt a failure.
LEMMA MovesAnswers ==
  ASSUME NetTypes, NEW a \in Attempts, Moves(a)
  PROVE  \/ Answers' = Answers
         \/ /\ Fails(a) /\ ~ UNCHANGED con
            /\ Answers[a] = <<"none">> /\ Answers' = [Answers EXCEPT ![a] = <<"failed">>]
<1>1. CASE UNCHANGED con
  BY <1>1, AnswersAre
<1>2. CASE Subscribed(a) /\ (ConPc(a, "attaching") \/ ConPc(a, "stream"))
  <2>1. "attaching" \in ConPcs /\ "stream" \in ConPcs
    BY DEF ConPcs
  <2>2. con'[a].pc \in {"attaching", "stream"} /\ \A b \in Attempts \ {a} : con'[b] = con[b]
    BY <1>2, <2>1, PcChange
  <2>3. ~ HasResult(con[a].pc) /\ con[a].pc # "failed" /\ ~ HasResult(con'[a].pc) /\ con'[a].pc # "failed"
    BY <1>2, <2>2 DEF Subscribed, HasResult
  <2> QED
    BY <2>2, <2>3, SameAnswers
<1>3. CASE Subscribed(a) /\ Fails(a) /\ ~ UNCHANGED con
  <2>1. con'[a].pc = "failed" /\ \A b \in Attempts \ {a} : con'[b] = con[b]
    BY <1>3, FailChange
  <2>2. ResultOf(con'[a].pc, con'[a].got) = <<"failed">>
    BY <2>1 DEF ResultOf, HasResult
  <2> QED
    BY <1>3, <2>1, <2>2, OneAnswer, Unanswered
<1> QED
  BY <1>1, <1>2, <1>3 DEF Moves

LEMMA Stutters ==
  ASSUME UNCHANGED <<Phase, runs, Printed, finished, restarts, Answers>>
  PROVE  UNCHANGED Command!cvars
  BY DEF Command!cvars, Printed, Answers

LEMMA AttemptFails ==
  ASSUME NEW a \in Attempts, UNCHANGED <<Phase, runs, Printed, finished, restarts>>,
         Answers[a] = <<"none">>, Answers' = [Answers EXCEPT ![a] = <<"failed">>]
  PROVE  Command!Next
  BY DEF Command!Next, Command!Fail, Command!NoAnswer, Command!Failure, Printed, Answers

\* Steps that leave the op and its process as they are.
LEMMA PhaseKept ==
  ASSUME reg'.st = reg.st, (child'.st = "none") = (child.st = "none"),
         child'.printed = child.printed
  PROVE  UNCHANGED <<Phase, Printed>>
  BY DEF Phase, Printed

LEMMA MoveSteps ==
  ASSUME NetTypes, NEW a \in Attempts, Moves(a), UNCHANGED <<reg, child, runs, finished, restarts>>
  PROVE  Command!Next \/ UNCHANGED Command!cvars
<1>1. UNCHANGED <<Phase, Printed>>
  BY PhaseKept
<1> QED
  BY <1>1, MovesAnswers, Stutters, AttemptFails

\* The job's steps emit, end or change nothing of the command.
LEMMA JobSteps ==
  ASSUME OpInv, RunnerStep \/ ProgressTick
  PROVE  Command!Next \/ UNCHANGED Command!cvars
<1>i. RunnerTypes /\ ChildInv
  BY DEF OpInv
<1>c. child \in Children /\ child.printed \in Nat
  BY <1>i, ChildFields DEF RunnerTypes
<1>s. UNCHANGED <<runs, con, restarts>>
  BY DEF RunnerStep, Read, ChildExits, Finish, ProgressTick
<1>a. Answers' = Answers
  BY <1>s, SameAnswers
<1>1. CASE Read /\ Fits(pump, "data")
  <2>1. reg.st = "running" /\ UNCHANGED <<reg, finished>> /\ child.st # "none"
    BY <1>1, <1>i DEF Read, Pumping, ChildInv
  <2>2. child' = [child EXCEPT !.pipe = 0, !.printed = child.printed + 1]
    BY <1>1 DEF Read
  <2>3. child'.st = child.st /\ child'.printed = child.printed + 1
    BY <1>c, <2>2 DEF Children
  <2>4. Phase = "running" /\ Phase' = "running" /\ Printed' = Printed + 1
    BY <2>1, <2>3 DEF Phase, Printed
  <2> QED
    BY <1>a, <1>s, <2>1, <2>4 DEF Command!Next, Command!Emit, Answers, Printed
<1>2. CASE (Read /\ ~ Fits(pump, "data")) \/ ProgressTick
  <2>1. reg.st = "running" /\ UNCHANGED <<reg, finished>> /\ child.st # "none"
    BY <1>2, <1>i DEF Read, ProgressTick, Pumping, ChildInv
  <2>2. child' = [child EXCEPT !.st = "failed", !.pipe = 0] \/ UNCHANGED child
    BY <1>2 DEF Read, ProgressTick, Overflow
  <2>3. child'.st # "none" /\ child'.printed = child.printed
    BY <1>c, <2>1, <2>2 DEF Children
  <2>4. UNCHANGED <<Phase, Printed>>
    BY <2>1, <2>3, PhaseKept
  <2> QED
    BY <1>a, <1>s, <2>1, <2>4, Stutters
<1>3. CASE ChildExits
  <2>1. UNCHANGED <<reg, finished>> /\ child.st = "running"
    BY <1>3 DEF ChildExits
  <2>2. child'.st = "exited" /\ child'.printed = child.printed
    BY <1>3, <1>c DEF ChildExits, Children
  <2>3. UNCHANGED <<Phase, Printed>>
    BY <2>1, <2>2, PhaseKept
  <2> QED
    BY <1>a, <1>s, <2>1, <2>3, Stutters
<1>4. CASE Finish
  <2>1. reg.st = "running" /\ child.st # "none" /\ pump.run = runs
    BY <1>4, <1>i DEF Finish, Pumping, ChildInv
  <2>2. reg'.st = "complete" /\ child'.st = child.st
    BY <1>4, <1>c, <1>i DEF Finish, Children, RunnerTypes, Regs
  <2>3. Phase = "running" /\ Phase' = "ended" /\ Printed = child.printed /\ Printed' = 0
    BY <2>1, <2>2 DEF Phase, Printed
  <2>4. finished' \in {finished, finished \cup {<<runs, Printed>>}}
    BY <1>4, <2>1, <2>3 DEF Finish
  <2> QED
    BY <1>a, <1>s, <2>3, <2>4 DEF Command!Next, Command!End, Answers, Printed
<1> QED
  BY <1>1, <1>2, <1>3, <1>4 DEF RunnerStep

\* A start runs the command only in a life of the runner that does not know it.
LEMMA StartSteps ==
  ASSUME OpInv, NEW r \in reqs, ServeStart(r)
  PROVE  Command!Next \/ UNCHANGED Command!cvars
<1>i. RunnerTypes /\ NetTypes
  BY DEF OpInv
<1>s. UNCHANGED <<finished, restarts>>
  BY DEF ServeStart
<1>1. CASE /\ reg.st = "unknown"
           /\ reg' = [st |-> "running", acked |-> FALSE]
           /\ child' = [NoChild EXCEPT !.st = "running"]
           /\ runs' = runs + 1
           /\ StartReply(r, TRUE)
  <2>1. /\ r.a \in Attempts /\ Moves(r.a)
        /\ (Fails(r.a) /\ ~ UNCHANGED con) => ~ TRUE
    BY <1>1, <1>i, StartReplied
  <2>2. Answers' = Answers
    BY <1>i, <2>1, MovesAnswers
  <2>3. Phase = "new" /\ Phase' = "running" /\ Printed' = 0
    BY <1>1 DEF Phase, Printed, NoChild
  <2> QED
    BY <1>1, <1>s, <2>2, <2>3 DEF Command!Next, Command!Start, Answers, Printed
<1>2. CASE UNCHANGED <<reg, child, runs>> /\ \E accepted \in BOOLEAN : StartReply(r, accepted)
  <2>1. r.a \in Attempts /\ Moves(r.a)
    BY <1>2, <1>i, StartReplied
  <2> QED
    BY <1>2, <1>i, <1>s, <2>1, MoveSteps
<1>3. CASE /\ reg.st = "unknown"
           /\ reg' = [st |-> "complete", acked |-> TRUE]
           /\ child' = NoChild /\ StartReply(r, FALSE) /\ UNCHANGED runs
  <2>1. r.a \in Attempts /\ Moves(r.a)
    BY <1>3, <1>i, StartReplied
  <2>2. UNCHANGED <<Phase, Printed>>
    BY <1>3 DEF Phase, Printed, NoChild
  <2> QED
    BY <1>3, <1>i, <1>s, <2>1, <2>2, MovesAnswers, Stutters, AttemptFails
<1> QED
  BY <1>1, <1>2, <1>3 DEF ServeStart

\* An attach or an ack is not seen by the command; the attempt may learn that it is gone.
LEMMA AttachSteps ==
  ASSUME OpInv, NEW r \in reqs, ServeAttach(r)
  PROVE  Command!Next \/ UNCHANGED Command!cvars
<1>1. NetTypes /\ r.a \in Attempts /\ r.op \in {"attach", "heal"}
  BY DEF OpInv, NetTypes, Reqs, ServeAttach
<1>2. Moves(r.a)
  <2>1. CASE reg.st \in {"unknown", "lost"}
    <3>1. Replied(r.a, IF r.op = "heal" THEN "stream" ELSE "attaching", Fails(r.a))
      BY <2>1 DEF ServeAttach
    <3> QED
      BY <3>1 DEF Replied, Moves, Subscribed
  <2>2. CASE ~ (reg.st \in {"unknown", "lost"})
    <3>1. Replied(r.a, "attaching", ConPc(r.a, "stream"))
      BY <2>2 DEF ServeAttach
    <3> QED
      BY <3>1 DEF Replied, Moves, Subscribed
  <2> QED
    BY <2>1, <2>2
<1>3. UNCHANGED <<reg, child, runs, finished, restarts>>
  BY DEF ServeAttach
<1> QED
  BY <1>1, <1>2, <1>3, MoveSteps

LEMMA AckSteps ==
  ASSUME OpInv, NEW k \in acks, ServeAck(k)
  PROVE  UNCHANGED Command!cvars
<1>1. UNCHANGED <<child, runs, finished, con, restarts>>
  BY DEF ServeAck
<1>2. reg'.st = reg.st
  <2>1. reg \in Regs
    BY DEF OpInv, RunnerTypes
  <2>2. reg' = reg \/ reg' = [reg EXCEPT !.acked = TRUE]
    BY DEF ServeAck
  <2> QED
    BY <2>1, <2>2 DEF Regs
<1>3. UNCHANGED <<Phase, Printed>>
  BY <1>1, <1>2, PhaseKept
<1>4. Answers' = Answers
  BY <1>1, SameAnswers
<1> QED
  BY <1>1, <1>3, <1>4, Stutters

\* Somebody who is done has an answer, and it is not a failure.
LEMMA DoneHasAnswer ==
  ASSUME SomeoneDone
  PROVE  \E a \in Attempts : Answers[a] \notin {<<"none">>, <<"failed">>}
<1>1. PICK a \in Attempts : con[a].pc = "done"
  BY DEF SomeoneDone
<1> DEFINE got == con[a].got
           x == ExitIn(got).run
           y == DataIn(got)
<1>2. Answers[a] = <<x, y>> \/ Answers[a] = <<"mixed">>
  <2>1. HasResult(con[a].pc)
    BY <1>1 DEF HasResult
  <2> QED
    BY <2>1, AnswersAre DEF ResultOf
<1> HIDE DEF x, y
<1>3. <<x, y>> \notin {<<"none">>, <<"failed">>}
  BY Len(<<x, y>>) = 2, Len(<<"none">>) = 1, Len(<<"failed">>) = 1
<1>4. <<"mixed">> \notin {<<"none">>, <<"failed">>}
  OBVIOUS
<1> QED
  BY <1>2, <1>3, <1>4

\* An op is forgotten when it was collected, or when it never ran.
LEMMA GcSteps ==
  ASSUME OpInv, Gc
  PROVE  Command!Next \/ UNCHANGED Command!cvars
<1>1. UNCHANGED <<child, runs, finished, con, restarts>> /\ reg.st = "complete"
  BY DEF Gc
<1>2. Answers' = Answers
  BY <1>1, SameAnswers
<1>3. CASE child.st = "none"
  <2>1. UNCHANGED <<Phase, Printed>>
    BY <1>1, <1>3 DEF Phase, Printed
  <2> QED
    BY <1>1, <1>2, <2>1, Stutters
<1>4. CASE child.st # "none" /\ ~ reg.acked
  <2>1. reg'.st = "lost"
    BY <1>4 DEF Gc, ForgottenAs
  <2>2. UNCHANGED <<Phase, Printed>>
    BY <1>1, <1>4, <2>1 DEF Phase, Printed
  <2> QED
    BY <1>1, <1>2, <2>2, Stutters
<1>5. CASE child.st # "none" /\ reg.acked
  <2>1. reg'.st = "unknown" /\ SomeoneDone
    BY <1>5 DEF Gc, ForgottenAs, OpInv, CollectInv
  <2>2. Phase = "ended" /\ Phase' = "new" /\ Printed' = Printed
    BY <1>1, <1>5, <2>1 DEF Phase, Printed
  <2>3. \E a \in Attempts : Answers[a] \notin {<<"none">>, <<"failed">>}
    BY <2>1, DoneHasAnswer
  <2> QED
    BY <1>1, <1>2, <2>2, <2>3 DEF Command!Next, Command!Release, Command!NoAnswer, Command!Failure, Answers, Printed
<1> QED
  BY <1>3, <1>4, <1>5

LEMMA RestartSteps ==
  ASSUME OpInv, Restart
  PROVE  Command!Next
<1>1. UNCHANGED <<runs, finished, con>> /\ restarts' = restarts + 1 /\ reg'.st = "unknown"
  BY DEF Restart
<1>2. Answers' = Answers
  BY <1>1, SameAnswers
<1>3. Phase' = "new" /\ Printed' = 0
  BY <1>1 DEF Phase, Printed
<1> QED
  BY <1>1, <1>2, <1>3 DEF Command!Next, Command!Crash, Answers, Printed

\* A verified result is the whole output of one run that ended.
LEMMA SettleSteps ==
  ASSUME OpInv, NEW a \in Attempts, Settle(a)
  PROVE  Command!Next
<1>i. NetTypes /\ RunnerTypes
  BY DEF OpInv
<1>s. UNCHANGED <<reg, child, runs, finished, restarts>> /\ con[a].pc = "stream" /\ Exited(a)
  BY DEF Settle, runner
<1>p. UNCHANGED <<Phase, Printed>>
  BY <1>s, PhaseKept
<1>n. Answers[a] = <<"none">>
  BY <1>s, Unanswered DEF Subscribed
<1>1. CASE Fails(a)
  <2>1. con'[a].pc = "failed" /\ \A b \in Attempts \ {a} : con'[b] = con[b]
    BY <1>1, <1>i, FailChange
  <2>2. ResultOf(con'[a].pc, con'[a].got) = <<"failed">>
    BY <2>1 DEF ResultOf, HasResult
  <2> QED
    BY <1>n, <1>p, <1>s, <2>1, <2>2, OneAnswer, AttemptFails
<1>2. CASE /\ ExitOf(a).kind = "exit" /\ ByteExact(con[a].got, Output(a))
           /\ con' = [con EXCEPT ![a].pc = "settled", ![a].stash = {}]
  <2> DEFINE got == con[a].got
             o == Output(a)
  <2>1. con'[a].pc = "settled" /\ con'[a].got = got /\ \A b \in Attempts \ {a} : con'[b] = con[b]
    BY <1>2, <1>i, SettledChange
  <2>2. o \in finished /\ o[1] = ExitOf(a).run
    <3>1. got \in Seq(Entries)
      BY <1>i, ConsumerFields DEF NetTypes
    <3>2. ExitOf(a) \in Entries
      BY <1>s, <3>1, ExitIsApplied
    <3>3. \E x \in finished : x[1] = ExitOf(a).run
      BY <1>2, <3>2 DEF Entries, Ended
    <3> QED
      BY <3>3 DEF Output
  <2>3. o = <<o[1], o[2]>>
    BY <1>i, <2>2 DEF RunnerTypes
  <2>4. ExitIn(got) = ExitOf(a)
    BY DEF ExitIn, ExitsIn, ExitOf, Exits
  <2>5. DataIn(got) = o[2] /\ \A i \in DOMAIN got : got[i].kind = "data" => got[i].run = o[1]
    BY <1>2 DEF ByteExact, DataIn
  <2> HIDE DEF got, o
  <2>6. PureIn(got)
    BY <2>2, <2>4, <2>5 DEF PureIn
  <2>7. ResultOf("settled", got) = o
    BY <2>2, <2>3, <2>4, <2>5, <2>6 DEF ResultOf, HasResult
  <2>8. Answers' = [Answers EXCEPT ![a] = o]
    BY <2>1, <2>7, OneAnswer
  <2>9. \E x \in finished : Answers' = [Answers EXCEPT ![a] = x]
    BY <2>2, <2>8
  <2> QED
    BY <1>n, <1>p, <1>s, <2>9 DEF Command!Next, Command!Collect, Command!NoAnswer, Answers, Printed
<1> QED
  BY <1>1, <1>2 DEF Settle

\* The other steps of a consumer and of the turn.
LEMMA ConsumerSteps ==
  ASSUME OpInv, NEW a \in Attempts,
         SendStart(a) \/ Deliver(a) \/ SendAck(a) \/ Record(a) \/ FinalAck(a)
  PROVE  UNCHANGED Command!cvars
<1>i. NetTypes
  BY DEF OpInv
<1>s. UNCHANGED <<reg, child, runs, finished, restarts>>
  BY DEF SendStart, Deliver, SendAck, Record, FinalAck, runner
<1>p. UNCHANGED <<Phase, Printed>>
  BY <1>s, PhaseKept
<1>1. CASE SendStart(a) \/ SendAck(a)
  <2>1. UNCHANGED con
    BY <1>1 DEF SendStart, SendAck
  <2>2. Answers' = Answers
    BY <2>1, SameAnswers
  <2> QED
    BY <1>p, <1>s, <2>2, Stutters
<1>2. CASE Deliver(a)
  <2>1. /\ con' = con \/ (con'[a].pc = con[a].pc /\ \A b \in Attempts \ {a} : con'[b] = con[b])
        /\ con[a].pc \in {"starting", "attaching", "stream"}
    BY <1>2, <1>i DEF Deliver, Subscribed, NetTypes, Consumers
  <2>2. Answers' = Answers
    BY <2>1, SameAnswers DEF HasResult
  <2> QED
    BY <1>p, <1>s, <2>2, Stutters
<1>3. CASE Record(a) \/ FinalAck(a)
  <2>1. /\ con' = con \/ ConPc(a, "recorded") \/ ConPc(a, "done")
        /\ con' = con \/ con[a].pc \in {"settled", "recorded"}
    BY <1>3 DEF Record, FinalAck
  <2>2. "recorded" \in ConPcs /\ "done" \in ConPcs
    BY DEF ConPcs
  <2>3. \/ con' = con
        \/ /\ con'[a].pc \in {"recorded", "done"} /\ con'[a].got = con[a].got
           /\ \A b \in Attempts \ {a} : con'[b] = con[b]
    BY <1>i, <2>1, <2>2, PcChange
  <2>4. Answers' = Answers
    BY <2>1, <2>3, SameAnswers DEF HasResult
  <2> QED
    BY <1>p, <1>s, <2>4, Stutters
<1> QED
  BY <1>1, <1>2, <1>3

LEMMA RedispatchSteps ==
  ASSUME OpInv, Redispatch
  PROVE  UNCHANGED Command!cvars
<1> DEFINE n == cur + 1
<1>1. n \in Attempts /\ con[n].pc = "idle" /\ ConPc(n, "starting") /\ NetTypes
  BY RedispatchInv DEF OpInv
<1>2. UNCHANGED <<reg, child, runs, finished, restarts>>
  BY DEF Redispatch, runner
<1> HIDE DEF n
<1>3. con'[n].pc = "starting" /\ \A b \in Attempts \ {n} : con'[b] = con[b]
  <2>1. "starting" \in ConPcs
    BY DEF ConPcs
  <2> QED
    BY <1>1, <2>1, PcChange
<1>4. Answers' = Answers
  BY <1>1, <1>3, SameAnswers DEF HasResult
<1>5. UNCHANGED <<Phase, Printed>>
  BY <1>2, PhaseKept
<1> QED
  BY <1>2, <1>4, <1>5, Stutters

LEMMA LoseSteps ==
  ASSUME OpInv, Lose
  PROVE  UNCHANGED Command!cvars
<1>1. UNCHANGED <<reg, child, runs, finished, con, restarts>>
  BY DEF Lose
<1>2. Answers' = Answers
  BY <1>1, SameAnswers
<1>3. UNCHANGED <<Phase, Printed>>
  BY <1>1, PhaseKept
<1> QED
  BY <1>1, <1>2, <1>3, Stutters

LEMMA StepsImplement ==
  ASSUME OpInv, [Next]_vars
  PROVE  [Command!Next]_(Command!cvars)
<1>1. CASE UNCHANGED vars
  <2>1. UNCHANGED <<reg, child, runs, finished, con, restarts>>
    BY <1>1 DEF vars
  <2>2. Answers' = Answers
    BY <2>1, SameAnswers
  <2>3. UNCHANGED <<Phase, Printed>>
    BY <2>1, PhaseKept
  <2> QED
    BY <2>1, <2>2, <2>3, Stutters
<1>2. CASE RunnerStep \/ ProgressTick \/ Gc \/ Restart \/ Redispatch \/ Lose
  BY <1>2, JobSteps, GcSteps, RestartSteps, RedispatchSteps, LoseSteps
<1>3. CASE Serve
  BY <1>3, StartSteps, AttachSteps, AckSteps DEF Serve
<1>4. ASSUME NEW a \in Attempts,
             ConsumerStep(a) \/ SendAck(a) \/ Probe(a) \/ GiveUp(a) \/ Record(a) \/ FinalAck(a)
      PROVE  [Command!Next]_(Command!cvars)
  <2>1. CASE Probe(a) \/ GiveUp(a)
    <3>1. Moves(a) /\ NetTypes
      BY <2>1, ProbeInv DEF OpInv
    <3>2. UNCHANGED <<reg, child, runs, finished, restarts>>
      BY <2>1 DEF Probe, GiveUp, runner
    <3> QED
      BY <3>1, <3>2, MoveSteps
  <2>2. CASE Settle(a)
    BY <2>2, SettleSteps
  <2> QED
    BY <1>4, <2>1, <2>2, ConsumerSteps DEF ConsumerStep
<1> QED
  BY <1>1, <1>2, <1>3, <1>4 DEF Next

\* The op-stream protocol implements the command it promises: whatever is lost, repeated or
\* late, and however often the runner restarts or the turn is redispatched, the command is
\* run again only by a runner that does not know it, and an attempt gets the whole output of
\* one run that ended, or no result (op-stream.ts exec, registry.rs begin and gc).
THEOREM OpStreamImplementsCommand == Spec => ImplementsRemoteCommand
<1>1. Init => Command!Init
  <2> SUFFICES ASSUME Init
               PROVE  Command!Init
    OBVIOUS
  <2>1. Phase = "new" /\ Printed = 0
    BY DEF Init, Phase, Printed
  <2>2. Answers = [a \in Attempts |-> <<"none">>]
    <3>1. ASSUME NEW a \in Attempts
          PROVE  ResultOf(con[a].pc, con[a].got) = <<"none">>
      <4>1. con[a].pc \in {"starting", "idle"}
        BY DEF Init
      <4> QED
        BY <4>1 DEF ResultOf, HasResult
    <3> QED
      BY <3>1, AnswersAre
  <2>3. runs = 0 /\ finished = {} /\ restarts = 0
    BY DEF Init
  <2> QED
    BY <2>1, <2>2, <2>3 DEF Command!Init, Command!NoAnswer, Answers, Printed
<1>2. OpInv /\ [Next]_vars => [Command!Next]_(Command!cvars)
  BY StepsImplement
<1> QED
  BY <1>1, <1>2, OpInvariant, PTL DEF Spec, ImplementsRemoteCommand, Command!Spec
=============================================================================
