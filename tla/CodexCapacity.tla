--------------------------- MODULE CodexCapacity ---------------------------
(***************************************************************************)
(* Codex subscriptions: the credential lease of a turn, the failover to    *)
(* another credential, and the durable wait of an active goal when every   *)
(* credential is used up.  One session of one workspace; what the other    *)
(* sessions do to the pool is the environment's.                           *)
(*                                                                         *)
(* A database function is one transaction and one step.  The workflow and  *)
(* the attempts interleave between their awaits, an attempt outlives its   *)
(* heartbeat timeout, a signal may be delayed or lost.                     *)
(***************************************************************************)
EXTENDS Naturals, FiniteSets

CONSTANTS
  Creds,         \* the connected credentials
  MaxTurns,      \* bound on turns of the session (model bound)
  MaxDispatch,   \* bound on activity attempts (model bound)
  MaxDeaths,     \* bound on worker deaths of one turn (model bound)
  MaxEdits,      \* bound on changes of the pool by others (model bound)
  MaxGoal        \* bound on the goal's version (model bound)

ASSUME CapacityBounds ==
  /\ MaxTurns \in Nat /\ MaxDispatch \in Nat /\ MaxDeaths \in Nat
  /\ MaxEdits \in Nat /\ MaxGoal \in Nat \ {0}

Turns == 1 .. MaxTurns
Dispatches == 1 .. MaxDispatch
None == 0
NoCred == "none"
ASSUME CredNames == NoCred \notin Creds /\ IsFiniteSet(Creds)

Pending == {"queued", "running"}

VARIABLES
  usable,   \* credentials that are connected, not cooling and below the threshold
  enabled,  \* credentials open to new allocations (allocator_enabled)
  turn,     \* session_turns: [st, gen, deaths, moves]; gen # 0 for a capacity resume
  session,  \* the session row: [status, active]
  goal,     \* the goal row: [on, version]
  lease,    \* codex_credential_leases by turn: [cred, holder, gen, live]
  waiter,   \* codex_capacity_waiters: [status, gen, turn, version, pending, resumed]
  att,      \* the attempts by dispatch: [pc, turn, cred, gen, deaths, version, ends, wait]
  wf,       \* the workflow: [pc, d, gen, due, cap, que]
  sig,      \* a codexCapacityChanged signal is under way
  edits,    \* changes of the pool so far
  nudged,   \* history: the signal of an unseen change came between the arming and the result
  left,     \* history: turns the workflow went on from while they were running
  raced     \* history: turns that an attempt failed over though it had a successor

pool == <<usable, enabled, edits>>
hist == <<nudged, left, raced>>
rows == <<turn, session, goal, lease, waiter>>
vars == <<usable, enabled, turn, session, goal, lease, waiter, att, wf, sig, edits, nudged, left, raced>>

NoLease == [cred |-> NoCred, holder |-> None, gen |-> 0, live |-> FALSE]
NoTurn == [st |-> "none", gen |-> 0, deaths |-> 0, moves |-> 0]
NoAttempt == [pc |-> "none", turn |-> None, cred |-> NoCred, gen |-> 0, deaths |-> 0,
              version |-> 0, ends |-> "none", wait |-> 0]
NoWorkflow == [pc |-> "done", d |-> None, gen |-> 0, due |-> FALSE, cap |-> FALSE, que |-> FALSE]

Init ==
  /\ usable = Creds /\ enabled = Creds
  /\ turn = [t \in Turns |-> NoTurn]
  /\ session = [status |-> "idle", active |-> None]
  /\ goal = [on |-> TRUE, version |-> 1]
  /\ lease = [t \in Turns |-> NoLease]
  /\ waiter = [status |-> "none", gen |-> 0, turn |-> None, version |-> 0,
               pending |-> FALSE, resumed |-> None]
  /\ att = [d \in Dispatches |-> NoAttempt]
  /\ wf = NoWorkflow
  /\ sig = FALSE /\ edits = 0 /\ nudged = FALSE /\ left = {} /\ raced = {}

-----------------------------------------------------------------------------
(* Rows *)

With(sts) == {t \in Turns : turn[t].st \in sts}
First(ts) == CHOOSE t \in ts : \A u \in ts : t <= u
Free == With({"none"})

Set(t, st) == turn' = [turn EXCEPT ![t].st = st]
SetSession(status, active) == session' = [status |-> status, active |-> active]
Enqueue(gen) == turn' = [turn EXCEPT ![First(Free)] = [NoTurn EXCEPT !.st = "queued", !.gen = gen]]

Waiting == waiter.status = "waiting"
Eligible == usable \cap enabled
Owns(d, l) == l.holder = d /\ l.gen = att[d].gen
OwnLive(d) == LET l == lease[att[d].turn] IN l.live /\ l.cred = att[d].cred /\ Owns(d, l)
Current(d) == LET t == att[d].turn IN turn[t].st = "running" /\ session.active = t

AttPc(d, pc) == att' = [att EXCEPT ![d].pc = pc]

\* What an attempt knew goes with it; its result stays.
Over(d) == [NoAttempt EXCEPT !.pc = "over", !.turn = att[d].turn]
Ends(d, result) == att' = [att EXCEPT ![d] = [Over(d) EXCEPT !.ends = result]]
EndsWaiting(d, gen) == att' = [att EXCEPT ![d] = [Over(d) EXCEPT !.ends = "wait", !.wait = gen]]

-----------------------------------------------------------------------------
(* Users, other sessions and time *)

Started == IF wf.pc = "done" THEN [NoWorkflow EXCEPT !.pc = "top"] ELSE wf

\* A user message: a queued turn, and the workflow is woken or started.
SendMessage ==
  /\ Free # {}
  /\ Enqueue(0)
  /\ IF session.status = "idle" THEN SetSession("queued", None) ELSE UNCHANGED session
  /\ wf' = [Started EXCEPT !.que = TRUE]
  /\ UNCHANGED <<pool, goal, lease, waiter, att, sig, hist>>

\* setSessionGoalStatus: every transition is a new version.
SetSessionGoalStatus ==
  /\ goal.version < MaxGoal
  /\ goal' = [on |-> ~ goal.on, version |-> goal.version + 1]
  /\ UNCHANGED <<pool, turn, session, lease, waiter, att, wf, sig, hist>>

\* The reset instant of a window or a cooldown passes: nothing is written.
WindowResets(c) ==
  /\ edits < MaxEdits /\ c \notin usable
  /\ usable' = usable \cup {c}
  /\ edits' = edits + 1
  /\ UNCHANGED <<rows, enabled, att, wf, sig, hist>>

\* withCodexCapacityMutation: connect, disconnect, usage, allocator and settings writes.
\* The waiter's revision moves in the same transaction; the signal follows it.
CapacityMutation(c) ==
  /\ edits < MaxEdits
  /\ \/ usable' \in {usable \cup {c}, usable \ {c}} \ {usable} /\ UNCHANGED enabled
     \/ enabled' \in {enabled \cup {c}, enabled \ {c}} \ {enabled} /\ UNCHANGED usable
  /\ edits' = edits + 1
  /\ waiter' = [waiter EXCEPT !.pending = @ \/ Waiting]
  /\ sig' = (sig \/ Waiting)
  /\ UNCHANGED <<turn, session, goal, lease, att, wf, hist>>

\* signalPendingCodexCapacityWakeTargets
RepairSignal ==
  /\ Waiting /\ waiter.pending /\ ~ sig
  /\ sig' = TRUE
  /\ UNCHANGED <<pool, rows, att, wf, hist>>

\* The revision is a hint: the workflow only counts that one came.
SignalArrives ==
  /\ sig
  /\ sig' = FALSE
  /\ wf' = [Started EXCEPT !.cap = TRUE]
  /\ nudged' = (nudged \/ (wf.pc \in {"turn", "failure"} /\ Waiting /\ waiter.pending))
  /\ UNCHANGED <<pool, rows, att, left, raced>>

SignalLost ==
  /\ sig
  /\ sig' = FALSE
  /\ UNCHANGED <<pool, rows, att, wf, hist>>

\* leased_until passes: the worker is gone or its renewals fail.
LeaseExpires(t) ==
  /\ lease[t].live
  /\ lease' = [lease EXCEPT ![t].live = FALSE]
  /\ UNCHANGED <<pool, turn, session, goal, waiter, att, wf, sig, hist>>

-----------------------------------------------------------------------------
(* An attempt: runAgentTurn *)

ResumeValid(t) ==
  /\ turn[t].st = "running" /\ session.active = t
  /\ waiter.status = "resumed" /\ waiter.resumed = t /\ waiter.gen = turn[t].gen
  /\ With(Pending) \subseteq {t}
  /\ goal.on /\ goal.version = waiter.version

\* validateCodexCapacityResumeTurn, before any work for a turn that a wait resumed.
Validate(d) ==
  LET t == att[d].turn IN
  /\ att[d].pc = "start"
  /\ IF turn[t].gen = 0 \/ ResumeValid(t)
     THEN AttPc(d, "select") /\ UNCHANGED <<turn, session, waiter>>
     ELSE /\ Ends(d, "cancelled")
          /\ IF turn[t].st # "running" THEN UNCHANGED <<turn, session, waiter>>
             ELSE /\ Set(t, "cancelled")
                  /\ waiter' = IF waiter.status = "resumed" /\ waiter.resumed = t
                               THEN [waiter EXCEPT !.status = "superseded", !.pending = FALSE]
                               ELSE waiter
                  /\ IF session.active = t
                     THEN SetSession(IF With(Pending) \ {t} # {} THEN "queued" ELSE "idle", None)
                     ELSE UNCHANGED session
  /\ UNCHANGED <<pool, goal, lease, wf, sig, hist>>

\* selectCodexCredentialLeaseForTurn: a live lease of the turn stays while its credential is
\* healthy; any eligible credential may rank first otherwise.
Selectable(t) ==
  IF lease[t].live /\ lease[t].cred \in usable THEN {lease[t].cred} ELSE Eligible

\* acquireCodexCredentialLease: expired rows go first; a new holder is a new generation.
Acquire(d) ==
  LET t == att[d].turn IN
  /\ att[d].pc = "select"
  /\ IF Selectable(t) = {}
     THEN /\ lease' = [u \in Turns |-> IF u = t \/ ~ lease[u].live THEN NoLease ELSE lease[u]]
          /\ AttPc(d, "capped")
     ELSE \E c \in Selectable(t) :
            LET l == lease[t]
                gen == IF ~ l.live THEN 1 ELSE IF l.holder = d THEN l.gen ELSE l.gen + 1
            IN /\ lease' = [u \in Turns |->
                              IF u = t THEN [cred |-> c, holder |-> d, gen |-> gen, live |-> TRUE]
                              ELSE IF lease[u].live THEN lease[u] ELSE NoLease]
               /\ att' = [att EXCEPT ![d].pc = "run", ![d].cred = c, ![d].gen = gen]
  /\ UNCHANGED <<pool, turn, session, goal, waiter, wf, sig, hist>>

\* getSessionGoal, read before the wait is armed.
ReadGoal(d) ==
  /\ att[d].pc = "capped"
  /\ att' = [att EXCEPT ![d].version = IF goal.on THEN goal.version ELSE 0,
                        ![d].pc = IF goal.on THEN "arm" ELSE "idle"]
  /\ UNCHANGED <<pool, rows, wf, sig, hist>>

\* The transaction's fences: a reactive arm (it served a credential) must hold the live lease.
ArmFenced(d) ==
  /\ goal.on /\ goal.version = att[d].version
  /\ Current(d) /\ session.status = "running"
  /\ att[d].cred # NoCred => OwnLive(d) /\ turn[att[d].turn].deaths = att[d].deaths

\* armCodexCapacityWait: the turn fails, the session idles, the lease goes and the wait
\* starts, or nothing happens and the attempt ends the turn the old way.
Arm(d) ==
  LET t == att[d].turn IN
  /\ att[d].pc = "arm"
  /\ IF Waiting /\ waiter.turn = t /\ turn[t].st = "failed"
     THEN EndsWaiting(d, waiter.gen) /\ UNCHANGED <<turn, session, lease, waiter, nudged>>
     ELSE IF ArmFenced(d)
     THEN /\ waiter' = [status |-> "waiting", gen |-> waiter.gen + 1, turn |-> t,
                        version |-> goal.version, pending |-> FALSE, resumed |-> None]
          /\ Set(t, "failed")
          /\ SetSession("idle", None)
          /\ lease' = [lease EXCEPT ![t] = NoLease]
          /\ EndsWaiting(d, waiter.gen + 1)
          /\ nudged' = FALSE
     ELSE AttPc(d, "idle") /\ UNCHANGED <<turn, session, lease, waiter, nudged>>
  /\ UNCHANGED <<pool, goal, wf, sig, left, raced>>

\* releaseCodexCredentialLease by exact holder and generation.
Released(d) == LET t == att[d].turn IN IF Owns(d, lease[t]) THEN [lease EXCEPT ![t] = NoLease] ELSE lease

\* finishTurn and setSessionStatus, which nothing fences (SessionTurns splits them).
EndTurn(d, st) ==
  /\ Set(att[d].turn, st)
  /\ SetSession("idle", None)
  /\ lease' = Released(d)
  /\ Ends(d, "idle")
  /\ UNCHANGED <<pool, goal, waiter, wf, sig, hist>>

FinishCapped(d) == att[d].pc = "idle" /\ EndTurn(d, "failed")
FinishTurn(d) == att[d].pc = "run" /\ EndTurn(d, "completed")

\* renewCodexLease finds no live row of its holder and generation, or its own deadline passed.
NoticeLost(d) ==
  /\ att[d].pc = "run" /\ ~ OwnLive(d)
  /\ AttPc(d, "lost")
  /\ UNCHANGED <<pool, rows, wf, sig, hist>>

\* A definitive refusal: quarantineCodexCredentialForLease, only through the exact live lease.
Quarantine(d) ==
  /\ att[d].pc = "run"
  /\ IF OwnLive(d)
     THEN usable' = usable \ {att[d].cred} /\ AttPc(d, "refused")
     ELSE AttPc(d, "lost") /\ UNCHANGED usable
  /\ UNCHANGED <<enabled, edits, rows, wf, sig, hist>>

HasSuccessor(d) == \E e \in Dispatches : e > d /\ att[e].turn = att[d].turn
FailedOver(d) == raced' = IF HasSuccessor(d) THEN raced \cup {att[d].turn} ELSE raced

\* Mutant: the turn is not put back on the queue.
RequeueAsWaiting(d) ==
  /\ Set(att[d].turn, "waiting")
  /\ SetSession("queued", None)
  /\ lease' = [lease EXCEPT ![att[d].turn] = NoLease]
  /\ Ends(d, "preempted")
  /\ FailedOver(d)

\* The fence of settleCodexCredentialFailover.
FailoverHolds(d) == Current(d) /\ OwnLive(d)

\* settleCodexCredentialFailover: the same turn goes back to the queue.
Requeue(d) ==
  /\ turn' = [turn EXCEPT ![att[d].turn].st = "queued", ![att[d].turn].moves = @ + 1]
  /\ SetSession("queued", None)
  /\ lease' = [lease EXCEPT ![att[d].turn] = NoLease]
  /\ Ends(d, "preempted")
  /\ FailedOver(d)

\* Another credential takes the turn, at most once per connected one; otherwise the cap.
Failover(d) ==
  /\ att[d].pc = "refused"
  /\ IF Eligible = {}
     THEN AttPc(d, "capped") /\ UNCHANGED <<turn, session, lease, raced>>
     ELSE IF ~ FailoverHolds(d)
     THEN AttPc(d, "lost") /\ UNCHANGED <<turn, session, lease, raced>>
     ELSE IF turn[att[d].turn].moves >= Cardinality(Creds)
     THEN AttPc(d, "idle") /\ UNCHANGED <<turn, session, lease, raced>>
     ELSE Requeue(d)
  /\ UNCHANGED <<pool, goal, waiter, wf, sig, nudged, left>>

\* Mutant: deaths counted since are not looked at.
LossOfAnyDispatch(d) ==
  LET t == att[d].turn IN Current(d) /\ (lease[t] = NoLease \/ Owns(d, lease[t]))

\* settleCodexCredentialLeaseLoss: no successor holds the lease and no death was counted since.
LossSettles(d) ==
  LET t == att[d].turn IN
  /\ Current(d) /\ turn[t].deaths = att[d].deaths
  /\ lease[t] = NoLease \/ Owns(d, lease[t])

\* With a durable checkpoint the turn is queued again, without one it fails.
SettleLost(d) ==
  LET t == att[d].turn IN
  /\ att[d].pc = "lost"
  /\ IF LossSettles(d)
     THEN /\ \/ Set(t, "queued") /\ SetSession("queued", None) /\ Ends(d, "preempted")
             \/ Set(t, "failed") /\ SetSession("failed", None) /\ Ends(d, "failed")
          /\ lease' = Released(d)
     ELSE Ends(d, "preempted") /\ UNCHANGED <<turn, session, lease>>
  /\ UNCHANGED <<pool, goal, waiter, wf, sig, hist>>

-----------------------------------------------------------------------------
(* The session workflow *)

At(l) == wf.pc = l
Go(l) == wf' = [wf EXCEPT !.pc = l]

Undispatched == {d \in Dispatches : att[d] = NoAttempt}

\* claimNextQueuedTurn and the dispatch; the wake counters are remembered before it.
Claim ==
  /\ At("top") /\ With({"queued"}) # {}
  /\ Undispatched # {}
  /\ LET d == First(Undispatched) IN
       /\ LET t == First(With({"queued"})) IN
            /\ Set(t, "running")
            /\ SetSession("running", t)
            /\ att' = [att EXCEPT ![d] = [NoAttempt EXCEPT !.pc = "start", !.turn = t,
                                                           !.deaths = turn[t].deaths]]
       /\ wf' = [wf EXCEPT !.pc = "turn", !.d = d, !.cap = FALSE, !.que = FALSE]
  /\ nudged' = FALSE
  /\ UNCHANGED <<pool, goal, lease, waiter, sig, left, raced>>

\* Mutant: the goal goes on before the wait is read.
GoalFirst ==
  /\ At("top") /\ With({"queued"}) = {}
  /\ Go("goal")
  /\ UNCHANGED <<pool, rows, att, sig, hist>>

\* Nothing queued: getCodexCapacityWait, before a goal goes on.
ReadWait ==
  /\ At("top") /\ With({"queued"}) = {}
  /\ wf' = IF Waiting THEN [wf EXCEPT !.pc = "enter", !.gen = waiter.gen, !.due = waiter.pending]
           ELSE [wf EXCEPT !.pc = "goal"]
  /\ UNCHANGED <<pool, rows, att, sig, hist>>

\* waitForCodexCapacity without a baseline takes the counters as they are now.
EnterWait ==
  /\ At("enter")
  /\ wf' = [wf EXCEPT !.pc = "wait", !.cap = FALSE, !.que = FALSE]
  /\ UNCHANGED <<pool, rows, att, sig, hist>>

\* maybeContinueGoal: an active goal with nothing pending gets a turn.
ContinueGoal ==
  /\ At("goal") /\ goal.on /\ With(Pending) = {} /\ Free # {}
  /\ Enqueue(0)
  /\ Go("top")
  /\ UNCHANGED <<pool, session, goal, lease, waiter, att, sig, hist>>

\* Otherwise it idles out, unless a wake-up came.
IdleOut ==
  /\ At("goal") /\ (~ goal.on \/ With(Pending) # {} \/ Free = {})
  /\ wf' = IF wf.que \/ With({"queued"}) # {} THEN [wf EXCEPT !.pc = "top", !.que = FALSE] ELSE NoWorkflow
  /\ IF session.status \in {"queued", "running"} /\ With({"queued"}) = {} /\ ~ wf.que
     THEN SetSession("idle", None) ELSE UNCHANGED session
  /\ UNCHANGED <<pool, turn, goal, lease, waiter, att, sig, hist>>

\* Later rounds of a wait compare with the counters as they are now.
FreshBaseline(gen, due) == [wf EXCEPT !.pc = "wait", !.gen = gen, !.due = due, !.cap = FALSE, !.que = FALSE]

\* The first wait after a dispatch compares with the counters from before it.
DispatchBaseline(gen, due) == [wf EXCEPT !.pc = "wait", !.gen = gen, !.due = due]

\* runTurn: what the attempt returned.
Result(d) ==
  /\ At("turn") /\ wf.d = d /\ att[d].pc = "over"
  /\ wf' = CASE att[d].ends = "wait" -> DispatchBaseline(att[d].wait, FALSE)
             [] att[d].ends = "failed" -> NoWorkflow
             [] OTHER -> [wf EXCEPT !.pc = "top"]
  /\ left' = left \cup ({att[d].turn} \cap With({"running"}))
  /\ UNCHANGED <<pool, rows, att, sig, nudged, raced>>

\* The worker dies, or only seems to: its attempt stops anywhere, or goes on and even
\* settles without being heard.
HeartbeatTimeout(d) ==
  /\ At("turn") /\ wf.d = d
  /\ turn[att[d].turn].deaths < MaxDeaths
  /\ Go("failure")
  /\ UNCHANGED <<pool, rows, att, sig, hist>>

\* A wait that was armed before the death is found again; otherwise
\* requeueTurnAfterWorkerDeath counts the death, or finds the turn settled.
RecoverFromDeath ==
  LET t == att[wf.d].turn IN
  /\ At("failure")
  /\ IF Waiting
     THEN /\ wf' = DispatchBaseline(waiter.gen, waiter.pending)
          /\ left' = left \cup ({t} \cap With({"running"}))
          /\ UNCHANGED <<turn, session>>
     ELSE /\ Go("top") /\ UNCHANGED left
          /\ IF turn[t].st \in {"running", "cancelled"}
             THEN /\ turn' = [turn EXCEPT ![t].st = "queued", ![t].deaths = @ + 1]
                  /\ SetSession("queued", None)
             ELSE UNCHANGED <<turn, session>>
  /\ UNCHANGED <<pool, goal, lease, waiter, att, sig, nudged, raced>>

\* Mutant: the timer is not rebuilt by a new run.
TimerOfARunOnly ==
  /\ At("wait") /\ ~ wf.due /\ wf.d # None
  /\ wf' = [wf EXCEPT !.due = TRUE]
  /\ UNCHANGED <<pool, rows, att, sig, hist>>

\* nextCheckAt: the earliest reset or the bounded back-off.
TimerFires ==
  /\ At("wait") /\ ~ wf.due
  /\ wf' = [wf EXCEPT !.due = TRUE]
  /\ UNCHANGED <<pool, rows, att, sig, hist>>

WaitSuperseded ==
  \/ ~ goal.on \/ goal.version # waiter.version
  \/ session # [status |-> "idle", active |-> None]
  \/ turn[waiter.turn].st # "failed"
  \/ With(Pending) # {} \/ \E t \in Turns : t > waiter.turn /\ turn[t].st # "none"

\* Another generation, or no longer waiting: the check does nothing.
CheckApplies == Waiting /\ waiter.gen = wf.gen

\* One goal continuation, tied to the wait's generation.
Resume ==
  /\ Enqueue(waiter.gen)
  /\ SetSession("queued", None)
  /\ waiter' = [waiter EXCEPT !.status = "resumed", !.pending = FALSE, !.resumed = First(Free)]

\* reconcileCodexCapacityWait on a wake-up, a signal or the timer: the wait is over or goes on.
Check ==
  /\ At("wait") /\ (wf.due \/ wf.cap \/ wf.que)
  /\ IF ~ CheckApplies THEN Go("top") /\ UNCHANGED <<turn, session, waiter>>
     ELSE IF WaitSuperseded
     THEN /\ waiter' = [waiter EXCEPT !.status = "superseded", !.pending = FALSE]
          /\ Go("top") /\ UNCHANGED <<turn, session>>
     ELSE IF Eligible = {} \/ Free = {}
     THEN /\ waiter' = [waiter EXCEPT !.pending = FALSE]
          /\ Go("checked") /\ UNCHANGED <<turn, session>>
     ELSE Resume /\ Go("top")
  /\ nudged' = FALSE
  /\ UNCHANGED <<pool, goal, lease, att, sig, left, raced>>

\* The next round takes the counters as they are when the check's result arrives; a long
\* history goes on as a new run of the workflow, from the top.
WaitAgain ==
  /\ At("checked")
  /\ \/ wf' = FreshBaseline(wf.gen, FALSE)
     \/ wf' = [NoWorkflow EXCEPT !.pc = "top"]
  /\ UNCHANGED <<pool, rows, att, sig, hist>>

-----------------------------------------------------------------------------
AttemptStep(d) ==
  \/ Validate(d) \/ Acquire(d) \/ ReadGoal(d) \/ Arm(d) \/ FinishCapped(d) \/ FinishTurn(d)
  \/ NoticeLost(d) \/ Quarantine(d) \/ Failover(d) \/ SettleLost(d)

WorkflowStep ==
  \/ Claim \/ ReadWait \/ EnterWait \/ ContinueGoal \/ IdleOut \/ RecoverFromDeath
  \/ Check \/ WaitAgain \/ \E d \in Dispatches : Result(d)

Environment ==
  \/ SendMessage \/ SetSessionGoalStatus \/ RepairSignal \/ SignalArrives \/ SignalLost
  \/ \E c \in Creds : WindowResets(c) \/ CapacityMutation(c)
  \/ \E t \in Turns : LeaseExpires(t)
  \/ \E d \in Dispatches : HeartbeatTimeout(d)

Next == (\E d \in Dispatches : AttemptStep(d)) \/ WorkflowStep \/ TimerFires \/ Environment

\* Temporal goes on with a run that is not blocked and fires its timers; an attempt goes on
\* while its worker heartbeats.
Fairness ==
  /\ WF_vars(WorkflowStep)
  /\ WF_vars(TimerFires)
  /\ \A d \in Dispatches : WF_vars(At("turn") /\ wf.d = d /\ AttemptStep(d))

Spec == Init /\ [][Next]_vars /\ Fairness

-----------------------------------------------------------------------------
(* Properties *)

\* Types; a turn fails over at most once per connected credential.
CapacityTypeOK ==
  /\ usable \subseteq Creds /\ enabled \subseteq Creds /\ edits \in 0 .. MaxEdits
  /\ \A t \in Turns :
       /\ turn[t].st \in {"none", "queued", "running", "completed", "failed", "cancelled"}
       /\ turn[t].moves \in 0 .. Cardinality(Creds) /\ turn[t].deaths \in 0 .. MaxDeaths
       /\ lease[t].cred \in Creds \cup {NoCred} /\ lease[t].holder \in {None} \cup Dispatches
  /\ session.status \in {"idle", "queued", "running", "failed"} /\ session.active \in {None} \cup Turns
  /\ waiter.status \in {"none", "waiting", "resumed", "superseded"} /\ waiter.turn \in {None} \cup Turns
  /\ wf.pc \in {"done", "top", "enter", "goal", "turn", "failure", "wait", "checked"}
  /\ sig \in BOOLEAN /\ nudged \in BOOLEAN

(***************************************************************************)
(* A signal of a change that no check has seen, come after the wait was    *)
(* armed and before its dispatch returned, is not taken into the baseline: *)
(* the workflow does not block on the timer with it (waitForCodexCapacity's*)
(* entryBaseline, and the revision that getCodexCapacityWait reads).       *)
(***************************************************************************)
NudgeNotBaselined == nudged /\ wf.pc = "wait" => wf.cap \/ wf.que \/ wf.due

(***************************************************************************)
(* While the goal waits for capacity nothing else continues it: maybe-     *)
(* ContinueGoal runs only when there is no wait, also after a worker death *)
(* between the arming and the report.  The exception is a wait armed for a *)
(* turn that the workflow had left running (left): its death was answered  *)
(* by an older wait, or its last attempt found the lease with a zombie.    *)
(***************************************************************************)
WaitReplacesContinuation == [][ContinueGoal => ~ Waiting \/ waiter.turn \in left]_vars

(***************************************************************************)
(* settleCodexCredentialLeaseLoss by an attempt that has a successor       *)
(* changes neither the turn nor the session: "unable to clobber the shared *)
(* turn/session".  The exception is a turn that an attempt failed over     *)
(* though it had a successor (raced): settleCodexCredentialFailover does   *)
(* not compare the death counter, and the next dispatch shares it with the *)
(* attempt the failover passed over.                                       *)
(***************************************************************************)
LossFencedFromSuccessor ==
  [][\A d \in Dispatches :
       SettleLost(d) /\ HasSuccessor(d) /\ att[d].turn \notin raced
         => UNCHANGED <<turn, session, lease>>]_vars

(***************************************************************************)
(* A wait ends once a credential stays available, though every signal may  *)
(* be lost and the workers may die: the timer and the read before a goal   *)
(* goes on are enough.  Only a session that failed keeps it, until its     *)
(* next message, and a turn that the workflow left running (left).         *)
(***************************************************************************)
WaitEnds ==
  <>[](Eligible # {} /\ Free # {} /\ Undispatched # {})
    => []<>(~ Waiting \/ session.status = "failed" \/ waiter.turn \in left)
=============================================================================
