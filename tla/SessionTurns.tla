---------------------------- MODULE SessionTurns ----------------------------
(***************************************************************************)
(* One session: its queue of turns in Postgres, the Temporal workflow that *)
(* claims and dispatches them, the activity attempts that run them, and    *)
(* the API calls that post messages, interrupt, approve and delete.        *)
(*                                                                         *)
(* A step is what happens between two awaits.  A signal changes workflow   *)
(* variables at once, also while the workflow waits for an activity.  A    *)
(* cancelled or timed-out attempt goes on until it hears of it; its writes *)
(* meet those of its successor.                                            *)
(***************************************************************************)
EXTENDS Naturals, Sequences, FiniteSets

CONSTANTS
  MaxTurns,         \* bound on turns of the session (model bound)
  MaxRedispatches,  \* WORKER_DEATH_MAX_REDISPATCHES
  Slots,            \* attempts that can be alive at once (model bound)
  MaxAsks,          \* bound on approval requests (model bound)
  MaxApprovals,     \* bound on decisions waiting in the workflow (model bound)
  Faults            \* what users and the environment may do

(***************************************************************************)
(* interrupt    the user stops or steers                                   *)
(* delete       the user deletes a queued turn                             *)
(* goal         the session has an active goal                             *)
(* ask          an attempt stops at a tool call that needs approval        *)
(* preempt      a worker shuts down gracefully, a lease is superseded or   *)
(*              the context is compacted: the attempt re-queues its turn   *)
(* workerDeath  a worker is killed                                         *)
(* crashLoop    ... more often than one turn is re-dispatched              *)
(* zombie       an attempt outlives its heartbeat timeout                  *)
(* slowStart    ... before it has read its turn                            *)
(* lateShutdown a cancelled or timed-out attempt is shut down before it    *)
(*              hears of it                                                *)
(* late         a cancelled or timed-out attempt runs on as if nothing     *)
(*              happened before it hears of it, or times out between its   *)
(*              last two writes                                            *)
(* fail         an attempt fails for good                                  *)
(* apiCrash     the API process dies between two steps of a message        *)
(***************************************************************************)
FaultKinds ==
  {"interrupt", "delete", "goal", "ask", "preempt", "workerDeath", "crashLoop", "zombie",
   "slowStart", "lateShutdown", "late", "fail", "apiCrash"}

ASSUME SessionBounds ==
  MaxTurns \in Nat /\ MaxRedispatches \in Nat /\ MaxAsks \in Nat /\ MaxApprovals \in Nat
ASSUME SessionEnvironment == Faults \subseteq FaultKinds

Turns == 1 .. MaxTurns
NoTurn == 0

Pending == {"queued", "running", "requires_action"}
TurnStatuses == {"none", "completed", "failed", "cancelled"} \cup Pending
SessionStatuses == {"idle", "queued", "running", "requires_action", "failed"}
Interrupts == {"stop", "steer"}

VARIABLES
  turn,      \* session_turns: [st, deaths], in queue order
  session,   \* the session row: [status, active]
  goal,      \* the session has an active goal
  ask,       \* approvals asked for so far: the one the saved run state waits for
  wf,        \* the workflow: [pc, t, act, slot, serving, woken, approvals, decision]
  att,       \* the attempts: [turn, pc, seen, own, ends, decision]
  api,       \* where the message being posted is
  userEnded  \* history: turns that an interrupt or a delete cancelled

vars == <<turn, session, goal, ask, wf, att, api, userEnded>>

NoWorkflow == [pc |-> "none", t |-> NoTurn, act |-> NoTurn, slot |-> "none", serving |-> "none",
               woken |-> FALSE, approvals |-> <<>>, decision |-> 0]
NoAttempt  == [turn |-> NoTurn, pc |-> "none", seen |-> 0, own |-> FALSE, ends |-> "none", decision |-> 0]

Init ==
  /\ turn = [t \in Turns |-> [st |-> "none", deaths |-> 0]]
  /\ session = [status |-> "idle", active |-> NoTurn]
  /\ goal \in {FALSE, "goal" \in Faults}
  /\ ask = 0
  /\ wf = NoWorkflow
  /\ att = [s \in Slots |-> NoAttempt]
  /\ api = "idle"
  /\ userEnded = {}

-----------------------------------------------------------------------------
(* The tables *)

With(st) == {t \in Turns : turn[t].st = st}
First(ts) == CHOOSE t \in ts : \A u \in ts : t <= u

\* finishTurn and setSessionStatus are not fenced: they write whatever the row says.
SetTurn(t, st) == turn' = [turn EXCEPT ![t].st = st]
SetSessionStatus(status, active) == session' = [status |-> status, active |-> active]

\* positionForEnqueue: behind everything queued before.
EnqueueSessionTurn == SetTurn(First(With("none")), "queued")

MarkIdleQueuedOnly == IF session.status = "queued" THEN SetSessionStatus("idle", NoTurn) ELSE UNCHANGED session

MarkSessionIdle == IF session.status \in {"queued", "running"} THEN SetSessionStatus("idle", NoTurn)
                   ELSE UNCHANGED session

RequeueUnguarded(t, from) == TRUE

\* requeuePreemptedTurn updates the row only in one of the given statuses.
Requeueable(t, from) == turn[t].st \in from

CancelAnyDispatch(t, seen) == turn[t].st \in {"running", "requires_action"}

\* cancelTurnFromDyingDispatch: the row is live and no worker death was counted since.
CancelsFromDying(t, seen) ==
  turn[t].st \in {"running", "requires_action"} /\ turn[t].deaths = seen

-----------------------------------------------------------------------------
(* Signals.  signalWithStart starts a run when there is none. *)

Signalled == IF wf.pc = "none" THEN [NoWorkflow EXCEPT !.pc = "top"] ELSE wf

\* postUserMessageTurn: append under the session lock, enqueue, wake.
AcceptMessage ==
  /\ api = "idle" /\ With("none") # {}
  /\ api' = "accepted"
  /\ IF session.status \in {"idle", "failed"} THEN SetSessionStatus("queued", NoTurn)
     ELSE UNCHANGED session
  /\ UNCHANGED <<turn, goal, ask, wf, att, userEnded>>

EnqueueMessage ==
  /\ api = "accepted" /\ With("none") # {}
  /\ EnqueueSessionTurn
  /\ api' = "enqueued"
  /\ UNCHANGED <<session, goal, ask, wf, att, userEnded>>

\* wakeups is compared only with its value at the start of the last wait.
WakeSessionWorkflow ==
  /\ api = "enqueued"
  /\ wf' = [Signalled EXCEPT !.woken = wf.pc \in {"wait", "final", "finalidle"}]
  /\ api' = "idle"
  /\ UNCHANGED <<turn, session, goal, ask, att, userEnded>>

\* The request dies, or a goal's turns used up the ids.
MessageLost ==
  /\ ("apiCrash" \in Faults /\ api # "idle") \/ (api = "accepted" /\ With("none") = {})
  /\ api' = "idle"
  /\ UNCHANGED <<turn, session, goal, ask, wf, att, userEnded>>

SignalInterrupt(kind) ==
  /\ "interrupt" \in Faults
  /\ wf' = [Signalled EXCEPT !.slot = kind]
  /\ UNCHANGED <<turn, session, goal, ask, att, api, userEnded>>

\* The API takes a decision only while the session waits for one.
SignalApproval ==
  /\ session.status = "requires_action" /\ wf.pc # "none"
  /\ Len(wf.approvals) < MaxApprovals
  /\ wf' = [wf EXCEPT !.approvals = Append(@, ask)]
  /\ UNCHANGED <<turn, session, goal, ask, att, api, userEnded>>

CancelQueuedSessionTurn(t) ==
  /\ "delete" \in Faults /\ turn[t].st = "queued"
  /\ SetTurn(t, "cancelled")
  /\ userEnded' = userEnded \cup {t}
  /\ UNCHANGED <<session, goal, ask, wf, att, api>>

\* The agent completes its goal, or someone pauses it.
GoalEnds ==
  /\ goal
  /\ goal' = FALSE
  /\ UNCHANGED <<turn, session, ask, wf, att, api, userEnded>>

-----------------------------------------------------------------------------
(* The workflow's loop *)

At(l) == wf.pc = l
Go(l) == wf' = [wf EXCEPT !.pc = l]

\* Waiting starts by remembering the wake-ups seen so far.
Wait == wf' = [wf EXCEPT !.pc = "wait", !.woken = FALSE]

\* continueAsNew drops the decisions; it is refused while an interrupt waits.
LoopTop ==
  /\ At("top")
  /\ \/ wf' = [wf EXCEPT !.pc = "claim", !.t = NoTurn, !.decision = 0, !.woken = FALSE]
     \/ (wf.slot = "none" /\ wf' = [NoWorkflow EXCEPT !.pc = "claim"])
  /\ UNCHANGED <<turn, session, goal, ask, att, api, userEnded>>

\* claimNextQueuedTurn: the first queued turn runs, and is the active one.
ClaimTurn ==
  /\ At("claim") \/ At("final")
  /\ With("queued") # {}
  /\ LET t == First(With("queued")) IN
       /\ SetTurn(t, "running")
       /\ SetSessionStatus("running", t)
       /\ wf' = [wf EXCEPT !.pc = "start", !.t = t, !.decision = 0]
  /\ UNCHANGED <<goal, ask, att, api, userEnded>>

ClaimNothing ==
  /\ With("queued") = {}
  /\ \/ At("claim") /\ (IF wf.slot = "none" THEN Go("goal") ELSE Wait)
     \/ At("final") /\ Go("finalidle")
  /\ UNCHANGED <<turn, session, goal, ask, att, api, userEnded>>

\* maybeContinueGoal: nothing to continue (no goal, a turn in progress) or an error;
\* work in the queue; or the goal's guards let it go on or pause it.
EvaluateGoalContinuation ==
  /\ At("goal")
  /\ \/ Wait /\ UNCHANGED goal
     \/ goal /\ With("queued") # {} /\ Go("top") /\ UNCHANGED goal
     \/ /\ goal /\ \A t \in Turns : turn[t].st \notin Pending
        /\ (Go("synth") /\ UNCHANGED goal) \/ (Wait /\ goal' = FALSE)
  /\ UNCHANGED <<turn, session, ask, att, api, userEnded>>

\* The goal is read once more before its turn is made.
RecheckGoal ==
  /\ At("synth")
  /\ IF goal THEN Go("enqueue") ELSE Wait
  /\ UNCHANGED <<turn, session, goal, ask, att, api, userEnded>>

EnqueueContinuation ==
  /\ At("enqueue")
  /\ IF With("none") # {} THEN EnqueueSessionTurn /\ Go("top") ELSE Wait /\ UNCHANGED turn
  /\ UNCHANGED <<session, goal, ask, att, api, userEnded>>

\* condition(..., "5s")
WaitEnds ==
  /\ At("wait")
  /\ IF wf.slot # "none" THEN wf' = [wf EXCEPT !.pc = "idleint", !.serving = wf.slot, !.slot = "none"]
     ELSE Go(IF wf.woken THEN "top" ELSE "final")
  /\ UNCHANGED <<turn, session, goal, ask, att, api, userEnded>>

\* pauseGoalForInterrupt, markSessionIdle and out.
IdleInterrupt ==
  /\ At("idleint")
  /\ goal' = (goal /\ wf.serving = "steer")
  /\ MarkSessionIdle
  /\ wf' = NoWorkflow
  /\ UNCHANGED <<turn, ask, att, api, userEnded>>

FinishWithoutRecheck ==
  /\ At("finalidle")
  /\ MarkSessionIdle
  /\ wf' = NoWorkflow
  /\ UNCHANGED <<turn, goal, ask, att, api, userEnded>>

\* A signal that came since the last wait keeps the run alive.
FinishIdle ==
  /\ At("finalidle")
  /\ MarkSessionIdle
  /\ IF wf.slot # "none" \/ wf.woken THEN Go("top") ELSE wf' = NoWorkflow
  /\ UNCHANGED <<turn, goal, ask, att, api, userEnded>>

-----------------------------------------------------------------------------
(* runTurn *)

Dispatch(s) ==
  /\ At("start") /\ wf.slot = "none"
  /\ att[s] = NoAttempt
  /\ att' = [att EXCEPT ![s] = [NoAttempt EXCEPT !.turn = wf.t, !.pc = "new", !.own = TRUE,
                                                 !.decision = wf.decision]]
  /\ Go("run")
  /\ UNCHANGED <<turn, session, goal, ask, api, userEnded>>

\* The workflow stops listening to its attempt; one that is over is gone.
Disowned == [s \in Slots |-> IF ~ att[s].own THEN att[s]
                             ELSE IF att[s].pc \in {"lost", "done"} THEN NoAttempt
                             ELSE [att[s] EXCEPT !.own = FALSE]]

\* Before the dispatch, during it (scope.cancel) or while approval is awaited.
NoticeInterrupt ==
  /\ wf.pc \in {"start", "run", "approval"} /\ wf.slot # "none"
  /\ wf' = [wf EXCEPT !.pc = "interrupt", !.serving = wf.slot]
  /\ att' = Disowned
  /\ UNCHANGED <<turn, session, goal, ask, api, userEnded>>

\* interruptActiveTurn returns and runTurn clears the slot.
Served == [wf EXCEPT !.pc = "top", !.slot = "none", !.serving = "none", !.act = NoTurn]

\* interruptActiveTurn: read the active turn; a stop pauses the goal and drains the queue.
InterruptActiveTurn ==
  /\ At("interrupt")
  /\ IF wf.serving = "stop"
     THEN /\ goal' = FALSE
          /\ turn' = [t \in Turns |-> IF turn[t].st = "queued" THEN [turn[t] EXCEPT !.st = "cancelled"]
                                      ELSE turn[t]]
          /\ userEnded' = userEnded \cup With("queued")
     ELSE UNCHANGED <<goal, turn, userEnded>>
  /\ wf' = IF session.active = NoTurn THEN Served
           ELSE [wf EXCEPT !.pc = "cancel", !.act = session.active]
  /\ UNCHANGED <<session, ask, att, api>>

CancelActiveTurn ==
  /\ At("cancel")
  /\ SetTurn(wf.act, "cancelled")
  /\ SetSessionStatus("queued", NoTurn)
  /\ userEnded' = userEnded \cup {wf.act}
  /\ wf' = Served
  /\ UNCHANGED <<goal, ask, att, api>>

\* The attempt's result, or its error, reaches the workflow.
HandleResult(s) ==
  /\ At("run") /\ att[s].own /\ att[s].pc = "done"
  /\ att' = [att EXCEPT ![s] = NoAttempt]
  /\ CASE att[s].ends \in {"idle", "preempted"} -> Go("top")
       [] att[s].ends = "requires_action" -> Go("approval")
       [] att[s].ends = "failed" -> wf' = NoWorkflow
       [] att[s].ends = "error" -> Go("fail")
  /\ UNCHANGED <<turn, session, goal, ask, api, userEnded>>

\* The heartbeat timeout of a dead worker, or of one that only seems dead.
HeartbeatTimeout(s) ==
  /\ At("run") /\ att[s].own
  /\ \/ att[s].pc = "lost"
     \/ /\ "zombie" \in Faults
        /\ \/ att[s].pc \in {"read", "work", "dying"}
           \/ att[s].pc = "new" /\ "slowStart" \in Faults
           \/ att[s].pc \in {"idle", "asks", "fails", "requeued"} /\ "late" \in Faults
  /\ turn[wf.t].deaths = MaxRedispatches => "crashLoop" \in Faults
  /\ att' = Disowned
  /\ Go("dead")
  /\ UNCHANGED <<turn, session, goal, ask, api, userEnded>>

DeathStatuses == {"running", "requires_action"}

\* What requeueTurnAfterWorkerDeath takes for a death: the cancel of a dying attempt too.
DiedIn == {"running", "requires_action", "cancelled"}

CountForEver ==
  /\ At("dead")
  /\ IF turn[wf.t].st \in DiedIn
     THEN turn' = [turn EXCEPT ![wf.t].deaths = @ + 1] /\ Go("requeue")
     ELSE Go("top") /\ UNCHANGED turn
  /\ UNCHANGED <<session, goal, ask, att, api, userEnded>>

\* requeueTurnAfterWorkerDeath: count the death first ...
CountWorkerDeath ==
  /\ At("dead")
  /\ IF turn[wf.t].st \in DiedIn
     THEN /\ turn' = [turn EXCEPT ![wf.t].deaths = @ + 1]
          /\ Go(IF turn[wf.t].deaths + 1 > MaxRedispatches THEN "fail" ELSE "requeue")
     ELSE Go("top") /\ UNCHANGED turn
  /\ UNCHANGED <<session, goal, ask, att, api, userEnded>>

\* ... then put the turn back, unless it settled in between.
RequeueAfterWorkerDeath ==
  /\ At("requeue")
  /\ IF Requeueable(wf.t, DiedIn) THEN SetTurn(wf.t, "queued") /\ SetSessionStatus("queued", NoTurn)
     ELSE UNCHANGED <<turn, session>>
  /\ Go("top")
  /\ UNCHANGED <<goal, ask, att, api, userEnded>>

\* failSession, and the run is over: the queue is not looked at.
FailSession ==
  /\ At("fail")
  /\ IF session.status = "failed" THEN UNCHANGED <<turn, session>>
     ELSE /\ SetSessionStatus("failed", NoTurn)
          /\ IF session.active = NoTurn THEN UNCHANGED turn ELSE SetTurn(session.active, "failed")
  /\ wf' = NoWorkflow
  /\ UNCHANGED <<goal, ask, att, api, userEnded>>

\* approvalQueue.shift(): the same turn is dispatched again, without a claim.
ResumeApproved ==
  /\ At("approval") /\ wf.slot = "none" /\ wf.approvals # <<>>
  /\ wf' = [wf EXCEPT !.pc = "start", !.approvals = Tail(@), !.decision = Head(wf.approvals)]
  /\ UNCHANGED <<turn, session, goal, ask, att, api, userEnded>>

-----------------------------------------------------------------------------
(* An attempt: runAgentTurn *)

\* Attempts nobody waits for go on only until they hear of it.
RunsOn(s) == att[s].own \/ "late" \in Faults
Reaches(s, l) == att' = [att EXCEPT ![s].pc = l]
Ends(s, r) == att' = [att EXCEPT ![s] = IF @.own THEN [@ EXCEPT !.pc = "done", !.ends = r] ELSE NoAttempt]

ReadTurn(s) ==
  /\ att[s].pc = "new" /\ RunsOn(s)
  /\ att' = [att EXCEPT ![s].pc = "read", ![s].seen = turn[att[s].turn].deaths]
  /\ UNCHANGED <<turn, session, goal, ask, wf, api, userEnded>>

StartTurn(s) ==
  /\ att[s].pc = "read" /\ RunsOn(s)
  /\ SetSessionStatus("running", att[s].turn)
  /\ Reaches(s, "work")
  /\ UNCHANGED <<turn, goal, ask, wf, api, userEnded>>

\* An error before turn.started is published is thrown.
SetupFails(s) ==
  /\ "fail" \in Faults
  /\ att[s].pc \in {"new", "read"} /\ RunsOn(s)
  /\ Ends(s, "error")
  /\ UNCHANGED <<turn, session, goal, ask, wf, api, userEnded>>

\* The decision answers an earlier request than the one the run state was saved for.
StaleDecision(s) == att[s].decision # 0 /\ att[s].decision # ask

\* finishTurn, with the session's next status kept in pc:
\*   idle  completed, or failed in a way the session survives
\*   asks  requires_action    fails  failed for good
SettleTurn(s) ==
  /\ att[s].pc = "work" /\ RunsOn(s)
  /\ \/ ~ StaleDecision(s) /\ SetTurn(att[s].turn, "completed") /\ Reaches(s, "idle") /\ UNCHANGED ask
     \/ /\ "ask" \in Faults /\ ask < MaxAsks /\ ~ StaleDecision(s)
        /\ SetTurn(att[s].turn, "requires_action") /\ Reaches(s, "asks") /\ ask' = ask + 1
     \/ /\ "fail" \in Faults \/ StaleDecision(s)
        /\ SetTurn(att[s].turn, "failed")
        /\ Reaches(s, "fails") \/ (~ StaleDecision(s) /\ Reaches(s, "idle"))
        /\ UNCHANGED ask
  /\ UNCHANGED <<session, goal, wf, api, userEnded>>

\* setSessionStatus after finishTurn, and the result.  A failed turn may also
\* end in an error that its clean-up throws.
SettleSession(s) ==
  /\ \/ att[s].pc = "idle" /\ SetSessionStatus("idle", NoTurn) /\ Ends(s, "idle")
     \/ att[s].pc = "asks" /\ SetSessionStatus("requires_action", att[s].turn) /\ Ends(s, "requires_action")
     \/ /\ att[s].pc = "fails" /\ SetSessionStatus("failed", NoTurn)
        /\ Ends(s, "failed") \/ Ends(s, "error")
     \/ att[s].pc = "requeued" /\ SetSessionStatus("queued", NoTurn) /\ Ends(s, "preempted")
  /\ UNCHANGED <<turn, goal, ask, wf, api, userEnded>>

\* requeuePreemptedTurn; a miss falls through to the cancellation.
PreemptTurn(s) ==
  /\ "preempt" \in Faults
  /\ att[s].pc \in {"new", "read", "work"} /\ (RunsOn(s) \/ "lateShutdown" \in Faults)
  /\ IF Requeueable(att[s].turn, {"running", "requires_action"})
     THEN SetTurn(att[s].turn, "queued") /\ Reaches(s, "requeued")
     ELSE Reaches(s, "dying") /\ UNCHANGED turn
  /\ UNCHANGED <<session, goal, ask, wf, api, userEnded>>

\* CancelledFailure: the attempt hears that it was cancelled or timed out.
DyingAttempt(s) ==
  /\ att[s].pc = "dying" \/ (att[s].pc \in {"new", "read", "work"} /\ ~ att[s].own)
  /\ IF CancelsFromDying(att[s].turn, att[s].seen) THEN SetTurn(att[s].turn, "cancelled")
     ELSE UNCHANGED turn
  /\ Ends(s, "error")
  /\ UNCHANGED <<session, goal, ask, wf, api, userEnded>>

\* SIGKILL, OOM, node loss: nobody is told before the heartbeat times out.
WorkerDies(s) ==
  /\ "workerDeath" \in Faults
  /\ att[s].pc \notin {"none", "lost", "done"}
  /\ turn[att[s].turn].deaths = MaxRedispatches => "crashLoop" \in Faults
  /\ IF att[s].own THEN Reaches(s, "lost") ELSE att' = [att EXCEPT ![s] = NoAttempt]
  /\ UNCHANGED <<turn, session, goal, ask, wf, api, userEnded>>

-----------------------------------------------------------------------------
Api ==
  \/ AcceptMessage \/ EnqueueMessage \/ WakeSessionWorkflow \/ MessageLost
  \/ \E kind \in Interrupts : SignalInterrupt(kind)
  \/ SignalApproval \/ GoalEnds
  \/ \E t \in Turns : CancelQueuedSessionTurn(t)

Workflow ==
  \/ LoopTop \/ ClaimTurn \/ ClaimNothing
  \/ EvaluateGoalContinuation \/ RecheckGoal \/ EnqueueContinuation
  \/ WaitEnds \/ IdleInterrupt \/ FinishIdle
  \/ NoticeInterrupt \/ InterruptActiveTurn \/ CancelActiveTurn
  \/ CountWorkerDeath \/ RequeueAfterWorkerDeath \/ FailSession \/ ResumeApproved
  \/ \E s \in Slots : Dispatch(s) \/ HandleResult(s) \/ HeartbeatTimeout(s)

Attempt(s) ==
  \/ ReadTurn(s) \/ StartTurn(s) \/ SetupFails(s) \/ SettleTurn(s) \/ SettleSession(s)
  \/ PreemptTurn(s) \/ DyingAttempt(s) \/ WorkerDies(s)

Next == Api \/ Workflow \/ \E s \in Slots : Attempt(s)

Spec == Init /\ [][Next]_vars

(***************************************************************************)
(* Fairness: Temporal goes on with a run and times out dead workers, the   *)
(* API finishes the request it began, and an attempt that is alive takes   *)
(* its steps.  Shutdowns come now and then, not at the same point of every *)
(* attempt: hence strong fairness of the steps that one can pre-empt.      *)
(* Nothing is assumed of users.                                            *)
(***************************************************************************)
SessionFairness ==
  /\ WF_vars(Workflow)
  /\ WF_vars(EnqueueMessage \/ WakeSessionWorkflow)
  /\ \A s \in Slots :
       /\ WF_vars(SettleSession(s)) /\ WF_vars(DyingAttempt(s))
       /\ SF_vars(ReadTurn(s)) /\ SF_vars(StartTurn(s)) /\ SF_vars(SettleTurn(s))

FairSpec == Spec /\ SessionFairness

-----------------------------------------------------------------------------
(* Properties *)

WorkflowPcs ==
  {"none", "top", "claim", "goal", "synth", "enqueue", "wait", "idleint", "final", "finalidle", "start",
   "run", "interrupt", "cancel", "dead", "requeue", "fail", "approval"}
AttemptPcs ==
  {"none", "new", "read", "work", "idle", "asks", "fails", "requeued", "dying", "lost", "done"}

\* Type invariant.  The death counter stays within one of its limit.
SessionTypeOK ==
  /\ turn \in [Turns -> [st : TurnStatuses, deaths : 0 .. MaxRedispatches + 1]]
  /\ session \in [status : SessionStatuses, active : Turns \cup {NoTurn}]
  /\ goal \in BOOLEAN /\ ask \in 0 .. MaxAsks
  /\ wf.pc \in WorkflowPcs /\ wf.t \in Turns \cup {NoTurn} /\ wf.slot \in Interrupts \cup {"none"}
  /\ \A s \in Slots : att[s].pc \in AttemptPcs /\ att[s].turn \in Turns \cup {NoTurn}
  /\ userEnded \subseteq Turns

\* A turn that a stop, a steer or a delete cancelled is never dispatched again,
\* whatever its old attempts still write (requeuePreemptedTurn's status guard).
UserCancelIsFinal == [][wf.pc = "start" /\ wf'.pc = "run" => wf.t \notin userEnded]_vars

\* The death of a worker never ends a turn: once the workflow is done with it, a
\* cancelled turn is one that the user cancelled (requeueTurnAfterWorkerDeath
\* takes the dying attempt's own cancel for the death it is).
DeathNeverCancels ==
  wf.pc \in {"none", "top", "claim"} => With("cancelled") \subseteq userEnded

\* An attempt that dies never cancels the turn under its successor
\* (cancelTurnFromDyingDispatch's counter fence).
DyingAttemptFenced ==
  [][\A s \in Slots : DyingAttempt(s) /\ turn' # turn =>
       /\ ~ (wf.pc = "start" /\ wf.t = att[s].turn)
       /\ \A r \in Slots \ {s} : ~ (att[r].own /\ att[r].turn = att[s].turn)]_vars

\* When the workflow has completed and its attempts are gone, no turn is left
\* running or waiting and the session does not claim to run.
NothingLeftRunning ==
  wf.pc = "none" /\ (\A s \in Slots : att[s] = NoAttempt) =>
    With("running") \cup With("requires_action") = {} /\ session.status # "running"

\* A queued turn is claimed (or deleted) in the end: no wake-up is lost between
\* the last empty claim and the completion of the workflow.
QueuedTurnsRun == \A t \in Turns : turn[t].st = "queued" ~> turn[t].st # "queued"
=============================================================================
