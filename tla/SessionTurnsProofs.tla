------------------------- MODULE SessionTurnsProofs -------------------------
(***************************************************************************)
(* Theorems about SessionTurns, for any number of turns, of attempts alive *)
(* at once, of re-dispatches and of approvals.  Each names the faults that *)
(* it leaves out; all others may happen together, as often as they like.   *)
(*                                                                         *)
(* Every step has an effect on the fields of rows, workflow and attempts   *)
(* (Effect); the invariants are shown to survive each effect.  BaseInv     *)
(* needs no hypothesis.  WriterInv says that a turn has one attempt at     *)
(* most that can put it back: the limit of deaths (DeathInv) and the       *)
(* user's cancels (UserInv) rest on it.  FenceInv relates the counter an   *)
(* attempt read to who serves the turn now.  ServedInv says who looks      *)
(* after a turn that is not settled, AttemptInv what its attempt has done. *)
(***************************************************************************)
EXTENDS SessionTurns, NatExtrema, SequenceTheorems, FiniteSetTheorems, TLAPS

TurnIds == Turns \cup {NoTurn}
Rows == [st : TurnStatuses, deaths : Nat]
Sessions == [status : SessionStatuses, active : TurnIds]
Results == {"idle", "requires_action", "failed", "error", "preempted"}
Signals == Interrupts \cup {"none"}
Workflows == [pc : WorkflowPcs, t : TurnIds, act : TurnIds, slot : Signals, serving : Signals,
              woken : BOOLEAN, approvals : Seq(Nat), decision : Nat]
Ends0 == Results \cup {"none"}
Atts == [turn : TurnIds, pc : AttemptPcs, seen : Nat, own : BOOLEAN, ends : Ends0, decision : Nat]

\* Types, without the bound of the death counter.
TypeInv ==
  /\ turn \in [Turns -> Rows] /\ session \in Sessions /\ goal \in BOOLEAN /\ ask \in 0 .. MaxAsks
  /\ wf \in Workflows /\ att \in [Slots -> Atts] /\ userEnded \subseteq Turns

\* The workflow waits for at most one attempt, which is of its turn.
OwnInv ==
  /\ wf.pc \in {"start", "run", "approval", "dead", "requeue"} => wf.t \in Turns
  /\ wf.pc = "cancel" => wf.act \in Turns
  /\ \A s \in Slots :
       /\ att[s].pc # "none" => att[s].turn \in Turns
       /\ att[s].own => att[s].pc # "none" /\ wf.pc = "run" /\ att[s].turn = wf.t
       /\ att[s].pc \in {"lost", "done"} => att[s].own
       /\ att[s].pc = "done" => att[s].ends \in Results
  /\ \A s, r \in Slots : att[s].own /\ att[r].own => s = r

BaseInv == TypeInv /\ OwnInv

-----------------------------------------------------------------------------
(* What a theorem leaves out *)

\* An attempt that nobody waits for may still write.
Lingers == {"late", "lateShutdown"} \cap Faults # {}

\* What timed out without being dead does not go on writing.
ZombiesAreQuiet == "zombie" \in Faults => ~ Lingers

-----------------------------------------------------------------------------
(* Who can put a turn back *)

Active(s) == att[s].pc \in {"new", "read", "work"}
Asked(s) == att[s].pc = "asks" \/ (att[s].pc = "done" /\ att[s].ends = "requires_action")
Requeuer(s) == Active(s) /\ (att[s].own \/ Lingers)

\* A turn has at most one attempt that can write its row, and none while it is queued or
\* about to be dispatched; what is about to be dispatched is not in the queue.
WriterInv ==
  /\ \A s \in Slots : Requeuer(s) =>
       /\ turn[att[s].turn].st \notin {"none", "queued"}
       /\ wf.pc \in {"start", "approval", "dead", "requeue"} => att[s].turn # wf.t
       /\ wf.pc = "run" /\ att[s].turn = wf.t => att[s].own
  /\ \A s, r \in Slots : Requeuer(s) /\ Requeuer(r) /\ att[s].turn = att[r].turn => s = r
  /\ wf.pc \in {"start", "approval"} => turn[wf.t].st \notin {"none", "queued"}
  /\ \A s \in Slots : att[s].own /\ Asked(s) => turn[wf.t].st \notin {"none", "queued"}

\* A turn over the limit of its deaths is never queued or served again.
DeathInv ==
  \A t \in Turns :
    /\ turn[t].deaths <= MaxRedispatches + 1
    /\ turn[t].deaths > MaxRedispatches =>
         /\ turn[t].st \notin {"none", "queued"}
         /\ \A s \in Slots : Requeuer(s) => att[s].turn # t
         /\ wf.pc \in {"start", "run", "approval", "dead", "requeue"} => wf.t # t

\* A turn that the user cancelled has no way back.
UserInv ==
  /\ \A t \in userEnded :
       /\ turn[t].st \notin {"none", "queued", "running"}
       /\ turn[t].st = "requires_action" => \A s \in Slots : Requeuer(s) => att[s].turn # t
  /\ wf.pc \in {"start", "run", "approval", "dead", "requeue"} => wf.t \notin userEnded

-----------------------------------------------------------------------------
(* What the death counter fences *)

Open(s) == att[s].pc \in {"new", "read", "work", "dying"}

\* An attempt that nobody waits for and whose counter is up to date has no successor.
FenceInv ==
  \A s \in Slots :
    /\ att[s].pc # "none" => att[s].seen <= turn[att[s].turn].deaths
    /\ Open(s) => turn[att[s].turn].st # "none"
    /\ Open(s) /\ att[s].own => turn[att[s].turn].st # "queued"
    /\ Open(s) /\ ~ att[s].own /\ att[s].seen = turn[att[s].turn].deaths =>
         /\ turn[att[s].turn].st # "queued"
         /\ wf.pc \in {"start", "run", "approval", "requeue"} => wf.t # att[s].turn

-----------------------------------------------------------------------------
(* Who looks after a turn *)

SessionHas(t) == session.active = t /\ session.status \in {"running", "requires_action"}
Unsettled(t) ==
  turn[t].st \in {"running", "requires_action"} \/ (turn[t].st = "cancelled" /\ t \notin userEnded)

\* Nobody interrupts, and an attempt that nobody waits for is only dying.
CalmInv ==
  /\ wf.slot = "none" /\ wf.pc \notin {"interrupt", "cancel", "idleint"}
  /\ \A s \in Slots : ~ att[s].own /\ att[s].pc # "none" =>
       /\ Open(s)
       /\ att[s].seen = turn[att[s].turn].deaths =>
            \/ turn[att[s].turn].st \in {"completed", "failed", "cancelled"}
            \/ wf.pc = "dead" /\ wf.t = att[s].turn

\* A turn that is not settled is the workflow's, and its session row names it until an
\* attempt settles it.
ServedInv ==
  /\ \A t \in Turns : Unsettled(t) =>
       /\ wf.t = t
       /\ wf.pc \in {"dead", "requeue", "fail"}
            \/ (turn[t].st # "cancelled" /\ wf.pc \in {"start", "run", "approval"})
  /\ wf.pc \in {"start", "approval", "dead", "requeue"} => SessionHas(wf.t)
  /\ wf.pc = "fail" => wf.t \in Turns /\ (Unsettled(wf.t) => SessionHas(wf.t))
  /\ wf.pc = "none" => session.status # "running"

\* What the attempt that the workflow waits for has done to its turn and to the session.
Reached(s, pc, end) == att[s].pc = pc \/ (att[s].pc = "done" /\ att[s].ends = end)
AttemptInv ==
  \A s \in Slots : att[s].own =>
    /\ att[s].pc # "done" => SessionHas(wf.t)
    /\ Reached(s, "idle", "idle") \/ Reached(s, "fails", "failed") => turn[wf.t].st \in {"completed", "failed"}
    /\ Reached(s, "asks", "requires_action") => turn[wf.t].st = "requires_action"
    /\ Reached(s, "requeued", "preempted") => ~ Unsettled(wf.t)
    /\ att[s].pc = "dying" => ~ Unsettled(wf.t)
    /\ att[s].pc = "done" /\ att[s].ends = "requires_action" => SessionHas(wf.t)
    /\ att[s].pc = "done" /\ att[s].ends = "error" /\ Unsettled(wf.t) => SessionHas(wf.t)
    /\ att[s].pc = "done" /\ att[s].ends = "failed" => session.status # "running"

-----------------------------------------------------------------------------
(* Records *)

LEMMA RowFields ==
  ASSUME TypeInv, NEW t \in Turns
  PROVE  turn[t] \in Rows /\ turn[t].st \in TurnStatuses /\ turn[t].deaths \in Nat
  BY DEF TypeInv, Rows

LEMMA WorkflowFields ==
  ASSUME NEW w \in Workflows
  PROVE  /\ w.pc \in WorkflowPcs /\ w.t \in TurnIds /\ w.act \in TurnIds /\ w.slot \in Signals
         /\ w.serving \in Signals /\ w.woken \in BOOLEAN /\ w.approvals \in Seq(Nat) /\ w.decision \in Nat
  BY DEF Workflows

LEMMA AttemptFields ==
  ASSUME NEW a \in Atts
  PROVE  /\ a.turn \in TurnIds /\ a.pc \in AttemptPcs /\ a.seen \in Nat /\ a.own \in BOOLEAN
         /\ a.ends \in Ends0 /\ a.decision \in Nat
  BY DEF Atts

LEMMA SessionFields ==
  ASSUME NEW x \in Sessions
  PROVE  x.status \in SessionStatuses /\ x.active \in TurnIds
  BY DEF Sessions

LEMMA NoWorkflowFields ==
  /\ NoWorkflow \in Workflows /\ NoWorkflow.pc = "none" /\ NoWorkflow.t = NoTurn /\ NoWorkflow.act = NoTurn
  /\ NoWorkflow.slot = "none"
<1> DEFINE e == <<>>
           f == FALSE
<1>1. /\ "none" \in WorkflowPcs /\ NoTurn \in TurnIds /\ "none" \in Signals /\ 0 \in Nat
      /\ e \in Seq(Nat) /\ f \in BOOLEAN
  BY DEF WorkflowPcs, TurnIds, Signals, NoTurn
<1>2. NoWorkflow = [pc |-> "none", t |-> NoTurn, act |-> NoTurn, slot |-> "none", serving |-> "none",
                    woken |-> f, approvals |-> e, decision |-> 0]
  BY DEF NoWorkflow
<1> HIDE DEF e, f
<1> QED
  BY <1>1, <1>2 DEF Workflows

LEMMA NoAttemptFields ==
  /\ NoAttempt \in Atts /\ NoAttempt.pc = "none" /\ NoAttempt.turn = NoTurn /\ NoAttempt.own = FALSE
<1> DEFINE f == FALSE
<1>1. "none" \in AttemptPcs /\ NoTurn \in TurnIds /\ "none" \in Ends0 /\ 0 \in Nat /\ f \in BOOLEAN
  BY DEF AttemptPcs, TurnIds, Ends0, NoTurn
<1>2. NoAttempt = [turn |-> NoTurn, pc |-> "none", seen |-> 0, own |-> f, ends |-> "none", decision |-> 0]
  BY DEF NoAttempt
<1>3. f = FALSE
  OBVIOUS
<1> HIDE DEF f
<1>4. NoAttempt \in Atts /\ NoAttempt.pc = "none" /\ NoAttempt.turn = NoTurn /\ NoAttempt.own = f
  BY <1>1, <1>2 DEF Atts
<1> QED
  BY <1>3, <1>4

\* The workflow at another place.
LEMMA GoFields ==
  ASSUME TypeInv, NEW l \in WorkflowPcs, Go(l)
  PROVE  /\ wf' \in Workflows /\ wf'.pc = l /\ wf'.t = wf.t /\ wf'.act = wf.act /\ wf'.slot = wf.slot
         /\ wf'.serving = wf.serving
  BY DEF TypeInv, Go, Workflows

LEMMA WaitFields ==
  ASSUME TypeInv, Wait
  PROVE  wf' \in Workflows /\ wf'.pc = "wait" /\ wf'.t = wf.t /\ wf'.act = wf.act /\ wf'.slot = wf.slot
<1> DEFINE f == FALSE
<1>1. wf' = [wf EXCEPT !.pc = "wait", !.woken = f] /\ "wait" \in WorkflowPcs /\ f \in BOOLEAN
  BY DEF Wait, WorkflowPcs
<1> HIDE DEF f
<1> QED
  BY <1>1 DEF TypeInv, Workflows

\* A turn's row with another status.
LEMMA SetTurnFields ==
  ASSUME TypeInv, NEW t \in Turns, NEW st \in TurnStatuses, SetTurn(t, st)
  PROVE  /\ turn' \in [Turns -> Rows] /\ turn'[t].st = st /\ turn'[t].deaths = turn[t].deaths
         /\ \A u \in Turns \ {t} : turn'[u] = turn[u]
<1> DEFINE r == [turn[t] EXCEPT !.st = st]
<1>1. turn \in [Turns -> Rows] /\ turn[t] \in Rows
  BY DEF TypeInv
<1>2. turn' = [turn EXCEPT ![t] = r]
  BY DEF SetTurn
<1>3. r \in Rows /\ r.st = st /\ r.deaths = turn[t].deaths
  BY <1>1 DEF Rows
<1> HIDE DEF r
<1> QED
  BY <1>1, <1>2, <1>3

LEMMA SessionSet ==
  ASSUME NEW status \in SessionStatuses, NEW active \in TurnIds, SetSessionStatus(status, active)
  PROVE  session' \in Sessions /\ session'.status = status /\ session'.active = active
  BY DEF SetSessionStatus, Sessions

\* One attempt's record changes.
LEMMA OneAttempt ==
  ASSUME TypeInv, NEW s \in Slots, NEW x \in Atts, att' = [att EXCEPT ![s] = x]
  PROVE  att' \in [Slots -> Atts] /\ att'[s] = x /\ \A r \in Slots \ {s} : att'[r] = att[r]
  BY DEF TypeInv

LEMMA ReachesFields ==
  ASSUME TypeInv, NEW s \in Slots, NEW l \in AttemptPcs, Reaches(s, l)
  PROVE  /\ att' \in [Slots -> Atts] /\ att'[s].pc = l /\ att'[s].turn = att[s].turn
         /\ att'[s].seen = att[s].seen /\ att'[s].own = att[s].own /\ att'[s].ends = att[s].ends
         /\ \A r \in Slots \ {s} : att'[r] = att[r]
<1> DEFINE x == [att[s] EXCEPT !.pc = l]
<1>1. att[s] \in Atts
  BY DEF TypeInv
<1>2. att' = [att EXCEPT ![s] = x]
  BY DEF Reaches
<1>3. /\ x \in Atts /\ x.pc = l /\ x.turn = att[s].turn /\ x.seen = att[s].seen /\ x.own = att[s].own
      /\ x.ends = att[s].ends
  BY <1>1 DEF Atts
<1> HIDE DEF x
<1> QED
  BY <1>2, <1>3, OneAttempt

LEMMA EndsFields ==
  ASSUME TypeInv, NEW s \in Slots, NEW r \in Results, Ends(s, r)
  PROVE  /\ att' \in [Slots -> Atts] /\ \A q \in Slots \ {s} : att'[q] = att[q]
         /\ att[s].own => /\ att'[s].pc = "done" /\ att'[s].ends = r /\ att'[s].turn = att[s].turn
                          /\ att'[s].seen = att[s].seen /\ att'[s].own = att[s].own
         /\ ~ att[s].own => att'[s] = NoAttempt
<1> DEFINE x == [att[s] EXCEPT !.pc = "done", !.ends = r]
<1>1. att[s] \in Atts
  BY DEF TypeInv
<1>2. att' = [att EXCEPT ![s] = IF att[s].own THEN x ELSE NoAttempt]
  BY DEF Ends
<1>3. x \in Atts /\ x.pc = "done" /\ x.turn = att[s].turn /\ x.seen = att[s].seen /\ x.own = att[s].own /\ x.ends = r
  <2>1. "done" \in AttemptPcs /\ r \in Ends0
    BY DEF AttemptPcs, Ends0
  <2> QED
    BY <1>1, <2>1 DEF Atts
<1> HIDE DEF x
<1>4. (IF att[s].own THEN x ELSE NoAttempt) \in Atts
  BY <1>3, NoAttemptFields
<1> QED
  BY <1>2, <1>3, <1>4, OneAttempt

\* What is left of an attempt that the workflow stops listening to.
LEMMA DisownedFields ==
  ASSUME TypeInv, att' = Disowned
  PROVE  /\ att' \in [Slots -> Atts]
         /\ \A s \in Slots :
              /\ ~ att[s].own => att'[s] = att[s]
              /\ att[s].own /\ att[s].pc \in {"lost", "done"} => att'[s] = NoAttempt
              /\ att[s].own /\ att[s].pc \notin {"lost", "done"} =>
                   /\ att'[s].pc = att[s].pc /\ att'[s].turn = att[s].turn /\ att'[s].seen = att[s].seen
                   /\ att'[s].ends = att[s].ends /\ att'[s].own = FALSE
<1> DEFINE f == FALSE
           x(s) == [att[s] EXCEPT !.own = f]
           y(s) == IF ~ att[s].own THEN att[s] ELSE IF att[s].pc \in {"lost", "done"} THEN NoAttempt ELSE x(s)
<1>1. att' = [s \in Slots |-> y(s)]
  BY DEF Disowned
<1>2. f \in BOOLEAN /\ f = FALSE
  OBVIOUS
<1> HIDE DEF f
<1>3. ASSUME NEW s \in Slots
      PROVE  /\ x(s) \in Atts /\ x(s).pc = att[s].pc /\ x(s).turn = att[s].turn /\ x(s).seen = att[s].seen
             /\ x(s).ends = att[s].ends /\ x(s).own = f
  <2>1. att[s] \in Atts
    BY DEF TypeInv
  <2> QED
    BY <1>2, <2>1 DEF Atts
<1> HIDE DEF x
<1>4. \A s \in Slots : y(s) \in Atts
  BY <1>3, NoAttemptFields DEF TypeInv
<1>5. att' \in [Slots -> Atts] /\ \A s \in Slots : att'[s] = y(s)
  <2> HIDE DEF y
  <2> QED
    BY <1>1, <1>4
<1> QED
  BY <1>2, <1>3, <1>5
-----------------------------------------------------------------------------
(* What the steps do, in terms of fields *)

\* The workflow serves a turn or an interrupt.
Busy == {"start", "run", "approval", "dead", "requeue", "fail", "interrupt", "cancel"}

SameTurn == wf'.pc = wf.pc /\ wf'.t = wf.t /\ wf'.act = wf.act
Idles == wf.pc \notin Busy /\ wf'.pc \notin Busy

\* A step that leaves the turns and the attempts alone.
Quiet ==
  \/ AcceptMessage \/ WakeSessionWorkflow \/ MessageLost \/ (\E kind \in Interrupts : SignalInterrupt(kind))
  \/ SignalApproval \/ GoalEnds \/ LoopTop \/ ClaimNothing \/ EvaluateGoalContinuation \/ RecheckGoal
  \/ (EnqueueContinuation /\ Wait /\ UNCHANGED turn) \/ WaitEnds \/ IdleInterrupt \/ FinishIdle

LEMMA Woken ==
  ASSUME TypeInv
  PROVE  /\ Signalled \in Workflows /\ (wf.pc # "none" => Signalled = wf)
         /\ wf.pc = "none" => Signalled.pc = "top" /\ Signalled.slot = "none"
<1>1. wf \in Workflows /\ "top" \in WorkflowPcs
  BY DEF TypeInv, WorkflowPcs
<1>2. CASE wf.pc # "none"
  BY <1>1, <1>2 DEF Signalled
<1>3. CASE wf.pc = "none"
  <2> DEFINE w == [NoWorkflow EXCEPT !.pc = "top"]
  <2>1. NoWorkflow \in Workflows /\ NoWorkflow.slot = "none"
    BY NoWorkflowFields
  <2>2. w \in Workflows /\ w.pc = "top" /\ w.slot = "none"
    BY <1>1, <2>1 DEF Workflows
  <2>3. Signalled = w
    BY <1>3 DEF Signalled
  <2> QED
    BY <1>3, <2>2, <2>3
<1> QED
  BY <1>2, <1>3

LEMMA MarkIdleFields ==
  ASSUME TypeInv, MarkSessionIdle
  PROVE  /\ session' \in Sessions
         /\ session' = session \/ (session'.status = "idle" /\ session'.active = NoTurn)
         /\ session'.status # "running"
<1>1. session \in Sessions /\ "idle" \in SessionStatuses /\ NoTurn \in TurnIds
  BY DEF TypeInv, SessionStatuses, TurnIds
<1>2. CASE session.status \in {"queued", "running"}
  <2>1. SetSessionStatus("idle", NoTurn)
    BY <1>2 DEF MarkSessionIdle
  <2> QED
    BY <1>1, <2>1, SessionSet
<1>3. CASE session.status \notin {"queued", "running"}
  BY <1>1, <1>3 DEF MarkSessionIdle
<1> QED
  BY <1>2, <1>3

\* The session's row after a quiet step: as it was, or woken, or marked idle.
SessionRests ==
  \/ session' = session
  \/ session.status \in {"idle", "failed"} /\ session'.status = "queued" /\ session'.active = NoTurn
  \/ Idles /\ session'.status = "idle" /\ session'.active = NoTurn

QuietEffect ==
  /\ UNCHANGED <<turn, att, userEnded>>
  /\ session' \in Sessions /\ goal' \in BOOLEAN /\ ask' = ask /\ wf' \in Workflows
  /\ SameTurn \/ Idles
  /\ SessionRests
  /\ wf'.pc = "none" => (wf.pc = "none" /\ session' = session) \/ session'.status # "running"
  /\ "interrupt" \notin Faults /\ wf.slot = "none" =>
       wf'.slot = "none" /\ (wf'.pc = "idleint" => wf.pc = "idleint")

LEMMA QuietStep ==
  ASSUME TypeInv, Quiet
  PROVE  QuietEffect
<1>1. /\ wf \in Workflows /\ session \in Sessions /\ goal \in BOOLEAN
      /\ wf.pc \in WorkflowPcs /\ wf.slot \in Signals /\ wf.approvals \in Seq(Nat) /\ ask \in Nat
  BY WorkflowFields, SessionBounds DEF TypeInv
<1>2. /\ {"top", "claim", "goal", "synth", "enqueue", "wait", "idleint", "final", "finalidle"} \subseteq WorkflowPcs
      /\ NoTurn \in TurnIds /\ "none" \in Signals /\ Interrupts \subseteq Signals /\ NoTurn = 0
  BY DEF WorkflowPcs, TurnIds, Signals, NoTurn
<1>3. CASE AcceptMessage
  <2>1. UNCHANGED <<turn, goal, ask, wf, att, userEnded>>
    BY <1>3 DEF AcceptMessage
  <2>2. CASE session.status \in {"idle", "failed"}
    <3>1. SetSessionStatus("queued", NoTurn) /\ "queued" \in SessionStatuses
      BY <1>3, <2>2 DEF AcceptMessage, SessionStatuses
    <3>2. session' \in Sessions /\ session'.status = "queued" /\ session'.active = NoTurn
      BY <3>1, <1>2, SessionSet
    <3> QED
      BY <1>1, <2>1, <2>2, <3>2 DEF QuietEffect, SameTurn, SessionRests
  <2>3. CASE session.status \notin {"idle", "failed"}
    <3>1. session' = session
      BY <1>3, <2>3 DEF AcceptMessage
    <3> QED
      BY <1>1, <2>1, <3>1 DEF QuietEffect, SameTurn, SessionRests
  <2> QED
    BY <2>2, <2>3
<1>4. CASE WakeSessionWorkflow
  <2>1. UNCHANGED <<turn, session, goal, ask, att, userEnded>>
    BY <1>4 DEF WakeSessionWorkflow
  <2> DEFINE b == wf.pc \in {"wait", "final", "finalidle"}
  <2>2. wf' = [Signalled EXCEPT !.woken = b] /\ b \in BOOLEAN
    BY <1>4 DEF WakeSessionWorkflow
  <2> HIDE DEF b
  <2>3. Signalled \in Workflows
    BY Woken
  <2>4. /\ wf' \in Workflows /\ wf'.pc = Signalled.pc /\ wf'.slot = Signalled.slot
        /\ wf'.t = Signalled.t /\ wf'.act = Signalled.act
    BY <2>2, <2>3 DEF Workflows
  <2>5. SameTurn \/ Idles
    BY <2>4, Woken DEF SameTurn, Idles, Busy
  <2>6. /\ wf'.pc # "none" /\ (wf.slot = "none" => wf'.slot = "none")
        /\ wf'.pc = "idleint" => wf.pc = "idleint"
    BY <2>4, Woken
  <2> QED
    BY <1>1, <2>1, <2>4, <2>5, <2>6 DEF QuietEffect, SessionRests
<1>5. CASE MessageLost
  <2>1. UNCHANGED <<turn, session, goal, ask, wf, att, userEnded>>
    BY <1>5 DEF MessageLost
  <2> QED
    BY <1>1, <2>1 DEF QuietEffect, SameTurn, SessionRests
<1>6. ASSUME NEW kind \in Interrupts, SignalInterrupt(kind)
      PROVE  QuietEffect
  <2>1. UNCHANGED <<turn, session, goal, ask, att, userEnded>> /\ "interrupt" \in Faults
    BY <1>6 DEF SignalInterrupt
  <2>2. wf' = [Signalled EXCEPT !.slot = kind] /\ kind \in Signals
    BY <1>6, <1>2 DEF SignalInterrupt
  <2>3. Signalled \in Workflows
    BY Woken
  <2>4. wf' \in Workflows /\ wf'.pc = Signalled.pc /\ wf'.t = Signalled.t /\ wf'.act = Signalled.act
    BY <2>2, <2>3 DEF Workflows
  <2>5. SameTurn \/ Idles
    BY <2>4, Woken DEF SameTurn, Idles, Busy
  <2>6. wf'.pc # "none"
    BY <2>4, Woken
  <2> QED
    BY <1>1, <2>1, <2>4, <2>5, <2>6 DEF QuietEffect, SessionRests
<1>7. CASE SignalApproval
  <2>1. UNCHANGED <<turn, session, goal, ask, att, userEnded>> /\ wf.pc # "none"
    BY <1>7 DEF SignalApproval
  <2> DEFINE q == Append(wf.approvals, ask)
  <2>2. wf' = [wf EXCEPT !.approvals = q] /\ q \in Seq(Nat)
    BY <1>7, <1>1, AppendProperties DEF SignalApproval
  <2> HIDE DEF q
  <2>3. wf' \in Workflows /\ wf'.pc = wf.pc /\ wf'.t = wf.t /\ wf'.act = wf.act /\ wf'.slot = wf.slot
    BY <1>1, <2>2 DEF Workflows
  <2> QED
    BY <1>1, <2>1, <2>3 DEF QuietEffect, SameTurn, SessionRests
<1>8. CASE GoalEnds
  <2>1. UNCHANGED <<turn, session, ask, wf, att, userEnded>> /\ goal' = FALSE
    BY <1>8 DEF GoalEnds
  <2>2. goal' \in BOOLEAN
    BY <2>1
  <2> QED
    BY <1>1, <2>1, <2>2 DEF QuietEffect, SameTurn, SessionRests
<1>9. CASE LoopTop
  <2>1. UNCHANGED <<turn, session, goal, ask, att, userEnded>> /\ wf.pc = "top"
    BY <1>9 DEF LoopTop, At
  <2>2. wf' \in Workflows /\ wf'.pc = "claim" /\ (wf'.slot = wf.slot \/ wf'.slot = "none")
    <3> DEFINE f == FALSE
               z == 0
    <3>1. f \in BOOLEAN /\ z \in Nat
      OBVIOUS
    <3>2. \/ wf' = [wf EXCEPT !.pc = "claim", !.t = NoTurn, !.decision = z, !.woken = f]
          \/ wf' = [NoWorkflow EXCEPT !.pc = "claim"]
      BY <1>9 DEF LoopTop
    <3> HIDE DEF f, z
    <3>3. CASE wf' = [wf EXCEPT !.pc = "claim", !.t = NoTurn, !.decision = z, !.woken = f]
      BY <1>1, <1>2, <3>1, <3>3 DEF Workflows
    <3>4. CASE wf' = [NoWorkflow EXCEPT !.pc = "claim"]
      <4>1. NoWorkflow \in Workflows /\ NoWorkflow.slot = "none"
        BY NoWorkflowFields
      <4> QED
        BY <1>2, <3>4, <4>1 DEF Workflows
    <3> QED
      BY <3>2, <3>3, <3>4
  <2> QED
    BY <1>1, <2>1, <2>2 DEF QuietEffect, Idles, Busy, SessionRests
<1>10. CASE ClaimNothing
  <2>1. UNCHANGED <<turn, session, goal, ask, att, userEnded>>
    BY <1>10 DEF ClaimNothing
  <2>2. wf.pc \in {"claim", "final"} /\ (Go("goal") \/ Wait \/ Go("finalidle"))
    BY <1>10 DEF ClaimNothing, At
  <2>3. wf' \in Workflows /\ wf'.pc \in {"goal", "wait", "finalidle"} /\ wf'.slot = wf.slot
    BY <1>2, <2>2, GoFields, WaitFields
  <2> QED
    BY <1>1, <2>1, <2>2, <2>3 DEF QuietEffect, Idles, Busy, SessionRests
<1>11. CASE EvaluateGoalContinuation
  <2>1. UNCHANGED <<turn, session, ask, att, userEnded>> /\ wf.pc = "goal"
    BY <1>11 DEF EvaluateGoalContinuation, At
  <2>2. goal' = goal \/ goal' = FALSE
    BY <1>11 DEF EvaluateGoalContinuation
  <2>3. goal' \in BOOLEAN
    BY <1>1, <2>2
  <2>4. Go("top") \/ Go("synth") \/ Wait
    BY <1>11 DEF EvaluateGoalContinuation
  <2>5. wf' \in Workflows /\ wf'.pc \in {"top", "wait", "synth"} /\ wf'.slot = wf.slot
    BY <1>2, <2>4, GoFields, WaitFields
  <2> QED
    BY <1>1, <2>1, <2>3, <2>5 DEF QuietEffect, Idles, Busy, SessionRests
<1>12. CASE RecheckGoal
  <2>1. UNCHANGED <<turn, session, goal, ask, att, userEnded>> /\ wf.pc = "synth"
    BY <1>12 DEF RecheckGoal, At
  <2>2. Go("enqueue") \/ Wait
    BY <1>12 DEF RecheckGoal
  <2>3. wf' \in Workflows /\ wf'.pc \in {"enqueue", "wait"} /\ wf'.slot = wf.slot
    BY <1>2, <2>2, GoFields, WaitFields
  <2> QED
    BY <1>1, <2>1, <2>3 DEF QuietEffect, Idles, Busy, SessionRests
<1>13. CASE EnqueueContinuation /\ Wait /\ UNCHANGED turn
  <2>1. UNCHANGED <<turn, session, goal, ask, att, userEnded>> /\ wf.pc = "enqueue"
    BY <1>13 DEF EnqueueContinuation, At
  <2>2. wf' \in Workflows /\ wf'.pc = "wait" /\ wf'.slot = wf.slot
    BY <1>13, WaitFields
  <2> QED
    BY <1>1, <2>1, <2>2 DEF QuietEffect, Idles, Busy, SessionRests
<1>14. CASE WaitEnds
  <2>1. UNCHANGED <<turn, session, goal, ask, att, userEnded>> /\ wf.pc = "wait"
    BY <1>14 DEF WaitEnds, At
  <2>2. CASE wf.slot # "none"
    <3>1. wf' = [wf EXCEPT !.pc = "idleint", !.serving = wf.slot, !.slot = "none"]
      BY <1>14, <2>2 DEF WaitEnds
    <3>2. wf' \in Workflows /\ wf'.pc = "idleint"
      BY <1>1, <1>2, <3>1 DEF Workflows
    <3> QED
      BY <1>1, <2>1, <2>2, <3>2 DEF QuietEffect, Idles, Busy, SessionRests
  <2>3. CASE wf.slot = "none"
    <3>1. Go("top") \/ Go("final")
      BY <1>14, <2>3 DEF WaitEnds
    <3>2. wf' \in Workflows /\ wf'.pc \in {"top", "final"} /\ wf'.slot = wf.slot
      BY <1>2, <3>1, GoFields
    <3> QED
      BY <1>1, <2>1, <3>2 DEF QuietEffect, Idles, Busy, SessionRests
  <2> QED
    BY <2>2, <2>3
<1>15. CASE IdleInterrupt
  <2>1. UNCHANGED <<turn, ask, att, userEnded>> /\ wf.pc = "idleint" /\ wf' = NoWorkflow
    BY <1>15 DEF IdleInterrupt, At
  <2>2. goal' \in BOOLEAN
    BY <1>15 DEF IdleInterrupt
  <2>3. /\ session' \in Sessions /\ session'.status # "running"
        /\ session' = session \/ (session'.status = "idle" /\ session'.active = NoTurn)
    BY <1>15, MarkIdleFields DEF IdleInterrupt
  <2>4. wf' \in Workflows /\ wf'.pc = "none" /\ wf'.slot = "none"
    BY <2>1, NoWorkflowFields
  <2> QED
    BY <1>1, <2>1, <2>2, <2>3, <2>4 DEF QuietEffect, Idles, Busy, SessionRests
<1>16. CASE FinishIdle
  <2>1. UNCHANGED <<turn, goal, ask, att, userEnded>> /\ wf.pc = "finalidle"
    BY <1>16 DEF FinishIdle, At
  <2>2. /\ session' \in Sessions /\ session'.status # "running"
        /\ session' = session \/ (session'.status = "idle" /\ session'.active = NoTurn)
    BY <1>16, MarkIdleFields DEF FinishIdle
  <2>3. Go("top") \/ wf' = NoWorkflow
    BY <1>16 DEF FinishIdle
  <2>4. wf' \in Workflows /\ wf'.pc \in {"top", "none"} /\ (wf.slot = "none" => wf'.slot = "none")
    BY <1>2, <2>3, GoFields, NoWorkflowFields
  <2> QED
    BY <1>1, <2>1, <2>2, <2>4 DEF QuietEffect, Idles, Busy, SessionRests
<1> QED
  BY <1>3, <1>4, <1>5, <1>6, <1>7, <1>8, <1>9, <1>10, <1>11, <1>12, <1>13, <1>14, <1>15, <1>16 DEF Quiet

-----------------------------------------------------------------------------
(* The other steps: the workflow's and the users' *)

Sets(t, st) ==
  /\ turn'[t].st = st /\ turn'[t].deaths = turn[t].deaths
  /\ \A u \in Turns \ {t} : turn'[u] = turn[u]
OthersRun(s) == \A r \in Slots \ {s} : att'[r] = att[r]
SameWorkflow == wf'.pc = wf.pc /\ wf'.t = wf.t /\ wf'.act = wf.act /\ wf'.slot = wf.slot
SessionIs(status, active) == session'.status = status /\ session'.active = active

\* The attempt that the workflow listened to, if any, goes on alone.
Abandons ==
  \A s \in Slots :
    /\ ~ att[s].own => att'[s] = att[s]
    /\ att[s].own /\ att[s].pc \in {"lost", "done"} => att'[s] = NoAttempt
    /\ att[s].own /\ att[s].pc \notin {"lost", "done"} =>
         /\ att'[s].pc = att[s].pc /\ att'[s].turn = att[s].turn /\ att'[s].seen = att[s].seen
         /\ att'[s].ends = att[s].ends /\ att'[s].own = FALSE

LEMMA FirstOf ==
  ASSUME NEW S \in SUBSET Turns, S # {}
  PROVE  First(S) \in S
<1>1. S \subseteq Nat
  BY SessionBounds DEF Turns
<1>2. \E x \in S : \A y \in S : x <= y
  BY <1>1, LeastExists
<1> QED
  BY <1>2 DEF First

EnqueueEffect ==
  /\ \E t \in Turns : turn[t].st = "none" /\ Sets(t, "queued")
  /\ UNCHANGED <<session, goal, ask, att, userEnded>>
  /\ SameTurn \/ Idles
  /\ wf'.slot = wf.slot /\ (wf'.pc \in {"none", "idleint"} => wf.pc = wf'.pc)

Enqueues == EnqueueMessage \/ (EnqueueContinuation /\ With("none") # {})

LEMMA EnqueueStep ==
  ASSUME TypeInv, Enqueues
  PROVE  TypeInv' /\ EnqueueEffect
<1>1. With("none") # {} /\ EnqueueSessionTurn /\ UNCHANGED <<session, goal, ask, att, userEnded>>
  BY DEF Enqueues, EnqueueMessage, EnqueueContinuation
<1> DEFINE t == First(With("none"))
<1>2. t \in Turns /\ turn[t].st = "none"
  BY <1>1, FirstOf DEF With
<1>3. SetTurn(t, "queued") /\ "queued" \in TurnStatuses
  BY <1>1 DEF EnqueueSessionTurn, TurnStatuses, Pending
<1> HIDE DEF t
<1>4. turn' \in [Turns -> Rows] /\ Sets(t, "queued")
  BY <1>2, <1>3, SetTurnFields DEF Sets
<1>5. /\ wf' \in Workflows /\ (SameTurn \/ Idles)
      /\ wf'.slot = wf.slot /\ (wf'.pc \in {"none", "idleint"} => wf.pc = wf'.pc)
  <2>1. CASE EnqueueMessage
    BY <2>1 DEF EnqueueMessage, TypeInv, SameTurn
  <2>2. CASE EnqueueContinuation
    <3>1. Go("top") /\ wf.pc = "enqueue" /\ "top" \in WorkflowPcs
      BY <1>1, <2>2 DEF EnqueueContinuation, At, WorkflowPcs
    <3> QED
      BY <3>1, GoFields DEF Idles, Busy
  <2> QED
    BY <2>1, <2>2 DEF Enqueues
<1> QED
  BY <1>1, <1>2, <1>4, <1>5 DEF TypeInv, EnqueueEffect

DeleteEffect(t) ==
  /\ "delete" \in Faults /\ turn[t].st = "queued" /\ Sets(t, "cancelled") /\ userEnded' = userEnded \cup {t}
  /\ UNCHANGED <<session, goal, ask, wf, att>>

LEMMA DeleteStep ==
  ASSUME TypeInv, NEW t \in Turns, CancelQueuedSessionTurn(t)
  PROVE  TypeInv' /\ DeleteEffect(t)
<1>1. /\ SetTurn(t, "cancelled") /\ userEnded' = userEnded \cup {t} /\ turn[t].st = "queued"
      /\ "delete" \in Faults /\ UNCHANGED <<session, goal, ask, wf, att>>
  BY DEF CancelQueuedSessionTurn
<1>2. turn' \in [Turns -> Rows] /\ Sets(t, "cancelled")
  BY <1>1, SetTurnFields DEF Sets, TurnStatuses
<1> QED
  BY <1>1, <1>2 DEF TypeInv, DeleteEffect

ClaimEffect ==
  /\ wf.pc \in {"claim", "final"} /\ wf'.pc = "start" /\ wf'.slot = wf.slot /\ wf'.t \in Turns
  /\ turn[wf'.t].st = "queued" /\ Sets(wf'.t, "running") /\ SessionIs("running", wf'.t)
  /\ UNCHANGED <<att, userEnded>>

LEMMA ClaimStep ==
  ASSUME TypeInv, ClaimTurn
  PROVE  TypeInv' /\ ClaimEffect
<1>1. With("queued") # {} /\ wf.pc \in {"claim", "final"} /\ UNCHANGED <<goal, ask, att, userEnded>>
  BY DEF ClaimTurn, At
<1> DEFINE t == First(With("queued"))
           z == 0
<1>2. t \in Turns /\ turn[t].st = "queued"
  BY <1>1, FirstOf DEF With
<1>3. /\ SetTurn(t, "running") /\ SetSessionStatus("running", t)
      /\ wf' = [wf EXCEPT !.pc = "start", !.t = t, !.decision = z] /\ z \in Nat
  BY DEF ClaimTurn
<1> HIDE DEF t, z
<1>4. t \in TurnIds /\ "start" \in WorkflowPcs /\ "running" \in TurnStatuses /\ "running" \in SessionStatuses
  BY <1>2 DEF TurnIds, WorkflowPcs, TurnStatuses, Pending, SessionStatuses
<1>5. turn' \in [Turns -> Rows] /\ Sets(t, "running")
  BY <1>2, <1>3, <1>4, SetTurnFields DEF Sets
<1>6. session' \in Sessions /\ SessionIs("running", t)
  BY <1>3, <1>4, SessionSet DEF SessionIs
<1>7. wf' \in Workflows /\ wf'.pc = "start" /\ wf'.t = t /\ wf'.slot = wf.slot
  BY <1>3, <1>4 DEF TypeInv, Workflows
<1>8. wf'.t \in Turns /\ turn[wf'.t].st = "queued" /\ Sets(wf'.t, "running") /\ SessionIs("running", wf'.t)
  BY <1>2, <1>5, <1>6, <1>7
<1> QED
  BY <1>1, <1>5, <1>6, <1>7, <1>8 DEF TypeInv, ClaimEffect

DispatchEffect(s) ==
  /\ wf.pc = "start" /\ wf'.pc = "run" /\ wf'.t = wf.t /\ wf'.slot = wf.slot
  /\ att[s].pc = "none" /\ OthersRun(s)
  /\ att'[s].turn = wf.t /\ att'[s].pc = "new" /\ att'[s].own = TRUE /\ att'[s].seen = 0
  /\ UNCHANGED <<turn, session, userEnded>>

LEMMA DispatchStep ==
  ASSUME TypeInv, NEW s \in Slots, Dispatch(s)
  PROVE  TypeInv' /\ DispatchEffect(s)
<1>1. wf.pc = "start" /\ Go("run") /\ "run" \in WorkflowPcs /\ UNCHANGED <<turn, session, goal, ask, userEnded>>
  BY DEF Dispatch, At, WorkflowPcs
<1>2. att[s].pc = "none"
  BY NoAttemptFields DEF Dispatch
<1> DEFINE y == TRUE
           x == [NoAttempt EXCEPT !.turn = wf.t, !.pc = "new", !.own = y, !.decision = wf.decision]
<1>3. att' = [att EXCEPT ![s] = x] /\ y = TRUE /\ y \in BOOLEAN /\ "new" \in AttemptPcs
  BY DEF Dispatch, AttemptPcs
<1> HIDE DEF y
<1>4. NoAttempt \in Atts /\ wf.t \in TurnIds /\ wf.decision \in Nat /\ NoAttempt.seen = 0
  BY NoAttemptFields, WorkflowFields DEF TypeInv, NoAttempt
<1>5. x \in Atts /\ x.turn = wf.t /\ x.pc = "new" /\ x.own = y /\ x.seen = 0
  BY <1>3, <1>4 DEF Atts
<1> HIDE DEF x
<1>6. att' \in [Slots -> Atts] /\ att'[s] = x /\ OthersRun(s)
  BY <1>3, <1>5, OneAttempt DEF OthersRun
<1>7. wf' \in Workflows /\ wf'.pc = "run" /\ wf'.t = wf.t /\ wf'.slot = wf.slot
  BY <1>1, GoFields
<1>8. TypeInv'
  BY <1>1, <1>6, <1>7 DEF TypeInv
<1>9. att'[s].own = TRUE
  BY <1>3, <1>5, <1>6
<1> QED
  BY <1>1, <1>2, <1>5, <1>6, <1>7, <1>8, <1>9 DEF DispatchEffect

NoticeEffect ==
  /\ wf.slot # "none" /\ wf.pc \in {"start", "run", "approval"} /\ wf'.pc = "interrupt" /\ Abandons
  /\ UNCHANGED <<turn, session, userEnded>>

LEMMA NoticeStep ==
  ASSUME TypeInv, NoticeInterrupt
  PROVE  TypeInv' /\ NoticeEffect
<1>1. /\ wf.pc \in {"start", "run", "approval"} /\ att' = Disowned /\ UNCHANGED <<turn, session, goal, ask, userEnded>>
      /\ wf' = [wf EXCEPT !.pc = "interrupt", !.serving = wf.slot] /\ wf.slot # "none"
  BY DEF NoticeInterrupt
<1>2. wf \in Workflows /\ wf.slot \in Signals /\ "interrupt" \in WorkflowPcs
  BY WorkflowFields DEF TypeInv, WorkflowPcs
<1>3. wf' \in Workflows /\ wf'.pc = "interrupt"
  BY <1>1, <1>2 DEF Workflows
<1>4. att' \in [Slots -> Atts] /\ Abandons
  BY <1>1, DisownedFields DEF Abandons
<1> QED
  BY <1>1, <1>3, <1>4 DEF TypeInv, NoticeEffect

InterruptEffect ==
  /\ wf.pc = "interrupt" /\ UNCHANGED <<session, att>>
  /\ wf'.pc = "top" \/ (wf'.pc = "cancel" /\ wf'.act \in Turns)
  /\ \/ UNCHANGED <<turn, userEnded>>
     \/ /\ userEnded' = userEnded \cup With("queued")
        /\ \A t \in Turns : /\ turn[t].st # "queued" => turn'[t] = turn[t]
                            /\ turn[t].st = "queued" => turn'[t].st = "cancelled" /\ turn'[t].deaths = turn[t].deaths

LEMMA ServedFields ==
  ASSUME TypeInv, wf' = Served
  PROVE  wf' \in Workflows /\ wf'.pc = "top"
<1>1. wf \in Workflows /\ "top" \in WorkflowPcs /\ "none" \in Signals /\ NoTurn \in TurnIds
  BY DEF TypeInv, WorkflowPcs, Signals, TurnIds
<1> QED
  BY <1>1 DEF Served, Workflows

LEMMA InterruptStep ==
  ASSUME TypeInv, InterruptActiveTurn
  PROVE  TypeInv' /\ InterruptEffect
<1>1. wf.pc = "interrupt" /\ UNCHANGED <<session, ask, att>>
  BY DEF InterruptActiveTurn, At
<1>2. wf' \in Workflows /\ (wf'.pc = "top" \/ (wf'.pc = "cancel" /\ wf'.act \in Turns))
  <2>1. CASE session.active = NoTurn
    BY <2>1, ServedFields DEF InterruptActiveTurn
  <2>2. CASE session.active # NoTurn
    <3>1. wf' = [wf EXCEPT !.pc = "cancel", !.act = session.active] /\ session.active \in TurnIds
      BY <2>2, SessionFields DEF InterruptActiveTurn, TypeInv
    <3>2. session.active \in Turns /\ "cancel" \in WorkflowPcs /\ wf \in Workflows
      BY <2>2, <3>1 DEF TurnIds, WorkflowPcs, TypeInv
    <3> QED
      BY <3>1, <3>2 DEF Workflows
  <2> QED
    BY <2>1, <2>2
<1>3. /\ goal' \in BOOLEAN /\ turn' \in [Turns -> Rows] /\ userEnded' \subseteq Turns
      /\ \/ UNCHANGED <<turn, userEnded>>
         \/ /\ userEnded' = userEnded \cup With("queued")
            /\ \A t \in Turns :
                 /\ turn[t].st # "queued" => turn'[t] = turn[t]
                 /\ turn[t].st = "queued" => turn'[t].st = "cancelled" /\ turn'[t].deaths = turn[t].deaths
  <2>1. CASE wf.serving = "stop"
    <3>1. goal' = FALSE
      BY <2>1 DEF InterruptActiveTurn
    <3>2. goal' \in BOOLEAN
      BY <3>1
    <3>3. userEnded' = userEnded \cup With("queued")
      BY <2>1 DEF InterruptActiveTurn
    <3>4. userEnded' \subseteq Turns
      BY <3>3 DEF TypeInv, With
    <3> DEFINE x(t) == [turn[t] EXCEPT !.st = "cancelled"]
               y(t) == IF turn[t].st = "queued" THEN x(t) ELSE turn[t]
    <3>5. turn' = [t \in Turns |-> y(t)]
      BY <2>1 DEF InterruptActiveTurn
    <3>6. \A t \in Turns : x(t) \in Rows /\ x(t).st = "cancelled" /\ x(t).deaths = turn[t].deaths
      <4> SUFFICES ASSUME NEW t \in Turns
                   PROVE  x(t) \in Rows /\ x(t).st = "cancelled" /\ x(t).deaths = turn[t].deaths
        OBVIOUS
      <4>1. turn[t] \in Rows /\ "cancelled" \in TurnStatuses
        BY DEF TypeInv, TurnStatuses
      <4> QED
        BY <4>1 DEF Rows
    <3> HIDE DEF x
    <3>7. \A t \in Turns : y(t) \in Rows
      BY <3>6, RowFields
    <3>8. turn' \in [Turns -> Rows] /\ \A t \in Turns : turn'[t] = y(t)
      <4> HIDE DEF y
      <4> QED
        BY <3>5, <3>7
    <3> QED
      BY <3>2, <3>3, <3>4, <3>6, <3>8
  <2>2. CASE wf.serving # "stop"
    BY <2>2 DEF InterruptActiveTurn, TypeInv
  <2> QED
    BY <2>1, <2>2
<1> QED
  BY <1>1, <1>2, <1>3 DEF TypeInv, InterruptEffect

CancelEffect ==
  /\ wf.pc = "cancel" /\ wf'.pc = "top" /\ Sets(wf.act, "cancelled") /\ SessionIs("queued", NoTurn)
  /\ userEnded' = userEnded \cup {wf.act} /\ UNCHANGED att

LEMMA CancelStep ==
  ASSUME BaseInv, CancelActiveTurn
  PROVE  TypeInv' /\ CancelEffect
<1>1. /\ wf.pc = "cancel" /\ SetTurn(wf.act, "cancelled") /\ SetSessionStatus("queued", NoTurn)
      /\ userEnded' = userEnded \cup {wf.act} /\ wf' = Served /\ UNCHANGED <<goal, ask, att>>
  BY DEF CancelActiveTurn, At
<1>2. TypeInv /\ wf.act \in Turns /\ "cancelled" \in TurnStatuses /\ "queued" \in SessionStatuses /\ NoTurn \in TurnIds
  BY <1>1 DEF BaseInv, OwnInv, TurnStatuses, SessionStatuses, TurnIds
<1>3. turn' \in [Turns -> Rows] /\ Sets(wf.act, "cancelled")
  BY <1>1, <1>2, SetTurnFields DEF Sets
<1>4. session' \in Sessions /\ SessionIs("queued", NoTurn)
  BY <1>1, <1>2, SessionSet DEF SessionIs
<1>5. wf' \in Workflows /\ wf'.pc = "top"
  BY <1>1, <1>2, ServedFields
<1> QED
  BY <1>1, <1>2, <1>3, <1>4, <1>5 DEF TypeInv, CancelEffect

ResultEffect(s) ==
  /\ wf.pc = "run" /\ att[s].own /\ att[s].pc = "done" /\ att'[s] = NoAttempt /\ OthersRun(s)
  /\ \/ wf'.pc = "none" /\ att[s].ends = "failed"
     \/ /\ wf'.t = wf.t
        /\ \/ wf'.pc = "top" /\ att[s].ends \in {"idle", "preempted"}
           \/ wf'.pc = "approval" /\ att[s].ends = "requires_action"
           \/ wf'.pc = "fail" /\ att[s].ends = "error"
  /\ wf.slot = "none" => wf'.slot = "none"
  /\ UNCHANGED <<turn, session, userEnded>>

LEMMA ResultStep ==
  ASSUME BaseInv, NEW s \in Slots, HandleResult(s)
  PROVE  TypeInv' /\ ResultEffect(s)
<1>1. /\ wf.pc = "run" /\ att[s].own /\ att[s].pc = "done" /\ att' = [att EXCEPT ![s] = NoAttempt]
      /\ UNCHANGED <<turn, session, goal, ask, userEnded>>
  BY DEF HandleResult, At
<1>2. TypeInv /\ att[s].ends \in Results
  BY <1>1 DEF BaseInv, OwnInv
<1>3. att' \in [Slots -> Atts] /\ att'[s] = NoAttempt /\ OthersRun(s)
  BY <1>1, <1>2, OneAttempt, NoAttemptFields DEF OthersRun
<1>4. "top" \in WorkflowPcs /\ "approval" \in WorkflowPcs /\ "fail" \in WorkflowPcs
  BY DEF WorkflowPcs
<1>5. \/ Go("top") /\ att[s].ends \in {"idle", "preempted"}
      \/ Go("approval") /\ att[s].ends = "requires_action"
      \/ wf' = NoWorkflow /\ att[s].ends = "failed"
      \/ Go("fail") /\ att[s].ends = "error"
  BY <1>2 DEF HandleResult, Results
<1>6. /\ wf' \in Workflows /\ (wf.slot = "none" => wf'.slot = "none")
      /\ \/ wf'.pc = "none" /\ att[s].ends = "failed"
         \/ /\ wf'.t = wf.t
            /\ \/ wf'.pc = "top" /\ att[s].ends \in {"idle", "preempted"}
               \/ wf'.pc = "approval" /\ att[s].ends = "requires_action"
               \/ wf'.pc = "fail" /\ att[s].ends = "error"
  <2>1. CASE Go("top") /\ att[s].ends \in {"idle", "preempted"}
    BY <1>2, <1>4, <2>1, GoFields
  <2>2. CASE Go("approval") /\ att[s].ends = "requires_action"
    BY <1>2, <1>4, <2>2, GoFields
  <2>3. CASE wf' = NoWorkflow /\ att[s].ends = "failed"
    BY <2>3, NoWorkflowFields
  <2>4. CASE Go("fail") /\ att[s].ends = "error"
    BY <1>2, <1>4, <2>4, GoFields
  <2> QED
    BY <1>5, <2>1, <2>2, <2>3, <2>4
<1> QED
  BY <1>1, <1>2, <1>3, <1>6 DEF TypeInv, ResultEffect

TimeoutEffect(s) ==
  /\ wf.pc = "run" /\ wf'.pc = "dead" /\ wf'.t = wf.t /\ wf'.slot = wf.slot /\ att[s].own /\ Abandons
  /\ \/ att[s].pc = "lost"
     \/ "zombie" \in Faults /\ (att[s].pc \in {"new", "read", "work", "dying"} \/ "late" \in Faults)
  /\ UNCHANGED <<turn, session, userEnded>>

LEMMA TimeoutStep ==
  ASSUME TypeInv, NEW s \in Slots, HeartbeatTimeout(s)
  PROVE  TypeInv' /\ TimeoutEffect(s)
<1>1. /\ wf.pc = "run" /\ att[s].own /\ att' = Disowned /\ Go("dead") /\ "dead" \in WorkflowPcs
      /\ UNCHANGED <<turn, session, goal, ask, userEnded>>
  BY DEF HeartbeatTimeout, At, WorkflowPcs
<1>2. \/ att[s].pc = "lost"
      \/ "zombie" \in Faults /\ (att[s].pc \in {"new", "read", "work", "dying"} \/ "late" \in Faults)
  BY DEF HeartbeatTimeout
<1>3. wf' \in Workflows /\ wf'.pc = "dead" /\ wf'.t = wf.t /\ wf'.slot = wf.slot
  BY <1>1, GoFields
<1>4. att' \in [Slots -> Atts] /\ Abandons
  BY <1>1, DisownedFields DEF Abandons
<1> QED
  BY <1>1, <1>2, <1>3, <1>4 DEF TypeInv, TimeoutEffect

CountEffect ==
  /\ wf.pc = "dead" /\ wf'.t = wf.t /\ wf'.slot = wf.slot /\ UNCHANGED <<session, att, userEnded>>
  /\ \/ turn[wf.t].st \notin DiedIn /\ wf'.pc = "top" /\ UNCHANGED turn
     \/ /\ turn[wf.t].st \in DiedIn
        /\ turn'[wf.t].st = turn[wf.t].st /\ turn'[wf.t].deaths = turn[wf.t].deaths + 1
        /\ \A u \in Turns \ {wf.t} : turn'[u] = turn[u]
        /\ \/ wf'.pc = "fail" /\ turn[wf.t].deaths + 1 > MaxRedispatches
           \/ wf'.pc = "requeue" /\ turn[wf.t].deaths + 1 <= MaxRedispatches

LEMMA CountStep ==
  ASSUME BaseInv, CountWorkerDeath
  PROVE  TypeInv' /\ CountEffect
<1>1. wf.pc = "dead" /\ UNCHANGED <<session, goal, ask, att, userEnded>>
  BY DEF CountWorkerDeath, At
<1>2. TypeInv /\ wf.t \in Turns
  BY <1>1 DEF BaseInv, OwnInv
<1>3. "top" \in WorkflowPcs /\ "fail" \in WorkflowPcs /\ "requeue" \in WorkflowPcs
  BY DEF WorkflowPcs
<1>4. CASE turn[wf.t].st \notin DiedIn
  <2>1. Go("top") /\ UNCHANGED turn
    BY <1>4 DEF CountWorkerDeath
  <2>2. wf' \in Workflows /\ wf'.pc = "top" /\ wf'.t = wf.t /\ wf'.slot = wf.slot
    BY <1>2, <1>3, <2>1, GoFields
  <2> QED
    BY <1>1, <1>2, <1>4, <2>1, <2>2 DEF TypeInv, CountEffect
<1>5. CASE turn[wf.t].st \in DiedIn
  <2>1. /\ turn' = [turn EXCEPT ![wf.t].deaths = @ + 1]
        /\ Go(IF turn[wf.t].deaths + 1 > MaxRedispatches THEN "fail" ELSE "requeue")
    BY <1>5 DEF CountWorkerDeath
  <2>2. turn[wf.t] \in Rows /\ turn[wf.t].deaths \in Nat /\ MaxRedispatches \in Nat
    BY <1>2, RowFields, SessionBounds
  <2> DEFINE n == turn[wf.t].deaths + 1
             x == [turn[wf.t] EXCEPT !.deaths = n]
  <2>3. turn' = [turn EXCEPT ![wf.t] = x] /\ n \in Nat
    BY <2>1, <2>2
  <2>n. n = turn[wf.t].deaths + 1
    OBVIOUS
  <2> HIDE DEF n
  <2>4. x \in Rows /\ x.st = turn[wf.t].st /\ x.deaths = n
    BY <2>2, <2>3 DEF Rows
  <2> HIDE DEF x
  <2>5. turn' \in [Turns -> Rows] /\ turn'[wf.t] = x /\ \A u \in Turns \ {wf.t} : turn'[u] = turn[u]
    BY <1>2, <2>3, <2>4 DEF TypeInv
  <2>6. \/ Go("fail") /\ turn[wf.t].deaths + 1 > MaxRedispatches
        \/ Go("requeue") /\ turn[wf.t].deaths + 1 <= MaxRedispatches
    BY <2>1, <2>2
  <2>7. /\ wf' \in Workflows /\ wf'.t = wf.t /\ wf'.slot = wf.slot
        /\ \/ wf'.pc = "fail" /\ turn[wf.t].deaths + 1 > MaxRedispatches
           \/ wf'.pc = "requeue" /\ turn[wf.t].deaths + 1 <= MaxRedispatches
    BY <1>2, <1>3, <2>6, GoFields
  <2>8. turn'[wf.t].st = turn[wf.t].st /\ turn'[wf.t].deaths = turn[wf.t].deaths + 1
    BY <2>4, <2>5, <2>n
  <2>9. TypeInv'
    BY <1>1, <1>2, <2>5, <2>7 DEF TypeInv
  <2> QED
    BY <1>1, <1>5, <2>5, <2>7, <2>8, <2>9 DEF CountEffect
<1> QED
  BY <1>4, <1>5

RequeueEffect ==
  /\ wf.pc = "requeue" /\ wf'.pc = "top" /\ wf'.t = wf.t /\ wf'.slot = wf.slot /\ UNCHANGED <<att, userEnded>>
  /\ \/ turn[wf.t].st \in DiedIn /\ Sets(wf.t, "queued") /\ SessionIs("queued", NoTurn)
     \/ turn[wf.t].st \notin DiedIn /\ UNCHANGED <<turn, session>>

LEMMA RequeueStep ==
  ASSUME BaseInv, RequeueAfterWorkerDeath
  PROVE  TypeInv' /\ RequeueEffect
<1>1. wf.pc = "requeue" /\ Go("top") /\ UNCHANGED <<goal, ask, att, userEnded>>
  BY DEF RequeueAfterWorkerDeath, At
<1>2. /\ TypeInv /\ wf.t \in Turns /\ "top" \in WorkflowPcs /\ "queued" \in TurnStatuses
      /\ "queued" \in SessionStatuses /\ NoTurn \in TurnIds
  BY <1>1 DEF BaseInv, OwnInv, WorkflowPcs, TurnStatuses, Pending, SessionStatuses, TurnIds
<1>3. wf' \in Workflows /\ wf'.pc = "top" /\ wf'.t = wf.t /\ wf'.slot = wf.slot
  BY <1>1, <1>2, GoFields
<1>4. CASE turn[wf.t].st \in DiedIn
  <2>1. SetTurn(wf.t, "queued") /\ SetSessionStatus("queued", NoTurn)
    BY <1>4 DEF RequeueAfterWorkerDeath, Requeueable
  <2>2. turn' \in [Turns -> Rows] /\ Sets(wf.t, "queued")
    BY <1>2, <2>1, SetTurnFields DEF Sets
  <2>3. session' \in Sessions /\ SessionIs("queued", NoTurn)
    BY <1>2, <2>1, SessionSet DEF SessionIs
  <2> QED
    BY <1>1, <1>2, <1>3, <1>4, <2>2, <2>3 DEF TypeInv, RequeueEffect
<1>5. CASE turn[wf.t].st \notin DiedIn
  <2>1. UNCHANGED <<turn, session>>
    BY <1>5 DEF RequeueAfterWorkerDeath, Requeueable
  <2> QED
    BY <1>1, <1>2, <1>3, <1>5, <2>1 DEF TypeInv, RequeueEffect
<1> QED
  BY <1>4, <1>5

FailEffect ==
  /\ wf.pc = "fail" /\ wf'.pc = "none" /\ wf'.slot = "none" /\ UNCHANGED <<att, userEnded>>
  /\ \/ session.status = "failed" /\ UNCHANGED <<turn, session>>
     \/ session.active = NoTurn /\ UNCHANGED turn /\ SessionIs("failed", NoTurn)
     \/ session.active \in Turns /\ Sets(session.active, "failed") /\ SessionIs("failed", NoTurn)

LEMMA FailStep ==
  ASSUME TypeInv, FailSession
  PROVE  TypeInv' /\ FailEffect
<1>1. wf.pc = "fail" /\ wf' = NoWorkflow /\ UNCHANGED <<goal, ask, att, userEnded>>
  BY DEF FailSession, At
<1>2. /\ "failed" \in TurnStatuses /\ "failed" \in SessionStatuses /\ NoTurn \in TurnIds
      /\ session.active \in Turns \cup {NoTurn}
  BY SessionFields DEF TypeInv, TurnStatuses, SessionStatuses, TurnIds
<1>3. wf' \in Workflows /\ wf'.pc = "none" /\ wf'.slot = "none"
  BY <1>1, NoWorkflowFields
<1>4. CASE session.status = "failed"
  <2>1. UNCHANGED <<turn, session>>
    BY <1>4 DEF FailSession
  <2> QED
    BY <1>1, <1>3, <1>4, <2>1 DEF TypeInv, FailEffect
<1>5. CASE session.status # "failed"
  <2>1. SetSessionStatus("failed", NoTurn)
    BY <1>5 DEF FailSession
  <2>2. session' \in Sessions /\ SessionIs("failed", NoTurn)
    BY <1>2, <2>1, SessionSet DEF SessionIs
  <2>3. CASE session.active = NoTurn
    <3>1. UNCHANGED turn
      BY <1>5, <2>3 DEF FailSession
    <3> QED
      BY <1>1, <1>3, <2>2, <2>3, <3>1 DEF TypeInv, FailEffect
  <2>4. CASE session.active # NoTurn
    <3>1. SetTurn(session.active, "failed") /\ session.active \in Turns
      BY <1>2, <1>5, <2>4 DEF FailSession
    <3>2. turn' \in [Turns -> Rows] /\ Sets(session.active, "failed")
      BY <1>2, <3>1, SetTurnFields DEF Sets
    <3> QED
      BY <1>1, <1>3, <2>2, <3>1, <3>2 DEF TypeInv, FailEffect
  <2> QED
    BY <2>3, <2>4
<1> QED
  BY <1>4, <1>5

ApproveEffect ==
  /\ wf.pc = "approval" /\ wf'.pc = "start" /\ wf'.t = wf.t /\ wf'.slot = wf.slot
  /\ UNCHANGED <<turn, session, att, userEnded>>

LEMMA ApproveStep ==
  ASSUME TypeInv, ResumeApproved
  PROVE  TypeInv' /\ ApproveEffect
<1>1. /\ wf.pc = "approval" /\ wf.approvals # <<>> /\ UNCHANGED <<turn, session, goal, ask, att, userEnded>>
      /\ wf' = [wf EXCEPT !.pc = "start", !.approvals = Tail(wf.approvals), !.decision = Head(wf.approvals)]
  BY DEF ResumeApproved, At
<1>2. wf \in Workflows /\ wf.approvals \in Seq(Nat) /\ "start" \in WorkflowPcs
  BY WorkflowFields DEF TypeInv, WorkflowPcs
<1> DEFINE q == Tail(wf.approvals)
           d == Head(wf.approvals)
<1>3. q \in Seq(Nat) /\ d \in Nat
  BY <1>1, <1>2, HeadTailProperties
<1>4. wf' = [wf EXCEPT !.pc = "start", !.approvals = q, !.decision = d]
  BY <1>1
<1> HIDE DEF q, d
<1>5. wf' \in Workflows /\ wf'.pc = "start" /\ wf'.t = wf.t /\ wf'.slot = wf.slot
  BY <1>2, <1>3, <1>4 DEF Workflows
<1> QED
  BY <1>1, <1>5 DEF TypeInv, ApproveEffect

-----------------------------------------------------------------------------
(* The steps of an attempt *)

Becomes(s, l) ==
  /\ att'[s].pc = l /\ att'[s].turn = att[s].turn /\ att'[s].seen = att[s].seen
  /\ att'[s].own = att[s].own /\ att'[s].ends = att[s].ends /\ OthersRun(s)

IsOver(s, r) ==
  /\ OthersRun(s)
  /\ att[s].own => /\ att'[s].pc = "done" /\ att'[s].ends = r /\ att'[s].turn = att[s].turn
                   /\ att'[s].seen = att[s].seen /\ att'[s].own = att[s].own
  /\ ~ att[s].own => att'[s] = NoAttempt

LEMMA Becoming ==
  ASSUME TypeInv, NEW s \in Slots, NEW l \in AttemptPcs, Reaches(s, l)
  PROVE  att' \in [Slots -> Atts] /\ Becomes(s, l)
  BY ReachesFields DEF Becomes, OthersRun

LEMMA Ending ==
  ASSUME TypeInv, NEW s \in Slots, NEW r \in Results, Ends(s, r)
  PROVE  att' \in [Slots -> Atts] /\ IsOver(s, r)
  BY EndsFields DEF IsOver, OthersRun

ReadEffect(s) ==
  /\ att[s].pc = "new" /\ RunsOn(s) /\ att'[s].pc = "read" /\ att'[s].seen = turn[att[s].turn].deaths
  /\ att'[s].turn = att[s].turn /\ att'[s].own = att[s].own /\ att'[s].ends = att[s].ends /\ OthersRun(s)
  /\ UNCHANGED <<turn, session, goal, ask, wf, userEnded>>

LEMMA ReadStep ==
  ASSUME BaseInv, NEW s \in Slots, ReadTurn(s)
  PROVE  TypeInv' /\ ReadEffect(s)
<1>1. att[s].pc = "new" /\ RunsOn(s) /\ UNCHANGED <<turn, session, goal, ask, wf, userEnded>>
  BY DEF ReadTurn
<1>2. TypeInv /\ att[s] \in Atts /\ att[s].turn \in Turns /\ "read" \in AttemptPcs
  BY <1>1 DEF BaseInv, OwnInv, TypeInv, AttemptPcs
<1> DEFINE n == turn[att[s].turn].deaths
           x == [att[s] EXCEPT !.pc = "read", !.seen = n]
<1>3. n \in Nat
  BY <1>2, RowFields
<1>4. att' = [att EXCEPT ![s] = x]
  BY <1>2 DEF ReadTurn, TypeInv
<1>n. n = turn[att[s].turn].deaths
  OBVIOUS
<1> HIDE DEF n
<1>5. /\ x \in Atts /\ x.pc = "read" /\ x.seen = n /\ x.turn = att[s].turn /\ x.own = att[s].own
      /\ x.ends = att[s].ends
  BY <1>2, <1>3 DEF Atts
<1> HIDE DEF x
<1>6. att' \in [Slots -> Atts] /\ att'[s] = x /\ OthersRun(s)
  BY <1>2, <1>4, <1>5, OneAttempt DEF OthersRun
<1>7. TypeInv'
  BY <1>1, <1>2, <1>6 DEF TypeInv
<1> QED
  BY <1>1, <1>5, <1>6, <1>7, <1>n DEF ReadEffect

StartEffect(s) ==
  /\ att[s].pc = "read" /\ RunsOn(s) /\ Becomes(s, "work") /\ SessionIs("running", att[s].turn)
  /\ UNCHANGED <<turn, goal, ask, wf, userEnded>>

LEMMA StartStep ==
  ASSUME BaseInv, NEW s \in Slots, StartTurn(s)
  PROVE  TypeInv' /\ StartEffect(s)
<1>1. /\ att[s].pc = "read" /\ RunsOn(s) /\ SetSessionStatus("running", att[s].turn) /\ Reaches(s, "work")
      /\ UNCHANGED <<turn, goal, ask, wf, userEnded>>
  BY DEF StartTurn
<1>2. TypeInv /\ att[s].turn \in TurnIds /\ "work" \in AttemptPcs /\ "running" \in SessionStatuses
  BY <1>1 DEF BaseInv, OwnInv, TurnIds, AttemptPcs, SessionStatuses
<1>3. session' \in Sessions /\ SessionIs("running", att[s].turn)
  BY <1>1, <1>2, SessionSet DEF SessionIs
<1>4. att' \in [Slots -> Atts] /\ Becomes(s, "work")
  BY <1>1, <1>2, Becoming
<1> QED
  BY <1>1, <1>2, <1>3, <1>4 DEF TypeInv, StartEffect

SetupEffect(s) ==
  /\ att[s].pc \in {"new", "read"} /\ RunsOn(s) /\ IsOver(s, "error")
  /\ UNCHANGED <<turn, session, goal, ask, wf, userEnded>>

LEMMA SetupStep ==
  ASSUME TypeInv, NEW s \in Slots, SetupFails(s)
  PROVE  TypeInv' /\ SetupEffect(s)
<1>1. /\ att[s].pc \in {"new", "read"} /\ RunsOn(s) /\ Ends(s, "error") /\ "error" \in Results
      /\ UNCHANGED <<turn, session, goal, ask, wf, userEnded>>
  BY DEF SetupFails, Results
<1>2. att' \in [Slots -> Atts] /\ IsOver(s, "error")
  BY <1>1, Ending
<1> QED
  BY <1>1, <1>2 DEF TypeInv, SetupEffect

SettleEffect(s) ==
  /\ att[s].pc = "work" /\ RunsOn(s)
  /\ \/ Sets(att[s].turn, "completed") /\ Becomes(s, "idle")
     \/ Sets(att[s].turn, "requires_action") /\ Becomes(s, "asks")
     \/ Sets(att[s].turn, "failed") /\ (Becomes(s, "fails") \/ Becomes(s, "idle"))
  /\ UNCHANGED <<session, goal, wf, userEnded>>

LEMMA SettleStep ==
  ASSUME BaseInv, NEW s \in Slots, SettleTurn(s)
  PROVE  TypeInv' /\ SettleEffect(s)
<1>1. att[s].pc = "work" /\ RunsOn(s) /\ UNCHANGED <<session, goal, wf, userEnded>>
  BY DEF SettleTurn
<1>2. TypeInv /\ att[s].turn \in Turns
  BY <1>1 DEF BaseInv, OwnInv
<1>3. /\ {"completed", "requires_action", "failed"} \subseteq TurnStatuses
      /\ {"idle", "asks", "fails"} \subseteq AttemptPcs
  BY DEF TurnStatuses, Pending, AttemptPcs
<1>4. ask' \in 0 .. MaxAsks
  <2>1. ask \in Nat /\ ask <= MaxAsks /\ MaxAsks \in Nat
    BY <1>2, SessionBounds DEF TypeInv
  <2>2. ask' = ask \/ (ask < MaxAsks /\ ask' = ask + 1)
    BY DEF SettleTurn
  <2> QED
    BY <2>1, <2>2
<1>5. \/ SetTurn(att[s].turn, "completed") /\ Reaches(s, "idle")
      \/ SetTurn(att[s].turn, "requires_action") /\ Reaches(s, "asks")
      \/ SetTurn(att[s].turn, "failed") /\ (Reaches(s, "fails") \/ Reaches(s, "idle"))
  BY DEF SettleTurn
<1>6. CASE SetTurn(att[s].turn, "completed") /\ Reaches(s, "idle")
  <2>1. turn' \in [Turns -> Rows] /\ Sets(att[s].turn, "completed")
    BY <1>2, <1>3, <1>6, SetTurnFields DEF Sets
  <2>2. att' \in [Slots -> Atts] /\ Becomes(s, "idle")
    BY <1>2, <1>3, <1>6, Becoming
  <2> QED
    BY <1>1, <1>2, <1>4, <2>1, <2>2 DEF TypeInv, SettleEffect
<1>7. CASE SetTurn(att[s].turn, "requires_action") /\ Reaches(s, "asks")
  <2>1. turn' \in [Turns -> Rows] /\ Sets(att[s].turn, "requires_action")
    BY <1>2, <1>3, <1>7, SetTurnFields DEF Sets
  <2>2. att' \in [Slots -> Atts] /\ Becomes(s, "asks")
    BY <1>2, <1>3, <1>7, Becoming
  <2> QED
    BY <1>1, <1>2, <1>4, <2>1, <2>2 DEF TypeInv, SettleEffect
<1>8. CASE SetTurn(att[s].turn, "failed") /\ (Reaches(s, "fails") \/ Reaches(s, "idle"))
  <2>1. turn' \in [Turns -> Rows] /\ Sets(att[s].turn, "failed")
    BY <1>2, <1>3, <1>8, SetTurnFields DEF Sets
  <2>2. att' \in [Slots -> Atts] /\ (Becomes(s, "fails") \/ Becomes(s, "idle"))
    BY <1>2, <1>3, <1>8, Becoming
  <2> QED
    BY <1>1, <1>2, <1>4, <2>1, <2>2 DEF TypeInv, SettleEffect
<1> QED
  BY <1>5, <1>6, <1>7, <1>8

SettledEffect(s) ==
  /\ \/ att[s].pc = "idle" /\ SessionIs("idle", NoTurn) /\ IsOver(s, "idle")
     \/ att[s].pc = "asks" /\ SessionIs("requires_action", att[s].turn) /\ IsOver(s, "requires_action")
     \/ att[s].pc = "fails" /\ SessionIs("failed", NoTurn) /\ (IsOver(s, "failed") \/ IsOver(s, "error"))
     \/ att[s].pc = "requeued" /\ SessionIs("queued", NoTurn) /\ IsOver(s, "preempted")
  /\ UNCHANGED <<turn, goal, ask, wf, userEnded>>

LEMMA SettledStep ==
  ASSUME BaseInv, NEW s \in Slots, SettleSession(s)
  PROVE  TypeInv' /\ SettledEffect(s)
<1>1. UNCHANGED <<turn, goal, ask, wf, userEnded>>
  BY DEF SettleSession
<1>2. /\ TypeInv /\ att[s].turn \in TurnIds /\ NoTurn \in TurnIds
      /\ {"idle", "requires_action", "failed", "queued"} \subseteq SessionStatuses
      /\ {"idle", "requires_action", "failed", "error", "preempted"} \subseteq Results
  BY AttemptFields DEF BaseInv, TypeInv, TurnIds, SessionStatuses, Results
<1>3. CASE att[s].pc = "idle" /\ SetSessionStatus("idle", NoTurn) /\ Ends(s, "idle")
  <2>1. session' \in Sessions /\ SessionIs("idle", NoTurn)
    BY <1>2, <1>3, SessionSet DEF SessionIs
  <2>2. att' \in [Slots -> Atts] /\ IsOver(s, "idle")
    BY <1>2, <1>3, Ending
  <2> QED
    BY <1>1, <1>2, <1>3, <2>1, <2>2 DEF TypeInv, SettledEffect
<1>4. CASE att[s].pc = "asks" /\ SetSessionStatus("requires_action", att[s].turn) /\ Ends(s, "requires_action")
  <2>1. session' \in Sessions /\ SessionIs("requires_action", att[s].turn)
    BY <1>2, <1>4, SessionSet DEF SessionIs
  <2>2. att' \in [Slots -> Atts] /\ IsOver(s, "requires_action")
    BY <1>2, <1>4, Ending
  <2> QED
    BY <1>1, <1>2, <1>4, <2>1, <2>2 DEF TypeInv, SettledEffect
<1>5. CASE /\ att[s].pc = "fails" /\ SetSessionStatus("failed", NoTurn)
           /\ Ends(s, "failed") \/ Ends(s, "error")
  <2>1. session' \in Sessions /\ SessionIs("failed", NoTurn)
    BY <1>2, <1>5, SessionSet DEF SessionIs
  <2>2. att' \in [Slots -> Atts] /\ (IsOver(s, "failed") \/ IsOver(s, "error"))
    BY <1>2, <1>5, Ending
  <2> QED
    BY <1>1, <1>2, <1>5, <2>1, <2>2 DEF TypeInv, SettledEffect
<1>6. CASE att[s].pc = "requeued" /\ SetSessionStatus("queued", NoTurn) /\ Ends(s, "preempted")
  <2>1. session' \in Sessions /\ SessionIs("queued", NoTurn)
    BY <1>2, <1>6, SessionSet DEF SessionIs
  <2>2. att' \in [Slots -> Atts] /\ IsOver(s, "preempted")
    BY <1>2, <1>6, Ending
  <2> QED
    BY <1>1, <1>2, <1>6, <2>1, <2>2 DEF TypeInv, SettledEffect
<1> QED
  BY <1>3, <1>4, <1>5, <1>6 DEF SettleSession

PreemptEffect(s) ==
  /\ att[s].pc \in {"new", "read", "work"} /\ (RunsOn(s) \/ "lateShutdown" \in Faults)
  /\ \/ /\ turn[att[s].turn].st \in {"running", "requires_action"}
        /\ Sets(att[s].turn, "queued") /\ Becomes(s, "requeued")
     \/ /\ turn[att[s].turn].st \notin {"running", "requires_action"}
        /\ Becomes(s, "dying") /\ UNCHANGED turn
  /\ UNCHANGED <<session, goal, ask, wf, userEnded>>

LEMMA PreemptStep ==
  ASSUME BaseInv, NEW s \in Slots, PreemptTurn(s)
  PROVE  TypeInv' /\ PreemptEffect(s)
<1>1. /\ att[s].pc \in {"new", "read", "work"} /\ (RunsOn(s) \/ "lateShutdown" \in Faults)
      /\ UNCHANGED <<session, goal, ask, wf, userEnded>>
  BY DEF PreemptTurn
<1>2. /\ TypeInv /\ att[s].turn \in Turns /\ "queued" \in TurnStatuses
      /\ "requeued" \in AttemptPcs /\ "dying" \in AttemptPcs
  BY <1>1 DEF BaseInv, OwnInv, TurnStatuses, Pending, AttemptPcs
<1>3. CASE turn[att[s].turn].st \in {"running", "requires_action"}
  <2>1. SetTurn(att[s].turn, "queued") /\ Reaches(s, "requeued")
    BY <1>3 DEF PreemptTurn, Requeueable
  <2>2. turn' \in [Turns -> Rows] /\ Sets(att[s].turn, "queued")
    BY <1>2, <2>1, SetTurnFields DEF Sets
  <2>3. att' \in [Slots -> Atts] /\ Becomes(s, "requeued")
    BY <1>2, <2>1, Becoming
  <2> QED
    BY <1>1, <1>2, <1>3, <2>2, <2>3 DEF TypeInv, PreemptEffect
<1>4. CASE turn[att[s].turn].st \notin {"running", "requires_action"}
  <2>1. UNCHANGED turn /\ Reaches(s, "dying")
    BY <1>4 DEF PreemptTurn, Requeueable
  <2>2. att' \in [Slots -> Atts] /\ Becomes(s, "dying")
    BY <1>2, <2>1, Becoming
  <2> QED
    BY <1>1, <1>2, <1>4, <2>1, <2>2 DEF TypeInv, PreemptEffect
<1> QED
  BY <1>3, <1>4

DyingEffect(s) ==
  /\ Open(s) /\ (att[s].pc = "dying" \/ ~ att[s].own) /\ IsOver(s, "error")
  /\ \/ UNCHANGED turn /\ ~ CancelsFromDying(att[s].turn, att[s].seen)
     \/ CancelsFromDying(att[s].turn, att[s].seen) /\ Sets(att[s].turn, "cancelled")
  /\ UNCHANGED <<session, goal, ask, wf, userEnded>>

LEMMA DyingStep ==
  ASSUME BaseInv, NEW s \in Slots, DyingAttempt(s)
  PROVE  TypeInv' /\ DyingEffect(s)
<1>1. /\ Open(s) /\ (att[s].pc = "dying" \/ ~ att[s].own) /\ Ends(s, "error")
      /\ UNCHANGED <<session, goal, ask, wf, userEnded>>
  BY DEF DyingAttempt, Open
<1>2. TypeInv /\ att[s].turn \in Turns /\ "cancelled" \in TurnStatuses /\ "error" \in Results
  BY <1>1 DEF BaseInv, OwnInv, Open, TurnStatuses, Results
<1>3. att' \in [Slots -> Atts] /\ IsOver(s, "error")
  BY <1>1, <1>2, Ending
<1>4. CASE CancelsFromDying(att[s].turn, att[s].seen)
  <2>1. SetTurn(att[s].turn, "cancelled")
    BY <1>4 DEF DyingAttempt
  <2>2. turn' \in [Turns -> Rows] /\ Sets(att[s].turn, "cancelled")
    BY <1>2, <2>1, SetTurnFields DEF Sets
  <2> QED
    BY <1>1, <1>2, <1>3, <1>4, <2>2 DEF TypeInv, DyingEffect
<1>5. CASE ~ CancelsFromDying(att[s].turn, att[s].seen)
  <2>1. UNCHANGED turn
    BY <1>5 DEF DyingAttempt
  <2> QED
    BY <1>1, <1>2, <1>3, <1>5, <2>1 DEF TypeInv, DyingEffect
<1> QED
  BY <1>4, <1>5

DeathEffect(s) ==
  /\ att[s].pc \notin {"none", "lost", "done"} /\ OthersRun(s)
  /\ (att[s].own /\ Becomes(s, "lost")) \/ (~ att[s].own /\ att'[s] = NoAttempt)
  /\ UNCHANGED <<turn, session, goal, ask, wf, userEnded>>

LEMMA DeathStep ==
  ASSUME TypeInv, NEW s \in Slots, WorkerDies(s)
  PROVE  TypeInv' /\ DeathEffect(s)
<1>1. att[s].pc \notin {"none", "lost", "done"} /\ UNCHANGED <<turn, session, goal, ask, wf, userEnded>>
  BY DEF WorkerDies
<1>2. CASE att[s].own
  <2>1. att' \in [Slots -> Atts] /\ Becomes(s, "lost")
    BY <1>2, Becoming DEF WorkerDies, AttemptPcs
  <2> QED
    BY <1>1, <1>2, <2>1 DEF TypeInv, DeathEffect, Becomes
<1>3. CASE ~ att[s].own
  <2>1. att' \in [Slots -> Atts] /\ att'[s] = NoAttempt /\ OthersRun(s)
    BY <1>3, OneAttempt, NoAttemptFields DEF WorkerDies, OthersRun
  <2> QED
    BY <1>1, <1>3, <2>1 DEF TypeInv, DeathEffect
<1> QED
  BY <1>2, <1>3

-----------------------------------------------------------------------------
(* Every step has one of these effects *)

Effect ==
  \/ QuietEffect \/ EnqueueEffect \/ (\E t \in Turns : DeleteEffect(t))
  \/ ClaimEffect \/ NoticeEffect \/ InterruptEffect \/ CancelEffect
  \/ CountEffect \/ RequeueEffect \/ FailEffect \/ ApproveEffect
  \/ \E s \in Slots : \/ DispatchEffect(s) \/ ResultEffect(s) \/ TimeoutEffect(s)
                      \/ ReadEffect(s) \/ StartEffect(s) \/ SetupEffect(s) \/ SettleEffect(s)
                      \/ SettledEffect(s) \/ PreemptEffect(s) \/ DyingEffect(s) \/ DeathEffect(s)

LEMMA StepsHaveEffects ==
  ASSUME BaseInv, Next
  PROVE  TypeInv' /\ Effect
<1>1. TypeInv
  BY DEF BaseInv
<1>2. CASE Quiet
  <2>1. QuietEffect
    BY <1>1, <1>2, QuietStep
  <2>2. TypeInv'
    BY <1>1, <2>1 DEF TypeInv, QuietEffect
  <2> QED
    BY <2>1, <2>2 DEF Effect
<1>3. CASE Api
  <2>1. CASE Quiet
    BY <1>2, <2>1
  <2>2. CASE EnqueueMessage
    BY <1>1, <2>2, EnqueueStep DEF Enqueues, Effect
  <2>3. CASE \E t \in Turns : CancelQueuedSessionTurn(t)
    BY <1>1, <2>3, DeleteStep DEF Effect
  <2> QED
    BY <1>3, <2>1, <2>2, <2>3 DEF Api, Quiet
<1>4. CASE Workflow
  <2>1. CASE Quiet
    BY <1>2, <2>1
  <2>2. CASE EnqueueContinuation
    <3>1. CASE With("none") # {}
      BY <1>1, <2>2, <3>1, EnqueueStep DEF Enqueues, Effect
    <3>2. CASE With("none") = {}
      <4>1. Wait /\ UNCHANGED turn
        BY <2>2, <3>2 DEF EnqueueContinuation
      <4> QED
        BY <1>2, <2>2, <4>1 DEF Quiet
    <3> QED
      BY <3>1, <3>2
  <2>3. CASE ClaimTurn
    BY <1>1, <2>3, ClaimStep DEF Effect
  <2>4. CASE NoticeInterrupt
    BY <1>1, <2>4, NoticeStep DEF Effect
  <2>5. CASE InterruptActiveTurn
    BY <1>1, <2>5, InterruptStep DEF Effect
  <2>6. CASE CancelActiveTurn
    BY <2>6, CancelStep DEF Effect
  <2>7. CASE CountWorkerDeath
    BY <2>7, CountStep DEF Effect
  <2>8. CASE RequeueAfterWorkerDeath
    BY <2>8, RequeueStep DEF Effect
  <2>9. CASE FailSession
    BY <1>1, <2>9, FailStep DEF Effect
  <2>10. CASE ResumeApproved
    BY <1>1, <2>10, ApproveStep DEF Effect
  <2>11. ASSUME NEW s \in Slots, Dispatch(s) \/ HandleResult(s) \/ HeartbeatTimeout(s)
         PROVE  TypeInv' /\ Effect
    BY <1>1, <2>11, DispatchStep, ResultStep, TimeoutStep DEF Effect
  <2> QED
    BY <1>4, <2>1, <2>2, <2>3, <2>4, <2>5, <2>6, <2>7, <2>8, <2>9, <2>10, <2>11 DEF Workflow, Quiet
<1>5. ASSUME NEW s \in Slots, Attempt(s)
      PROVE  TypeInv' /\ Effect
  <2>1. \/ ReadEffect(s) \/ StartEffect(s) \/ SetupEffect(s) \/ SettleEffect(s) \/ SettledEffect(s)
        \/ PreemptEffect(s) \/ DyingEffect(s) \/ DeathEffect(s)
    BY <1>1, <1>5, ReadStep, StartStep, SetupStep, SettleStep, SettledStep, PreemptStep, DyingStep,
       DeathStep DEF Attempt
  <2>2. TypeInv'
    BY <1>1, <1>5, ReadStep, StartStep, SetupStep, SettleStep, SettledStep, PreemptStep, DyingStep,
       DeathStep DEF Attempt
  <2> QED
    BY <2>1, <2>2 DEF Effect
<1> QED
  BY <1>3, <1>4, <1>5 DEF Next

\* Facts about the records that the steps below need.
LEMMA AttemptsTyped ==
  ASSUME TypeInv, NEW s \in Slots
  PROVE  /\ att[s].own \in BOOLEAN /\ att[s].turn \in TurnIds /\ att[s].pc \in AttemptPcs
         /\ att[s].seen \in Nat
  BY AttemptFields DEF TypeInv

LEMMA OwnStep ==
  ASSUME BaseInv, TypeInv', Effect
  PROVE  OwnInv'
<1>1. /\ TypeInv /\ OwnInv
      /\ NoAttempt.pc = "none" /\ NoAttempt.own = FALSE /\ NoAttempt.turn = NoTurn
  BY NoAttemptFields DEF BaseInv
<1>n. ~ NoAttempt.own
  BY <1>1
<1>2. CASE QuietEffect
  BY <1>1, <1>2 DEF OwnInv, QuietEffect, SameTurn, Idles, Busy
<1>3. CASE EnqueueEffect
  BY <1>1, <1>3 DEF OwnInv, EnqueueEffect, SameTurn, Idles, Busy
<1>4. ASSUME NEW t \in Turns, DeleteEffect(t)
      PROVE  OwnInv'
  BY <1>1, <1>4 DEF OwnInv, DeleteEffect
<1>5. CASE ClaimEffect
  BY <1>1, <1>5 DEF OwnInv, ClaimEffect
<1>6. CASE NoticeEffect
  BY <1>1, <1>n, <1>6 DEF OwnInv, NoticeEffect, Abandons
<1>7. CASE InterruptEffect
  BY <1>1, <1>7 DEF OwnInv, InterruptEffect
<1>8. CASE CancelEffect
  BY <1>1, <1>8 DEF OwnInv, CancelEffect
<1>9. CASE CountEffect
  BY <1>1, <1>9 DEF OwnInv, CountEffect
<1>10. CASE RequeueEffect
  BY <1>1, <1>10 DEF OwnInv, RequeueEffect
<1>11. CASE FailEffect
  BY <1>1, <1>11 DEF OwnInv, FailEffect
<1>12. CASE ApproveEffect
  BY <1>1, <1>12 DEF OwnInv, ApproveEffect
<1>13. ASSUME NEW s \in Slots, DispatchEffect(s)
       PROVE  OwnInv'
  BY <1>1, <1>13 DEF OwnInv, DispatchEffect, OthersRun
<1>14. ASSUME NEW s \in Slots, ResultEffect(s)
       PROVE  OwnInv'
  BY <1>1, <1>n, <1>14 DEF OwnInv, ResultEffect, OthersRun
<1>15. ASSUME NEW s \in Slots, TimeoutEffect(s)
       PROVE  OwnInv'
  BY <1>1, <1>n, <1>15 DEF OwnInv, TimeoutEffect, Abandons
<1>16. ASSUME NEW s \in Slots, ReadEffect(s)
       PROVE  OwnInv'
  BY <1>1, <1>16 DEF OwnInv, ReadEffect, OthersRun
<1>17. ASSUME NEW s \in Slots, StartEffect(s)
       PROVE  OwnInv'
  BY <1>1, <1>17 DEF OwnInv, StartEffect, OthersRun, Becomes
<1>18. ASSUME NEW s \in Slots, SetupEffect(s)
       PROVE  OwnInv'
  BY <1>1, <1>n, <1>18 DEF OwnInv, SetupEffect, OthersRun, IsOver, Results
<1>19. ASSUME NEW s \in Slots, SettleEffect(s)
       PROVE  OwnInv'
  BY <1>1, <1>19 DEF OwnInv, SettleEffect, OthersRun, Becomes
<1>20. ASSUME NEW s \in Slots, SettledEffect(s)
       PROVE  OwnInv'
  <2>1. \E r \in Results : IsOver(s, r)
    BY <1>20 DEF SettledEffect, Results
  <2>2. UNCHANGED wf /\ att[s].pc \in {"idle", "asks", "fails", "requeued"}
    BY <1>20 DEF SettledEffect
  <2> QED
    BY <1>1, <1>n, <2>1, <2>2 DEF OwnInv, OthersRun, IsOver
<1>21. ASSUME NEW s \in Slots, PreemptEffect(s)
       PROVE  OwnInv'
  BY <1>1, <1>21 DEF OwnInv, PreemptEffect, OthersRun, Becomes
<1>22. ASSUME NEW s \in Slots, DyingEffect(s)
       PROVE  OwnInv'
  BY <1>1, <1>n, <1>22 DEF OwnInv, DyingEffect, OthersRun, IsOver, Results, Open
<1>23. ASSUME NEW s \in Slots, DeathEffect(s)
       PROVE  OwnInv'
  BY <1>1, <1>n, <1>23 DEF OwnInv, DeathEffect, OthersRun, Becomes
<1> QED
  BY <1>2, <1>3, <1>4, <1>5, <1>6, <1>7, <1>8, <1>9, <1>10, <1>11, <1>12, <1>13, <1>14, <1>15, <1>16, <1>17,
     <1>18, <1>19, <1>20, <1>21, <1>22, <1>23 DEF Effect

-----------------------------------------------------------------------------
(* One writer per turn *)

LEMMA WriterStep ==
  ASSUME ZombiesAreQuiet, BaseInv, WriterInv, TypeInv', OwnInv', Effect
  PROVE  WriterInv'
<1>1. /\ TypeInv /\ OwnInv /\ (\A s \in Slots : att[s].own \in BOOLEAN)
      /\ NoAttempt.pc = "none" /\ NoAttempt.own = FALSE /\ (\A t \in Turns : turn[t].deaths \in Nat)
  BY NoAttemptFields, AttemptsTyped, RowFields DEF BaseInv
<1>n. ~ NoAttempt.own
  BY <1>1
<1>l. /\ "late" \in Faults \/ "lateShutdown" \in Faults => Lingers
      /\ "zombie" \in Faults => ~ Lingers
  BY DEF Lingers, ZombiesAreQuiet
<1> USE <1>1, <1>n, <1>l DEF OwnInv, WriterInv, Requeuer, Active, Asked, RunsOn
<1>2. CASE QuietEffect
  BY <1>2 DEF QuietEffect, SameTurn, Idles, Busy
<1>3. CASE EnqueueEffect
  BY <1>3 DEF EnqueueEffect, SameTurn, Idles, Busy, Sets
<1>4. ASSUME NEW t \in Turns, DeleteEffect(t)
      PROVE  WriterInv'
  BY <1>4 DEF DeleteEffect, Sets
<1>5. CASE ClaimEffect
  BY <1>5 DEF ClaimEffect, Sets
<1>6. CASE NoticeEffect
  BY <1>6 DEF NoticeEffect, Abandons
<1>7. CASE InterruptEffect
  BY <1>7 DEF InterruptEffect
<1>8. CASE CancelEffect
  BY <1>8 DEF CancelEffect, Sets
<1>9. CASE CountEffect
  BY <1>9 DEF CountEffect
<1>10. CASE RequeueEffect
  BY <1>10 DEF RequeueEffect, Sets
<1>11. CASE FailEffect
  BY <1>11 DEF FailEffect, Sets
<1>12. CASE ApproveEffect
  BY <1>12 DEF ApproveEffect
<1>13. ASSUME NEW s \in Slots, DispatchEffect(s)
       PROVE  WriterInv'
  BY <1>13 DEF DispatchEffect, OthersRun
<1>14. ASSUME NEW s \in Slots, ResultEffect(s)
       PROVE  WriterInv'
  BY <1>14 DEF ResultEffect, OthersRun
<1>15. ASSUME NEW s \in Slots, TimeoutEffect(s)
       PROVE  WriterInv'
  BY <1>15 DEF TimeoutEffect, Abandons
<1>16. ASSUME NEW s \in Slots, ReadEffect(s)
       PROVE  WriterInv'
  BY <1>16 DEF ReadEffect, OthersRun
<1>17. ASSUME NEW s \in Slots, StartEffect(s)
       PROVE  WriterInv'
  BY <1>17 DEF StartEffect, OthersRun, Becomes
<1>18. ASSUME NEW s \in Slots, SetupEffect(s)
       PROVE  WriterInv'
  BY <1>18 DEF SetupEffect, OthersRun, IsOver
<1>19. ASSUME NEW s \in Slots, SettleEffect(s)
       PROVE  WriterInv'
  BY <1>19 DEF SettleEffect, OthersRun, Becomes, Sets
<1>20. ASSUME NEW s \in Slots, SettledEffect(s)
       PROVE  WriterInv'
  BY <1>20 DEF SettledEffect, OthersRun, IsOver
<1>21. ASSUME NEW s \in Slots, PreemptEffect(s)
       PROVE  WriterInv'
  BY <1>21 DEF PreemptEffect, OthersRun, Becomes, Sets
<1>22. ASSUME NEW s \in Slots, DyingEffect(s)
       PROVE  WriterInv'
  BY <1>22 DEF DyingEffect, OthersRun, IsOver, Sets, Open, CancelsFromDying
<1>23. ASSUME NEW s \in Slots, DeathEffect(s)
       PROVE  WriterInv'
  BY <1>23 DEF DeathEffect, OthersRun, Becomes
<1> QED
  BY <1>2, <1>3, <1>4, <1>5, <1>6, <1>7, <1>8, <1>9, <1>10, <1>11, <1>12, <1>13, <1>14, <1>15, <1>16, <1>17,
     <1>18, <1>19, <1>20, <1>21, <1>22, <1>23 DEF Effect

-----------------------------------------------------------------------------
(* The limit of deaths, and what the user cancelled *)

LEMMA DeathInvStep ==
  ASSUME ZombiesAreQuiet, BaseInv, WriterInv, DeathInv, TypeInv', Effect
  PROVE  DeathInv'
<1>1. /\ TypeInv /\ OwnInv /\ (\A s \in Slots : att[s].own \in BOOLEAN)
      /\ NoAttempt.pc = "none" /\ NoAttempt.own = FALSE /\ (\A t \in Turns : turn[t].deaths \in Nat)
  BY NoAttemptFields, AttemptsTyped, RowFields DEF BaseInv
<1>n. ~ NoAttempt.own
  BY <1>1
<1>l. /\ "late" \in Faults \/ "lateShutdown" \in Faults => Lingers
      /\ "zombie" \in Faults => ~ Lingers
  BY DEF Lingers, ZombiesAreQuiet
<1>m. MaxRedispatches \in Nat
  BY SessionBounds
<1> USE <1>1, <1>n, <1>l, <1>m DEF OwnInv, WriterInv, DeathInv, Requeuer, Active, RunsOn
<1>2. CASE QuietEffect
  BY <1>2 DEF QuietEffect, SameTurn, Idles, Busy
<1>3. CASE EnqueueEffect
  BY <1>3 DEF EnqueueEffect, SameTurn, Idles, Busy, Sets
<1>4. ASSUME NEW t \in Turns, DeleteEffect(t)
      PROVE  DeathInv'
  BY <1>4 DEF DeleteEffect, Sets
<1>5. CASE ClaimEffect
  BY <1>5 DEF ClaimEffect, Sets
<1>6. CASE NoticeEffect
  BY <1>6 DEF NoticeEffect, Abandons
<1>7. CASE InterruptEffect
  BY <1>7 DEF InterruptEffect
<1>8. CASE CancelEffect
  BY <1>8 DEF CancelEffect, Sets
<1>9. CASE CountEffect
  BY <1>9 DEF CountEffect, DiedIn
<1>10. CASE RequeueEffect
  BY <1>10 DEF RequeueEffect, Sets, DiedIn
<1>11. CASE FailEffect
  BY <1>11 DEF FailEffect, Sets
<1>12. CASE ApproveEffect
  BY <1>12 DEF ApproveEffect
<1>13. ASSUME NEW s \in Slots, DispatchEffect(s)
       PROVE  DeathInv'
  BY <1>13 DEF DispatchEffect, OthersRun
<1>14. ASSUME NEW s \in Slots, ResultEffect(s)
       PROVE  DeathInv'
  BY <1>14 DEF ResultEffect, OthersRun
<1>15. ASSUME NEW s \in Slots, TimeoutEffect(s)
       PROVE  DeathInv'
  BY <1>15 DEF TimeoutEffect, Abandons
<1>16. ASSUME NEW s \in Slots, ReadEffect(s)
       PROVE  DeathInv'
  BY <1>16 DEF ReadEffect, OthersRun
<1>17. ASSUME NEW s \in Slots, StartEffect(s)
       PROVE  DeathInv'
  BY <1>17 DEF StartEffect, OthersRun, Becomes
<1>18. ASSUME NEW s \in Slots, SetupEffect(s)
       PROVE  DeathInv'
  BY <1>18 DEF SetupEffect, OthersRun, IsOver
<1>19. ASSUME NEW s \in Slots, SettleEffect(s)
       PROVE  DeathInv'
  BY <1>19 DEF SettleEffect, OthersRun, Becomes, Sets
<1>20. ASSUME NEW s \in Slots, SettledEffect(s)
       PROVE  DeathInv'
  BY <1>20 DEF SettledEffect, OthersRun, IsOver
<1>21. ASSUME NEW s \in Slots, PreemptEffect(s)
       PROVE  DeathInv'
  BY <1>21 DEF PreemptEffect, OthersRun, Becomes, Sets
<1>22. ASSUME NEW s \in Slots, DyingEffect(s)
       PROVE  DeathInv'
  BY <1>22 DEF DyingEffect, OthersRun, IsOver, Sets, Open, CancelsFromDying
<1>23. ASSUME NEW s \in Slots, DeathEffect(s)
       PROVE  DeathInv'
  BY <1>23 DEF DeathEffect, OthersRun, Becomes
<1> QED
  BY <1>2, <1>3, <1>4, <1>5, <1>6, <1>7, <1>8, <1>9, <1>10, <1>11, <1>12, <1>13, <1>14, <1>15, <1>16, <1>17,
     <1>18, <1>19, <1>20, <1>21, <1>22, <1>23 DEF Effect

LEMMA UserStep ==
  ASSUME ZombiesAreQuiet, "delete" \notin Faults, BaseInv, WriterInv, UserInv, TypeInv', Effect
  PROVE  UserInv'
<1>1. /\ TypeInv /\ OwnInv /\ (\A s \in Slots : att[s].own \in BOOLEAN)
      /\ NoAttempt.pc = "none" /\ NoAttempt.own = FALSE /\ (\A t \in Turns : turn[t].deaths \in Nat)
  BY NoAttemptFields, AttemptsTyped, RowFields DEF BaseInv
<1>n. ~ NoAttempt.own
  BY <1>1
<1>l. /\ "late" \in Faults \/ "lateShutdown" \in Faults => Lingers
      /\ "zombie" \in Faults => ~ Lingers
  BY DEF Lingers, ZombiesAreQuiet
<1>u. \A t \in userEnded : t \in Turns
  BY <1>1 DEF TypeInv
<1> USE <1>1, <1>n, <1>l, <1>u DEF OwnInv, WriterInv, UserInv, Requeuer, Active, RunsOn
<1>2. CASE QuietEffect
  BY <1>2 DEF QuietEffect, SameTurn, Idles, Busy
<1>3. CASE EnqueueEffect
  BY <1>3 DEF EnqueueEffect, SameTurn, Idles, Busy, Sets
<1>4. ASSUME NEW t \in Turns, DeleteEffect(t)
      PROVE  UserInv'
  BY <1>4 DEF DeleteEffect, Sets
<1>5. CASE ClaimEffect
  BY <1>5 DEF ClaimEffect, Sets
<1>6. CASE NoticeEffect
  BY <1>6 DEF NoticeEffect, Abandons
<1>7. CASE InterruptEffect
  BY <1>7 DEF InterruptEffect, With
<1>8. CASE CancelEffect
  BY <1>8 DEF CancelEffect, Sets
<1>9. CASE CountEffect
  BY <1>9 DEF CountEffect
<1>10. CASE RequeueEffect
  BY <1>10 DEF RequeueEffect, Sets
<1>11. CASE FailEffect
  BY <1>11 DEF FailEffect, Sets
<1>12. CASE ApproveEffect
  BY <1>12 DEF ApproveEffect
<1>13. ASSUME NEW s \in Slots, DispatchEffect(s)
       PROVE  UserInv'
  BY <1>13 DEF DispatchEffect, OthersRun
<1>14. ASSUME NEW s \in Slots, ResultEffect(s)
       PROVE  UserInv'
  BY <1>14 DEF ResultEffect, OthersRun
<1>15. ASSUME NEW s \in Slots, TimeoutEffect(s)
       PROVE  UserInv'
  BY <1>15 DEF TimeoutEffect, Abandons
<1>16. ASSUME NEW s \in Slots, ReadEffect(s)
       PROVE  UserInv'
  BY <1>16 DEF ReadEffect, OthersRun
<1>17. ASSUME NEW s \in Slots, StartEffect(s)
       PROVE  UserInv'
  BY <1>17 DEF StartEffect, OthersRun, Becomes
<1>18. ASSUME NEW s \in Slots, SetupEffect(s)
       PROVE  UserInv'
  BY <1>18 DEF SetupEffect, OthersRun, IsOver
<1>19. ASSUME NEW s \in Slots, SettleEffect(s)
       PROVE  UserInv'
  BY <1>19 DEF SettleEffect, OthersRun, Becomes, Sets
<1>20. ASSUME NEW s \in Slots, SettledEffect(s)
       PROVE  UserInv'
  BY <1>20 DEF SettledEffect, OthersRun, IsOver
<1>21. ASSUME NEW s \in Slots, PreemptEffect(s)
       PROVE  UserInv'
  BY <1>21 DEF PreemptEffect, OthersRun, Becomes, Sets
<1>22. ASSUME NEW s \in Slots, DyingEffect(s)
       PROVE  UserInv'
  BY <1>22 DEF DyingEffect, OthersRun, IsOver, Sets, Open, CancelsFromDying
<1>23. ASSUME NEW s \in Slots, DeathEffect(s)
       PROVE  UserInv'
  BY <1>23 DEF DeathEffect, OthersRun, Becomes
<1> QED
  BY <1>2, <1>3, <1>4, <1>5, <1>6, <1>7, <1>8, <1>9, <1>10, <1>11, <1>12, <1>13, <1>14, <1>15, <1>16, <1>17,
     <1>18, <1>19, <1>20, <1>21, <1>22, <1>23 DEF Effect

-----------------------------------------------------------------------------
(* The fence of the death counter *)

LEMMA FenceStep ==
  ASSUME ~ Lingers, BaseInv, WriterInv, FenceInv, TypeInv', Effect
  PROVE  FenceInv'
<1>1. /\ TypeInv /\ OwnInv /\ (\A s \in Slots : att[s].own \in BOOLEAN)
      /\ NoAttempt.pc = "none" /\ NoAttempt.own = FALSE /\ (\A t \in Turns : turn[t].deaths \in Nat)
  BY NoAttemptFields, AttemptsTyped, RowFields DEF BaseInv
<1>s. \A s \in Slots : att[s].seen \in Nat
  BY <1>1, AttemptsTyped
<1>n. ~ NoAttempt.own
  BY <1>1
<1>l. /\ "late" \in Faults \/ "lateShutdown" \in Faults => Lingers
      /\ ~ Lingers
  BY DEF Lingers
<1> USE <1>1, <1>n, <1>l, <1>s DEF OwnInv, WriterInv, FenceInv, Open, RunsOn
<1>2. CASE QuietEffect
  BY <1>2 DEF QuietEffect, SameTurn, Idles, Busy
<1>3. CASE EnqueueEffect
  BY <1>3 DEF EnqueueEffect, SameTurn, Idles, Busy, Sets
<1>4. ASSUME NEW t \in Turns, DeleteEffect(t)
      PROVE  FenceInv'
  BY <1>4 DEF DeleteEffect, Sets
<1>5. CASE ClaimEffect
  BY <1>5 DEF ClaimEffect, Sets
<1>6. CASE NoticeEffect
  BY <1>6 DEF NoticeEffect, Abandons
<1>7. CASE InterruptEffect
  BY <1>7 DEF InterruptEffect
<1>8. CASE CancelEffect
  BY <1>8 DEF CancelEffect, Sets
<1>9. CASE CountEffect
  BY <1>9 DEF CountEffect
<1>10. CASE RequeueEffect
  BY <1>10 DEF RequeueEffect, Sets
<1>11. CASE FailEffect
  BY <1>11 DEF FailEffect, Sets
<1>12. CASE ApproveEffect
  BY <1>12 DEF ApproveEffect
<1>13. ASSUME NEW s \in Slots, DispatchEffect(s)
       PROVE  FenceInv'
  BY <1>13 DEF DispatchEffect, OthersRun
<1>14. ASSUME NEW s \in Slots, ResultEffect(s)
       PROVE  FenceInv'
  BY <1>14 DEF ResultEffect, OthersRun
<1>15. ASSUME NEW s \in Slots, TimeoutEffect(s)
       PROVE  FenceInv'
  BY <1>15 DEF TimeoutEffect, Abandons
<1>16. ASSUME NEW s \in Slots, ReadEffect(s)
       PROVE  FenceInv'
  BY <1>16 DEF ReadEffect, OthersRun
<1>17. ASSUME NEW s \in Slots, StartEffect(s)
       PROVE  FenceInv'
  BY <1>17 DEF StartEffect, OthersRun, Becomes
<1>18. ASSUME NEW s \in Slots, SetupEffect(s)
       PROVE  FenceInv'
  BY <1>18 DEF SetupEffect, OthersRun, IsOver
<1>19. ASSUME NEW s \in Slots, SettleEffect(s)
       PROVE  FenceInv'
  BY <1>19 DEF SettleEffect, OthersRun, Becomes, Sets
<1>20. ASSUME NEW s \in Slots, SettledEffect(s)
       PROVE  FenceInv'
  BY <1>20 DEF SettledEffect, OthersRun, IsOver
<1>21. ASSUME NEW s \in Slots, PreemptEffect(s)
       PROVE  FenceInv'
  BY <1>21 DEF PreemptEffect, OthersRun, Becomes, Sets, Requeuer, Active
<1>22. ASSUME NEW s \in Slots, DyingEffect(s)
       PROVE  FenceInv'
  BY <1>22 DEF DyingEffect, OthersRun, IsOver, Sets, CancelsFromDying
<1>23. ASSUME NEW s \in Slots, DeathEffect(s)
       PROVE  FenceInv'
  BY <1>23 DEF DeathEffect, OthersRun, Becomes
<1> QED
  BY <1>2, <1>3, <1>4, <1>5, <1>6, <1>7, <1>8, <1>9, <1>10, <1>11, <1>12, <1>13, <1>14, <1>15, <1>16, <1>17,
     <1>18, <1>19, <1>20, <1>21, <1>22, <1>23 DEF Effect

-----------------------------------------------------------------------------
(* Every turn is looked after *)

LEMMA CalmStep ==
  ASSUME ~ Lingers, "interrupt" \notin Faults, BaseInv, FenceInv, CalmInv, ServedInv, AttemptInv, TypeInv', Effect
  PROVE  CalmInv'
<1>1. /\ TypeInv /\ OwnInv /\ (\A s \in Slots : att[s].own \in BOOLEAN)
      /\ NoAttempt.pc = "none" /\ NoAttempt.own = FALSE /\ (\A t \in Turns : turn[t].deaths \in Nat)
  BY NoAttemptFields, AttemptsTyped, RowFields DEF BaseInv
<1>s. \A s \in Slots : att[s].seen \in Nat
  BY <1>1, AttemptsTyped
<1>t. /\ NoTurn \notin Turns /\ (\A t \in userEnded : t \in Turns)
      /\ \A t \in Turns : turn[t].st \in {"none", "completed", "failed", "cancelled", "queued", "running", "requires_action"}
  BY <1>1, RowFields, SessionBounds DEF Turns, NoTurn, TypeInv, TurnStatuses, Pending
<1>n. ~ NoAttempt.own
  BY <1>1
<1>l. /\ "late" \in Faults \/ "lateShutdown" \in Faults => Lingers
      /\ ~ Lingers
  BY DEF Lingers
<1> USE <1>1, <1>n, <1>l, <1>s, <1>t DEF OwnInv, FenceInv, CalmInv, Open, RunsOn
<1>2. CASE QuietEffect
  BY <1>2 DEF QuietEffect, SameTurn, Idles, Busy, SessionRests
<1>3. CASE EnqueueEffect
  BY <1>3 DEF EnqueueEffect, SameTurn, Idles, Busy, Sets
<1>4. ASSUME NEW t \in Turns, DeleteEffect(t)
      PROVE  CalmInv'
  BY <1>4 DEF DeleteEffect, Sets
<1>5. CASE ClaimEffect
  BY <1>5 DEF ClaimEffect, Sets
<1>6. CASE NoticeEffect
  BY <1>6 DEF NoticeEffect, Abandons
<1>7. CASE InterruptEffect
  BY <1>7 DEF InterruptEffect
<1>8. CASE CancelEffect
  BY <1>8 DEF CancelEffect, Sets
<1>9. CASE CountEffect
  BY <1>9 DEF CountEffect, DiedIn
<1>10. CASE RequeueEffect
  BY <1>10 DEF RequeueEffect, Sets
<1>11. CASE FailEffect
  BY <1>11 DEF FailEffect, Sets
<1>12. CASE ApproveEffect
  BY <1>12 DEF ApproveEffect
<1>13. ASSUME NEW s \in Slots, DispatchEffect(s)
       PROVE  CalmInv'
  BY <1>13 DEF DispatchEffect, OthersRun
<1>14. ASSUME NEW s \in Slots, ResultEffect(s)
       PROVE  CalmInv'
  BY <1>14 DEF ResultEffect, OthersRun
<1>15. ASSUME NEW s \in Slots, TimeoutEffect(s)
       PROVE  CalmInv'
  BY <1>15 DEF TimeoutEffect, Abandons
<1>16. ASSUME NEW s \in Slots, ReadEffect(s)
       PROVE  CalmInv'
  BY <1>16 DEF ReadEffect, OthersRun
<1>17. ASSUME NEW s \in Slots, StartEffect(s)
       PROVE  CalmInv'
  BY <1>17 DEF StartEffect, OthersRun, Becomes
<1>18. ASSUME NEW s \in Slots, SetupEffect(s)
       PROVE  CalmInv'
  BY <1>18 DEF SetupEffect, OthersRun, IsOver
<1>19. ASSUME NEW s \in Slots, SettleEffect(s)
       PROVE  CalmInv'
  BY <1>19 DEF SettleEffect, OthersRun, Becomes, Sets
<1>20. ASSUME NEW s \in Slots, SettledEffect(s)
       PROVE  CalmInv'
  BY <1>20 DEF SettledEffect, OthersRun, IsOver
<1>21. ASSUME NEW s \in Slots, PreemptEffect(s)
       PROVE  CalmInv'
  BY <1>21 DEF PreemptEffect, OthersRun, Becomes, Sets, Requeuer, Active
<1>22. ASSUME NEW s \in Slots, DyingEffect(s)
       PROVE  CalmInv'
  BY <1>22 DEF DyingEffect, OthersRun, IsOver, Sets, CancelsFromDying
<1>23. ASSUME NEW s \in Slots, DeathEffect(s)
       PROVE  CalmInv'
  BY <1>23 DEF DeathEffect, OthersRun, Becomes
<1> QED
  BY <1>2, <1>3, <1>4, <1>5, <1>6, <1>7, <1>8, <1>9, <1>10, <1>11, <1>12, <1>13, <1>14, <1>15, <1>16, <1>17,
     <1>18, <1>19, <1>20, <1>21, <1>22, <1>23 DEF Effect

LEMMA ServedStep ==
  ASSUME ~ Lingers, "interrupt" \notin Faults, BaseInv, FenceInv, CalmInv, ServedInv, AttemptInv, TypeInv', Effect
  PROVE  ServedInv'
<1>1. /\ TypeInv /\ OwnInv /\ (\A s \in Slots : att[s].own \in BOOLEAN)
      /\ NoAttempt.pc = "none" /\ NoAttempt.own = FALSE /\ (\A t \in Turns : turn[t].deaths \in Nat)
  BY NoAttemptFields, AttemptsTyped, RowFields DEF BaseInv
<1>s. \A s \in Slots : att[s].seen \in Nat
  BY <1>1, AttemptsTyped
<1>t. /\ NoTurn \notin Turns /\ (\A t \in userEnded : t \in Turns)
      /\ \A t \in Turns : turn[t].st \in {"none", "completed", "failed", "cancelled", "queued", "running", "requires_action"}
  BY <1>1, RowFields, SessionBounds DEF Turns, NoTurn, TypeInv, TurnStatuses, Pending
<1>n. ~ NoAttempt.own
  BY <1>1
<1>l. /\ "late" \in Faults \/ "lateShutdown" \in Faults => Lingers
      /\ ~ Lingers
  BY DEF Lingers
<1> USE <1>1, <1>n, <1>l, <1>s, <1>t DEF OwnInv, CalmInv, ServedInv, AttemptInv, Unsettled, SessionHas,
   Reached, Open, RunsOn, SessionIs
<1>2. CASE QuietEffect
  BY <1>2 DEF QuietEffect, SameTurn, Idles, Busy, SessionRests
<1>3. CASE EnqueueEffect
  BY <1>3 DEF EnqueueEffect, SameTurn, Idles, Busy, Sets
<1>4. ASSUME NEW t \in Turns, DeleteEffect(t)
      PROVE  ServedInv'
  BY <1>4 DEF DeleteEffect, Sets
<1>5. CASE ClaimEffect
  BY <1>5 DEF ClaimEffect, Sets
<1>6. CASE NoticeEffect
  BY <1>6 DEF NoticeEffect, Abandons
<1>7. CASE InterruptEffect
  BY <1>7 DEF InterruptEffect
<1>8. CASE CancelEffect
  BY <1>8 DEF CancelEffect, Sets
<1>9. CASE CountEffect
  BY <1>9 DEF CountEffect, DiedIn
<1>10. CASE RequeueEffect
  BY <1>10 DEF RequeueEffect, Sets, DiedIn
<1>11. CASE FailEffect
  BY <1>11 DEF FailEffect, Sets
<1>12. CASE ApproveEffect
  BY <1>12 DEF ApproveEffect
<1>13. ASSUME NEW s \in Slots, DispatchEffect(s)
       PROVE  ServedInv'
  BY <1>13 DEF DispatchEffect, OthersRun
<1>14. ASSUME NEW s \in Slots, ResultEffect(s)
       PROVE  ServedInv'
  BY <1>14 DEF ResultEffect, OthersRun
<1>15. ASSUME NEW s \in Slots, TimeoutEffect(s)
       PROVE  ServedInv'
  BY <1>15 DEF TimeoutEffect, Abandons
<1>16. ASSUME NEW s \in Slots, ReadEffect(s)
       PROVE  ServedInv'
  BY <1>16 DEF ReadEffect, OthersRun
<1>17. ASSUME NEW s \in Slots, StartEffect(s)
       PROVE  ServedInv'
  BY <1>17 DEF StartEffect, OthersRun, Becomes
<1>18. ASSUME NEW s \in Slots, SetupEffect(s)
       PROVE  ServedInv'
  BY <1>18 DEF SetupEffect, OthersRun, IsOver
<1>19. ASSUME NEW s \in Slots, SettleEffect(s)
       PROVE  ServedInv'
  BY <1>19 DEF SettleEffect, OthersRun, Becomes, Sets
<1>20. ASSUME NEW s \in Slots, SettledEffect(s)
       PROVE  ServedInv'
  BY <1>20 DEF SettledEffect, OthersRun, IsOver
<1>21. ASSUME NEW s \in Slots, PreemptEffect(s)
       PROVE  ServedInv'
  BY <1>21 DEF PreemptEffect, OthersRun, Becomes, Sets
<1>22. ASSUME NEW s \in Slots, DyingEffect(s)
       PROVE  ServedInv'
  BY <1>22 DEF DyingEffect, OthersRun, IsOver, Sets, CancelsFromDying
<1>23. ASSUME NEW s \in Slots, DeathEffect(s)
       PROVE  ServedInv'
  BY <1>23 DEF DeathEffect, OthersRun, Becomes
<1> QED
  BY <1>2, <1>3, <1>4, <1>5, <1>6, <1>7, <1>8, <1>9, <1>10, <1>11, <1>12, <1>13, <1>14, <1>15, <1>16, <1>17,
     <1>18, <1>19, <1>20, <1>21, <1>22, <1>23 DEF Effect

LEMMA AttemptStep ==
  ASSUME ~ Lingers, "interrupt" \notin Faults, BaseInv, FenceInv, CalmInv, ServedInv, AttemptInv, TypeInv', Effect
  PROVE  AttemptInv'
<1>1. /\ TypeInv /\ OwnInv /\ (\A s \in Slots : att[s].own \in BOOLEAN)
      /\ NoAttempt.pc = "none" /\ NoAttempt.own = FALSE /\ (\A t \in Turns : turn[t].deaths \in Nat)
  BY NoAttemptFields, AttemptsTyped, RowFields DEF BaseInv
<1>s. \A s \in Slots : att[s].seen \in Nat
  BY <1>1, AttemptsTyped
<1>t. /\ NoTurn \notin Turns /\ (\A t \in userEnded : t \in Turns)
      /\ \A t \in Turns : turn[t].st \in {"none", "completed", "failed", "cancelled", "queued", "running", "requires_action"}
  BY <1>1, RowFields, SessionBounds DEF Turns, NoTurn, TypeInv, TurnStatuses, Pending
<1>n. ~ NoAttempt.own
  BY <1>1
<1>l. /\ "late" \in Faults \/ "lateShutdown" \in Faults => Lingers
      /\ ~ Lingers
  BY DEF Lingers
<1> USE <1>1, <1>n, <1>l, <1>s, <1>t DEF OwnInv, CalmInv, ServedInv, AttemptInv, Unsettled, SessionHas,
   Reached, Open, RunsOn, SessionIs
<1>2. CASE QuietEffect
  BY <1>2 DEF QuietEffect, SameTurn, Idles, Busy, SessionRests
<1>3. CASE EnqueueEffect
  BY <1>3 DEF EnqueueEffect, SameTurn, Idles, Busy, Sets
<1>4. ASSUME NEW t \in Turns, DeleteEffect(t)
      PROVE  AttemptInv'
  BY <1>4 DEF DeleteEffect, Sets
<1>5. CASE ClaimEffect
  BY <1>5 DEF ClaimEffect, Sets
<1>6. CASE NoticeEffect
  BY <1>6 DEF NoticeEffect, Abandons
<1>7. CASE InterruptEffect
  BY <1>7 DEF InterruptEffect
<1>8. CASE CancelEffect
  BY <1>8 DEF CancelEffect, Sets
<1>9. CASE CountEffect
  BY <1>9 DEF CountEffect, DiedIn
<1>10. CASE RequeueEffect
  BY <1>10 DEF RequeueEffect, Sets, DiedIn
<1>11. CASE FailEffect
  BY <1>11 DEF FailEffect, Sets
<1>12. CASE ApproveEffect
  BY <1>12 DEF ApproveEffect
<1>13. ASSUME NEW s \in Slots, DispatchEffect(s)
       PROVE  AttemptInv'
  BY <1>13 DEF DispatchEffect, OthersRun
<1>14. ASSUME NEW s \in Slots, ResultEffect(s)
       PROVE  AttemptInv'
  BY <1>14 DEF ResultEffect, OthersRun
<1>15. ASSUME NEW s \in Slots, TimeoutEffect(s)
       PROVE  AttemptInv'
  BY <1>15 DEF TimeoutEffect, Abandons
<1>16. ASSUME NEW s \in Slots, ReadEffect(s)
       PROVE  AttemptInv'
  BY <1>16 DEF ReadEffect, OthersRun
<1>17. ASSUME NEW s \in Slots, StartEffect(s)
       PROVE  AttemptInv'
  BY <1>17 DEF StartEffect, OthersRun, Becomes
<1>18. ASSUME NEW s \in Slots, SetupEffect(s)
       PROVE  AttemptInv'
  BY <1>18 DEF SetupEffect, OthersRun, IsOver
<1>19. ASSUME NEW s \in Slots, SettleEffect(s)
       PROVE  AttemptInv'
  BY <1>19 DEF SettleEffect, OthersRun, Becomes, Sets
<1>20. ASSUME NEW s \in Slots, SettledEffect(s)
       PROVE  AttemptInv'
  BY <1>20 DEF SettledEffect, OthersRun, IsOver
<1>21. ASSUME NEW s \in Slots, PreemptEffect(s)
       PROVE  AttemptInv'
  BY <1>21 DEF PreemptEffect, OthersRun, Becomes, Sets
<1>22. ASSUME NEW s \in Slots, DyingEffect(s)
       PROVE  AttemptInv'
  BY <1>22 DEF DyingEffect, OthersRun, IsOver, Sets, CancelsFromDying
<1>23. ASSUME NEW s \in Slots, DeathEffect(s)
       PROVE  AttemptInv'
  BY <1>23 DEF DeathEffect, OthersRun, Becomes
<1> QED
  BY <1>2, <1>3, <1>4, <1>5, <1>6, <1>7, <1>8, <1>9, <1>10, <1>11, <1>12, <1>13, <1>14, <1>15, <1>16, <1>17,
     <1>18, <1>19, <1>20, <1>21, <1>22, <1>23 DEF Effect

-----------------------------------------------------------------------------
(* The theorems *)

LEMMA InitHolds ==
  ASSUME Init
  PROVE  BaseInv /\ WriterInv /\ DeathInv /\ UserInv /\ FenceInv /\ CalmInv /\ ServedInv /\ AttemptInv
<1>1. /\ NoAttempt \in Atts /\ NoAttempt.pc = "none" /\ NoAttempt.own = FALSE
      /\ NoWorkflow \in Workflows /\ NoWorkflow.pc = "none" /\ NoWorkflow.slot = "none"
  BY NoAttemptFields, NoWorkflowFields
<1>2. ~ NoAttempt.own
  BY <1>1
<1>3. /\ wf = NoWorkflow /\ att = [s \in Slots |-> NoAttempt] /\ userEnded = {} /\ ask = 0
      /\ session = [status |-> "idle", active |-> NoTurn]
      /\ turn = [t \in Turns |-> [st |-> "none", deaths |-> 0]]
  BY DEF Init
<1>4. goal \in BOOLEAN
  <2> DEFINE g == "goal" \in Faults
             f == FALSE
  <2>1. g \in BOOLEAN /\ f \in BOOLEAN
    OBVIOUS
  <2>2. goal \in {FALSE, "goal" \in Faults}
    BY Zenon DEF Init
  <2>3. goal \in {f, g}
    BY <2>2, Zenon
  <2> HIDE DEF f, g
  <2> QED
    BY <2>1, <2>3
<1> DEFINE r == [st |-> "none", deaths |-> 0]
<1>5. r \in Rows /\ r.st = "none" /\ r.deaths = 0
  BY DEF Rows, TurnStatuses
<1>6. session \in Sessions /\ session.status = "idle"
  BY <1>3 DEF Sessions, SessionStatuses, TurnIds
<1>7. turn = [t \in Turns |-> r]
  BY <1>3
<1> HIDE DEF r
<1>8. turn \in [Turns -> Rows] /\ \A t \in Turns : turn[t].st = "none" /\ turn[t].deaths = 0
  BY <1>5, <1>7
<1>9. att \in [Slots -> Atts] /\ \A s \in Slots : att[s].pc = "none" /\ ~ att[s].own
  BY <1>1, <1>2, <1>3
<1>10. wf \in Workflows /\ wf.pc = "none" /\ wf.slot = "none"
  BY <1>1, <1>3
<1>11. 0 \in 0 .. MaxAsks /\ MaxRedispatches \in Nat
  BY SessionBounds
<1>12. TypeInv
  BY <1>3, <1>4, <1>6, <1>8, <1>9, <1>10, <1>11 DEF TypeInv
<1>13. OwnInv /\ WriterInv
  BY <1>9, <1>10 DEF OwnInv, WriterInv, Requeuer, Active
<1>14. DeathInv /\ UserInv
  BY <1>3, <1>8, <1>9, <1>10, <1>11 DEF DeathInv, UserInv, Requeuer, Active
<1>15. FenceInv /\ CalmInv
  BY <1>9, <1>10 DEF FenceInv, CalmInv, Open
<1>16. ServedInv /\ AttemptInv
  BY <1>6, <1>8, <1>9, <1>10 DEF ServedInv, AttemptInv, Unsettled
<1> QED
  BY <1>12, <1>13, <1>14, <1>15, <1>16 DEF BaseInv

LEMMA BaseStep ==
  ASSUME BaseInv, [Next]_vars
  PROVE  BaseInv' /\ (Next => TypeInv' /\ Effect)
<1>1. CASE Next
  BY <1>1, StepsHaveEffects, OwnStep DEF BaseInv
<1>2. CASE UNCHANGED vars
  <2>1. BaseInv'
    BY <1>2 DEF vars, BaseInv, TypeInv, OwnInv
  <2>2. CASE Next
    BY <1>1, <2>2
  <2> QED
    BY <2>1, <2>2
<1> QED
  BY <1>1, <1>2

\* The workflow never waits for two attempts, and the one it waits for is of its turn
\* (runTurn's cancellation scope): whatever fails.
THEOREM OneAttemptIsAwaited == Spec => []BaseInv
<1>1. Init => BaseInv
  BY InitHolds
<1>2. BaseInv /\ [Next]_vars => BaseInv'
  BY BaseStep
<1> HIDE DEF BaseInv
<1> QED
  BY <1>1, <1>2, PTL DEF Spec

\* The type invariant, with the death counter within one of its limit, unless an attempt
\* that timed out goes on writing (requeueTurnAfterWorkerDeath's limit).
THEOREM SessionTypesHold ==
  ASSUME ZombiesAreQuiet
  PROVE  Spec => []SessionTypeOK
<1> DEFINE Inv == BaseInv /\ WriterInv /\ DeathInv
<1>1. Init => Inv
  BY InitHolds
<1>2. Inv /\ [Next]_vars => Inv'
  <2> SUFFICES ASSUME Inv, [Next]_vars
               PROVE  Inv'
    OBVIOUS
  <2>1. BaseInv' /\ (Next => TypeInv' /\ Effect)
    BY BaseStep
  <2>2. CASE Next
    BY <2>1, <2>2, WriterStep, DeathInvStep DEF BaseInv
  <2>3. CASE UNCHANGED vars
    BY <2>1, <2>3 DEF vars, WriterInv, DeathInv, Requeuer, Active, Asked
  <2> QED
    BY <2>2, <2>3
<1>3. Inv => SessionTypeOK
  <2> SUFFICES ASSUME Inv
               PROVE  SessionTypeOK
    OBVIOUS
  <2>1. /\ TypeInv /\ MaxRedispatches \in Nat
        /\ \A t \in Turns : /\ turn[t] \in Rows /\ turn[t].deaths \in Nat
                            /\ turn[t].deaths <= MaxRedispatches + 1
    BY RowFields, SessionBounds DEF BaseInv, DeathInv
  <2>2. \A t \in Turns : turn[t].deaths \in 0 .. MaxRedispatches + 1
    BY <2>1
  <2>3. \A t \in Turns : turn[t] \in [st : TurnStatuses, deaths : 0 .. MaxRedispatches + 1]
    <3> SUFFICES ASSUME NEW t \in Turns
                 PROVE  turn[t] \in [st : TurnStatuses, deaths : 0 .. MaxRedispatches + 1]
      OBVIOUS
    <3> DEFINE D == 0 .. MaxRedispatches + 1
    <3>1. turn[t].deaths \in D /\ turn[t] \in Rows
      BY <2>1, <2>2
    <3> HIDE DEF D
    <3>2. turn[t] \in [st : TurnStatuses, deaths : D]
      BY <3>1 DEF Rows
    <3> QED
      BY <3>2 DEF D
  <2>4. turn \in [Turns -> [st : TurnStatuses, deaths : 0 .. MaxRedispatches + 1]]
    <3> DEFINE R == [st : TurnStatuses, deaths : 0 .. MaxRedispatches + 1]
    <3>1. turn \in [Turns -> Rows] /\ \A t \in Turns : turn[t] \in R
      BY <2>1, <2>3 DEF TypeInv
    <3> HIDE DEF R
    <3>2. turn \in [Turns -> R]
      BY <3>1
    <3> QED
      BY <3>2 DEF R
  <2>5. session \in [status : SessionStatuses, active : Turns \cup {NoTurn}]
    BY <2>1 DEF TypeInv, Sessions, TurnIds
  <2>6. wf.pc \in WorkflowPcs /\ wf.t \in Turns \cup {NoTurn} /\ wf.slot \in Interrupts \cup {"none"}
    BY <2>1, WorkflowFields DEF TypeInv, TurnIds, Signals
  <2>7. \A s \in Slots : att[s].pc \in AttemptPcs /\ att[s].turn \in Turns \cup {NoTurn}
    BY <2>1, AttemptsTyped DEF TurnIds
  <2> QED
    BY <2>1, <2>4, <2>5, <2>6, <2>7 DEF SessionTypeOK, TypeInv
<1> HIDE DEF Inv
<1> QED
  BY <1>1, <1>2, <1>3, PTL DEF Spec

\* No turn is dispatched again that an interrupt cancelled (requeuePreemptedTurn's status
\* guard, interruptActiveTurn), unless turns are also deleted from the queue or an attempt
\* that timed out goes on writing.
THEOREM UserCancelsAreFinal ==
  ASSUME ZombiesAreQuiet, "delete" \notin Faults
  PROVE  Spec => UserCancelIsFinal
<1> DEFINE Inv == BaseInv /\ WriterInv /\ UserInv
           Final == wf.pc = "start" /\ wf'.pc = "run" => wf.t \notin userEnded
<1>1. Init => Inv
  BY InitHolds
<1>2. Inv /\ [Next]_vars => Inv'
  <2> SUFFICES ASSUME Inv, [Next]_vars
               PROVE  Inv'
    OBVIOUS
  <2>1. BaseInv' /\ (Next => TypeInv' /\ Effect)
    BY BaseStep
  <2>2. CASE Next
    BY <2>1, <2>2, WriterStep, UserStep DEF BaseInv
  <2>3. CASE UNCHANGED vars
    BY <2>1, <2>3 DEF vars, WriterInv, UserInv, Requeuer, Active, Asked
  <2> QED
    BY <2>2, <2>3
<1>3. Inv => Final
  BY DEF UserInv
<1>4. UserCancelIsFinal <=> [][Final]_vars
  BY DEF UserCancelIsFinal
<1> HIDE DEF Inv, Final
<1> QED
  BY <1>1, <1>2, <1>3, <1>4, PTL DEF Spec

LEMMA FencedForever ==
  ASSUME ~ Lingers
  PROVE  Spec => [](BaseInv /\ WriterInv /\ FenceInv)
<1> DEFINE Inv == BaseInv /\ WriterInv /\ FenceInv
<1>1. Init => Inv
  BY InitHolds
<1>2. Inv /\ [Next]_vars => Inv'
  <2> SUFFICES ASSUME Inv, [Next]_vars
               PROVE  Inv'
    OBVIOUS
  <2>1. BaseInv' /\ (Next => TypeInv' /\ Effect) /\ ZombiesAreQuiet
    BY BaseStep DEF ZombiesAreQuiet
  <2>2. CASE Next
    BY <2>1, <2>2, WriterStep, FenceStep DEF BaseInv
  <2>3. CASE UNCHANGED vars
    BY <2>1, <2>3 DEF vars, WriterInv, FenceInv, Requeuer, Active, Asked, Open
  <2> QED
    BY <2>2, <2>3
<1>3. Spec => []Inv
  <2> HIDE DEF Inv
  <2> QED
    BY <1>1, <1>2, PTL DEF Spec
<1> QED
  BY <1>3

\* A dying attempt cancels its turn only while nobody else serves it
\* (cancelTurnFromDyingDispatch's counter fence), unless an attempt goes on writing after it
\* was cancelled or timed out.
THEOREM DyingAttemptsAreFenced ==
  ASSUME ~ Lingers
  PROVE  Spec => DyingAttemptFenced
<1> DEFINE Inv == BaseInv /\ WriterInv /\ FenceInv
           Fenced == \A s \in Slots : DyingAttempt(s) /\ turn' # turn =>
                       /\ ~ (wf.pc = "start" /\ wf.t = att[s].turn)
                       /\ \A r \in Slots \ {s} : ~ (att[r].own /\ att[r].turn = att[s].turn)
<1>1. Inv => Fenced
  <2> SUFFICES ASSUME Inv, NEW s \in Slots, DyingAttempt(s), turn' # turn
               PROVE  /\ ~ (wf.pc = "start" /\ wf.t = att[s].turn)
                      /\ \A r \in Slots \ {s} : ~ (att[r].own /\ att[r].turn = att[s].turn)
    OBVIOUS
  <2>1. DyingEffect(s) /\ OwnInv
    BY DyingStep DEF BaseInv
  <2>2. Open(s) /\ att[s].seen = turn[att[s].turn].deaths
    BY <2>1 DEF DyingEffect, CancelsFromDying
  <2> QED
    BY <2>1, <2>2 DEF FenceInv, OwnInv
<1>2. DyingAttemptFenced <=> [][Fenced]_vars
  BY DEF DyingAttemptFenced
<1>3. Spec => []Inv
  BY FencedForever
<1> HIDE DEF Inv, Fenced
<1> QED
  BY <1>1, <1>2, <1>3, PTL DEF Spec

LEMMA ServedForever ==
  ASSUME ~ Lingers, "interrupt" \notin Faults
  PROVE  Spec => []ServedInv
<1> DEFINE Inv == BaseInv /\ WriterInv /\ FenceInv
           Calm == CalmInv /\ ServedInv /\ AttemptInv
<1>1. Init => Calm
  BY InitHolds
<1>2. Inv /\ Calm /\ [Next]_vars => Calm'
  <2> SUFFICES ASSUME Inv, Calm, [Next]_vars
               PROVE  Calm'
    OBVIOUS
  <2>1. BaseInv' /\ (Next => TypeInv' /\ Effect)
    BY BaseStep
  <2>2. CASE Next
    BY <2>1, <2>2, CalmStep, ServedStep, AttemptStep
  <2>3. CASE UNCHANGED vars
    BY <2>3 DEF vars, CalmInv, ServedInv, AttemptInv, Open, Unsettled, SessionHas, Reached
  <2> QED
    BY <2>2, <2>3
<1>3. Spec => []Inv
  BY FencedForever
<1>4. Calm => ServedInv
  OBVIOUS
<1> HIDE DEF Inv, Calm
<1> QED
  BY <1>1, <1>2, <1>3, <1>4, PTL DEF Spec

\* A cancelled turn that the workflow is done with is one that the user cancelled
\* (requeueTurnAfterWorkerDeath), unless the user interrupts turns or an attempt goes on
\* writing after it timed out.
THEOREM DeathsNeverCancel ==
  ASSUME ~ Lingers, "interrupt" \notin Faults
  PROVE  Spec => []DeathNeverCancels
<1>1. ServedInv => DeathNeverCancels
  BY DEF ServedInv, DeathNeverCancels, With, Unsettled
<1> QED
  BY <1>1, ServedForever, PTL

\* A workflow that has completed leaves no turn running or waiting and no session that
\* claims to run (runTurn, requeueTurnAfterWorkerDeath, failSession), unless the user
\* interrupts turns or an attempt goes on writing after it timed out.
THEOREM NothingIsLeftRunning ==
  ASSUME ~ Lingers, "interrupt" \notin Faults
  PROVE  Spec => []NothingLeftRunning
<1>1. ServedInv => NothingLeftRunning
  BY DEF ServedInv, NothingLeftRunning, With, Unsettled
<1> QED
  BY <1>1, ServedForever, PTL
=============================================================================
