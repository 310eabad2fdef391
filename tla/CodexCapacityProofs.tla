------------------------ MODULE CodexCapacityProofs ------------------------
(***************************************************************************)
(* Theorems about CodexCapacity, for any pool of credentials, any number   *)
(* of turns, attempts, worker deaths and changes of the pool.              *)
(*                                                                         *)
(* The inductive invariant is CapInv.  TypeInv ties the workflow to an     *)
(* attempt and the attempt to a turn.  NudgeInv follows a signal from the  *)
(* workflow's counters to the wait, the timer or the revision that the     *)
(* next read returns.  ContinueInv says which turn can be active: only an  *)
(* active running turn arms a wait, so a wait that appears behind the      *)
(* workflow's back is for a turn that it left running.  FenceInv says that *)
(* the death counter tells an attempt from its successors.                 *)
(***************************************************************************)
EXTENDS CodexCapacity, FiniteSetTheorems, NatExtrema, TLAPS

TurnStates == {"none", "queued", "running", "completed", "failed", "cancelled"}
TurnRows == [st : TurnStates, gen : Nat, deaths : 0 .. MaxDeaths, moves : 0 .. Cardinality(Creds)]
SessionRows == [status : {"idle", "queued", "running", "failed"}, active : {None} \cup Turns]
GoalRows == [on : BOOLEAN, version : Nat]
LeaseRows == [cred : Creds \cup {NoCred}, holder : {None} \cup Dispatches, gen : Nat, live : BOOLEAN]
WaiterRows == [status : {"none", "waiting", "resumed", "superseded"}, gen : Nat,
               turn : {None} \cup Turns, version : Nat, pending : BOOLEAN,
               resumed : {None} \cup Turns]
AttemptPcs == {"none", "start", "select", "capped", "arm", "idle", "run", "lost", "refused", "over"}
Attempts == [pc : AttemptPcs, turn : {None} \cup Turns, cred : Creds \cup {NoCred}, gen : Nat,
             deaths : Nat, version : Nat,
             ends : {"none", "cancelled", "wait", "idle", "preempted", "failed"}, wait : Nat]
Workflows == [pc : {"done", "top", "enter", "goal", "turn", "failure", "wait", "checked"},
              d : {None} \cup Dispatches, gen : Nat, due : BOOLEAN, cap : BOOLEAN, que : BOOLEAN]

\* The rows, the attempts and the workflow have their shapes.
RowTypes ==
  /\ usable \subseteq Creds /\ enabled \subseteq Creds /\ edits \in 0 .. MaxEdits
  /\ turn \in [Turns -> TurnRows] /\ session \in SessionRows /\ goal \in GoalRows
  /\ lease \in [Turns -> LeaseRows] /\ waiter \in WaiterRows
  /\ att \in [Dispatches -> Attempts] /\ wf \in Workflows
  /\ sig \in BOOLEAN /\ nudged \in BOOLEAN /\ left \subseteq Turns /\ raced \subseteq Turns

\* An attempt that was dispatched has a turn; one that was not is blank.
AttemptHasTurn ==
  \A d \in Dispatches : IF att[d].pc = "none" THEN att[d] = NoAttempt ELSE att[d].turn \in Turns

\* The workflow waits for an attempt; a death that it answers is still within the bound.
WorkflowHasAttempt ==
  /\ wf.pc \in {"turn", "failure"} => wf.d \in Dispatches /\ att[wf.d].pc # "none"
  /\ wf.pc = "failure" => turn[att[wf.d].turn].deaths < MaxDeaths

TypeInv == RowTypes /\ AttemptHasTurn /\ WorkflowHasAttempt

\* A change that came during the dispatch stays visible until a check reads the pool.
NudgeInv ==
  nudged =>
    /\ wf.pc \in {"turn", "failure"} => wf.cap
    /\ wf.pc = "wait" => wf.cap \/ wf.que \/ wf.due
    /\ wf.pc = "enter" => wf.due
    /\ wf.pc # "checked"
    /\ Waiting => waiter.pending

\* The active turn is the one that the workflow waits for, or one that it left running; so
\* a wait armed while the workflow is about to continue the goal is for such a turn.
ContinueInv ==
  /\ wf.pc \in {"turn", "failure"} => session.active \in {None, att[wf.d].turn}
  /\ wf.pc \notin {"turn", "failure"} =>
       \/ session.active = None \/ session.active \in left
       \/ turn[session.active].st # "running"
  /\ wf.pc = "goal" /\ Waiting => waiter.turn \in left

Live(d) == att[d].pc \notin {"none", "over"}

\* The attempts are dispatched in their order, each for a turn that exists.
DispatchedInOrder ==
  /\ \A d, e \in Dispatches : d < e /\ att[d].pc = "none" => att[e].pc = "none"
  /\ \A d \in Dispatches : att[d].pc # "none" => turn[att[d].turn].st # "none"

\* A live attempt read a death counter that only grew since.
DeathsOnlyGrow ==
  \A d \in Dispatches : Live(d) => att[d].deaths <= turn[att[d].turn].deaths

\* It has grown when the attempt has a successor, unless the turn was raced for.
SuccessorsCounted ==
  \A d, e \in Dispatches :
    Live(d) /\ d < e /\ att[e].turn = att[d].turn /\ att[d].turn \notin raced
      => att[d].deaths < turn[att[d].turn].deaths

\* And already when the turn is queued for the successor.
QueuedCounted ==
  \A d \in Dispatches :
    Live(d) /\ turn[att[d].turn].st = "queued" /\ att[d].turn \notin raced
      => att[d].deaths < turn[att[d].turn].deaths

FenceInv == DispatchedInOrder /\ DeathsOnlyGrow /\ SuccessorsCounted /\ QueuedCounted

CapInv == TypeInv /\ NudgeInv /\ ContinueInv /\ FenceInv

-----------------------------------------------------------------------------
(* Operators *)

USE DEF None, NoCred, Turns, Dispatches

\* First picks the least member: the oldest turn of a set, the next attempt.
LEMMA FirstLeast ==
  ASSUME NEW S \in SUBSET Nat, S # {}
  PROVE  First(S) \in S /\ \A u \in S : First(S) <= u
  BY LeastExists DEF First

LEMMA FirstFree ==
  ASSUME Free # {}
  PROVE  First(Free) \in Turns /\ turn[First(Free)].st = "none"
<1>1. Free \in SUBSET Nat
  BY CapacityBounds DEF Free, With
<1> QED
  BY <1>1, FirstLeast DEF Free, With

LEMMA FirstQueued ==
  ASSUME With({"queued"}) # {}
  PROVE  First(With({"queued"})) \in Turns /\ turn[First(With({"queued"}))].st = "queued"
<1>1. With({"queued"}) \in SUBSET Nat
  BY CapacityBounds DEF With
<1> QED
  BY <1>1, FirstLeast DEF With

LEMMA FirstUndispatched ==
  ASSUME Undispatched # {}
  PROVE  /\ First(Undispatched) \in Dispatches /\ att[First(Undispatched)] = NoAttempt
         /\ \A d \in Dispatches : d < First(Undispatched) => att[d] # NoAttempt
<1>1. Undispatched \in SUBSET Nat
  BY CapacityBounds DEF Undispatched
<1>2. \A u \in Undispatched : First(Undispatched) <= u
  BY <1>1, FirstLeast
<1>3. First(Undispatched) \in Undispatched
  BY <1>1, FirstLeast
<1>4. \A d \in Dispatches : d \in Nat
  BY CapacityBounds
<1> QED
  BY <1>2, <1>3, <1>4, CapacityBounds DEF Undispatched

LEMMA CredsCounted == Cardinality(Creds) \in Nat
  BY CredNames, FS_CardinalityType

-----------------------------------------------------------------------------
(* Rows *)

\* What an update of a turn's row leaves it.
LEMMA TurnEdits ==
  ASSUME NEW r \in TurnRows, NEW st \in TurnStates
  PROVE  /\ [r EXCEPT !.st = st] \in TurnRows
         /\ [r EXCEPT !.st = st].st = st /\ [r EXCEPT !.st = st].deaths = r.deaths
         /\ r.moves < Cardinality(Creds) => [r EXCEPT !.st = st, !.moves = @ + 1] \in TurnRows
         /\ r.deaths < MaxDeaths => [r EXCEPT !.st = st, !.deaths = @ + 1] \in TurnRows
         /\ [r EXCEPT !.st = st, !.moves = @ + 1].st = st
         /\ [r EXCEPT !.st = st, !.moves = @ + 1].deaths = r.deaths
         /\ [r EXCEPT !.st = st, !.deaths = @ + 1].st = st
         /\ [r EXCEPT !.st = st, !.deaths = @ + 1].deaths = r.deaths + 1
<1>1. /\ r.moves \in Nat /\ r.deaths \in Nat
      /\ r.moves < Cardinality(Creds) => r.moves + 1 \in 0 .. Cardinality(Creds)
      /\ r.deaths < MaxDeaths => r.deaths + 1 \in 0 .. MaxDeaths
  BY CapacityBounds, CredsCounted DEF TurnRows
<1> QED
  BY <1>1 DEF TurnRows, TurnStates

\* A new turn: nothing counted yet.
LEMMA NewTurn ==
  ASSUME NEW g \in Nat
  PROVE  /\ [NoTurn EXCEPT !.st = "queued", !.gen = g] \in TurnRows
         /\ [NoTurn EXCEPT !.st = "queued", !.gen = g].st = "queued"
         /\ [NoTurn EXCEPT !.st = "queued", !.gen = g].deaths = 0
<1>1. 0 \in 0 .. Cardinality(Creds) /\ 0 \in 0 .. MaxDeaths
  BY CapacityBounds, CredsCounted
<1> DEFINE r == [NoTurn EXCEPT !.st = "queued", !.gen = g]
<1>2. r.st = "queued" /\ r.deaths = 0
  BY DEF NoTurn
<1>3. NoTurn \in TurnRows
  BY <1>1 DEF TurnStates, TurnRows, NoTurn
<1>4. r \in TurnRows
  <2> HIDE DEF NoTurn
  <2> QED
    BY <1>3 DEF TurnStates, TurnRows
<1> QED
  BY <1>2, <1>4

\* A step of an attempt; what stays of one that ended.
LEMMA AttemptEdits ==
  ASSUME NEW a \in Attempts, NEW pc \in AttemptPcs
  PROVE  /\ [a EXCEPT !.pc = pc] \in Attempts
         /\ [a EXCEPT !.pc = pc].pc = pc /\ [a EXCEPT !.pc = pc].turn = a.turn
         /\ [a EXCEPT !.pc = pc].deaths = a.deaths
  BY DEF Attempts

LEMMA AttemptOver ==
  ASSUME NEW d \in Dispatches, att[d] \in Attempts, NEW g \in Nat,
         NEW r \in {"cancelled", "wait", "idle", "preempted", "failed"}
  PROVE  /\ [Over(d) EXCEPT !.ends = r] \in Attempts
         /\ [Over(d) EXCEPT !.ends = r].pc = "over"
         /\ [Over(d) EXCEPT !.ends = r].turn = att[d].turn
         /\ [Over(d) EXCEPT !.ends = r, !.wait = g] \in Attempts
         /\ [Over(d) EXCEPT !.ends = r, !.wait = g].pc = "over"
         /\ [Over(d) EXCEPT !.ends = r, !.wait = g].turn = att[d].turn
  BY DEF Attempts, AttemptPcs, Over, NoAttempt

\* The record writes of the session, the leases and the waiter.
LEMMA SmallRows ==
  /\ \A status \in {"idle", "queued", "running", "failed"}, active \in {None} \cup Turns :
       [status |-> status, active |-> active] \in SessionRows
  /\ NoLease \in LeaseRows
  /\ \A c \in Creds, d \in Dispatches, g \in Nat :
       [cred |-> c, holder |-> d, gen |-> g, live |-> TRUE] \in LeaseRows
  /\ \A l \in LeaseRows : [l EXCEPT !.live = FALSE] \in LeaseRows
  /\ \A w \in WaiterRows :
       /\ \A p \in BOOLEAN : [w EXCEPT !.pending = p] \in WaiterRows
       /\ [w EXCEPT !.status = "superseded", !.pending = FALSE] \in WaiterRows
       /\ \A t \in Turns :
            [w EXCEPT !.status = "resumed", !.pending = FALSE, !.resumed = t] \in WaiterRows
  /\ \A t \in Turns, g, v \in Nat :
       [status |-> "waiting", gen |-> g, turn |-> t, version |-> v, pending |-> FALSE,
        resumed |-> None] \in WaiterRows
  BY DEF SessionRows, NoLease, LeaseRows, WaiterRows

\* The fields of the rows.
LEMMA RowFields ==
  /\ \A r \in TurnRows : /\ r.st \in TurnStates /\ r.gen \in Nat
                         /\ r.deaths \in 0 .. MaxDeaths /\ r.moves \in 0 .. Cardinality(Creds)
  /\ \A s \in SessionRows : /\ s.status \in {"idle", "queued", "running", "failed"}
                            /\ s.active \in {None} \cup Turns
  /\ \A g \in GoalRows : g.on \in BOOLEAN /\ g.version \in Nat
  /\ \A l \in LeaseRows : /\ l.cred \in Creds \cup {NoCred} /\ l.holder \in {None} \cup Dispatches
                          /\ l.gen \in Nat /\ l.live \in BOOLEAN
  /\ \A w \in WaiterRows : /\ w.status \in {"none", "waiting", "resumed", "superseded"}
                           /\ w.gen \in Nat /\ w.turn \in {None} \cup Turns
                           /\ w.pending \in BOOLEAN
  /\ \A a \in Attempts : /\ a.pc \in AttemptPcs /\ a.turn \in {None} \cup Turns
                         /\ a.cred \in Creds \cup {NoCred} /\ a.gen \in Nat /\ a.deaths \in Nat
                         /\ a.version \in Nat /\ a.wait \in Nat
  /\ \A f \in Workflows :
       /\ f.pc \in {"done", "top", "enter", "goal", "turn", "failure", "wait", "checked"}
       /\ f.d \in {None} \cup Dispatches /\ f.gen \in Nat
       /\ f.due \in BOOLEAN /\ f.cap \in BOOLEAN /\ f.que \in BOOLEAN
  BY DEF TurnRows, TurnStates, SessionRows, GoalRows, LeaseRows, WaiterRows, Attempts, Workflows

-----------------------------------------------------------------------------
(* Types *)

LEMMA TypeInit == Init => TypeInv
<1> SUFFICES ASSUME Init PROVE TypeInv
  OBVIOUS
<1>1. 0 \in 0 .. Cardinality(Creds) /\ 0 \in 0 .. MaxDeaths /\ 0 \in 0 .. MaxEdits
  BY CapacityBounds, CredsCounted
<1>2. NoTurn \in TurnRows /\ session \in SessionRows /\ goal \in GoalRows
  BY <1>1 DEF TurnStates, Init, NoTurn, TurnRows, SessionRows, GoalRows
<1>3. NoLease \in LeaseRows /\ NoAttempt \in Attempts /\ wf \in Workflows /\ waiter \in WaiterRows
  BY DEF Init, NoLease, NoAttempt, NoWorkflow, LeaseRows, WaiterRows, AttemptPcs, Attempts, Workflows
<1>4. RowTypes
  BY <1>1, <1>2, <1>3 DEF Init, RowTypes
<1>5. AttemptHasTurn /\ WorkflowHasAttempt
  BY DEF Init, AttemptHasTurn, WorkflowHasAttempt, NoAttempt, NoWorkflow
<1> QED
  BY <1>4, <1>5 DEF TypeInv

\* The fields of the state.
LEMMA TypeFacts ==
  ASSUME TypeInv
  PROVE  /\ \A t \in Turns : turn[t] \in TurnRows /\ lease[t] \in LeaseRows
         /\ \A d \in Dispatches : /\ att[d] \in Attempts
                                  /\ att[d].pc # "none" => att[d].turn \in Turns
         /\ session \in SessionRows /\ goal \in GoalRows /\ waiter \in WaiterRows /\ wf \in Workflows
  BY DEF TypeInv, RowTypes, AttemptHasTurn

\* What a step of an attempt may write keeps the shapes.
LEMMA TypeOfAttempt ==
  ASSUME TypeInv, NEW d \in Dispatches, att[d].pc # "none",
         NEW b \in Attempts, b.pc # "none", b.turn = att[d].turn,
         att' = [att EXCEPT ![d] = b],
         usable' \subseteq Creds, UNCHANGED <<enabled, edits, goal, wf, sig, left>>,
         turn' \in [Turns -> TurnRows], \A t \in Turns : turn'[t].deaths = turn[t].deaths,
         session' \in SessionRows, lease' \in [Turns -> LeaseRows], waiter' \in WaiterRows,
         nudged' \in BOOLEAN, raced' \subseteq Turns
  PROVE  TypeInv'
<1>1. att' \in [Dispatches -> Attempts]
  BY DEF TypeInv, RowTypes
<1>2. RowTypes'
  BY <1>1 DEF TypeInv, RowTypes
<1>3. \A e \in Dispatches : att'[e].pc # "none" <=> att[e].pc # "none"
  BY DEF TypeInv, RowTypes
<1>4. \A e \in Dispatches : att'[e].turn = att[e].turn /\ (e # d => att'[e] = att[e])
  BY DEF TypeInv, RowTypes
<1>5. AttemptHasTurn'
  BY <1>3, <1>4 DEF TypeInv, AttemptHasTurn
<1>6. WorkflowHasAttempt'
  BY <1>3, <1>4 DEF TypeInv, WorkflowHasAttempt, AttemptHasTurn
<1> QED
  BY <1>2, <1>5, <1>6 DEF TypeInv

\* A write of one turn's status.
LEMMA SetTypes ==
  ASSUME TypeInv, NEW t \in Turns, NEW st \in TurnStates, Set(t, st)
  PROVE  turn' \in [Turns -> TurnRows] /\ \A u \in Turns : turn'[u].deaths = turn[u].deaths
<1>1. turn[t] \in TurnRows
  BY TypeFacts
<1> DEFINE r == [turn[t] EXCEPT !.st = st]
<1>2. r \in TurnRows /\ r.deaths = turn[t].deaths
  BY <1>1, TurnEdits
<1>3. turn' = [turn EXCEPT ![t] = r]
  BY DEF Set
<1> HIDE DEF r
<1> QED
  BY <1>2, <1>3 DEF TypeInv, RowTypes

\* An attempt moves to its next step, or ends with a result.
Moved(d, pc) == [att[d] EXCEPT !.pc = pc]
Ended(d, r) == [Over(d) EXCEPT !.ends = r]
EndedWaiting(d, g) == [Over(d) EXCEPT !.ends = "wait", !.wait = g]

LEMMA AttemptWrites ==
  ASSUME TypeInv, NEW d \in Dispatches
  PROVE  /\ \A pc \in AttemptPcs : /\ Moved(d, pc) \in Attempts /\ Moved(d, pc).pc = pc
                                   /\ Moved(d, pc).turn = att[d].turn
                                   /\ Moved(d, pc).deaths = att[d].deaths
                                   /\ AttPc(d, pc) => att' = [att EXCEPT ![d] = Moved(d, pc)]
         /\ \A r \in {"cancelled", "idle", "preempted", "failed"} :
              /\ Ended(d, r) \in Attempts /\ Ended(d, r).pc = "over"
              /\ Ended(d, r).turn = att[d].turn
              /\ Ends(d, r) => att' = [att EXCEPT ![d] = Ended(d, r)]
         /\ \A g \in Nat :
              /\ EndedWaiting(d, g) \in Attempts /\ EndedWaiting(d, g).pc = "over"
              /\ EndedWaiting(d, g).turn = att[d].turn
              /\ EndsWaiting(d, g) => att' = [att EXCEPT ![d] = EndedWaiting(d, g)]
<1>1. att[d] \in Attempts
  BY TypeFacts
<1>2. \A pc \in AttemptPcs : /\ Moved(d, pc) \in Attempts /\ Moved(d, pc).pc = pc
                             /\ Moved(d, pc).turn = att[d].turn
                             /\ Moved(d, pc).deaths = att[d].deaths
  BY <1>1, AttemptEdits DEF Moved
<1>3. \A r \in {"cancelled", "idle", "preempted", "failed"} :
        /\ Ended(d, r) \in Attempts /\ Ended(d, r).pc = "over" /\ Ended(d, r).turn = att[d].turn
  <2> TAKE r \in {"cancelled", "idle", "preempted", "failed"}
  <2> QED
    BY <1>1, AttemptOver, 0 \in Nat DEF Ended
<1>4. \A g \in Nat :
        /\ EndedWaiting(d, g) \in Attempts /\ EndedWaiting(d, g).pc = "over"
        /\ EndedWaiting(d, g).turn = att[d].turn
  <2> TAKE g \in Nat
  <2> QED
    BY <1>1, AttemptOver DEF EndedWaiting
<1>5. /\ \A pc \in AttemptPcs : AttPc(d, pc) => att' = [att EXCEPT ![d] = Moved(d, pc)]
      /\ \A r \in {"cancelled", "idle", "preempted", "failed"} :
           Ends(d, r) => att' = [att EXCEPT ![d] = Ended(d, r)]
      /\ \A g \in Nat : EndsWaiting(d, g) => att' = [att EXCEPT ![d] = EndedWaiting(d, g)]
  BY DEF AttPc, Moved, Ends, Ended, EndsWaiting, EndedWaiting
<1> QED
  BY <1>2, <1>3, <1>4, <1>5

\* What an attempt leaves of the leases.
LEMMA ReleasedTypes ==
  ASSUME TypeInv, NEW d \in Dispatches
  PROVE  Released(d) \in [Turns -> LeaseRows]
  BY SmallRows DEF TypeInv, RowTypes, Released

LEMMA TypeAttempt ==
  ASSUME TypeInv, NEW d \in Dispatches, AttemptStep(d)
  PROVE  TypeInv'
<1> DEFINE t == att[d].turn
<1>t. /\ att[d] \in Attempts /\ att[d].pc \in AttemptPcs /\ (att[d].pc # "none" => t \in Turns)
      /\ turn \in [Turns -> TurnRows] /\ session \in SessionRows /\ goal \in GoalRows
      /\ lease \in [Turns -> LeaseRows] /\ waiter \in WaiterRows /\ usable \subseteq Creds
      /\ nudged \in BOOLEAN /\ raced \subseteq Turns
      /\ waiter.gen \in Nat /\ goal.version \in Nat
  BY TypeFacts, RowFields DEF TypeInv, RowTypes
<1>p. {"start", "select", "capped", "arm", "idle", "run", "lost", "refused", "over"}
        \subseteq AttemptPcs
  BY DEF AttemptPcs
<1>u. {"queued", "completed", "failed", "cancelled"} \subseteq TurnStates
  BY DEF TurnStates
<1>1. CASE Validate(d)
  <2>1. t \in Turns
    BY <1>1, <1>t DEF Validate
  <2>2. CASE AttPc(d, "select") /\ UNCHANGED <<turn, session, waiter>>
    BY <1>1, <1>t, <1>p, <2>1, <2>2, AttemptWrites, TypeOfAttempt DEF Validate, pool, hist
  <2>3. CASE Ends(d, "cancelled") /\ UNCHANGED <<turn, session, waiter>>
    BY <1>1, <1>t, <1>p, <2>1, <2>3, AttemptWrites, TypeOfAttempt DEF Validate, pool, hist
  <2>4. CASE Ends(d, "cancelled") /\ turn[t].st = "running" /\ ~ UNCHANGED <<turn, session, waiter>>
    <3>1. Set(t, "cancelled")
      BY <1>1, <2>4 DEF Validate
    <3>2. session' \in SessionRows
      BY <1>1, <2>4, <1>t, SmallRows DEF Validate, SetSession
    <3>3. waiter' \in WaiterRows
      BY <1>1, <2>4, <1>t, SmallRows DEF Validate
    <3>4. turn' \in [Turns -> TurnRows] /\ \A u \in Turns : turn'[u].deaths = turn[u].deaths
      BY <3>1, <2>1, <1>u, SetTypes
    <3> QED
      BY <1>1, <1>t, <1>p, <2>1, <2>4, <3>2, <3>3, <3>4, AttemptWrites, TypeOfAttempt
      DEF Validate, pool, hist
  <2> QED
    BY <1>1, <2>2, <2>3, <2>4 DEF Validate
<1>2. CASE Acquire(d)
  <2>1. t \in Turns
    BY <1>2, <1>t DEF Acquire
  <2>2. CASE Selectable(t) = {}
    <3>1. lease' \in [Turns -> LeaseRows]
      BY <1>2, <2>2, <1>t, SmallRows DEF Acquire
    <3> QED
      BY <1>2, <2>2, <1>t, <1>p, <2>1, <3>1, AttemptWrites, TypeOfAttempt DEF Acquire, pool, hist
  <2>3. CASE Selectable(t) # {}
    <3> DEFINE gen == IF ~ lease[t].live THEN 1 ELSE IF lease[t].holder = d THEN lease[t].gen
                      ELSE lease[t].gen + 1
    <3>1. PICK c \in Selectable(t) :
            /\ lease' = [u \in Turns |->
                           IF u = t THEN [cred |-> c, holder |-> d, gen |-> gen, live |-> TRUE]
                           ELSE IF lease[u].live THEN lease[u] ELSE NoLease]
            /\ att' = [att EXCEPT ![d].pc = "run", ![d].cred = c, ![d].gen = gen]
      BY <1>2, <2>3 DEF Acquire
    <3>2. gen \in Nat
      BY <1>t, <2>1, RowFields
    <3>3. c \in Creds
      BY <3>1, <1>t, <2>1 DEF Selectable, Eligible
    <3> HIDE DEF gen
    <3>4. lease' \in [Turns -> LeaseRows]
      BY <3>1, <3>2, <3>3, <1>t, SmallRows
    <3> DEFINE b == [att[d] EXCEPT !.pc = "run", !.cred = c, !.gen = gen]
    <3>5. b \in Attempts /\ b.pc = "run" /\ b.turn = t
      BY <1>t, <3>2, <3>3 DEF Attempts, AttemptPcs
    <3>6. att' = [att EXCEPT ![d] = b]
      BY <3>1
    <3> HIDE DEF b
    <3>7. att[d].pc # "none"
      BY <1>2 DEF Acquire
    <3>8. UNCHANGED <<pool, turn, session, goal, waiter, wf, sig, hist>>
      BY <1>2 DEF Acquire
    <3> QED
      BY <1>t, <3>4, <3>5, <3>6, <3>7, <3>8, TypeOfAttempt DEF pool, hist
  <2> QED
    BY <2>2, <2>3
<1>3. CASE ReadGoal(d)
  <2> DEFINE v == IF goal.on THEN goal.version ELSE 0
             p == IF goal.on THEN "arm" ELSE "idle"
             b == [att[d] EXCEPT !.version = v, !.pc = p]
  <2>1. v \in Nat /\ p \in {"arm", "idle"}
    BY <1>t
  <2>2. att' = [att EXCEPT ![d] = b]
    BY <1>3 DEF ReadGoal
  <2> HIDE DEF v, p
  <2>3. b \in Attempts /\ b.pc = p /\ b.turn = t
    BY <1>t, <2>1 DEF Attempts, AttemptPcs
  <2> HIDE DEF b
  <2> QED
    BY <1>3, <1>t, <2>1, <2>2, <2>3, TypeOfAttempt DEF ReadGoal, pool, hist, rows
<1>4. CASE Arm(d)
  <2>1. t \in Turns /\ waiter.gen + 1 \in Nat
    BY <1>4, <1>t DEF Arm
  <2>2. CASE EndsWaiting(d, waiter.gen) /\ UNCHANGED <<turn, session, lease, waiter, nudged>>
    BY <1>4, <2>2, <1>t, AttemptWrites, TypeOfAttempt DEF Arm, pool
  <2>3. CASE AttPc(d, "idle") /\ UNCHANGED <<turn, session, lease, waiter, nudged>>
    BY <1>4, <2>3, <1>t, <1>p, AttemptWrites, TypeOfAttempt DEF Arm, pool
  <2>4. CASE /\ waiter' = [status |-> "waiting", gen |-> waiter.gen + 1, turn |-> t,
                           version |-> goal.version, pending |-> FALSE, resumed |-> None]
             /\ Set(t, "failed") /\ SetSession("idle", None)
             /\ lease' = [lease EXCEPT ![t] = NoLease]
             /\ EndsWaiting(d, waiter.gen + 1) /\ nudged' = FALSE
    <3>1. waiter' \in WaiterRows /\ session' \in SessionRows /\ lease' \in [Turns -> LeaseRows]
      BY <2>1, <2>4, <1>t, SmallRows DEF SetSession
    <3>2. turn' \in [Turns -> TurnRows] /\ \A u \in Turns : turn'[u].deaths = turn[u].deaths
      BY <2>1, <2>4, <1>u, SetTypes
    <3>3. att' = [att EXCEPT ![d] = EndedWaiting(d, waiter.gen + 1)]
      BY <2>1, <2>4, AttemptWrites
    <3> QED
      BY <1>4, <2>1, <2>4, <1>t, <3>1, <3>2, <3>3, AttemptWrites, TypeOfAttempt DEF Arm, pool
  <2> QED
    BY <1>4, <2>2, <2>3, <2>4 DEF Arm
<1>5. CASE FinishCapped(d) \/ FinishTurn(d)
  <2>1. t \in Turns /\ att[d].pc # "none"
    BY <1>5, <1>t DEF FinishCapped, FinishTurn
  <2>2. PICK st \in {"completed", "failed"} : EndTurn(d, st)
    BY <1>5 DEF FinishCapped, FinishTurn
  <2>3. turn' \in [Turns -> TurnRows] /\ \A u \in Turns : turn'[u].deaths = turn[u].deaths
    BY <2>1, <2>2, <1>u, SetTypes DEF EndTurn
  <2>4. session' \in SessionRows /\ lease' \in [Turns -> LeaseRows]
    BY <2>2, SmallRows, ReleasedTypes DEF EndTurn, SetSession
  <2> QED
    BY <2>1, <2>2, <2>3, <2>4, <1>t, AttemptWrites, TypeOfAttempt DEF EndTurn, pool, hist
<1>6. CASE NoticeLost(d) \/ Quarantine(d)
  <2>1. usable' \subseteq Creds /\ UNCHANGED <<enabled, edits, rows, wf, sig, hist>>
    BY <1>6, <1>t DEF NoticeLost, Quarantine, pool
  <2>2. att[d].pc # "none" /\ \E pc \in {"lost", "refused"} : AttPc(d, pc)
    BY <1>6 DEF NoticeLost, Quarantine
  <2> QED
    BY <2>1, <2>2, <1>t, <1>p, AttemptWrites, TypeOfAttempt DEF rows, hist
<1>7. CASE Failover(d)
  <2>1. t \in Turns /\ att[d].pc # "none"
    BY <1>7, <1>t DEF Failover
  <2>2. CASE Eligible = {} \/ ~ FailoverHolds(d) \/ turn[t].moves >= Cardinality(Creds)
    <3>1. \E pc \in {"capped", "lost", "idle"} : AttPc(d, pc)
      BY <1>7, <2>2 DEF Failover
    <3>2. UNCHANGED <<turn, session, lease, raced, pool, goal, waiter, wf, sig, nudged, left>>
      BY <1>7, <2>2 DEF Failover
    <3> QED
      BY <2>1, <3>1, <3>2, <1>t, <1>p, AttemptWrites, TypeOfAttempt DEF pool
  <2>3. CASE /\ Requeue(d) /\ ~ (turn[t].moves >= Cardinality(Creds))
             /\ UNCHANGED <<pool, goal, waiter, wf, sig, nudged, left>>
    <3> DEFINE r == [turn[t] EXCEPT !.st = "queued", !.moves = @ + 1]
    <3>1. turn[t].moves < Cardinality(Creds)
      BY <2>1, <2>3, <1>t, CredsCounted, RowFields
    <3>2. r \in TurnRows /\ r.deaths = turn[t].deaths
      BY <2>1, <3>1, <1>t, <1>u, TurnEdits
    <3>3. turn' = [turn EXCEPT ![t] = r]
      BY <2>3 DEF Requeue
    <3> HIDE DEF r
    <3>4. turn' \in [Turns -> TurnRows] /\ \A u \in Turns : turn'[u].deaths = turn[u].deaths
      BY <1>t, <3>2, <3>3
    <3>5. session' \in SessionRows /\ lease' \in [Turns -> LeaseRows] /\ raced' \subseteq Turns
      BY <2>1, <2>3, <1>t, SmallRows DEF Requeue, SetSession, FailedOver
    <3> QED
      BY <2>1, <2>3, <3>4, <3>5, <1>t, AttemptWrites, TypeOfAttempt DEF Requeue, pool
  <2> QED
    BY <1>7, <2>2, <2>3, <1>t DEF Failover
<1>8. CASE SettleLost(d)
  <2>1. t \in Turns /\ att[d].pc # "none"
    BY <1>8, <1>t DEF SettleLost
  <2>2. /\ turn' \in [Turns -> TurnRows] /\ \A u \in Turns : turn'[u].deaths = turn[u].deaths
    <3>1. CASE UNCHANGED turn
      BY <3>1, <1>t
    <3>2. CASE \E st \in {"queued", "failed"} : Set(t, st)
      BY <3>2, <2>1, <1>u, SetTypes
    <3> QED
      BY <1>8, <3>1, <3>2 DEF SettleLost
  <2>3. session' \in SessionRows /\ lease' \in [Turns -> LeaseRows]
    BY <1>8, <1>t, SmallRows, ReleasedTypes DEF SettleLost, SetSession
  <2>4. /\ \E r \in {"preempted", "failed"} : Ends(d, r)
        /\ UNCHANGED <<pool, goal, waiter, wf, sig, hist>>
    BY <1>8 DEF SettleLost
  <2> QED
    BY <2>1, <2>2, <2>3, <2>4, <1>t, AttemptWrites, TypeOfAttempt DEF pool, hist
<1> QED
  BY <1>1, <1>2, <1>3, <1>4, <1>5, <1>6, <1>7, <1>8 DEF AttemptStep

\* What the workflow and the environment may write keeps the shapes.
LEMMA TypeOfOthers ==
  ASSUME TypeInv, UNCHANGED att,
         usable' \subseteq Creds, enabled' \subseteq Creds, edits' \in 0 .. MaxEdits,
         sig' \in BOOLEAN, nudged' \in BOOLEAN, left' \subseteq Turns, UNCHANGED raced,
         turn' \in [Turns -> TurnRows], session' \in SessionRows, goal' \in GoalRows,
         lease' \in [Turns -> LeaseRows], waiter' \in WaiterRows, wf' \in Workflows,
         WorkflowHasAttempt'
  PROVE  TypeInv'
<1>1. RowTypes'
  BY DEF TypeInv, RowTypes
<1>2. AttemptHasTurn'
  BY DEF TypeInv, AttemptHasTurn
<1> QED
  BY <1>1, <1>2 DEF TypeInv

\* The workflow's writes of its own state.
LEMMA WorkflowEdits ==
  ASSUME NEW f \in Workflows
  PROVE  /\ \A l \in {"done", "top", "enter", "goal", "turn", "failure", "wait", "checked"} :
              /\ [f EXCEPT !.pc = l] \in Workflows
              /\ [f EXCEPT !.pc = l].pc = l /\ [f EXCEPT !.pc = l].d = f.d
         /\ \A g \in Nat, b \in BOOLEAN :
              /\ [f EXCEPT !.pc = "enter", !.gen = g, !.due = b] \in Workflows
              /\ [f EXCEPT !.pc = "enter", !.gen = g, !.due = b].pc = "enter"
              /\ [f EXCEPT !.pc = "wait", !.gen = g, !.due = b] \in Workflows
              /\ [f EXCEPT !.pc = "wait", !.gen = g, !.due = b].pc = "wait"
              /\ [f EXCEPT !.pc = "wait", !.gen = g, !.due = b, !.cap = FALSE, !.que = FALSE]
                   \in Workflows
              /\ [f EXCEPT !.pc = "wait", !.gen = g, !.due = b, !.cap = FALSE, !.que = FALSE].pc
                   = "wait"
         /\ [f EXCEPT !.pc = "wait", !.cap = FALSE, !.que = FALSE] \in Workflows
         /\ [f EXCEPT !.pc = "wait", !.cap = FALSE, !.que = FALSE].pc = "wait"
         /\ [f EXCEPT !.pc = "top", !.que = FALSE] \in Workflows
         /\ [f EXCEPT !.pc = "top", !.que = FALSE].pc = "top"
         /\ NoWorkflow \in Workflows /\ NoWorkflow.pc = "done"
         /\ [NoWorkflow EXCEPT !.pc = "top"] \in Workflows
         /\ [NoWorkflow EXCEPT !.pc = "top"].pc = "top"
         /\ [f EXCEPT !.due = TRUE] \in Workflows /\ [f EXCEPT !.due = TRUE].pc = f.pc
         /\ [f EXCEPT !.cap = TRUE] \in Workflows /\ [f EXCEPT !.cap = TRUE].pc = f.pc
         /\ [f EXCEPT !.que = TRUE] \in Workflows /\ [f EXCEPT !.que = TRUE].pc = f.pc
         /\ [f EXCEPT !.cap = TRUE].d = f.d /\ [f EXCEPT !.que = TRUE].d = f.d
         /\ \A d \in Dispatches :
              /\ [f EXCEPT !.pc = "turn", !.d = d, !.cap = FALSE, !.que = FALSE] \in Workflows
              /\ [f EXCEPT !.pc = "turn", !.d = d, !.cap = FALSE, !.que = FALSE].pc = "turn"
              /\ [f EXCEPT !.pc = "turn", !.d = d, !.cap = FALSE, !.que = FALSE].d = d
  BY DEF Workflows, NoWorkflow

LEMMA StartedTypes ==
  ASSUME TypeInv
  PROVE  /\ Started \in Workflows /\ Started.pc \in {wf.pc, "top"}
         /\ Started.pc \in {"turn", "failure"} => Started.d = wf.d /\ Started.pc = wf.pc
<1>1. wf \in Workflows
  BY TypeFacts
<1> QED
  BY <1>1, WorkflowEdits DEF Started

\* A new turn behind the others.
LEMMA EnqueueTypes ==
  ASSUME TypeInv, NEW g \in Nat, Free # {}, Enqueue(g)
  PROVE  /\ turn' \in [Turns -> TurnRows] /\ turn'[First(Free)].deaths = 0
         /\ turn'[First(Free)].st = "queued" /\ First(Free) \in Turns
         /\ \A u \in Turns \ {First(Free)} : turn'[u] = turn[u]
         /\ \A u \in Turns : turn'[u].deaths <= turn[u].deaths
<1> DEFINE r == [NoTurn EXCEPT !.st = "queued", !.gen = g]
<1>1. r \in TurnRows /\ r.deaths = 0 /\ r.st = "queued"
  BY NewTurn
<1>2. turn' = [turn EXCEPT ![First(Free)] = r] /\ First(Free) \in Turns
  BY FirstFree DEF Enqueue
<1> HIDE DEF r
<1>3. \A u \in Turns : turn[u].deaths \in Nat
  BY CapacityBounds, TypeFacts, RowFields
<1> QED
  BY <1>1, <1>2, <1>3 DEF TypeInv, RowTypes

LEMMA TypeWorkflow ==
  ASSUME TypeInv, WorkflowStep \/ TimerFires
  PROVE  TypeInv'
<1>t. /\ wf \in Workflows /\ wf.gen \in Nat /\ waiter \in WaiterRows
      /\ waiter.gen \in Nat /\ waiter.pending \in BOOLEAN
      /\ turn \in [Turns -> TurnRows] /\ lease \in [Turns -> LeaseRows] /\ goal \in GoalRows
      /\ session \in SessionRows /\ usable \subseteq Creds /\ enabled \subseteq Creds
      /\ edits \in 0 .. MaxEdits /\ sig \in BOOLEAN /\ nudged \in BOOLEAN /\ left \subseteq Turns
  BY TypeFacts, RowFields DEF TypeInv, RowTypes
<1>n. (wf'.pc \notin {"turn", "failure"}) => WorkflowHasAttempt'
  BY DEF WorkflowHasAttempt
<1>1. CASE Claim
  <2> DEFINE d == First(Undispatched)
             t == First(With({"queued"}))
             b == [NoAttempt EXCEPT !.pc = "start", !.turn = t, !.deaths = turn[t].deaths]
             f == [wf EXCEPT !.pc = "turn", !.d = d, !.cap = FALSE, !.que = FALSE]
  <2>1. d \in Dispatches /\ t \in Turns /\ att[d] = NoAttempt
    BY <1>1, FirstUndispatched, FirstQueued DEF Claim
  <2>2. /\ Set(t, "running") /\ SetSession("running", t) /\ nudged' = FALSE
        /\ att' = [att EXCEPT ![d] = b] /\ wf' = f
        /\ UNCHANGED <<pool, goal, lease, waiter, sig, left, raced>>
    BY <1>1 DEF Claim
  <2> HIDE DEF d, t
  <2>3. turn[t].deaths \in Nat
    BY <2>1, <1>t, CapacityBounds, RowFields
  <2>4. b \in Attempts /\ b.pc = "start" /\ b.turn = t
    BY <2>1, <2>3 DEF NoAttempt, Attempts, AttemptPcs
  <2>5. f \in Workflows /\ f.pc = "turn" /\ f.d = d
    BY <1>t, <2>1 DEF Workflows
  <2> HIDE DEF b, f
  <2>6. turn' \in [Turns -> TurnRows]
    BY <2>1, <2>2, SetTypes DEF TurnStates
  <2>7. session' \in SessionRows
    BY <2>1, <2>2, SmallRows DEF SetSession
  <2>8. RowTypes'
    BY <2>1, <2>2, <2>4, <2>5, <2>6, <2>7 DEF TypeInv, RowTypes, pool
  <2>9. AttemptHasTurn'
    BY <2>1, <2>2, <2>4 DEF TypeInv, RowTypes, AttemptHasTurn
  <2>10. WorkflowHasAttempt'
    BY <2>1, <2>2, <2>4, <2>5 DEF TypeInv, RowTypes, WorkflowHasAttempt
  <2> QED
    BY <2>8, <2>9, <2>10 DEF TypeInv
<1>2. CASE ReadWait
  <2>1. wf' \in Workflows /\ wf'.pc \in {"enter", "goal"}
    BY <1>2, <1>t DEF ReadWait, Workflows, NoWorkflow
  <2> QED
    BY <1>2, <1>t, <1>n, <2>1, TypeOfOthers DEF ReadWait, pool, rows, hist
<1>3. CASE EnterWait
  <2>1. wf' \in Workflows /\ wf'.pc = "wait"
    BY <1>3, <1>t, WorkflowEdits DEF EnterWait
  <2> QED
    BY <1>3, <1>t, <1>n, <2>1, TypeOfOthers DEF EnterWait, pool, rows, hist
<1>4. CASE ContinueGoal
  <2>1. wf' \in Workflows /\ wf'.pc = "top"
    BY <1>4, <1>t DEF ContinueGoal, Go, Workflows, NoWorkflow
  <2>2. turn' \in [Turns -> TurnRows]
    BY <1>4, EnqueueTypes, 0 \in Nat DEF ContinueGoal
  <2> QED
    BY <1>4, <1>t, <1>n, <2>1, <2>2, TypeOfOthers DEF ContinueGoal, pool, hist
<1>5. CASE IdleOut
  <2>1. wf' \in Workflows /\ wf'.pc \in {"top", "done"}
    BY <1>5, <1>t, WorkflowEdits DEF IdleOut
  <2>2. session' \in SessionRows
    BY <1>5, <1>t, SmallRows DEF IdleOut, SetSession
  <2> QED
    BY <1>5, <1>t, <1>n, <2>1, <2>2, TypeOfOthers DEF IdleOut, pool, hist
<1>6. CASE RecoverFromDeath
  <2> DEFINE t == att[wf.d].turn
  <2>1. t \in Turns /\ turn[t].deaths < MaxDeaths
    BY <1>6 DEF RecoverFromDeath, At, TypeInv, WorkflowHasAttempt, AttemptHasTurn
  <2>2. wf' \in Workflows /\ wf'.pc \in {"wait", "top"}
    BY <1>6, <1>t DEF RecoverFromDeath, DispatchBaseline, Go, Workflows, NoWorkflow
  <2>3. turn' \in [Turns -> TurnRows]
    <3> DEFINE r == [turn[t] EXCEPT !.st = "queued", !.deaths = @ + 1]
    <3>1. r \in TurnRows
      BY <2>1, <1>t, TurnEdits DEF TurnStates
    <3>2. UNCHANGED turn \/ turn' = [turn EXCEPT ![t] = r]
      BY <1>6 DEF RecoverFromDeath
    <3> HIDE DEF r
    <3> QED
      BY <1>t, <3>1, <3>2
  <2>4. session' \in SessionRows /\ left' \subseteq Turns
    BY <1>6, <1>t, <2>1, SmallRows DEF RecoverFromDeath, SetSession
  <2> QED
    BY <1>6, <1>t, <1>n, <2>2, <2>3, <2>4, TypeOfOthers DEF RecoverFromDeath, pool
<1>7. CASE Check
  <2>1. wf' \in Workflows /\ wf'.pc \in {"top", "checked"}
    BY <1>7, <1>t DEF Check, Go, Workflows, NoWorkflow
  <2>2. CASE UNCHANGED <<turn, session>>
    <3>1. CASE waiter' \in {waiter, [waiter EXCEPT !.status = "superseded", !.pending = FALSE],
                            [waiter EXCEPT !.pending = FALSE]}
      <4>1. waiter' \in WaiterRows
        BY <3>1, <1>t, SmallRows
      <4> QED
        BY <1>7, <1>t, <1>n, <2>1, <2>2, <4>1, TypeOfOthers DEF Check, pool
    <3>2. CASE Resume /\ Free # {}
      <4>1. waiter' \in WaiterRows
        BY <3>2, <1>t, FirstFree, SmallRows DEF Resume
      <4> QED
        BY <1>7, <1>t, <1>n, <2>1, <2>2, <4>1, TypeOfOthers DEF Check, pool
    <3> QED
      BY <1>7, <3>1, <3>2 DEF Check
  <2>3. CASE Resume /\ Free # {}
    <3>1. waiter' \in WaiterRows /\ session' \in SessionRows
      BY <2>3, <1>t, FirstFree, SmallRows DEF Resume, SetSession
    <3>2. turn' \in [Turns -> TurnRows]
      BY <2>3, <1>t, EnqueueTypes DEF Resume
    <3> QED
      BY <1>7, <1>t, <1>n, <2>1, <3>1, <3>2, TypeOfOthers DEF Check, pool
  <2> QED
    BY <1>7, <2>2, <2>3 DEF Check
<1>8. CASE WaitAgain
  <2>1. CASE wf' = FreshBaseline(wf.gen, FALSE)
    <3>1. wf' \in Workflows /\ wf'.pc = "wait"
      BY <1>t, <2>1 DEF FreshBaseline, Workflows
    <3> QED
      BY <1>8, <1>t, <1>n, <3>1, TypeOfOthers DEF WaitAgain, pool, rows, hist
  <2>2. CASE wf' = [NoWorkflow EXCEPT !.pc = "top"]
    BY <1>8, <1>t, <1>n, <2>2, WorkflowEdits, TypeOfOthers DEF WaitAgain, pool, rows, hist
  <2> QED
    BY <1>8, <2>1, <2>2 DEF WaitAgain
<1>9. ASSUME NEW d \in Dispatches, Result(d)
      PROVE  TypeInv'
  <2>1. att[d].wait \in Nat /\ att[d].turn \in Turns
    BY <1>9, TypeFacts, RowFields DEF Result
  <2>2. wf' \in Workflows /\ wf'.pc \in {"wait", "done", "top"}
    BY <1>9, <1>t, <2>1 DEF Result, DispatchBaseline, Workflows, NoWorkflow
  <2> QED
    BY <1>9, <1>t, <1>n, <2>1, <2>2, TypeOfOthers DEF Result, pool, rows
<1>10. CASE TimerFires
  <2>1. wf' \in Workflows /\ wf'.pc = "wait"
    BY <1>10, <1>t DEF TimerFires, At, Workflows, NoWorkflow
  <2> QED
    BY <1>10, <1>t, <1>n, <2>1, TypeOfOthers DEF TimerFires, pool, rows, hist
<1> QED
  BY <1>1, <1>2, <1>3, <1>4, <1>5, <1>6, <1>7, <1>8, <1>9, <1>10 DEF WorkflowStep

LEMMA TypeEnvironment ==
  ASSUME TypeInv, Environment
  PROVE  TypeInv'
<1>t. /\ wf \in Workflows /\ waiter \in WaiterRows /\ waiter.pending \in BOOLEAN
      /\ turn \in [Turns -> TurnRows] /\ lease \in [Turns -> LeaseRows] /\ goal \in GoalRows
      /\ session \in SessionRows /\ usable \subseteq Creds /\ enabled \subseteq Creds
      /\ edits \in 0 .. MaxEdits /\ sig \in BOOLEAN /\ nudged \in BOOLEAN /\ left \subseteq Turns
      /\ WorkflowHasAttempt
  BY TypeFacts, RowFields DEF TypeInv, RowTypes
<1>w. ASSUME UNCHANGED <<wf, att, turn>> PROVE WorkflowHasAttempt'
  BY <1>w, <1>t DEF WorkflowHasAttempt
<1>1. CASE SendMessage
  <2> DEFINE f == [Started EXCEPT !.que = TRUE]
  <2>1. f \in Workflows /\ f.pc = Started.pc /\ f.d = Started.d
    BY StartedTypes, WorkflowEdits
  <2>2. wf' = f /\ UNCHANGED att
    BY <1>1 DEF SendMessage
  <2> HIDE DEF f
  <2>3. turn' \in [Turns -> TurnRows] /\ \A u \in Turns : turn'[u].deaths <= turn[u].deaths
    BY <1>1, EnqueueTypes, 0 \in Nat DEF SendMessage
  <2>4. WorkflowHasAttempt'
    <3>1. \A d \in Dispatches : att[d].pc # "none" => att[d].turn \in Turns
      BY TypeFacts
    <3>2. \A u \in Turns : turn'[u].deaths \in Nat /\ turn[u].deaths \in Nat
      BY <2>3, <1>t, RowFields, CapacityBounds
    <3> QED
      BY <1>t, <2>1, <2>2, <2>3, <3>1, <3>2, StartedTypes, CapacityBounds DEF WorkflowHasAttempt
  <2>5. session' \in SessionRows
    BY <1>1, <1>t, SmallRows DEF SendMessage, SetSession
  <2> QED
    BY <1>1, <1>t, <2>1, <2>2, <2>3, <2>4, <2>5, TypeOfOthers DEF SendMessage, pool, hist
<1>2. CASE SetSessionGoalStatus
  <2>1. goal' \in GoalRows
    BY <1>2, <1>t, RowFields DEF SetSessionGoalStatus, GoalRows
  <2> QED
    BY <1>2, <1>t, <1>w, <2>1, TypeOfOthers DEF SetSessionGoalStatus, pool, hist
<1>3. CASE RepairSignal \/ SignalLost
  BY <1>3, <1>t, <1>w, TypeOfOthers DEF RepairSignal, SignalLost, pool, rows, hist
<1>4. CASE SignalArrives
  <2> DEFINE f == [Started EXCEPT !.cap = TRUE]
  <2>1. f \in Workflows /\ f.pc = Started.pc /\ f.d = Started.d
    BY StartedTypes, WorkflowEdits
  <2>2. wf' = f /\ UNCHANGED <<att, turn>>
    BY <1>4 DEF SignalArrives, rows
  <2> HIDE DEF f
  <2>3. WorkflowHasAttempt'
    BY <1>t, <2>1, <2>2, StartedTypes DEF WorkflowHasAttempt
  <2>4. nudged' \in BOOLEAN
    BY <1>4, <1>t DEF SignalArrives
  <2> QED
    BY <1>4, <1>t, <2>1, <2>2, <2>3, <2>4, TypeOfOthers DEF SignalArrives, pool, rows
<1>5. ASSUME NEW c \in Creds, WindowResets(c)
      PROVE  TypeInv'
  <2>1. usable' \subseteq Creds /\ edits' \in 0 .. MaxEdits
    BY <1>5, <1>t, CapacityBounds DEF WindowResets
  <2> QED
    BY <1>5, <1>t, <1>w, <2>1, TypeOfOthers DEF WindowResets, rows, hist
<1>6. ASSUME NEW c \in Creds, CapacityMutation(c)
      PROVE  TypeInv'
  <2>1. usable' \subseteq Creds /\ enabled' \subseteq Creds
    BY <1>6, <1>t DEF CapacityMutation
  <2>2. edits' \in 0 .. MaxEdits
    BY <1>6, <1>t, CapacityBounds DEF CapacityMutation
  <2>3. waiter' \in WaiterRows /\ sig' \in BOOLEAN
    BY <1>6, <1>t, SmallRows DEF CapacityMutation
  <2> QED
    BY <1>6, <1>t, <1>w, <2>1, <2>2, <2>3, TypeOfOthers DEF CapacityMutation, hist
<1>7. ASSUME NEW t \in Turns, LeaseExpires(t)
      PROVE  TypeInv'
  <2>1. lease' \in [Turns -> LeaseRows]
    BY <1>7, <1>t, SmallRows DEF LeaseExpires
  <2> QED
    BY <1>7, <1>t, <1>w, <2>1, TypeOfOthers DEF LeaseExpires, pool, hist
<1>8. ASSUME NEW d \in Dispatches, HeartbeatTimeout(d)
      PROVE  TypeInv'
  <2>1. wf' \in Workflows /\ wf'.pc = "failure" /\ wf'.d = wf.d
    BY <1>8, <1>t DEF HeartbeatTimeout, Go, Workflows, NoWorkflow
  <2>2. WorkflowHasAttempt'
    BY <1>8, <1>t, <2>1 DEF HeartbeatTimeout, At, WorkflowHasAttempt, rows
  <2> QED
    BY <1>8, <1>t, <2>1, <2>2, TypeOfOthers DEF HeartbeatTimeout, pool, rows, hist
<1> QED
  BY <1>1, <1>2, <1>3, <1>4, <1>5, <1>6, <1>7, <1>8 DEF Environment

LEMMA TypeStep == TypeInv /\ [Next]_vars => TypeInv'
<1> SUFFICES ASSUME TypeInv, [Next]_vars PROVE TypeInv'
  OBVIOUS
<1>1. CASE UNCHANGED vars
  BY <1>1 DEF vars, TypeInv, RowTypes, AttemptHasTurn, WorkflowHasAttempt
<1> QED
  BY <1>1, TypeAttempt, TypeWorkflow, TypeEnvironment DEF Next

-----------------------------------------------------------------------------
(* Signals *)

LEMMA NudgeStep == TypeInv /\ NudgeInv /\ [Next]_vars => NudgeInv'
<1> SUFFICES ASSUME TypeInv, NudgeInv, [Next]_vars PROVE NudgeInv'
  OBVIOUS
<1>t. wf \in Workflows /\ waiter \in WaiterRows
  BY TypeFacts
<1>s. ASSUME UNCHANGED <<nudged, wf, waiter>> PROVE NudgeInv'
  BY <1>s DEF NudgeInv, Waiting
<1>1. ASSUME NEW d \in Dispatches, AttemptStep(d)
      PROVE  NudgeInv'
  <2>1. CASE Validate(d)
    <3>1. UNCHANGED <<nudged, wf>> /\ (waiter' = waiter \/ waiter'.status = "superseded")
      BY <2>1, <1>t DEF Validate, hist, WaiterRows
    <3> QED
      BY <3>1, <1>s DEF NudgeInv, Waiting
  <2>2. CASE Arm(d)
    <3>1. nudged' = FALSE \/ UNCHANGED <<nudged, wf, waiter>>
      BY <2>2 DEF Arm
    <3> QED
      BY <3>1, <1>s DEF NudgeInv
  <2>3. CASE ~ Validate(d) /\ ~ Arm(d)
    <3>1. UNCHANGED <<nudged, wf, waiter>>
      BY <1>1, <2>3
      DEF AttemptStep, Acquire, ReadGoal, FinishCapped, FinishTurn, EndTurn, NoticeLost, Quarantine,
          Failover, SettleLost, hist, rows
    <3> QED
      BY <3>1, <1>s
  <2> QED
    BY <2>1, <2>2, <2>3
<1>2. CASE Claim \/ Check
  <2>1. nudged' = FALSE
    BY <1>2 DEF Claim, Check
  <2> QED
    BY <2>1 DEF NudgeInv
<1>3. CASE ReadWait
  <2>1. wf'.pc \in {"enter", "goal"} /\ (wf'.pc = "enter" => Waiting /\ wf'.due = waiter.pending)
    BY <1>3, <1>t DEF ReadWait, Workflows
  <2> QED
    BY <1>3, <2>1 DEF ReadWait, NudgeInv, Waiting, hist, rows
<1>4. CASE EnterWait
  <2>1. wf'.pc = "wait" /\ wf'.due = wf.due
    BY <1>4, <1>t DEF EnterWait, Workflows
  <2> QED
    BY <1>4, <2>1 DEF EnterWait, At, NudgeInv, Waiting, hist, rows
<1>5. CASE ContinueGoal \/ IdleOut
  <2>1. wf'.pc \in {"top", "done"}
    <3>1. \/ wf' = [wf EXCEPT !.pc = "top"] \/ wf' = [wf EXCEPT !.pc = "top", !.que = FALSE]
          \/ wf' = NoWorkflow
      BY <1>5 DEF ContinueGoal, IdleOut, Go
    <3>2. NoWorkflow.pc = "done"
      BY DEF NoWorkflow
    <3> QED
      BY <3>1, <3>2, <1>t DEF Workflows
  <2> QED
    BY <1>5, <2>1 DEF ContinueGoal, IdleOut, NudgeInv, Waiting, hist
<1>6. CASE RecoverFromDeath \/ \E d \in Dispatches : Result(d)
  <2>1. \/ wf'.pc \in {"top", "done"}
        \/ wf'.pc = "wait" /\ wf'.cap = wf.cap
    <3>1. CASE \E g \in Nat, b \in BOOLEAN : wf' = DispatchBaseline(g, b)
      BY <3>1, <1>t DEF DispatchBaseline, Workflows
    <3>2. CASE wf' = NoWorkflow \/ wf' = [wf EXCEPT !.pc = "top"]
      BY <3>2, <1>t DEF NoWorkflow, Workflows
    <3> QED
      BY <1>6, <3>1, <3>2, TypeFacts, RowFields DEF RecoverFromDeath, Result, Go
  <2> QED
    BY <1>6, <2>1 DEF RecoverFromDeath, Result, At, NudgeInv, Waiting, rows
<1>7. CASE WaitAgain
  BY <1>7 DEF WaitAgain, At, NudgeInv, hist
<1>8. CASE TimerFires
  <2>1. wf'.pc = "wait" /\ wf'.due = TRUE
    BY <1>8, <1>t DEF TimerFires, At, Workflows
  <2> QED
    BY <1>8, <2>1 DEF TimerFires, NudgeInv, Waiting, hist, rows
<1>9. CASE SendMessage
  <2>1. \/ wf'.pc = "top"
        \/ wf'.pc = wf.pc /\ wf'.cap = wf.cap /\ wf'.due = wf.due /\ wf'.que = TRUE
    BY <1>9, <1>t DEF SendMessage, Started, NoWorkflow, Workflows
  <2> QED
    BY <1>9, <2>1 DEF SendMessage, NudgeInv, Waiting, hist
<1>10. CASE SignalArrives
  <2>1. wf'.cap = TRUE /\ (wf'.pc = "top" \/ (wf'.pc = wf.pc /\ wf'.due = wf.due))
    <3>1. \/ wf' = [wf EXCEPT !.cap = TRUE]
          \/ wf' = [[NoWorkflow EXCEPT !.pc = "top"] EXCEPT !.cap = TRUE]
      BY <1>10 DEF SignalArrives, Started
    <3>2. CASE wf' = [wf EXCEPT !.cap = TRUE]
      BY <3>2, <1>t DEF Workflows
    <3>3. CASE wf' = [[NoWorkflow EXCEPT !.pc = "top"] EXCEPT !.cap = TRUE]
      <4> DEFINE f == [NoWorkflow EXCEPT !.pc = "top"]
      <4>1. f \in Workflows /\ f.pc = "top"
        BY <1>t, WorkflowEdits
      <4>2. wf' = [f EXCEPT !.cap = TRUE]
        BY <3>3
      <4> HIDE DEF f
      <4>3. wf'.cap = TRUE
        BY <4>1, <4>2 DEF Workflows
      <4>4. wf'.pc = "top"
        BY <4>1, <4>2 DEF Workflows
      <4> QED
        BY <4>3, <4>4
    <3> QED
      BY <3>1, <3>2, <3>3
  <2>2. UNCHANGED waiter /\ (nudged' => nudged \/ (wf.pc \in {"turn", "failure"} /\ waiter.pending))
    BY <1>10 DEF SignalArrives, rows
  <2> QED
    BY <2>1, <2>2 DEF NudgeInv, Waiting
<1>11. ASSUME NEW c \in Creds, CapacityMutation(c)
       PROVE  NudgeInv'
  <2>1. waiter'.status = waiter.status /\ waiter'.pending = (waiter.pending \/ Waiting)
    BY <1>11, <1>t DEF CapacityMutation, WaiterRows
  <2> QED
    BY <1>11, <2>1 DEF CapacityMutation, NudgeInv, Waiting, hist
<1>12. ASSUME NEW d \in Dispatches, HeartbeatTimeout(d)
       PROVE  NudgeInv'
  <2>1. wf'.pc = "failure" /\ wf'.cap = wf.cap
    BY <1>12, <1>t DEF HeartbeatTimeout, Go, Workflows
  <2> QED
    BY <1>12, <2>1 DEF HeartbeatTimeout, At, NudgeInv, Waiting, hist, rows
<1>13. CASE \/ SetSessionGoalStatus \/ RepairSignal \/ SignalLost \/ UNCHANGED vars
            \/ \E c \in Creds : WindowResets(c)
            \/ \E t \in Turns : LeaseExpires(t)
  <2>1. UNCHANGED <<nudged, wf, waiter>>
    BY <1>13 DEF SetSessionGoalStatus, RepairSignal, SignalLost, WindowResets, LeaseExpires, vars,
                 hist, rows
  <2> QED
    BY <2>1, <1>s
<1> QED
  BY <1>1, <1>2, <1>3, <1>4, <1>5, <1>6, <1>7, <1>8, <1>9, <1>10, <1>11, <1>12, <1>13
  DEF Next, WorkflowStep, Environment

-----------------------------------------------------------------------------
(* What an attempt may do to the turn, the session and itself *)

\* The three ways an attempt writes its turn: not at all, to a settled status, or back to
\* the queue by a failover or the settlement of a lost lease, which are its last steps.
LEMMA AttemptEffect ==
  ASSUME TypeInv, NEW d \in Dispatches, AttemptStep(d)
  PROVE  /\ UNCHANGED <<wf, left>> /\ Live(d) /\ att[d].turn \in Turns
         /\ \E b \in Attempts : /\ att' = [att EXCEPT ![d] = b]
                                /\ b.turn = att[d].turn /\ b.pc # "none"
                                /\ b.pc # "over" => b.deaths = att[d].deaths
         /\ UNCHANGED session \/ session'.active = None
         /\ \A u \in Turns \ {att[d].turn} : turn'[u] = turn[u]
         /\ turn'[att[d].turn].deaths = turn[att[d].turn].deaths
         /\ \/ UNCHANGED turn
            \/ turn'[att[d].turn].st \in {"completed", "failed", "cancelled"}
            \/ /\ turn'[att[d].turn].st = "queued" /\ att'[d].pc = "over"
               /\ FailedOver(d) \/ LossSettles(d)
         /\ raced \subseteq raced'
<1> DEFINE t == att[d].turn
<1>t. /\ att \in [Dispatches -> Attempts] /\ (att[d].pc # "none" => t \in Turns)
      /\ turn \in [Turns -> TurnRows] /\ goal \in GoalRows
      /\ waiter.gen \in Nat /\ waiter.gen + 1 \in Nat /\ goal.version \in Nat
  BY TypeFacts, RowFields DEF TypeInv, RowTypes
<1>p. {"start", "select", "capped", "arm", "idle", "run", "lost", "refused", "over"}
        \subseteq AttemptPcs
  BY DEF AttemptPcs
<1>1. UNCHANGED <<wf, left>> /\ Live(d)
  BY DEF AttemptStep, Validate, Acquire, ReadGoal, Arm, FinishCapped, FinishTurn, EndTurn, NoticeLost,
         Quarantine, Failover, SettleLost, hist, Live
<1>2. t \in Turns
  BY <1>1, <1>t DEF Live
<1>3. UNCHANGED session \/ session'.active = None
  <2>1. \A status : SetSession(status, None) => session'.active = None
    BY DEF SetSession
  <2>2. CASE Validate(d) \/ Arm(d) \/ FinishCapped(d) \/ FinishTurn(d)
    BY <2>1, <2>2 DEF Validate, Arm, FinishCapped, FinishTurn, EndTurn
  <2>3. CASE Acquire(d) \/ ReadGoal(d) \/ NoticeLost(d) \/ Quarantine(d)
    BY <2>3 DEF Acquire, ReadGoal, NoticeLost, Quarantine, rows
  <2>4. CASE Failover(d) \/ SettleLost(d)
    BY <2>1, <2>4 DEF Failover, Requeue, SettleLost
  <2> QED
    BY <2>2, <2>3, <2>4 DEF AttemptStep
<1>4. raced \subseteq raced'
  BY DEF AttemptStep, Validate, Acquire, ReadGoal, Arm, FinishCapped, FinishTurn, EndTurn, NoticeLost,
         Quarantine, Failover, Requeue, FailedOver, SettleLost, hist
<1>5. ASSUME NEW st \in TurnStates, Set(t, st)
      PROVE  /\ \A u \in Turns \ {t} : turn'[u] = turn[u]
             /\ turn'[t].deaths = turn[t].deaths /\ turn'[t].st = st
  <2> DEFINE r == [turn[t] EXCEPT !.st = st]
  <2>1. r.deaths = turn[t].deaths /\ r.st = st
    BY <1>2, <1>t, TurnEdits
  <2>2. turn' = [turn EXCEPT ![t] = r]
    BY <1>5 DEF Set
  <2> HIDE DEF r
  <2> QED
    BY <1>2, <1>t, <2>1, <2>2
<1>6. ASSUME NEW b \in Attempts, att' = [att EXCEPT ![d] = b]
      PROVE  att'[d] = b
  BY <1>6, <1>t
<1>7. CASE \/ Acquire(d) \/ ReadGoal(d) \/ NoticeLost(d) \/ Quarantine(d)
  <2>1. UNCHANGED turn
    BY <1>7 DEF Acquire, ReadGoal, NoticeLost, Quarantine, rows
  <2>2. CASE \E pc \in {"capped", "lost", "refused"} : AttPc(d, pc)
    BY <1>1, <1>2, <1>3, <1>4, <1>p, <2>1, <2>2, AttemptWrites
  <2>3. CASE ReadGoal(d)
    <3> DEFINE v == IF goal.on THEN goal.version ELSE 0
               p == IF goal.on THEN "arm" ELSE "idle"
               b == [att[d] EXCEPT !.version = v, !.pc = p]
    <3>1. v \in Nat /\ p \in {"arm", "idle"}
      BY <1>t
    <3>2. att' = [att EXCEPT ![d] = b]
      BY <2>3 DEF ReadGoal
    <3> HIDE DEF v, p
    <3>3. b \in Attempts /\ b.pc = p /\ b.turn = t /\ b.deaths = att[d].deaths
      BY <1>t, <3>1 DEF Attempts, AttemptPcs
    <3> HIDE DEF b
    <3> QED
      BY <1>1, <1>2, <1>3, <1>4, <2>1, <3>1, <3>2, <3>3
  <2>4. CASE Acquire(d) /\ Selectable(t) # {}
    <3>1. PICK c \in Selectable(t), g \in Nat :
            att' = [att EXCEPT ![d].pc = "run", ![d].cred = c, ![d].gen = g]
      <4>1. lease[t].gen \in Nat /\ lease[t].gen + 1 \in Nat
        BY <1>2, TypeFacts, RowFields
      <4> QED
        BY <2>4, <4>1 DEF Acquire
    <3>2. c \in Creds
      BY <3>1, <1>2, TypeFacts, RowFields DEF Selectable, Eligible, TypeInv, RowTypes
    <3> DEFINE b == [att[d] EXCEPT !.pc = "run", !.cred = c, !.gen = g]
    <3>3. b \in Attempts /\ b.pc = "run" /\ b.turn = t /\ b.deaths = att[d].deaths
      BY <1>t, <3>1, <3>2 DEF Attempts, AttemptPcs
    <3>4. att' = [att EXCEPT ![d] = b]
      BY <3>1
    <3> HIDE DEF b
    <3> QED
      BY <1>1, <1>2, <1>3, <1>4, <2>1, <3>3, <3>4
  <2> QED
    BY <1>7, <2>2, <2>3, <2>4 DEF Acquire, NoticeLost, Quarantine
<1>8. CASE Validate(d)
  <2>1. CASE AttPc(d, "select") /\ UNCHANGED turn
    BY <1>1, <1>2, <1>3, <1>4, <1>p, <2>1, AttemptWrites
  <2>2. CASE Ends(d, "cancelled") /\ (UNCHANGED turn \/ Set(t, "cancelled"))
    <3>1. att' = [att EXCEPT ![d] = Ended(d, "cancelled")]
      BY <2>2, AttemptWrites
    <3>2. \/ UNCHANGED turn
          \/ /\ \A u \in Turns \ {t} : turn'[u] = turn[u]
             /\ turn'[t].deaths = turn[t].deaths /\ turn'[t].st = "cancelled"
      BY <1>5, <2>2 DEF TurnStates
    <3> QED
      BY <1>1, <1>2, <1>3, <1>4, <3>1, <3>2, AttemptWrites
  <2> QED
    BY <1>8, <2>1, <2>2 DEF Validate
<1>9. CASE Arm(d)
  <2>1. CASE AttPc(d, "idle") /\ UNCHANGED turn
    BY <1>1, <1>2, <1>3, <1>4, <1>p, <2>1, AttemptWrites
  <2>2. CASE (\E g \in Nat : EndsWaiting(d, g)) /\ (UNCHANGED turn \/ Set(t, "failed"))
    <3>1. PICK g \in Nat : EndsWaiting(d, g)
      BY <2>2
    <3>2. att' = [att EXCEPT ![d] = EndedWaiting(d, g)]
      BY <3>1, AttemptWrites
    <3>3. \/ UNCHANGED turn
          \/ /\ \A u \in Turns \ {t} : turn'[u] = turn[u]
             /\ turn'[t].deaths = turn[t].deaths /\ turn'[t].st = "failed"
      BY <1>5, <2>2 DEF TurnStates
    <3>4. /\ EndedWaiting(d, g) \in Attempts /\ EndedWaiting(d, g).pc = "over"
          /\ EndedWaiting(d, g).turn = t
      BY <3>1, AttemptWrites
    <3> QED
      BY <1>1, <1>2, <1>3, <1>4, <3>2, <3>3, <3>4
  <2> QED
    BY <1>9, <1>t, <2>1, <2>2 DEF Arm
<1>10. CASE FinishCapped(d) \/ FinishTurn(d)
  <2>1. Ends(d, "idle") /\ \E st \in {"completed", "failed"} : Set(t, st)
    BY <1>10 DEF FinishCapped, FinishTurn, EndTurn
  <2>2. att' = [att EXCEPT ![d] = Ended(d, "idle")]
    BY <2>1, AttemptWrites
  <2> QED
    BY <1>1, <1>2, <1>3, <1>4, <1>5, <2>1, <2>2, AttemptWrites DEF TurnStates
<1>11. CASE Failover(d)
  <2>1. CASE (\E pc \in {"capped", "lost", "idle"} : AttPc(d, pc)) /\ UNCHANGED turn
    BY <1>1, <1>2, <1>3, <1>4, <1>p, <2>1, AttemptWrites
  <2>2. CASE Requeue(d)
    <3> DEFINE r == [turn[t] EXCEPT !.st = "queued", !.moves = @ + 1]
    <3>1. r.st = "queued" /\ r.deaths = turn[t].deaths
      <4>1. turn[t] \in TurnRows
        BY <1>2, <1>t
      <4> QED
        BY <4>1 DEF TurnRows
    <3>2. turn' = [turn EXCEPT ![t] = r] /\ FailedOver(d) /\ Ends(d, "preempted")
      BY <2>2 DEF Requeue
    <3> HIDE DEF r
    <3>3. att' = [att EXCEPT ![d] = Ended(d, "preempted")]
      BY <3>2, AttemptWrites
    <3> QED
      BY <1>1, <1>2, <1>3, <1>4, <1>6, <1>t, <3>1, <3>2, <3>3, AttemptWrites
  <2> QED
    BY <1>11, <2>1, <2>2 DEF Failover
<1>12. CASE SettleLost(d)
  <2>1. CASE (\E r \in {"preempted", "failed"} : Ends(d, r)) /\ (UNCHANGED turn \/ Set(t, "failed"))
    BY <1>1, <1>2, <1>3, <1>4, <1>5, <2>1, AttemptWrites DEF TurnStates
  <2>2. CASE Ends(d, "preempted") /\ Set(t, "queued") /\ LossSettles(d)
    <3>1. att' = [att EXCEPT ![d] = Ended(d, "preempted")]
      BY <2>2, AttemptWrites
    <3> QED
      BY <1>1, <1>2, <1>3, <1>4, <1>5, <1>6, <2>2, <3>1, AttemptWrites DEF TurnStates
  <2> QED
    BY <1>12, <2>1, <2>2 DEF SettleLost
<1> QED
  BY <1>7, <1>8, <1>9, <1>10, <1>11, <1>12 DEF AttemptStep

-----------------------------------------------------------------------------
(* The goal's continuation *)

LEMMA ContinueStep == TypeInv /\ ContinueInv /\ [Next]_vars => ContinueInv'
<1> SUFFICES ASSUME TypeInv, ContinueInv, [Next]_vars PROVE ContinueInv'
  OBVIOUS
<1>t. /\ wf \in Workflows /\ waiter \in WaiterRows /\ session \in SessionRows
      /\ turn \in [Turns -> TurnRows] /\ att \in [Dispatches -> Attempts]
      /\ \A d \in Dispatches : att[d].pc # "none" => att[d].turn \in Turns
      /\ wf.pc \in {"turn", "failure"} => wf.d \in Dispatches /\ att[wf.d].pc # "none"
      /\ session.active \in {None} \cup Turns
  BY TypeFacts, RowFields DEF TypeInv, RowTypes, WorkflowHasAttempt
\* A step beside the workflow that sets no turn running and makes no other turn active.
<1>s. ASSUME UNCHANGED <<wf, left>>, \A d \in Dispatches : att'[d].turn = att[d].turn,
             session'.active \in {None, session.active},
             \A t \in Turns : turn'[t].st = "running" => turn[t].st = "running",
             (wf.pc = "goal" /\ Waiting') => (Waiting /\ waiter'.turn = waiter.turn) \/ waiter'.turn \in left
      PROVE  ContinueInv'
  BY <1>s, <1>t DEF ContinueInv
\* A step of the workflow that leaves the active turn alone, or makes it stop running.
<1>w. ASSUME wf'.pc \notin {"turn", "failure", "goal"}, left \subseteq left',
             session'.active \in {None, session.active},
             \A t \in Turns : turn'[t].st = "running" => turn[t].st = "running",
             wf.pc \in {"turn", "failure"} =>
               \/ session'.active = None \/ att[wf.d].turn \in left'
               \/ turn'[att[wf.d].turn].st # "running"
      PROVE  ContinueInv'
  BY <1>w, <1>t DEF ContinueInv
<1>1. ASSUME NEW d \in Dispatches, AttemptStep(d)
      PROVE  ContinueInv'
  <2>1. \A e \in Dispatches : att'[e].turn = att[e].turn
    BY <1>1, <1>t, AttemptEffect
  <2>2. /\ UNCHANGED <<wf, left>> /\ session'.active \in {None, session.active}
        /\ \A t \in Turns : turn'[t].st = "running" => turn[t].st = "running"
    BY <1>1, AttemptEffect
  <2>3. (wf.pc = "goal" /\ Waiting') => (Waiting /\ waiter'.turn = waiter.turn) \/ waiter'.turn \in left
    <3>1. CASE Arm(d)
      <4>1. CASE UNCHANGED waiter
        BY <4>1 DEF Waiting
      <4>2. CASE ArmFenced(d) /\ waiter'.turn = att[d].turn
        <5>1. turn[att[d].turn].st = "running" /\ session.active = att[d].turn
          BY <4>2 DEF ArmFenced, Current
        <5>2. att[d].turn # None
          BY <1>1, AttemptEffect, CapacityBounds
        <5> QED
          BY <4>2, <5>1, <5>2 DEF ContinueInv
      <4> QED
        BY <3>1, <4>1, <4>2 DEF Arm
    <3>2. CASE Validate(d)
      <4>1. waiter' = waiter \/ waiter'.status = "superseded"
        BY <3>2, <1>t DEF Validate, WaiterRows
      <4> QED
        BY <4>1 DEF Waiting
    <3>3. CASE ~ Arm(d) /\ ~ Validate(d)
      <4>1. UNCHANGED waiter
        BY <1>1, <3>3
        DEF AttemptStep, Acquire, ReadGoal, FinishCapped, FinishTurn, EndTurn, NoticeLost, Quarantine,
            Failover, SettleLost, rows
      <4> QED
        BY <4>1 DEF Waiting
    <3> QED
      BY <3>1, <3>2, <3>3
  <2> QED
    BY <2>1, <2>2, <2>3, <1>s
<1>2. CASE Claim
  <2> DEFINE d == First(Undispatched)
             t == First(With({"queued"}))
             b == [NoAttempt EXCEPT !.pc = "start", !.turn = t, !.deaths = turn[t].deaths]
             f == [wf EXCEPT !.pc = "turn", !.d = d, !.cap = FALSE, !.que = FALSE]
  <2>1. d \in Dispatches /\ t \in Turns
    BY <1>2, FirstUndispatched, FirstQueued DEF Claim
  <2>2. SetSession("running", t) /\ att' = [att EXCEPT ![d] = b] /\ wf' = f
    BY <1>2 DEF Claim
  <2> HIDE DEF d, t
  <2>3. b.turn = t
    BY DEF NoAttempt
  <2>4. f.pc = "turn" /\ f.d = d
    BY <1>t DEF Workflows
  <2> HIDE DEF b, f
  <2>5. session'.active = att'[wf'.d].turn /\ wf'.pc = "turn"
    BY <1>t, <2>1, <2>2, <2>3, <2>4 DEF SetSession
  <2> QED
    BY <2>5 DEF ContinueInv
<1>3. CASE ReadWait
  <2>1. wf'.pc \in {"enter", "goal"} /\ (wf'.pc = "goal" => ~ Waiting)
    BY <1>3, <1>t DEF ReadWait, Workflows
  <2> QED
    BY <1>3, <1>t, <2>1 DEF ReadWait, At, ContinueInv, Waiting, hist, rows
<1>4. CASE EnterWait \/ WaitAgain \/ TimerFires
  <2>1. wf'.pc \in {"wait", "top"}
    <3>1. CASE EnterWait
      BY <3>1, <1>t DEF EnterWait, Workflows
    <3>2. CASE WaitAgain
      <4>1. CASE wf' = FreshBaseline(wf.gen, FALSE)
        BY <4>1, <1>t DEF FreshBaseline, Workflows
      <4>2. CASE wf' = [NoWorkflow EXCEPT !.pc = "top"]
        BY <4>2 DEF NoWorkflow
      <4> QED
        BY <3>2, <4>1, <4>2 DEF WaitAgain
    <3>3. CASE TimerFires
      BY <3>3, <1>t DEF TimerFires, At, Workflows
    <3> QED
      BY <1>4, <3>1, <3>2, <3>3
  <2>2. wf.pc \notin {"turn", "failure"} /\ UNCHANGED <<left, session, turn>>
    BY <1>4 DEF EnterWait, WaitAgain, TimerFires, At, hist, rows
  <2> QED
    BY <2>1, <2>2, <1>w
<1>5. CASE ContinueGoal
  <2>1. wf'.pc = "top"
    BY <1>5, <1>t DEF ContinueGoal, Go, Workflows
  <2>2. \A t \in Turns : turn'[t].st = "running" => turn[t].st = "running"
    BY <1>5, EnqueueTypes, 0 \in Nat DEF ContinueGoal
  <2> QED
    BY <1>5, <2>1, <2>2, <1>w DEF ContinueGoal, At, hist
<1>6. CASE IdleOut
  <2>1. wf'.pc \in {"top", "done"}
    <3>1. wf' = [wf EXCEPT !.pc = "top", !.que = FALSE] \/ wf' = NoWorkflow
      BY <1>6 DEF IdleOut
    <3>2. NoWorkflow.pc = "done"
      BY DEF NoWorkflow
    <3> QED
      BY <3>1, <3>2, <1>t DEF Workflows
  <2>2. session'.active \in {None, session.active}
    BY <1>6 DEF IdleOut, SetSession
  <2> QED
    BY <1>6, <2>1, <2>2, <1>w DEF IdleOut, At, hist
<1>7. CASE RecoverFromDeath
  <2> DEFINE t == att[wf.d].turn
  <2>0. t \in Turns
    BY <1>7, <1>t DEF RecoverFromDeath, At
  <2>1. wf'.pc \in {"wait", "top"}
    BY <1>7, <1>t, TypeFacts, RowFields DEF RecoverFromDeath, DispatchBaseline, Go, Workflows
  <2>2. CASE Waiting
    <3>1. left' = left \cup ({t} \cap With({"running"})) /\ UNCHANGED <<turn, session>>
      BY <1>7, <2>2 DEF RecoverFromDeath
    <3> QED
      BY <2>0, <2>1, <3>1, <1>w DEF With
  <2>3. CASE ~ Waiting /\ turn[t].st \in {"running", "cancelled"}
    <3>1. turn' = [turn EXCEPT ![t].st = "queued", ![t].deaths = @ + 1]
      BY <1>7, <2>3 DEF RecoverFromDeath
    <3>2. session'.active = None /\ UNCHANGED left
      BY <1>7, <2>3 DEF RecoverFromDeath, SetSession
    <3>3. \A u \in Turns : turn'[u].st = "running" => turn[u].st = "running"
      <4> DEFINE r == [turn[t] EXCEPT !.st = "queued", !.deaths = @ + 1]
      <4>1. r.st = "queued"
        BY <2>0, <1>t DEF TurnRows
      <4>2. turn' = [turn EXCEPT ![t] = r]
        BY <3>1
      <4> HIDE DEF r
      <4> QED
        BY <1>t, <4>1, <4>2
    <3> QED
      BY <2>1, <3>2, <3>3, <1>w
  <2>4. CASE ~ Waiting /\ turn[t].st \notin {"running", "cancelled"}
    <3>1. UNCHANGED <<turn, session, left>>
      BY <1>7, <2>4 DEF RecoverFromDeath
    <3> QED
      BY <2>1, <2>4, <3>1, <1>w
  <2> QED
    BY <2>2, <2>3, <2>4
<1>8. CASE Check
  <2>1. wf'.pc \in {"top", "checked"}
    BY <1>8, <1>t DEF Check, Go, Workflows
  <2>2. session'.active \in {None, session.active}
    BY <1>8 DEF Check, Resume, SetSession
  <2>3. \A t \in Turns : turn'[t].st = "running" => turn[t].st = "running"
    <3>1. waiter.gen \in Nat
      BY TypeFacts, RowFields
    <3>2. CASE UNCHANGED turn
      BY <3>2
    <3>3. CASE Free # {} /\ Enqueue(waiter.gen)
      BY <3>1, <3>3, EnqueueTypes
    <3> QED
      BY <1>8, <3>2, <3>3 DEF Check, Resume
  <2> QED
    BY <1>8, <2>1, <2>2, <2>3, <1>w DEF Check, At
<1>9. ASSUME NEW d \in Dispatches, Result(d)
      PROVE  ContinueInv'
  <2>1. wf'.pc \in {"wait", "top", "done"}
    BY <1>9, <1>t, TypeFacts, RowFields DEF Result, DispatchBaseline, NoWorkflow, Workflows
  <2>2. /\ left' = left \cup ({att[d].turn} \cap With({"running"})) /\ UNCHANGED <<turn, session>>
        /\ wf.d = d /\ att[d].turn \in Turns
    BY <1>9, <1>t DEF Result, rows
  <2> QED
    BY <2>1, <2>2, <1>w DEF With
<1>10. CASE SendMessage
  <2>1. \A t \in Turns : turn'[t].st = "running" => turn[t].st = "running"
    BY <1>10, EnqueueTypes, 0 \in Nat DEF SendMessage
  <2>2. session'.active \in {None, session.active} /\ UNCHANGED <<att, left, waiter>>
    BY <1>10 DEF SendMessage, SetSession, hist
  <2>3. (wf'.pc = wf.pc /\ wf'.d = wf.d) \/ (wf.pc = "done" /\ wf'.pc = "top")
    BY <1>10, StartedTypes, <1>t DEF SendMessage, Started, Workflows, NoWorkflow
  <2> QED
    BY <2>1, <2>2, <2>3, <1>t DEF ContinueInv, Waiting
<1>11. CASE SignalArrives
  <2>1. UNCHANGED <<turn, session, att, left, waiter>>
    BY <1>11 DEF SignalArrives, rows
  <2>2. (wf'.pc = wf.pc /\ wf'.d = wf.d) \/ (wf.pc = "done" /\ wf'.pc = "top")
    BY <1>11, StartedTypes, <1>t DEF SignalArrives, Started, Workflows, NoWorkflow
  <2> QED
    BY <2>1, <2>2, <1>t DEF ContinueInv, Waiting
<1>12. ASSUME NEW d \in Dispatches, HeartbeatTimeout(d)
       PROVE  ContinueInv'
  <2>1. wf'.pc = "failure" /\ wf'.d = wf.d
    BY <1>12, <1>t DEF HeartbeatTimeout, Go, Workflows
  <2> QED
    BY <1>12, <2>1 DEF HeartbeatTimeout, At, ContinueInv, Waiting, hist, rows
<1>13. CASE \/ SetSessionGoalStatus \/ RepairSignal \/ SignalLost \/ UNCHANGED vars
            \/ \E c \in Creds : WindowResets(c) \/ CapacityMutation(c)
            \/ \E t \in Turns : LeaseExpires(t)
  <2>1. UNCHANGED <<wf, left, att, session, turn>>
    BY <1>13 DEF SetSessionGoalStatus, RepairSignal, SignalLost, WindowResets, CapacityMutation,
                 LeaseExpires, vars, hist, rows
  <2>2. waiter'.status = waiter.status /\ waiter'.turn = waiter.turn
    <3>1. UNCHANGED waiter \/ waiter' = [waiter EXCEPT !.pending = @ \/ Waiting]
      BY <1>13 DEF SetSessionGoalStatus, RepairSignal, SignalLost, WindowResets, CapacityMutation,
                   LeaseExpires, vars, rows
    <3> QED
      BY <3>1, <1>t DEF WaiterRows
  <2> QED
    BY <2>1, <2>2, <1>s DEF Waiting
<1> QED
  BY <1>1, <1>2, <1>3, <1>4, <1>5, <1>6, <1>7, <1>8, <1>9, <1>10, <1>11, <1>12, <1>13
  DEF Next, WorkflowStep, Environment

-----------------------------------------------------------------------------
(* The fence of a lost lease *)

LEMMA FenceStep == TypeInv /\ FenceInv /\ [Next]_vars => FenceInv'
<1> SUFFICES ASSUME TypeInv, FenceInv, [Next]_vars PROVE FenceInv'
  OBVIOUS
<1>t. /\ turn \in [Turns -> TurnRows] /\ att \in [Dispatches -> Attempts]
      /\ \A d \in Dispatches : att[d].pc # "none" => att[d].turn \in Turns
      /\ \A d \in Dispatches : att[d].pc = "none" <=> att[d] = NoAttempt
      /\ \A d \in Dispatches : att[d].deaths \in Nat /\ d \in Nat
      /\ \A t \in Turns : turn[t].deaths \in Nat /\ t # None
  <2>1. \A d \in Dispatches : att[d].pc = "none" <=> att[d] = NoAttempt
    BY DEF TypeInv, AttemptHasTurn, NoAttempt
  <2> QED
    BY <2>1, TypeFacts, RowFields, CapacityBounds DEF TypeInv, RowTypes
<1>s. ASSUME UNCHANGED <<turn, att, raced>> PROVE FenceInv'
  BY <1>s DEF FenceInv, DispatchedInOrder, DeathsOnlyGrow, SuccessorsCounted, QueuedCounted, Live
<1>1. ASSUME NEW d \in Dispatches, AttemptStep(d)
      PROVE  FenceInv'
  <2> DEFINE t == att[d].turn
  <2>1. /\ Live(d) /\ t \in Turns /\ raced \subseteq raced'
        /\ \A u \in Turns \ {t} : turn'[u] = turn[u]
        /\ turn'[t].deaths = turn[t].deaths
        /\ \/ UNCHANGED turn
           \/ turn'[t].st \in {"completed", "failed", "cancelled"}
           \/ turn'[t].st = "queued" /\ att'[d].pc = "over" /\ (FailedOver(d) \/ LossSettles(d))
    BY <1>1, AttemptEffect
  <2>2. \A e \in Dispatches :
          /\ att'[e].turn = att[e].turn /\ (e # d => att'[e] = att[e])
          /\ att'[e].pc = "none" <=> att[e].pc = "none"
          /\ Live(e)' => Live(e) /\ att'[e].deaths = att[e].deaths
    <3>1. PICK b \in Attempts : /\ att' = [att EXCEPT ![d] = b]
                                /\ b.turn = att[d].turn /\ b.pc # "none"
                                /\ b.pc # "over" => b.deaths = att[d].deaths
      BY <1>1, AttemptEffect
    <3> QED
      BY <3>1, <2>1, <1>t DEF Live
  <2>3. \A u \in Turns : turn'[u].deaths = turn[u].deaths
    BY <2>1
  <2>4. \A e \in Dispatches : Live(e) => att[e].turn \in Turns
    BY <1>t DEF Live
  <2>5. DispatchedInOrder'
    <3>1. \A u \in Turns : turn[u].st # "none" => turn'[u].st # "none"
      BY <2>1
    <3> QED
      BY <2>2, <3>1, <1>t DEF FenceInv, DispatchedInOrder
  <2>6. DeathsOnlyGrow'
    BY <2>2, <2>3, <2>4 DEF FenceInv, DeathsOnlyGrow
  <2>7. SuccessorsCounted'
    BY <2>1, <2>2, <2>3, <2>4 DEF FenceInv, SuccessorsCounted
  <2>8. QueuedCounted'
    <3> SUFFICES ASSUME NEW e \in Dispatches, Live(e)', turn'[att[e].turn].st = "queued",
                        att[e].turn \notin raced'
                 PROVE  att[e].deaths < turn[att[e].turn].deaths
      BY <2>2, <2>3, <2>4 DEF QueuedCounted
    <3>1. Live(e) /\ att[e].turn \in Turns /\ att[e].turn \notin raced
      BY <2>1, <2>2, <2>4
    <3>2. CASE turn'[att[e].turn] = turn[att[e].turn]
      BY <3>1, <3>2 DEF FenceInv, QueuedCounted
    <3>3. CASE turn'[att[e].turn] # turn[att[e].turn]
      <4>1. att[e].turn = t /\ att'[d].pc = "over" /\ (FailedOver(d) \/ LossSettles(d))
        BY <2>1, <3>1, <3>3
      <4>2. e # d
        BY <4>1 DEF Live
      <4>3. CASE e < d
        BY <3>1, <4>1, <4>3 DEF FenceInv, SuccessorsCounted
      <4>4. CASE d < e
        <5>1. ~ FailedOver(d)
          BY <4>1, <4>4, <1>t DEF FailedOver, HasSuccessor
        <5>2. att[d].deaths < turn[t].deaths
          BY <2>1, <3>1, <4>1, <4>4 DEF FenceInv, SuccessorsCounted
        <5>3. turn[t].deaths = att[d].deaths
          BY <4>1, <5>1 DEF LossSettles
        <5> QED
          BY <5>2, <5>3, <1>t, <2>1
      <4> QED
        BY <4>2, <4>3, <4>4, <1>t
    <3> QED
      BY <3>2, <3>3
  <2> QED
    BY <2>5, <2>6, <2>7, <2>8 DEF FenceInv
<1>2. CASE Claim
  <2> DEFINE d == First(Undispatched)
             t == First(With({"queued"}))
             b == [NoAttempt EXCEPT !.pc = "start", !.turn = t, !.deaths = turn[t].deaths]
             r == [turn[t] EXCEPT !.st = "running"]
  <2>1. /\ d \in Dispatches /\ t \in Turns /\ att[d] = NoAttempt /\ turn[t].st = "queued"
        /\ \A e \in Dispatches : e < d => att[e] # NoAttempt
    BY <1>2, FirstUndispatched, FirstQueued DEF Claim
  <2>2. att' = [att EXCEPT ![d] = b] /\ turn' = [turn EXCEPT ![t] = r] /\ UNCHANGED raced
    BY <1>2 DEF Claim, Set
  <2> HIDE DEF d, t
  <2>3. b.turn = t /\ b.pc = "start" /\ b.deaths = turn[t].deaths
    BY DEF NoAttempt
  <2>4. r.st = "running" /\ r.deaths = turn[t].deaths
    BY <1>t, <2>1 DEF TurnRows
  <2> HIDE DEF b, r
  <2>5. \A e \in Dispatches : e # d => att'[e] = att[e]
    BY <1>t, <2>2
  <2>6. att'[d].turn = t /\ att'[d].pc = "start" /\ att'[d].deaths = turn[t].deaths
    BY <1>t, <2>1, <2>2, <2>3
  <2>7. \A u \in Turns : turn'[u].deaths = turn[u].deaths /\ (u # t => turn'[u] = turn[u])
    BY <1>t, <2>2, <2>4
  <2>8. turn'[t].st = "running"
    BY <1>t, <2>1, <2>2, <2>4
  <2>9. \A e \in Dispatches : d <= e => att[e].pc = "none"
    <3> TAKE e \in Dispatches
    <3>1. att[d].pc = "none"
      BY <2>1, <1>t
    <3> QED
      BY <3>1, <2>1, <1>t DEF FenceInv, DispatchedInOrder
  <2>10. DispatchedInOrder'
    <3>1. \A e, g \in Dispatches : e < g /\ att'[e].pc = "none" => att'[g].pc = "none"
      BY <1>t, <2>1, <2>5, <2>6, <2>9 DEF FenceInv, DispatchedInOrder
    <3>2. \A e \in Dispatches : att'[e].pc # "none" => turn'[att'[e].turn].st # "none"
      BY <1>t, <2>1, <2>5, <2>6, <2>7, <2>8 DEF FenceInv, DispatchedInOrder
    <3> QED
      BY <3>1, <3>2 DEF DispatchedInOrder
  <2>11. \A e \in Dispatches \ {d} : Live(e)' => Live(e) /\ att'[e] = att[e] /\ att[e].turn \in Turns
    BY <1>t, <2>5 DEF Live
  <2>12. DeathsOnlyGrow'
    BY <1>t, <2>1, <2>6, <2>7, <2>11 DEF FenceInv, DeathsOnlyGrow
  <2>13. SuccessorsCounted'
    <3> SUFFICES ASSUME NEW e \in Dispatches, NEW g \in Dispatches, Live(e)', e < g,
                        att'[g].turn = att'[e].turn, att'[e].turn \notin raced
                 PROVE  att'[e].deaths < turn'[att'[e].turn].deaths
      BY <2>2 DEF SuccessorsCounted
    <3>1. att'[e].turn \in Turns
      BY <2>1, <2>6, <2>11
    <3>2. e # d
      <4>1. SUFFICES ASSUME e = d PROVE FALSE
        OBVIOUS
      <4>2. att'[g] = NoAttempt
        BY <4>1, <1>t, <2>5, <2>9
      <4> QED
        BY <4>2, <3>1, <1>t DEF NoAttempt
    <3>3. Live(e) /\ att'[e] = att[e]
      BY <3>2, <2>11
    <3>4. CASE g = d
      BY <3>1, <3>3, <3>4, <2>1, <2>6, <2>7 DEF FenceInv, QueuedCounted
    <3>5. CASE g # d
      BY <3>1, <3>3, <3>5, <2>5, <2>7 DEF FenceInv, SuccessorsCounted
    <3> QED
      BY <3>4, <3>5
  <2>14. QueuedCounted'
    <3> SUFFICES ASSUME NEW e \in Dispatches, Live(e)', turn'[att'[e].turn].st = "queued",
                        att'[e].turn \notin raced
                 PROVE  att'[e].deaths < turn'[att'[e].turn].deaths
      BY <2>2 DEF QueuedCounted
    <3>1. e # d /\ att'[e].turn # t
      BY <2>6, <2>8
    <3> QED
      BY <3>1, <2>7, <2>11 DEF FenceInv, QueuedCounted
  <2> QED
    BY <2>10, <2>12, <2>13, <2>14 DEF FenceInv
<1>3. CASE RecoverFromDeath
  <2> DEFINE t == att[wf.d].turn
             r == [turn[t] EXCEPT !.st = "queued", !.deaths = @ + 1]
  <2>1. UNCHANGED <<att, raced>> /\ t \in Turns
    BY <1>3, <1>t DEF RecoverFromDeath, At, TypeInv, WorkflowHasAttempt
  <2>2. CASE UNCHANGED turn
    BY <2>1, <2>2, <1>s
  <2>3. CASE turn' = [turn EXCEPT ![t] = r]
    <3>1. r.st = "queued" /\ r.deaths = turn[t].deaths + 1
      <4>1. turn[t] \in TurnRows
        BY <1>t, <2>1
      <4> QED
        BY <4>1 DEF TurnRows
    <3> HIDE DEF r
    <3>2. /\ \A u \in Turns \ {t} : turn'[u] = turn[u]
          /\ turn'[t].st = "queued" /\ turn'[t].deaths = turn[t].deaths + 1
      BY <1>t, <2>1, <2>3, <3>1
    <3> HIDE DEF t
    <3>3. \A u \in Turns : turn[u].deaths <= turn'[u].deaths
      BY <1>t, <2>1, <3>2
    <3>4. \A u \in Turns : turn'[u].deaths \in Nat
      BY <1>t, <2>1, <3>2
    <3>5. \A e \in Dispatches : Live(e)' <=> Live(e)
      BY <2>1 DEF Live
    <3>6. \A e \in Dispatches : Live(e) => att[e].turn \in Turns
      BY <1>t DEF Live
    <3>7. DispatchedInOrder'
      BY <1>t, <2>1, <3>2 DEF FenceInv, DispatchedInOrder
    <3>8. DeathsOnlyGrow'
      BY <1>t, <2>1, <3>3, <3>4, <3>5, <3>6 DEF FenceInv, DeathsOnlyGrow
    <3>9. SuccessorsCounted'
      BY <1>t, <2>1, <3>3, <3>4, <3>5, <3>6 DEF FenceInv, SuccessorsCounted
    <3>10. QueuedCounted'
      <4> SUFFICES ASSUME NEW e \in Dispatches, Live(e), turn'[att[e].turn].st = "queued",
                          att[e].turn \notin raced
                   PROVE  att[e].deaths < turn'[att[e].turn].deaths
        BY <2>1, <3>5 DEF QueuedCounted
      <4>1. CASE att[e].turn = t
        BY <4>1, <1>t, <2>1, <3>2 DEF FenceInv, DeathsOnlyGrow
      <4>2. CASE att[e].turn # t
        BY <4>2, <3>2, <3>6 DEF FenceInv, QueuedCounted
      <4> QED
        BY <4>1, <4>2
    <3> QED
      BY <3>7, <3>8, <3>9, <3>10 DEF FenceInv
  <2> QED
    BY <1>3, <2>2, <2>3 DEF RecoverFromDeath
<1>4. ASSUME NEW g \in Nat, Free # {}, Enqueue(g), UNCHANGED <<att, raced>>
      PROVE  FenceInv'
  <2> DEFINE t == First(Free)
  <2>1. t \in Turns /\ turn[t].st = "none"
    BY <1>4, FirstFree
  <2>2. /\ turn'[t].st = "queued" /\ \A u \in Turns \ {t} : turn'[u] = turn[u]
    BY <1>4, EnqueueTypes
  <2> HIDE DEF t
  <2>3. \A d \in Dispatches : att[d].pc # "none" => att[d].turn \in Turns \ {t}
    BY <1>t, <2>1 DEF FenceInv, DispatchedInOrder
  <2>4. \A d \in Dispatches : att[d].pc # "none" => turn'[att[d].turn] = turn[att[d].turn]
    BY <2>2, <2>3
  <2>5. \A d \in Dispatches : (Live(d)' <=> Live(d)) /\ (Live(d) => att[d].pc # "none")
    BY <1>4 DEF Live
  <2> QED
    BY <1>4, <2>4, <2>5 DEF FenceInv, DispatchedInOrder, DeathsOnlyGrow, SuccessorsCounted, QueuedCounted
<1>5. CASE SendMessage \/ ContinueGoal
  <2>1. Free # {} /\ Enqueue(0) /\ UNCHANGED <<att, raced>>
    BY <1>5 DEF SendMessage, ContinueGoal, hist
  <2> QED
    BY <2>1, <1>4
<1>6. CASE Check
  <2>1. waiter.gen \in Nat /\ UNCHANGED <<att, raced>>
    BY <1>6, TypeFacts, RowFields DEF Check
  <2>2. UNCHANGED turn \/ (Free # {} /\ Enqueue(waiter.gen))
    BY <1>6 DEF Check, Resume
  <2> QED
    BY <2>1, <2>2, <1>4, <1>s
<1>7. CASE \/ ReadWait \/ EnterWait \/ IdleOut \/ WaitAgain \/ TimerFires
           \/ SetSessionGoalStatus \/ RepairSignal \/ SignalArrives \/ SignalLost \/ UNCHANGED vars
           \/ \E c \in Creds : WindowResets(c) \/ CapacityMutation(c)
           \/ \E t \in Turns : LeaseExpires(t)
           \/ \E d \in Dispatches : HeartbeatTimeout(d) \/ Result(d)
  <2>1. UNCHANGED <<turn, att, raced>>
    BY <1>7 DEF ReadWait, EnterWait, IdleOut, WaitAgain, TimerFires, SetSessionGoalStatus, RepairSignal,
                SignalArrives, SignalLost, WindowResets, CapacityMutation, LeaseExpires,
                HeartbeatTimeout, Result, vars, hist, rows
  <2> QED
    BY <2>1, <1>s
<1> QED
  BY <1>1, <1>2, <1>3, <1>5, <1>6, <1>7 DEF Next, WorkflowStep, Environment

-----------------------------------------------------------------------------
(* The theorems *)

LEMMA CapInit == Init => CapInv
<1> SUFFICES ASSUME Init PROVE CapInv
  OBVIOUS
<1>1. TypeInv
  BY TypeInit
<1>2. NudgeInv /\ ContinueInv
  BY DEF Init, NoWorkflow, NudgeInv, ContinueInv, Waiting
<1>3. FenceInv
  BY DEF Init, NoAttempt, Live, FenceInv, DispatchedInOrder, DeathsOnlyGrow, SuccessorsCounted,
         QueuedCounted
<1> QED
  BY <1>1, <1>2, <1>3 DEF CapInv

(***************************************************************************)
(* The inductive invariant of the capacity machinery.                      *)
(***************************************************************************)
THEOREM CapacityInvariant == Spec => []CapInv
<1>1. CapInv /\ [Next]_vars => CapInv'
  BY TypeStep, NudgeStep, ContinueStep, FenceStep DEF CapInv
<1> QED
  BY CapInit, <1>1, PTL DEF Spec

(***************************************************************************)
(* The rows keep their shapes, and settleCodexCredentialFailover moves a   *)
(* turn at most once per connected credential.                             *)
(***************************************************************************)
THEOREM CapacityTypesHold == Spec => []CapacityTypeOK
<1>1. CapInv => CapacityTypeOK
  <2> SUFFICES ASSUME CapInv PROVE CapacityTypeOK
    OBVIOUS
  <2>1. TypeInv
    BY DEF CapInv
  <2> QED
    BY <2>1, TypeFacts, RowFields DEF CapacityTypeOK, TypeInv, RowTypes, TurnStates
<1> QED
  BY CapacityInvariant, <1>1, PTL

(***************************************************************************)
(* A signal that came while the dispatch was under way is not lost in the  *)
(* baseline of waitForCodexCapacity.                                       *)
(***************************************************************************)
THEOREM NudgesStayVisible == Spec => []NudgeNotBaselined
<1>1. CapInv => NudgeNotBaselined
  BY DEF CapInv, NudgeInv, NudgeNotBaselined
<1> QED
  BY CapacityInvariant, <1>1, PTL

(***************************************************************************)
(* maybeContinueGoal enqueues no turn beside a capacity wait, unless the   *)
(* wait was armed for a turn that the workflow had left running.           *)
(***************************************************************************)
THEOREM WaitsHoldTheGoal == Spec => WaitReplacesContinuation
<1>1. CapInv => (ContinueGoal => ~ Waiting \/ waiter.turn \in left)
  BY DEF CapInv, ContinueInv, ContinueGoal, At
<1>2. CapInv /\ [Next]_vars => [ContinueGoal => ~ Waiting \/ waiter.turn \in left]_vars
  BY <1>1
<1> QED
  BY CapacityInvariant, <1>2, PTL DEF Spec, WaitReplacesContinuation

(***************************************************************************)
(* settleCodexCredentialLeaseLoss of a superseded attempt writes neither   *)
(* the turn nor the session nor the lease, unless the turn was raced for.  *)
(***************************************************************************)
THEOREM LostLeasesAreFenced == Spec => LossFencedFromSuccessor
<1> DEFINE Fenced == \A d \in Dispatches :
             SettleLost(d) /\ HasSuccessor(d) /\ att[d].turn \notin raced
               => UNCHANGED <<turn, session, lease>>
<1>1. ASSUME CapInv, NEW d \in Dispatches,
             SettleLost(d), HasSuccessor(d), att[d].turn \notin raced
      PROVE  UNCHANGED <<turn, session, lease>>
  <2>1. PICK e \in Dispatches : e > d /\ att[e].turn = att[d].turn
    BY <1>1 DEF HasSuccessor
  <2>2. Live(d)
    BY <1>1 DEF SettleLost, Live
  <2>3. d \in Nat /\ e \in Nat /\ att[d].deaths \in Nat
    BY <1>1, CapacityBounds, TypeFacts, RowFields DEF CapInv
  <2>4. att[d].deaths < turn[att[d].turn].deaths
    BY <1>1, <2>1, <2>2, <2>3 DEF CapInv, FenceInv, SuccessorsCounted
  <2>5. ~ LossSettles(d)
    BY <2>3, <2>4 DEF LossSettles
  <2> QED
    BY <1>1, <2>5 DEF SettleLost
<1>2. CapInv /\ [Next]_vars => [Fenced]_vars
  BY <1>1
<1> HIDE DEF Fenced
<1>3. Spec => [][Fenced]_vars
  BY CapacityInvariant, <1>2, PTL DEF Spec
<1> QED
  BY <1>3 DEF Fenced, LossFencedFromSuccessor
=============================================================================
