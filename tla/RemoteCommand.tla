--------------------------- MODULE RemoteCommand ---------------------------
(***************************************************************************)
(* What op-stream exec promises of one command: it runs once in a life of  *)
(* the runner, and an attempt of the turn gets the whole output of one run *)
(* that ended, or no result.  No message, frame or credit appears here;    *)
(* OpStream implements it.                                                 *)
(***************************************************************************)
EXTENDS Naturals

CONSTANT Attempts   \* the attempts of the turn that asks for the command

VARIABLES
  phase,     \* "new", "running" or "ended": the command in this life of the runner
  run,       \* runs so far
  printed,   \* chunks of output of the present run, 0 when there is none
  finished,  \* the runs that ended, with their output: <<run, chunks>>
  lives,     \* restarts of the runner
  answer     \* what each attempt got: <<run, chunks>>, <<"none">> or <<"failed">>

cvars == <<phase, run, printed, finished, lives, answer>>

NoAnswer == <<"none">>
Failure == <<"failed">>

Init ==
  /\ phase = "new" /\ run = 0 /\ printed = 0
  /\ finished = {} /\ lives = 0
  /\ answer = [a \in Attempts |-> NoAnswer]

Start ==
  /\ phase = "new"
  /\ phase' = "running" /\ run' = run + 1 /\ printed' = 0
  /\ UNCHANGED <<finished, lives, answer>>

Emit ==
  /\ phase = "running"
  /\ printed' = printed + 1
  /\ UNCHANGED <<phase, run, finished, lives, answer>>

\* The command ended by itself, or the runner ended it with a failure.
End ==
  /\ phase = "running"
  /\ phase' = "ended"
  /\ finished' \in {finished, finished \cup {<<run, printed>>}}
  /\ printed' = 0
  /\ UNCHANGED <<run, lives, answer>>

Crash ==
  /\ phase' = "new" /\ lives' = lives + 1 /\ printed' = 0
  /\ UNCHANGED <<run, finished, answer>>

Collect(a) ==
  /\ answer[a] = NoAnswer
  /\ \E r \in finished : answer' = [answer EXCEPT ![a] = r]
  /\ UNCHANGED <<phase, run, printed, finished, lives>>

Fail(a) ==
  /\ answer[a] = NoAnswer
  /\ answer' = [answer EXCEPT ![a] = Failure]
  /\ UNCHANGED <<phase, run, printed, finished, lives>>

\* The runner forgets the command only when an attempt has the output, or when it
\* never ran.
Release ==
  /\ phase = "ended"
  /\ \E a \in Attempts : answer[a] \notin {NoAnswer, Failure}
  /\ phase' = "new"
  /\ UNCHANGED <<run, printed, finished, lives, answer>>

Next == Start \/ Emit \/ End \/ Crash \/ Release \/ \E a \in Attempts : Collect(a) \/ Fail(a)

Spec == Init /\ [][Next]_cvars
=============================================================================
