---------------------------- MODULE EventDelivery ----------------------------
(***************************************************************************)
(* What the SDK promises the consumer of a session's events                *)
(* (packages/sdk/src/stream.ts, the comment on streamSessionEvents): every *)
(* event is handed over at most once, in the order of its sequence number, *)
(* with none left out, and never before it is in the durable log.          *)
(***************************************************************************)
EXTENDS Naturals, Sequences

VARIABLES
  log,   \* the sequence number of the last durable event
  out    \* the events the consumer was given, in the order it got them

DeliveryInit ==
  /\ log = 0
  /\ out = << >>

(* Events become durable, one batch at a time. *)
Grow ==
  /\ log' \in Nat
  /\ log' > log
  /\ UNCHANGED out

(* The consumer is given the next event, and no other. *)
Deliver ==
  /\ Len(out) < log
  /\ out' = Append(out, Len(out) + 1)
  /\ UNCHANGED log

DeliverySpec == DeliveryInit /\ [][Grow \/ Deliver]_<<log, out>>
=============================================================================
