--------------------------- MODULE ReferenceRetry ---------------------------
(***************************************************************************)
(* The bookkeeping of submit_events_with_reference_retry                   *)
(* (crates/tip-core/src/use_cases/mod.rs): which entries of a batch the    *)
(* current pass still has to submit, and which it put off because the      *)
(* event they revoke is not stored yet.                                    *)
(*                                                                         *)
(* A pass is a record                                                      *)
(*   round     "first", "retry" (an iteration of the while loop), "final"  *)
(*             (the validation of what a whole retry could not submit), or *)
(*             "only" for a lone event, which is never put off             *)
(*   queue     the entries to go through                                   *)
(*   deferred  next_pending: the entries put off to the next pass          *)
(*   size      pending_len: how many entries the pass began with           *)
(* An entry is an index into a batch, or an event.                         *)
(***************************************************************************)
EXTENDS Integers, Sequences

Rounds == {"only", "first", "retry", "final"}

PassOf(Entry) ==
  [round : Rounds, queue : Seq(Entry), deferred : Seq(Entry), size : Nat]

StartPass(round, entries) ==
  [round |-> round, queue |-> entries, deferred |-> << >>, size |-> Len(entries)]

NoPass == StartPass("only", << >>)

(* The entry at the head of the queue has its result. *)
SettleHead(p) == [p EXCEPT !.queue = Tail(@)]

(***************************************************************************)
(* The entry at the head of the queue lacks its reference.  In the faulty  *)
(* form it is forgotten.                                                   *)
(***************************************************************************)
ForgetHead(p) == SettleHead(p)

DeferHead(p) ==
  [p EXCEPT !.queue = Tail(@), !.deferred = Append(@, Head(p.queue))]

PutsOff(p) == p.round \in {"first", "retry"}

PassOver(p) == p.queue = << >>

AllDone(p) == PassOver(p) /\ (p.deferred = << >> \/ ~PutsOff(p))

(***************************************************************************)
(* The pass that follows once the queue is empty and entries were put off: *)
(* a retry that submitted none of its entries is the last one.  The faulty *)
(* forms retry for ever, and not at all.                                   *)
(***************************************************************************)
RoundAfterAlways(p) == "retry"

RoundAfterNone(p) == "final"

RoundAfter(p) ==
  IF p.round = "retry" /\ Len(p.deferred) = p.size THEN "final" ELSE "retry"

Continue(p) ==
  IF PassOver(p) /\ ~AllDone(p) THEN StartPass(RoundAfter(p), p.deferred) ELSE p

-----------------------------------------------------------------------------
(* Why passes come to an end. *)

(***************************************************************************)
(* Twice the number of submissions that may still come.  Each retry of n   *)
(* entries may submit one of them and be followed by a retry of the rest,  *)
(* the last of which goes on to the final round.  A batch of n events      *)
(* begins with (n + 1) * (n + 2).                                          *)
(***************************************************************************)
WorkLeft(p) ==
  CASE p.round = "first" -> 2 * Len(p.queue) + p.size * (p.size + 1) + 2
    [] p.round = "retry" -> 2 * Len(p.queue) + p.size * (p.size - 1) + 2
    [] p.round \in {"final", "only"} -> 2 * Len(p.queue)

(* Pass q comes a submission or more after p.                              *)
FurtherOn(q, p) == WorkLeft(q) + 2 <= WorkLeft(p)
==============================================================================
