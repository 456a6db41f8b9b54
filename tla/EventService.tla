---------------------------- MODULE EventService ----------------------------
(***************************************************************************)
(* What a node promises to those who send it events: every event of a      *)
(* request is decided once, in a single step, by what the store holds at   *)
(* that moment.  The passes over a batch and the statements of SQLite that *)
(* a decision is made of are not visible here.                             *)
(*                                                                         *)
(*   log      the stored events                                            *)
(*   job[p]   the request that process p works on: what it asks for, its   *)
(*            events, and the result of each of them, "none" as long as it *)
(*            has none                                                     *)
(***************************************************************************)
EXTENDS EventStore

CONSTANTS
  Procs,     \* the processes with the database open
  Batches,   \* the sequences of events that arrive in one request
  Shared     \* whether there is more than one such process

VARIABLES log, job

vars == << log, job >>

NoJob == [op |-> "none", batch |-> << >>, results |-> << >>]

Init ==
  /\ log = << >>
  /\ job = [p \in Procs |-> NoJob]

Begin(p, op, batch) ==
  /\ job[p] = NoJob
  /\ job' = [job EXCEPT ![p] =
       [op |-> op, batch |-> batch, results |-> [i \in 1 .. Len(batch) |-> "none"]]]
  /\ UNCHANGED log

Request(p) ==
  \/ \E e \in Events, op \in {"submit", "validate"} : Begin(p, op, << e >>)
  \/ \E batch \in Batches : Begin(p, "batch", batch)

-----------------------------------------------------------------------------
(* The decision on the i-th event of a request. *)

Verdict(p, i) == Validation(log, job[p].batch[i])

(* Where processes share the store, an event whose id another of them has  *)
(* just taken for a different event is treated like one that is stored.    *)
Welcome(p, i) ==
  \/ Verdict(p, i) = "accepted"
  \/ Shared /\ Verdict(p, i) = "conflict"

Give(p, i, result) ==
  /\ job[p].results[i] = "none"
  /\ job' = [job EXCEPT ![p].results[i] = result]

Accept(p, i) ==
  /\ job[p].op # "validate"
  /\ Welcome(p, i)
  /\ Give(p, i, "accepted")
  /\ log' = Put(log, job[p].batch[i])

Approve(p, i) ==
  /\ job[p].op = "validate"
  /\ Welcome(p, i)
  /\ Give(p, i, "valid")
  /\ UNCHANGED log

TurnDown(p, i) ==
  /\ \E verdict \in {"invalid", "conflict", "missing"} :
       Verdict(p, i) = verdict /\ Give(p, i, verdict)
  /\ UNCHANGED log

(* An event of a batch that was given up for its reference, just before    *)
(* another process stored that.                                            *)
GiveUp(p, i) ==
  /\ Shared
  /\ job[p].op = "batch"
  /\ Welcome(p, i)
  /\ Give(p, i, "unsubmitted")
  /\ UNCHANGED log

Fail(p, i) ==
  /\ VerifyEvent(job[p].batch[i])
  /\ Give(p, i, "store_error")
  /\ UNCHANGED log

Decide(p, i) ==
  Accept(p, i) \/ Approve(p, i) \/ TurnDown(p, i) \/ GiveUp(p, i) \/ Fail(p, i)

(* The request has been answered, or the process has died.                 *)
End(p) ==
  /\ job[p] # NoJob
  /\ job' = [job EXCEPT ![p] = NoJob]
  /\ UNCHANGED log

Next ==
  \E p \in Procs :
    \/ Request(p)
    \/ \E i \in DOMAIN job[p].batch : Decide(p, i)
    \/ End(p)

Spec == Init /\ [][Next]_vars
==============================================================================
