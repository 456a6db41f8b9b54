------------------------------ MODULE EventLog ------------------------------
(***************************************************************************)
(* What a node promises about its events, whoever writes to the store and  *)
(* however often they fail: one log that only grows, by one event at a     *)
(* time, and only by events that verify, whose id is new, and whose        *)
(* reference, if they are revocations, is already in the log.              *)
(***************************************************************************)
EXTENDS EventStore

VARIABLE log

Publishable(e) ==
  /\ VerifyEvent(e)
  /\ e.id \notin StoredIds(log)
  /\ ReferenceHolds(log, e)

Publish(e) ==
  /\ Publishable(e)
  /\ log' = Append(log, e)

Init == log = << >>

Next == \E e \in Events : Publish(e)

Spec == Init /\ [][Next]_log
==============================================================================
