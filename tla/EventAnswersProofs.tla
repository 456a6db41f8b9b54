------------------------- MODULE EventAnswersProofs -------------------------
(***************************************************************************)
(* What EventIngestion answers, for every set of events, batches and       *)
(* processes: every event of a request has its result in the end; and, as  *)
(* long as one process has the database to itself, the results are exact   *)
(* and what was turned down stays turned down.                             *)
(*                                                                         *)
(* The invariants are about the session s of a process and the log l.      *)
(***************************************************************************)
EXTENDS EventIngestionProofs

-----------------------------------------------------------------------------
(* What a step does to a session. *)

(* Going over to the next entry, or going elsewhere with the current one.  *)
LEMMA NextEntryFields ==
  ASSUME TypeOK, NEW p \in Procs, NEW pass, NEW results, NextEntry(p, pass, results)
  PROVE  /\ session'[p].op = session[p].op
         /\ session'[p].batch = session[p].batch
         /\ session'[p].results = results
         /\ session'[p].pass = Continue(pass)
         /\ session'[p].step = IF AllDone(pass) THEN "answer" ELSE "lookup"
  <1>1. session[p] \in Session
    BY DEF TypeOK
  <1>2. session'[p] = [session[p] EXCEPT !.results = results,
                                        !.pass = Continue(pass),
                                        !.step = IF AllDone(pass) THEN "answer" ELSE "lookup"]
    BY DEF NextEntry, TypeOK
  <1> QED
    BY <1>1, <1>2 DEF Session

LEMMA GoToFields ==
  ASSUME TypeOK, NEW p \in Procs, NEW step, GoTo(p, step)
  PROVE  /\ session'[p].op = session[p].op
         /\ session'[p].batch = session[p].batch
         /\ session'[p].results = session[p].results
         /\ session'[p].pass = session[p].pass
         /\ session'[p].step = step
  <1>1. session[p] \in Session
    BY DEF TypeOK
  <1>2. session'[p] = [session[p] EXCEPT !.step = step]
    BY DEF GoTo, TypeOK
  <1> QED
    BY <1>1, <1>2 DEF Session

-----------------------------------------------------------------------------
(* Every event is answered. *)

(* An event without a result waits in the pass, and a request is answered  *)
(* when nothing waits.                                                     *)
Booked(s) ==
  /\ \A i \in DOMAIN s.batch :
       s.results[i] = "none" => Queued(s.pass, i) \/ Deferred(s.pass, i)
  /\ ~PutsOff(s.pass) => s.pass.deferred = << >>
  /\ s.step = "answer" => AllDone(s.pass)

(* A pass that still has every event without a result.                     *)
LEMMA NextEntryBooked ==
  ASSUME TypeOK, NEW p \in Procs, NEW pass \in PassOf(DOMAIN session[p].batch),
         NEW results, NextEntry(p, pass, results),
         ~PutsOff(pass) => pass.deferred = << >>,
         \A i \in DOMAIN session[p].batch :
           results[i] = "none" => Queued(pass, i) \/ Deferred(pass, i)
  PROVE  Booked(session'[p])
  <1>1. \A i : Queued(Continue(pass), i) \/ Deferred(Continue(pass), i)
                 <=> Queued(pass, i) \/ Deferred(pass, i)
    BY ContinueWaits
  <1>2. /\ ~PutsOff(Continue(pass)) => Continue(pass).deferred = << >>
        /\ AllDone(pass) => AllDone(Continue(pass))
    BY ContinueWaits, ContinueTidy
  <1> QED
    BY <1>1, <1>2, NextEntryFields DEF Booked

LEMMA SettleBooked ==
  ASSUME TypeOK, NEW p \in Procs, Active(p), Booked(session[p]),
         NEW outcome \in Outcomes \ {"none"}, Settle(p, outcome)
  PROVE  Booked(session'[p])
  <1> DEFINE s == session[p]
             pass == SettleHead(s.pass)
             results == [s.results EXCEPT ![Entry(p)] = outcome]
  <1>1. /\ s.pass \in PassOf(DOMAIN s.batch)
        /\ s.pass.queue # << >>
        /\ s.results \in [DOMAIN s.batch -> Outcomes]
    BY DEF TypeOK, WellFormed, Active
  <1>2. pass \in PassOf(DOMAIN s.batch)
    BY EntryType
  <1>3. pass.round = s.pass.round /\ pass.deferred = s.pass.deferred
    BY <1>1 DEF SettleHead, PassOf
  <1>4. ~PutsOff(pass) => pass.deferred = << >>
    BY <1>3 DEF PutsOff, Booked
  <1>5. ASSUME NEW i \in DOMAIN s.batch, results[i] = "none"
        PROVE  Queued(pass, i) \/ Deferred(pass, i)
    <2>1. i # Entry(p) /\ s.results[i] = "none"
      BY <1>1, <1>5
    <2>2. Queued(s.pass, i) \/ Deferred(s.pass, i)
      BY <2>1 DEF Booked
    <2> QED
      BY <1>1, <2>1, <2>2, HeadWaits DEF Entry
  <1>6. NextEntry(p, pass, results)
    BY DEF Settle
  <1> HIDE DEF pass, results
  <1> QED
    BY <1>2, <1>4, <1>5, <1>6, NextEntryBooked

LEMMA DeferBooked ==
  ASSUME TypeOK, NEW p \in Procs, Active(p), Booked(session[p]), PutsOff(session[p].pass),
         NextEntry(p, DeferHead(session[p].pass), session[p].results)
  PROVE  Booked(session'[p])
  <1> DEFINE s == session[p]
             pass == DeferHead(s.pass)
  <1>1. s.pass \in PassOf(DOMAIN s.batch) /\ s.pass.queue # << >>
    BY DEF TypeOK, WellFormed, Active
  <1>2. pass \in PassOf(DOMAIN s.batch)
    BY EntryType
  <1>3. PutsOff(pass)
    BY <1>1 DEF DeferHead, PassOf, PutsOff
  <1>4. ASSUME NEW i \in DOMAIN s.batch, s.results[i] = "none"
        PROVE  Queued(pass, i) \/ Deferred(pass, i)
    <2>1. Queued(s.pass, i) \/ Deferred(s.pass, i)
      BY <1>4 DEF Booked
    <2> QED
      BY <1>1, <2>1, HeadWaits
  <1> HIDE DEF pass
  <1> QED
    BY <1>2, <1>3, <1>4, NextEntryBooked DEF pass

LEMMA GoToBooked ==
  ASSUME TypeOK, NEW p \in Procs, Booked(session[p]),
         NEW step \in {"reference", "append"}, GoTo(p, step)
  PROVE  Booked(session'[p])
  BY GoToFields DEF Booked

(* A request that has just arrived waits with all its events.              *)
LEMMA ReceiveFields ==
  ASSUME TypeOK, NEW p \in Procs, NEW op \in DOMAIN FirstRound,
         NEW batch \in Seq(Events), Receive(p, op, batch)
  PROVE  /\ session'[p].op = op
         /\ session'[p].batch = batch
         /\ session'[p].step = IF batch = << >> THEN "answer" ELSE "lookup"
         /\ session'[p].results = [i \in 1 .. Len(batch) |-> "none"]
         /\ session'[p].pass = StartPass(FirstRound[op], [i \in 1 .. Len(batch) |-> i])
  <1> DEFINE pass == StartPass(FirstRound[op], [i \in 1 .. Len(batch) |-> i])
             results == [i \in 1 .. Len(batch) |-> "none"]
             step == IF batch = << >> THEN "answer" ELSE "lookup"
  <1>1. session' = [session EXCEPT ![p] =
          [op |-> op, step |-> step, batch |-> batch, pass |-> pass, results |-> results]]
    BY DEF Receive
  <1> HIDE DEF pass, results, step
  <1>2. session'[p] =
          [op |-> op, step |-> step, batch |-> batch, pass |-> pass, results |-> results]
    BY <1>1 DEF TypeOK
  <1> QED
    BY <1>2 DEF pass, results, step

LEMMA ReceiveBooked ==
  ASSUME TypeOK, NEW p \in Procs, NEW op \in DOMAIN FirstRound,
         NEW batch \in Seq(Events), Receive(p, op, batch)
  PROVE  Booked(session'[p])
  <1> DEFINE entries == [i \in 1 .. Len(batch) |-> i]
             pass == StartPass(FirstRound[op], entries)
  <1>1. DOMAIN batch = 1 .. Len(batch)
    OBVIOUS
  <1>2. pass.queue = entries /\ pass.deferred = << >>
    BY DEF StartPass
  <1>3. \A i \in DOMAIN batch : Queued(pass, i)
    BY <1>1, <1>2 DEF Queued
  <1>4. ASSUME batch = << >> PROVE AllDone(pass)
    <2>1. entries = << >>
      BY <1>4
    <2> QED
      BY <1>2, <2>1 DEF AllDone, PassOver
  <1>5. /\ session'[p].batch = batch
        /\ session'[p].pass = pass
        /\ session'[p].step = "answer" => batch = << >>
    <2>1. session'[p].batch = batch
      BY ReceiveFields
    <2>2. session'[p].step = IF batch = << >> THEN "answer" ELSE "lookup"
      BY ReceiveFields
    <2>3. session'[p].pass = pass
      BY ReceiveFields, Zenon
    <2> QED
      BY <2>1, <2>2, <2>3
  <1> HIDE DEF pass
  <1> QED
    BY <1>2, <1>3, <1>4, <1>5 DEF Booked

LEMMA IdleBooked == Booked(Idle)
  <1>1. Idle.batch = << >> /\ Idle.step = "idle" /\ Idle.pass = NoPass
    BY DEF Idle
  <1>2. NoPass.deferred = << >>
    BY DEF NoPass, StartPass
  <1> QED
    BY <1>1, <1>2 DEF Booked

AllBooked == \A p \in Procs : Booked(session[p])

LEMMA OwnStepBooked ==
  ASSUME TypeOK, NEW p \in Procs, Booked(session[p]), Request(p) \/ Serve(p) \/ Crash(p)
  PROVE  Booked(session'[p])
  <1>1. ASSUME Active(p), NEW outcome \in Outcomes \ {"none"}, Settle(p, outcome)
        PROVE  Booked(session'[p])
    BY <1>1, SettleBooked
  <1>2. {"invalid", "conflict", "missing", "valid", "unsubmitted", "accepted",
         "store_error"} \subseteq Outcomes \ {"none"}
    BY DEF Outcomes
  <1>3. ASSUME Active(p), Clear(p) PROVE Booked(session'[p])
    BY <1>1, <1>2, <1>3, GoToBooked DEF Clear
  <1>4. ASSUME Active(p), Miss(p) PROVE Booked(session'[p])
    BY <1>1, <1>2, <1>4, DeferBooked DEF Miss
  <1>5. CASE Request(p)
    <2>1. \A e \in Events : << e >> \in Seq(Events)
      OBVIOUS
    <2> QED
      BY <1>5, <2>1, BatchesAssumption, ReceiveBooked
      DEF Request, PostEvent, PostBatch, ValidateEvent, FirstRound
  <1>6. CASE Lookup(p)
    <2>1. Active(p)
      BY <1>6 DEF Lookup, Active
    <2> QED
      BY <1>1, <1>2, <1>3, <1>6, <2>1, GoToBooked DEF Lookup
  <1>7. CASE RequireReference(p)
    <2>1. Active(p)
      BY <1>7 DEF RequireReference, Active
    <2> QED
      BY <1>1, <1>2, <1>3, <1>4, <1>7, <2>1 DEF RequireReference
  <1>8. CASE AppendEvent(p) \/ StoreFails(p)
    <2>1. Active(p)
      BY <1>8 DEF AppendEvent, StoreFails, Active
    <2> QED
      BY <1>1, <1>2, <1>8, <2>1 DEF AppendEvent, StoreFails
  <1>9. CASE Respond(p) \/ Crash(p)
    <2>1. session'[p] = Idle
      BY <1>9 DEF Respond, Crash, TypeOK
    <2> QED
      BY <2>1, IdleBooked
  <1> QED
    BY <1>5, <1>6, <1>7, <1>8, <1>9 DEF Serve

LEMMA StepBooked == TypeOK /\ AllBooked /\ [Next]_vars => AllBooked'
  <1> SUFFICES ASSUME TypeOK, AllBooked, [Next]_vars, NEW q \in Procs
               PROVE  Booked(session'[q])
    BY DEF AllBooked
  <1>1. Booked(session[q])
    BY DEF AllBooked
  <1>2. CASE UNCHANGED vars
    BY <1>1, <1>2 DEF vars
  <1>3. CASE Next
    <2>1. PICK p \in Procs : Request(p) \/ Serve(p) \/ Crash(p)
      BY <1>3 DEF Next
    <2>2. CASE q = p
      BY <1>1, <2>1, <2>2, OwnStepBooked
    <2>3. CASE q # p
      BY <1>1, <2>1, <2>3, OthersStay
    <2> QED
      BY <2>2, <2>3
  <1> QED
    BY <1>2, <1>3

(* At the end nothing waits, so nothing is left without a result.          *)
LEMMA AnsweredWhenBooked == AllBooked => EveryEventAnswered
  <1> SUFFICES ASSUME AllBooked, NEW p \in Procs, session[p].step = "answer",
                      NEW i \in DOMAIN session[p].batch
               PROVE  session[p].results[i] # "none"
    BY DEF EveryEventAnswered
  <1>1. Booked(session[p])
    BY DEF AllBooked
  <1>2. session[p].pass.queue = << >> /\ session[p].pass.deferred = << >>
    BY <1>1 DEF Booked, AllDone, PassOver
  <1>3. ~Queued(session[p].pass, i) /\ ~Deferred(session[p].pass, i)
    BY <1>2 DEF Queued, Deferred
  <1> QED
    BY <1>1, <1>3 DEF Booked

(* When a request is answered, each of its events has a result, however    *)
(* its retries went and whatever other processes did meanwhile (the expect *)
(* of submit_events_with_reference_retry does not panic).                  *)
THEOREM EventsAnswered == Spec => []EveryEventAnswered
  <1>1. Init => AllBooked
    BY IdleBooked DEF Init, AllBooked
  <1>2. AllBooked => EveryEventAnswered
    BY AnsweredWhenBooked
  <1> QED
    BY <1>1, <1>2, StepBooked, TypeCorrect, PTL DEF Spec

-----------------------------------------------------------------------------
(* Requests come to their end. *)

AllPaced == \A p \in Procs : Paced(session[p].pass)

LEMMA IdlePaced == Paced(Idle.pass)
  <1>1. Idle.pass = StartPass("only", << >>) /\ << >> \in Seq(Nat)
    BY DEF Idle, NoPass
  <1> QED
    BY <1>1, StartPaced

LEMMA NextEntryPaced ==
  ASSUME TypeOK, NEW p \in Procs, NEW pass \in PassOf(DOMAIN session[p].batch),
         NEW results, NextEntry(p, pass, results), Paced(pass)
  PROVE  Paced(session'[p].pass)
  BY NextEntryFields, ContinuePaced

(* Whatever becomes of the current entry, its session has got on.          *)
LEMMA SettleAdvances ==
  ASSUME TypeOK, NEW p \in Procs, Active(p), Paced(session[p].pass),
         NEW results,
         \/ NextEntry(p, SettleHead(session[p].pass), results)
         \/ NextEntry(p, DeferHead(session[p].pass), results)
  PROVE  Paced(session'[p].pass) /\ Advances(session[p], session'[p])
  <1>1. session[p].pass \in PassOf(DOMAIN session[p].batch) /\ session[p].pass.queue # << >>
    BY DEF TypeOK, WellFormed, Active
  <1>2. /\ SettleHead(session[p].pass) \in PassOf(DOMAIN session[p].batch)
        /\ DeferHead(session[p].pass) \in PassOf(DOMAIN session[p].batch)
        /\ Paced(SettleHead(session[p].pass)) /\ Paced(DeferHead(session[p].pass))
    BY <1>1, EntryType, HeadPaced
  <1>3. Paced(session'[p].pass)
    BY <1>2, NextEntryPaced
  <1>4. /\ session'[p].batch = session[p].batch
        /\ \/ session'[p].pass = Continue(SettleHead(session[p].pass))
           \/ session'[p].pass = Continue(DeferHead(session[p].pass))
    BY NextEntryFields
  <1>5. FurtherOn(session'[p].pass, session[p].pass)
    BY <1>1, <1>4, HeadAdvances
  <1> QED
    BY <1>3, <1>4, <1>5 DEF Advances

LEMMA GoToAdvances ==
  ASSUME TypeOK, NEW p \in Procs, Active(p), Paced(session[p].pass),
         NEW step \in {"reference", "append"}, GoTo(p, step),
         StepsLeft[step] < StepsLeft[session[p].step]
  PROVE  Paced(session'[p].pass) /\ Advances(session[p], session'[p])
  BY GoToFields DEF Advances

LEMMA OwnStepAdvances ==
  ASSUME TypeOK, NEW p \in Procs, Paced(session[p].pass), Request(p) \/ Serve(p) \/ Crash(p)
  PROVE  /\ Paced(session'[p].pass)
         /\ session[p].step # "idle" => Advances(session[p], session'[p])
  <1>1. ASSUME Active(p), NEW outcome, Settle(p, outcome)
        PROVE  Paced(session'[p].pass) /\ Advances(session[p], session'[p])
    BY <1>1, SettleAdvances DEF Settle
  <1>2. ASSUME Active(p), Miss(p)
        PROVE  Paced(session'[p].pass) /\ Advances(session[p], session'[p])
    BY <1>1, <1>2, SettleAdvances DEF Miss
  <1>3. ASSUME Active(p), session[p].step \in {"lookup", "reference"}, Clear(p)
        PROVE  Paced(session'[p].pass) /\ Advances(session[p], session'[p])
    <2>1. StepsLeft["append"] < StepsLeft[session[p].step]
      BY <1>3 DEF StepsLeft
    <2> QED
      BY <1>1, <1>3, <2>1, GoToAdvances DEF Clear
  <1>4. CASE Request(p)
    <2>1. PICK op \in DOMAIN FirstRound, batch \in Seq(Events) : Receive(p, op, batch)
      <3>1. \A e \in Events : << e >> \in Seq(Events)
        OBVIOUS
      <3> QED
        BY <1>4, <3>1, BatchesAssumption
        DEF Request, PostEvent, PostBatch, ValidateEvent, FirstRound
    <2>2. session[p].step = "idle"
      BY <2>1 DEF Receive
    <2>3. session'[p].pass = StartPass(FirstRound[op], [i \in 1 .. Len(batch) |-> i])
      BY <2>1, ReceiveFields, Zenon
    <2>4. [i \in 1 .. Len(batch) |-> i] \in Seq(Nat)
      OBVIOUS
    <2>5. Paced(session'[p].pass)
      BY <2>3, <2>4, StartPaced
    <2> QED
      BY <2>2, <2>5
  <1>5. CASE Lookup(p)
    <2>1. Active(p) /\ session[p].step = "lookup"
      BY <1>5 DEF Lookup, Active
    <2>2. StepsLeft["reference"] < StepsLeft[session[p].step]
      BY <2>1 DEF StepsLeft
    <2> QED
      BY <1>1, <1>3, <1>5, <2>1, <2>2, GoToAdvances DEF Lookup
  <1>6. CASE RequireReference(p)
    <2>1. Active(p) /\ session[p].step = "reference"
      BY <1>6 DEF RequireReference, Active
    <2> QED
      BY <1>1, <1>2, <1>3, <1>6, <2>1 DEF RequireReference
  <1>7. CASE AppendEvent(p) \/ StoreFails(p)
    <2>1. Active(p)
      BY <1>7 DEF AppendEvent, StoreFails, Active
    <2> QED
      BY <1>1, <1>7, <2>1 DEF AppendEvent, StoreFails
  <1>8. CASE Respond(p) \/ Crash(p)
    <2>1. session'[p] = Idle
      BY <1>8 DEF Respond, Crash, TypeOK
    <2>2. Idle.step = "idle"
      BY DEF Idle
    <2> QED
      BY <2>1, <2>2, IdlePaced DEF Advances
  <1> QED
    BY <1>4, <1>5, <1>6, <1>7, <1>8 DEF Serve

LEMMA StepAdvances ==
  TypeOK /\ AllPaced /\ [Next]_vars
    => /\ AllPaced'
       /\ \A p \in Procs : session[p].step # "idle" /\ session'[p] # session[p] =>
            Advances(session[p], session'[p])
  <1> SUFFICES ASSUME TypeOK, AllPaced, [Next]_vars, NEW q \in Procs
               PROVE  /\ Paced(session'[q].pass)
                      /\ session[q].step # "idle" /\ session'[q] # session[q] =>
                           Advances(session[q], session'[q])
    BY DEF AllPaced
  <1>1. Paced(session[q].pass)
    BY DEF AllPaced
  <1>2. CASE session'[q] = session[q]
    BY <1>1, <1>2
  <1>3. CASE session'[q] # session[q]
    <2>1. PICK p \in Procs : Request(p) \/ Serve(p) \/ Crash(p)
      BY <1>3 DEF Next, vars
    <2>2. p = q
      BY <1>3, <2>1, OthersStay
    <2> QED
      BY <1>1, <2>1, <2>2, OwnStepAdvances
  <1> QED
    BY <1>2, <1>3

(* Every step on a request ends it or takes it further down a well-founded *)
(* order, whatever refers to what, whatever other processes store          *)
(* meanwhile and however many events there are: the while loop of          *)
(* submit_events_with_reference_retry terminates.                          *)
THEOREM RequestsGetOn == Spec => RequestsAdvance
  <1>1. Init => AllPaced
    BY IdlePaced DEF Init, AllPaced
  <1>2. TypeOK /\ AllPaced /\ [Next]_vars
          => /\ AllPaced'
             /\ [\A p \in Procs : session[p].step # "idle" /\ session'[p] # session[p] =>
                   Advances(session[p], session'[p])]_vars
    BY StepAdvances
  <1> QED
    BY <1>1, <1>2, TypeCorrect, PTL DEF Spec, RequestsAdvance

-----------------------------------------------------------------------------
(* One process alone. *)

Alone == \A p, q \in Procs : p = q

At(s) == s.batch[Head(s.pass.queue)]

MissingIn(l, s) == {i \in DOMAIN s.batch : Validation(l, s.batch[i]) = "missing"}

(* What a result of event e says of the log.                               *)
Fate(l, s, e, outcome) ==
  /\ outcome = "accepted" => e \in Range(l)
  /\ outcome = "invalid" => Stuck(l, e)
  /\ outcome = "conflict" => VerifyEvent(e) /\ Conflicting(l, e)
  /\ outcome = "missing" =>
       s.pass.round \in {"only", "final"} /\ Validation(l, e) = "missing"
  /\ outcome = "valid" => s.op = "validate" /\ Validation(l, e) = "accepted"
  /\ outcome # "unsubmitted"

(* The results are right, the last round goes through events that lack     *)
(* their reference only, and what was looked up is still so.               *)
Solo(l, s) ==
  /\ \A i \in DOMAIN s.batch : Fate(l, s, s.batch[i], s.results[i])
  /\ s.op # "batch" => s.pass.round = FirstRound[s.op]
  /\ s.op # "batch" /\ s.step # "idle" => DOMAIN s.batch = {1}
  /\ s.op = "batch" => s.pass.round # "only" /\ Resigned(s.pass, MissingIn(l, s))
  /\ s.step = "reference" =>
       VerifyEvent(At(s)) /\ At(s).id \notin StoredIds(l) /\ Refers(At(s))
  /\ s.step = "append" => s.pass.round # "final" /\ Validation(l, At(s)) = "accepted"

(* The current entry is settled.  The log changes in no last round.        *)
LEMMA SettleSolo ==
  ASSUME TypeOK, NEW p \in Procs, Active(p), Solo(log, session[p]),
         NEW outcome \in Outcomes, Settle(p, outcome),
         \A i \in DOMAIN session[p].batch \ {Entry(p)} :
           Fate(log', session[p], session[p].batch[i], session[p].results[i]),
         Fate(log', session[p], Current(p), outcome),
         session[p].pass.round = "final" => log' = log
  PROVE  Solo(log', session'[p])
  <1> DEFINE s == session[p]
             t == session'[p]
             pass == SettleHead(s.pass)
             results == [s.results EXCEPT ![Entry(p)] = outcome]
  <1>1. /\ s.pass \in PassOf(DOMAIN s.batch)
        /\ s.pass.queue # << >>
        /\ s.results \in [DOMAIN s.batch -> Outcomes]
        /\ s.op \in DOMAIN FirstRound
    BY DEF TypeOK, WellFormed, Active, Session
  <1>2. pass \in PassOf(DOMAIN s.batch) /\ pass.round = s.pass.round
    BY <1>1, EntryType DEF SettleHead, PassOf
  <1>3. /\ t.op = s.op /\ t.batch = s.batch /\ t.results = results
        /\ t.pass = Continue(pass) /\ t.step \in {"answer", "lookup"}
    BY NextEntryFields DEF Settle
  <1>4. /\ s.pass.round \in {"only", "final"} => t.pass.round = s.pass.round
        /\ s.pass.round # "only" => t.pass.round # "only"
    BY <1>2, <1>3, ContinueRound DEF PutsOff
  <1>5. \A i \in DOMAIN s.batch : Fate(log', s, s.batch[i], results[i])
    <2>1. \A i \in DOMAIN s.batch :
            results[i] = IF i = Entry(p) THEN outcome ELSE s.results[i]
      BY <1>1
    <2>2. Current(p) = s.batch[Entry(p)]
      BY DEF Current
    <2> HIDE DEF results, s
    <2> QED
      BY <2>1, <2>2 DEF s
  <1>6. \A i \in DOMAIN t.batch : Fate(log', t, t.batch[i], t.results[i])
    <2> HIDE DEF s, t, results, pass
    <2> QED
      BY <1>3, <1>4, <1>5 DEF Fate
  <1>7. s.op # "batch" => t.pass.round = FirstRound[t.op] /\ DOMAIN t.batch = {1}
    <2>1. s.op # "batch" => FirstRound[s.op] \in {"only", "final"}
      BY <1>1 DEF FirstRound
    <2> QED
      BY <1>3, <1>4, <2>1 DEF Solo, Active
  <1>8. s.op = "batch" => t.pass.round # "only" /\ Resigned(t.pass, MissingIn(log', t))
    <2> SUFFICES ASSUME s.op = "batch"
                 PROVE  t.pass.round # "only" /\ Resigned(t.pass, MissingIn(log', t))
      OBVIOUS
    <2>1. s.pass.round # "only" /\ Resigned(s.pass, MissingIn(log, s))
      BY DEF Solo
    <2>2. s.pass.round = "final" => MissingIn(log', s) = MissingIn(log, s)
      BY DEF MissingIn
    <2>3. Resigned(pass, MissingIn(log', s))
      BY <1>1, <2>1, <2>2, SettleResigned
    <2>4. MissingIn(log', t) = MissingIn(log', s)
      BY <1>3 DEF MissingIn
    <2> HIDE DEF s, t, pass
    <2>5. Resigned(Continue(pass), MissingIn(log', s))
      BY <1>2, <2>3, ContinueResigned
    <2> QED
      BY <1>3, <1>4, <2>1, <2>4, <2>5
  <1> HIDE DEF s, t
  <1>9. Solo(log', t)
    BY <1>3, <1>6, <1>7, <1>8 DEF Solo
  <1> QED
    BY <1>9 DEF t

(* The current entry lacks its reference and is put off.                   *)
LEMMA DeferSolo ==
  ASSUME TypeOK, NEW p \in Procs, Active(p), Solo(log, session[p]), log' = log,
         PutsOff(session[p].pass), Validation(log, Current(p)) = "missing",
         NextEntry(p, DeferHead(session[p].pass), session[p].results)
  PROVE  Solo(log', session'[p])
  <1> DEFINE s == session[p]
             t == session'[p]
             pass == DeferHead(s.pass)
  <1>1. /\ s.pass \in PassOf(DOMAIN s.batch)
        /\ s.pass.queue # << >>
        /\ s.op \in DOMAIN FirstRound
    BY DEF TypeOK, WellFormed, Active, Session
  <1>2. pass \in PassOf(DOMAIN s.batch) /\ pass.round = s.pass.round
    BY <1>1, EntryType DEF DeferHead, PassOf
  <1>3. /\ t.op = s.op /\ t.batch = s.batch /\ t.results = s.results
        /\ t.pass = Continue(pass) /\ t.step \in {"answer", "lookup"}
    BY NextEntryFields
  <1>4. s.pass.round \notin {"only", "final"}
    BY DEF PutsOff
  <1>5. s.op = "batch"
    BY <1>1, <1>4 DEF Solo, FirstRound
  <1>6. t.pass.round # "only"
    BY <1>2, <1>3, <1>4, ContinueRound
  <1>7. \A i \in DOMAIN t.batch : Fate(log', t, t.batch[i], t.results[i])
    <2>1. \A i \in DOMAIN s.batch : Fate(log, s, s.batch[i], s.results[i])
      BY DEF Solo
    <2> HIDE DEF s, t, pass
    <2> QED
      BY <1>3, <1>4, <2>1 DEF Fate
  <1>8. Resigned(t.pass, MissingIn(log', t))
    <2>1. Entry(p) \in MissingIn(log, s)
      BY EntryType DEF MissingIn, Current
    <2>2. Resigned(s.pass, MissingIn(log, s))
      BY <1>5 DEF Solo
    <2>3. Resigned(pass, MissingIn(log, s))
      BY <1>1, <2>1, <2>2, DeferResigned DEF Entry
    <2>4. MissingIn(log', t) = MissingIn(log, s)
      BY <1>3 DEF MissingIn
    <2> HIDE DEF s, t, pass
    <2>5. Resigned(Continue(pass), MissingIn(log, s))
      BY <1>2, <2>3, ContinueResigned
    <2> QED
      BY <1>3, <2>4, <2>5
  <1> HIDE DEF s, t
  <1>9. Solo(log', t)
    BY <1>3, <1>5, <1>6, <1>7, <1>8 DEF Solo
  <1> QED
    BY <1>9 DEF t

(* The current entry goes on to its next statement.                        *)
LEMMA GoToSolo ==
  ASSUME TypeOK, NEW p \in Procs, Active(p), Solo(log, session[p]), log' = log,
         NEW step \in {"reference", "append"}, GoTo(p, step),
         step = "reference" =>
           /\ VerifyEvent(Current(p))
           /\ Current(p).id \notin StoredIds(log)
           /\ Refers(Current(p)),
         step = "append" =>
           session[p].pass.round # "final" /\ Validation(log, Current(p)) = "accepted"
  PROVE  Solo(log', session'[p])
  <1> DEFINE s == session[p]
             t == session'[p]
  <1>1. /\ t.op = s.op /\ t.batch = s.batch /\ t.results = s.results
        /\ t.pass = s.pass /\ t.step = step /\ s.step # "idle"
    BY GoToFields DEF Active
  <1>2. At(t) = Current(p)
    BY <1>1 DEF At, Current, Entry
  <1>3. Solo(log, s)
    OBVIOUS
  <1> HIDE DEF s, t
  <1>4. MissingIn(log', t) = MissingIn(log, s)
    BY <1>1 DEF MissingIn
  <1>5. \A i \in DOMAIN t.batch : Fate(log', t, t.batch[i], t.results[i])
    BY <1>1, <1>3 DEF Solo, Fate
  <1>6. Solo(log', t)
    BY <1>1, <1>2, <1>3, <1>4, <1>5 DEF Solo, s
  <1> QED
    BY <1>6 DEF t

(* An outcome that changes nothing in the log.                             *)
LEMMA QuietSolo ==
  ASSUME TypeOK, NEW p \in Procs, Active(p), Solo(log, session[p]), log' = log,
         NEW outcome \in Outcomes, Settle(p, outcome),
         Fate(log, session[p], Current(p), outcome)
  PROVE  Solo(log', session'[p])
  <1>1. \A i \in DOMAIN session[p].batch :
          Fate(log', session[p], session[p].batch[i], session[p].results[i])
    BY DEF Solo
  <1> QED
    BY <1>1, SettleSolo

(* An event that validation accepts; in the last round there is none.      *)
LEMMA ClearSolo ==
  ASSUME TypeOK, NEW p \in Procs, Active(p), Solo(log, session[p]), log' = log,
         Clear(p), Validation(log, Current(p)) = "accepted"
  PROVE  Solo(log', session'[p])
  <1>1. CASE session[p].pass.round # "final"
    BY <1>1, GoToSolo DEF Clear
  <1>2. CASE session[p].pass.round = "final"
    <2>1. session[p].op # "batch"
      <3> SUFFICES ASSUME session[p].op = "batch" PROVE FALSE
        OBVIOUS
      <3>1. session[p].pass \in PassOf(DOMAIN session[p].batch)
            /\ session[p].pass.queue # << >>
        BY DEF TypeOK, WellFormed, Active
      <3>2. Queued(session[p].pass, Entry(p))
        BY <3>1, HeadWaits DEF Entry
      <3>3. Entry(p) \in MissingIn(log, session[p])
        BY <1>2, <3>2 DEF Solo, Resigned
      <3> QED
        BY <3>3 DEF MissingIn, Current
    <2>2. session[p].op = "validate"
      <3>1. session[p].op \in {"submit", "batch", "validate"}
        BY DEF TypeOK, Session, FirstRound
      <3> QED
        BY <1>2, <2>1, <3>1 DEF Solo, FirstRound
    <2>3. Settle(p, "valid")
      BY <1>2, <2>2 DEF Clear
    <2>4. Fate(log, session[p], Current(p), "valid")
      BY <2>2 DEF Fate
    <2> QED
      BY <2>3, <2>4, QuietSolo DEF Outcomes
  <1> QED
    BY <1>1, <1>2

(* The log grows by the current event.                                     *)
LEMMA AppendSolo ==
  ASSUME IInv, NEW p \in Procs, Solo(log, session[p]), AppendEvent(p)
  PROVE  Solo(log', session'[p])
  <1> DEFINE s == session[p]
             e == Current(p)
  <1>1. /\ s.step = "append" /\ Active(p) /\ TypeOK
        /\ log' = Put(log, e) /\ Settle(p, "accepted")
    BY DEF AppendEvent, Active, IInv
  <1>2. e \in Events /\ VerifyEvent(e) /\ log \in Seq(Events) /\ Sound(log)
    BY <1>1, EntryType DEF IInv, ClearedFits, TypeOK
  <1>3. e.id \in StoredIds(log) \/ ReferenceHolds(log, e)
    BY <1>1 DEF IInv, ClearedFits
  <1>4. s.pass.round # "final" /\ Validation(log, e) = "accepted"
    BY <1>1 DEF Solo, At, Current, Entry
  <1>5. Fate(log', s, e, "accepted")
    BY <1>1, <1>2, <1>4, AcceptedStored DEF Fate
  <1>6. ASSUME NEW i \in DOMAIN s.batch \ {Entry(p)}
        PROVE  Fate(log', s, s.batch[i], s.results[i])
    <2> DEFINE f == s.batch[i]
               r == s.results[i]
    <2>1. Fate(log, s, f, r)
      BY DEF Solo
    <2>2. r # "missing" /\ r # "valid"
      <3>1. s.op \in {"submit", "batch", "validate"}
        BY <1>1 DEF TypeOK, Session, FirstRound
      <3>2. s.op = "batch"
        <4> SUFFICES ASSUME s.op # "batch" PROVE FALSE
          OBVIOUS
        <4>1. Entry(p) \in DOMAIN s.batch /\ DOMAIN s.batch = {1}
          BY <1>1, EntryType DEF Solo
        <4> QED
          BY <1>6, <4>1
      <3>3. s.pass.round \notin {"only", "final"}
        BY <1>4, <3>2 DEF Solo
      <3> QED
        BY <2>1, <3>2, <3>3 DEF Fate
    <2> HIDE DEF e, f, r
    <2>3. r = "accepted" => f \in Range(log')
      BY <1>1, <1>2, <2>1, StoredStays DEF Fate
    <2>4. r = "invalid" => Stuck(log', f)
      BY <1>1, <1>2, <1>3, <2>1, StuckStays DEF Fate
    <2>5. r = "conflict" => VerifyEvent(f) /\ Conflicting(log', f)
      BY <1>1, <1>2, <1>3, <2>1, ConflictStays DEF Fate
    <2>6. Fate(log', s, f, r)
      BY <2>1, <2>2, <2>3, <2>4, <2>5 DEF Fate
    <2> QED
      BY <2>6 DEF f, r
  <1> HIDE DEF s, e
  <1> QED
    BY <1>1, <1>4, <1>5, <1>6, SettleSolo DEF s, e, Outcomes

LEMMA LookupSolo ==
  ASSUME TypeOK, NEW p \in Procs, Solo(log, session[p]), Lookup(p)
  PROVE  Solo(log', session'[p])
  <1> DEFINE e == Current(p)
  <1>1. Active(p) /\ log' = log
    BY DEF Lookup, Active
  <1>2. CASE ~VerifyEvent(e) /\ Settle(p, "invalid")
    <2>1. Fate(log, session[p], e, "invalid")
      BY <1>2 DEF Fate, Stuck
    <2> QED
      BY <1>1, <1>2, <2>1, QuietSolo DEF Outcomes
  <1>3. CASE VerifyEvent(e) /\ Conflicting(log, e) /\ Settle(p, "conflict")
    <2>1. Fate(log, session[p], e, "conflict")
      BY <1>3 DEF Fate
    <2> QED
      BY <1>1, <1>3, <2>1, QuietSolo DEF Outcomes
  <1>4. CASE VerifyEvent(e) /\ AlreadyStored(log, e) /\ Clear(p)
    <2>1. Validation(log, e) = "accepted"
      BY <1>4 DEF Validation, AlreadyStored, Conflicting, Admitted
    <2> QED
      BY <1>1, <1>4, <2>1, ClearSolo
  <1>5. CASE VerifyEvent(e) /\ e.id \notin StoredIds(log) /\ ~Refers(e) /\ Clear(p)
    <2>1. Validation(log, e) = "accepted"
      BY <1>5 DEF Validation, Conflicting, ReferenceMissing, Admitted, ReferenceHolds
    <2> QED
      BY <1>1, <1>5, <2>1, ClearSolo
  <1>6. CASE VerifyEvent(e) /\ e.id \notin StoredIds(log) /\ Refers(e) /\ GoTo(p, "reference")
    BY <1>1, <1>6, GoToSolo
  <1> QED
    BY <1>2, <1>3, <1>4, <1>5, <1>6 DEF Lookup

LEMMA ReferenceSolo ==
  ASSUME TypeOK, NEW p \in Procs, Solo(log, session[p]), RequireReference(p)
  PROVE  Solo(log', session'[p])
  <1> DEFINE e == Current(p)
  <1>1. Active(p) /\ log' = log
    BY DEF RequireReference, Active
  <1>2. VerifyEvent(e) /\ e.id \notin StoredIds(log) /\ Refers(e)
    BY DEF RequireReference, Solo, At, Current, Entry
  <1>3. CASE ReferenceMissing(log, e) /\ Miss(p)
    <2>1. Validation(log, e) = "missing"
      BY <1>2, <1>3 DEF Validation, Conflicting
    <2>2. CASE PutsOff(session[p].pass)
      BY <1>1, <1>3, <2>1, <2>2, DeferSolo DEF Miss
    <2>3. CASE ~PutsOff(session[p].pass)
      <3>1. session[p].pass.round \in {"only", "final"}
        <4>1. session[p].pass \in PassOf(DOMAIN session[p].batch)
          BY DEF TypeOK, WellFormed
        <4> QED
          BY <2>3, <4>1 DEF PassOf, Rounds, PutsOff
      <3>2. Fate(log, session[p], e, "missing")
        BY <2>1, <3>1 DEF Fate
      <3> QED
        BY <1>1, <1>3, <2>3, <3>2, QuietSolo DEF Miss, Outcomes
    <2> QED
      BY <2>2, <2>3
  <1>4. CASE ~ReferenceMissing(log, e) /\ ReferenceHolds(log, e) /\ Clear(p)
    <2>1. Validation(log, e) = "accepted"
      BY <1>2, <1>4 DEF Validation, Conflicting, Admitted
    <2> QED
      BY <1>1, <1>4, <2>1, ClearSolo
  <1>5. CASE ~ReferenceMissing(log, e) /\ ~ReferenceHolds(log, e) /\ Settle(p, "invalid")
    <2>1. Fate(log, session[p], e, "invalid")
      BY <1>2, <1>5 DEF Fate, Stuck, ReferenceMissing, ReferenceHolds
    <2> QED
      BY <1>1, <1>5, <2>1, QuietSolo DEF Outcomes
  <1> QED
    BY <1>3, <1>4, <1>5 DEF RequireReference

LEMMA ReceiveSolo ==
  ASSUME TypeOK, NEW p \in Procs, NEW op \in DOMAIN FirstRound,
         NEW batch \in Seq(Events), Receive(p, op, batch),
         op # "batch" => DOMAIN batch = {1}
  PROVE  Solo(log', session'[p])
  <1> DEFINE t == session'[p]
             entries == [i \in 1 .. Len(batch) |-> i]
             results == [i \in 1 .. Len(batch) |-> "none"]
  <1>1. t.op = op /\ t.batch = batch /\ t.step \in {"answer", "lookup"}
    BY ReceiveFields
  <1>2. t.results = results
    BY ReceiveFields, Zenon
  <1>3. t.pass = StartPass(FirstRound[op], entries)
    BY ReceiveFields, Zenon
  <1>4. \A i \in DOMAIN t.batch : t.results[i] = "none"
    <2>1. DOMAIN batch = 1 .. Len(batch)
      OBVIOUS
    <2> QED
      BY <1>1, <1>2, <2>1
  <1>5. entries \in Seq(Nat)
    OBVIOUS
  <1>6. t.pass.round = FirstRound[op]
    BY <1>3 DEF StartPass
  <1>7. op = "batch" => FirstRound[op] = "first"
    BY DEF FirstRound
  <1>8. op = "batch" => Resigned(t.pass, MissingIn(log', t))
    <2> HIDE DEF entries, t
    <2> QED
      BY <1>3, <1>5, <1>7, FreshResigned DEF Rounds
  <1> HIDE DEF t
  <1>9. \A i \in DOMAIN t.batch : Fate(log', t, t.batch[i], t.results[i])
    BY <1>4 DEF Fate
  <1>10. Solo(log', t)
    BY <1>1, <1>6, <1>7, <1>8, <1>9 DEF Solo
  <1> QED
    BY <1>10 DEF t

LEMMA IdleSolo ==
  ASSUME NEW l
  PROVE  Solo(l, Idle)
  <1>1. /\ Idle.batch = << >> /\ Idle.step = "idle" /\ Idle.op = "submit"
        /\ Idle.pass.round = "only"
    BY DEF Idle, NoPass, StartPass
  <1> QED
    BY <1>1 DEF Solo, FirstRound

AllSolo == \A p \in Procs : Solo(log, session[p])

LEMMA StepSolo ==
  ASSUME Alone, IInv, AllSolo, [Next]_vars
  PROVE  AllSolo'
  <1> SUFFICES ASSUME NEW p \in Procs PROVE Solo(log', session'[p])
    BY DEF AllSolo
  <1>1. Solo(log, session[p]) /\ TypeOK
    BY DEF AllSolo, IInv
  <1>2. CASE UNCHANGED vars
    BY <1>1, <1>2 DEF vars
  <1>3. CASE Request(p)
    <2>1. \A e \in Events : << e >> \in Seq(Events) /\ DOMAIN << e >> = {1}
      OBVIOUS
    <2> QED
      BY <1>1, <1>3, <2>1, BatchesAssumption, ReceiveSolo
      DEF Request, PostEvent, PostBatch, ValidateEvent, FirstRound
  <1>4. CASE Lookup(p) \/ RequireReference(p) \/ AppendEvent(p)
    BY <1>1, <1>4, LookupSolo, ReferenceSolo, AppendSolo
  <1>5. CASE StoreFails(p)
    <2>1. Active(p) /\ log' = log /\ Settle(p, "store_error")
      BY <1>5 DEF StoreFails, Active
    <2>2. Fate(log, session[p], Current(p), "store_error")
      BY DEF Fate
    <2> QED
      BY <1>1, <2>1, <2>2, QuietSolo DEF Outcomes
  <1>6. CASE Respond(p) \/ Crash(p)
    <2>1. session'[p] = Idle
      BY <1>1, <1>6 DEF Respond, Crash, TypeOK
    <2> QED
      BY <2>1, IdleSolo
  <1>7. Next => Request(p) \/ Serve(p) \/ Crash(p)
    BY DEF Next, Alone
  <1> QED
    BY <1>2, <1>3, <1>4, <1>5, <1>6, <1>7 DEF Serve

LEMMA InvarianceSolo ==
  ASSUME Alone
  PROVE  Spec => [](IInv /\ AllBooked /\ AllSolo)
  <1>1. Init => IInv /\ AllBooked /\ AllSolo
    BY InitInv, IdleBooked, IdleSolo DEF Init, AllBooked, AllSolo
  <1>2. IInv /\ AllBooked /\ AllSolo /\ [Next]_vars => (IInv /\ AllBooked /\ AllSolo)'
    BY StepInv, StepBooked, StepSolo DEF IInv
  <1> QED
    BY <1>1, <1>2, PTL DEF Spec

(* What a process that has the database to itself answers with "accepted"  *)
(* is in the store (submit_event; with a second process it need not be).   *)
THEOREM AcceptedEventsStored ==
  ASSUME Alone
  PROVE  Spec => []AcceptedIsStored
  <1>1. AllSolo => AcceptedIsStored
    BY DEF AllSolo, Solo, Fate, AcceptedIsStored
  <1> QED
    BY <1>1, InvarianceSolo, PTL

(* What such a process turned down would be turned down again when the     *)
(* batch is answered, in whatever order its events stood: the retries of   *)
(* submit_events_with_reference_retry lose no event.                       *)
THEOREM RejectedEventsStayOut ==
  ASSUME Alone
  PROVE  Spec => []RejectionsStand
  <1>1. AllSolo => RejectionsStand
    <2> SUFFICES ASSUME AllSolo, NEW p \in Procs, NEW i \in DOMAIN session[p].batch,
                        session[p].results[i] \in Rejections
                 PROVE  Validation(log, session[p].batch[i]) # "accepted"
      BY DEF RejectionsStand
    <2>1. Fate(log, session[p], session[p].batch[i], session[p].results[i])
      BY DEF AllSolo, Solo
    <2>2. CASE session[p].results[i] = "invalid"
      BY <2>1, <2>2, StuckInvalid DEF Fate
    <2>3. CASE session[p].results[i] = "conflict"
      BY <2>1, <2>3 DEF Fate, Validation
    <2> QED
      BY <2>1, <2>2, <2>3 DEF Fate, Rejections
  <1> QED
    BY <1>1, InvarianceSolo, PTL

(* What such a process answers for a lone event is what the validation in  *)
(* one go says of the store that it leaves (submit_event,                  *)
(* validate_event_for_submission).                                         *)
THEOREM LoneAnswersExact ==
  ASSUME Alone
  PROVE  Spec => []SoloAnswersExact
  <1>1. IInv /\ AllBooked /\ AllSolo => SoloAnswersExact
    <2> SUFFICES ASSUME IInv, AllBooked, AllSolo, NEW p \in Procs,
                        session[p].step = "answer",
                        session[p].op \in {"submit", "validate"},
                        session[p].results[1] # "store_error"
                 PROVE  Validation(log, session[p].batch[1])
                          = IF session[p].results[1] = "valid"
                              THEN "accepted" ELSE session[p].results[1]
      BY DEF SoloAnswersExact
    <2> DEFINE s == session[p]
               e == s.batch[1]
               answer == s.results[1]
    <2>1. 1 \in DOMAIN s.batch
      BY DEF AllSolo, Solo
    <2>2. answer \in Outcomes
      BY <2>1 DEF IInv, TypeOK, WellFormed
    <2>3. answer # "none"
      BY <2>1, AnsweredWhenBooked DEF EveryEventAnswered
    <2>4. Fate(log, s, e, answer)
      BY <2>1 DEF AllSolo, Solo
    <2>5. log \in Seq(Events) /\ Sound(log)
      BY DEF IInv, TypeOK
    <2> HIDE DEF s, e, answer
    <2>6. answer = "accepted" => Validation(log, e) = "accepted"
      BY <2>4, <2>5, StoredAccepted DEF Fate
    <2>7. answer = "invalid" => Validation(log, e) = "invalid"
      BY <2>4, StuckInvalid DEF Fate
    <2>8. answer = "conflict" => Validation(log, e) = "conflict"
      <3>1. answer = "conflict" =>
              VerifyEvent(e) /\ Conflicting(log, e) /\ e.id \in StoredIds(log)
        BY <2>4 DEF Fate, Conflicting
      <3> QED
        BY <3>1 DEF Validation
    <2>9. Validation(log, e) = IF answer = "valid" THEN "accepted" ELSE answer
      <3>1. answer \in {"accepted", "valid", "invalid", "conflict", "missing"}
        BY <2>2, <2>3, <2>4 DEF Outcomes, Fate, answer, s
      <3> QED
        BY <2>4, <2>6, <2>7, <2>8, <3>1 DEF Fate
    <2> QED
      BY <2>9 DEF s, e, answer
  <1> QED
    BY <1>1, InvarianceSolo, PTL

-----------------------------------------------------------------------------
(* Each event is decided once. *)

(* An entry that waits has no result yet and waits once; a lone event has  *)
(* one round, and what is being appended is not in the last round.         *)
Owed(s) ==
  /\ Once(s.pass)
  /\ \A i : Queued(s.pass, i) \/ Deferred(s.pass, i) => s.results[i] = "none"
  /\ s.op # "batch" => s.pass.round = FirstRound[s.op]
  /\ s.step = "append" => s.pass.round # "final"

AllOwed == \A p \in Procs : Owed(session[p])

LEMMA NextEntryOwed ==
  ASSUME TypeOK, NEW p \in Procs, Owed(session[p]),
         NEW pass \in PassOf(DOMAIN session[p].batch), NEW results,
         NextEntry(p, pass, results), Once(pass), pass.round = session[p].pass.round,
         \A i : Queued(pass, i) \/ Deferred(pass, i) => results[i] = "none"
  PROVE  Owed(session'[p])
  <1> DEFINE s == session[p]
             t == session'[p]
  <1>1. /\ t.op = s.op /\ t.results = results /\ t.pass = Continue(pass)
        /\ t.step \in {"answer", "lookup"}
    BY NextEntryFields
  <1>2. Once(t.pass)
    BY <1>1, ContinueOnce
  <1>3. \A i : Queued(t.pass, i) \/ Deferred(t.pass, i) => t.results[i] = "none"
    BY <1>1, ContinueWaits
  <1>4. t.op # "batch" => t.pass.round = FirstRound[t.op]
    <2> SUFFICES ASSUME s.op # "batch" PROVE t.pass.round = FirstRound[t.op]
      BY <1>1
    <2>1. s.op \in {"submit", "validate"}
      BY DEF TypeOK, Session, FirstRound
    <2>2. ~PutsOff(pass)
      BY <2>1 DEF PutsOff, Owed, FirstRound
    <2> QED
      BY <1>1, <2>2, ContinueRound DEF Owed
  <1> HIDE DEF s, t
  <1>5. Owed(t)
    BY <1>1, <1>2, <1>3, <1>4 DEF Owed
  <1> QED
    BY <1>5 DEF t

LEMMA SettleOwed ==
  ASSUME TypeOK, NEW p \in Procs, Active(p), Owed(session[p]), NEW outcome,
         Settle(p, outcome)
  PROVE  Owed(session'[p])
  <1> DEFINE s == session[p]
             pass == SettleHead(s.pass)
             results == [s.results EXCEPT ![Entry(p)] = outcome]
  <1>1. /\ s.pass \in PassOf(DOMAIN s.batch)
        /\ s.pass.queue # << >>
        /\ s.results \in [DOMAIN s.batch -> Outcomes]
    BY DEF TypeOK, WellFormed, Active
  <1>2. pass \in PassOf(DOMAIN s.batch) /\ pass.round = s.pass.round
    BY <1>1, EntryType DEF SettleHead, PassOf
  <1>3. /\ ~Queued(pass, Entry(p)) /\ ~Deferred(s.pass, Entry(p))
        /\ Once(pass)
    BY <1>1, HeadOnce DEF Entry, Owed
  <1>4. ASSUME NEW i, Queued(pass, i) \/ Deferred(pass, i)
        PROVE  results[i] = "none"
    <2>1. i # Entry(p) /\ (Queued(s.pass, i) \/ Deferred(s.pass, i))
      BY <1>1, <1>3, <1>4, HeadWaits
    <2>2. s.results[i] = "none"
      BY <2>1 DEF Owed
    <2> QED
      BY <1>1, <2>1, <2>2
  <1>5. NextEntry(p, pass, results)
    BY DEF Settle
  <1> HIDE DEF pass, results
  <1> QED
    BY <1>2, <1>3, <1>4, <1>5, NextEntryOwed

LEMMA DeferOwed ==
  ASSUME TypeOK, NEW p \in Procs, Active(p), Owed(session[p]),
         NextEntry(p, DeferHead(session[p].pass), session[p].results)
  PROVE  Owed(session'[p])
  <1> DEFINE s == session[p]
             pass == DeferHead(s.pass)
  <1>1. s.pass \in PassOf(DOMAIN s.batch) /\ s.pass.queue # << >>
    BY DEF TypeOK, WellFormed, Active
  <1>2. pass \in PassOf(DOMAIN s.batch) /\ pass.round = s.pass.round
    BY <1>1, EntryType DEF DeferHead, PassOf
  <1>3. Once(pass)
    BY <1>1, HeadOnce DEF Owed
  <1>4. ASSUME NEW i, Queued(pass, i) \/ Deferred(pass, i)
        PROVE  s.results[i] = "none"
    <2>1. Queued(s.pass, i) \/ Deferred(s.pass, i)
      BY <1>1, <1>4, HeadWaits
    <2> QED
      BY <2>1 DEF Owed
  <1> HIDE DEF pass
  <1> QED
    BY <1>2, <1>3, <1>4, NextEntryOwed DEF pass

LEMMA GoToOwed ==
  ASSUME TypeOK, NEW p \in Procs, Owed(session[p]), NEW step, GoTo(p, step),
         step = "append" => session[p].pass.round # "final"
  PROVE  Owed(session'[p])
  BY GoToFields DEF Owed

LEMMA ReceiveOwed ==
  ASSUME TypeOK, NEW p \in Procs, NEW op \in DOMAIN FirstRound,
         NEW batch \in Seq(Events), Receive(p, op, batch)
  PROVE  Owed(session'[p])
  <1> DEFINE t == session'[p]
             entries == [i \in 1 .. Len(batch) |-> i]
             results == [i \in 1 .. Len(batch) |-> "none"]
  <1>1. t.op = op /\ t.step \in {"answer", "lookup"}
    BY ReceiveFields
  <1>2. t.results = results
    BY ReceiveFields, Zenon
  <1>3. t.pass = StartPass(FirstRound[op], entries)
    BY ReceiveFields, Zenon
  <1>4. t.pass.queue = entries /\ t.pass.deferred = << >> /\ t.pass.round = FirstRound[op]
    BY <1>3 DEF StartPass
  <1>5. \A e : ~Deferred(t.pass, e)
    BY <1>4 DEF Deferred
  <1>6. \A e : Queued(t.pass, e) => e \in 1 .. Len(batch)
    BY <1>4 DEF Queued
  <1>7. Once(t.pass)
    <2>1. \A i, j \in DOMAIN t.pass.queue : t.pass.queue[i] = t.pass.queue[j] => i = j
      BY <1>4
    <2>2. \A i, j \in DOMAIN t.pass.deferred :
            t.pass.deferred[i] = t.pass.deferred[j] => i = j
      BY <1>4
    <2> QED
      BY <1>5, <2>1, <2>2 DEF Once
  <1>8. \A i : Queued(t.pass, i) \/ Deferred(t.pass, i) => t.results[i] = "none"
    BY <1>2, <1>5, <1>6
  <1> HIDE DEF t
  <1>9. Owed(t)
    BY <1>1, <1>4, <1>7, <1>8 DEF Owed
  <1> QED
    BY <1>9 DEF t

LEMMA IdleOwed == Owed(Idle)
  <1>1. Idle.op = "submit" /\ Idle.step = "idle" /\ Idle.pass = NoPass
    BY DEF Idle
  <1>2. /\ NoPass.queue = << >> /\ NoPass.deferred = << >>
        /\ NoPass.round = FirstRound["submit"]
    BY DEF NoPass, StartPass, FirstRound
  <1> QED
    BY <1>1, <1>2 DEF Owed, Once, Queued, Deferred

LEMMA OwnStepOwed ==
  ASSUME TypeOK, NEW p \in Procs, Owed(session[p]), Request(p) \/ Serve(p) \/ Crash(p)
  PROVE  Owed(session'[p])
  <1>1. ASSUME Active(p), NEW outcome, Settle(p, outcome) PROVE Owed(session'[p])
    BY <1>1, SettleOwed
  <1>2. ASSUME Active(p), Clear(p) PROVE Owed(session'[p])
    BY <1>1, <1>2, GoToOwed DEF Clear
  <1>3. ASSUME Active(p), Miss(p) PROVE Owed(session'[p])
    BY <1>1, <1>3, DeferOwed DEF Miss
  <1>4. CASE Request(p)
    <2>1. \A e \in Events : << e >> \in Seq(Events)
      OBVIOUS
    <2> QED
      BY <1>4, <2>1, BatchesAssumption, ReceiveOwed
      DEF Request, PostEvent, PostBatch, ValidateEvent, FirstRound
  <1>5. CASE Lookup(p)
    <2>1. Active(p)
      BY <1>5 DEF Lookup, Active
    <2> QED
      BY <1>1, <1>2, <1>5, <2>1, GoToOwed DEF Lookup
  <1>6. CASE RequireReference(p)
    <2>1. Active(p)
      BY <1>6 DEF RequireReference, Active
    <2> QED
      BY <1>1, <1>2, <1>3, <1>6, <2>1 DEF RequireReference
  <1>7. CASE AppendEvent(p) \/ StoreFails(p)
    <2>1. Active(p)
      BY <1>7 DEF AppendEvent, StoreFails, Active
    <2> QED
      BY <1>1, <1>7, <2>1 DEF AppendEvent, StoreFails
  <1>8. CASE Respond(p) \/ Crash(p)
    <2>1. session'[p] = Idle
      BY <1>8 DEF Respond, Crash, TypeOK
    <2> QED
      BY <2>1, IdleOwed
  <1> QED
    BY <1>4, <1>5, <1>6, <1>7, <1>8 DEF Serve

LEMMA StepOwed == TypeOK /\ AllOwed /\ [Next]_vars => AllOwed'
  <1> SUFFICES ASSUME TypeOK, AllOwed, [Next]_vars, NEW q \in Procs
               PROVE  Owed(session'[q])
    BY DEF AllOwed
  <1>1. Owed(session[q])
    BY DEF AllOwed
  <1>2. CASE UNCHANGED vars
    BY <1>1, <1>2 DEF vars
  <1>3. CASE Next
    <2>1. PICK p \in Procs : Request(p) \/ Serve(p) \/ Crash(p)
      BY <1>3 DEF Next
    <2>2. CASE q = p
      BY <1>1, <2>1, <2>2, OwnStepOwed
    <2>3. CASE q # p
      BY <1>1, <2>1, <2>3, OthersStay
    <2> QED
      BY <2>2, <2>3
  <1> QED
    BY <1>2, <1>3

(* The service looks at the store through the same operators.              *)
LEMMA ServiceOperators ==
  ASSUME NEW l, NEW e
  PROVE  /\ ES!VerifyEvent(e) <=> VerifyEvent(e)
         /\ ES!Validation(l, e) = Validation(l, e)
         /\ ES!Put(l, e) = Put(l, e)
  <1>1. ES!VerifyEvent(e) <=> VerifyEvent(e)
    BY DEF ES!VerifyEvent, ES!ValidShape, VerifyEvent, ValidShape
  <1>2. ES!StoredIds(l) = StoredIds(l)
    BY DEF ES!StoredIds, StoredIds
  <1>3. \A id : ES!Get(l, id) = Get(l, id)
    BY DEF ES!Get, Get
  <1>4. /\ ES!Refers(e) <=> Refers(e)
        /\ \A r : ES!ReferenceMatches(e, r) <=> ReferenceMatches(e, r)
    BY DEF ES!Refers, ES!RevocationKind, Refers, RevocationKind, ES!ReferenceMatches,
           ReferenceMatches, ES!RevokedKind, RevokedKind
  <1>5. /\ ES!AlreadyStored(l, e) <=> AlreadyStored(l, e)
        /\ ES!Conflicting(l, e) <=> Conflicting(l, e)
        /\ ES!ReferenceMissing(l, e) <=> ReferenceMissing(l, e)
        /\ ES!ReferenceHolds(l, e) <=> ReferenceHolds(l, e)
    BY <1>2, <1>3, <1>4
    DEF ES!AlreadyStored, ES!Conflicting, ES!ReferenceMissing, ES!ReferenceHolds,
        AlreadyStored, Conflicting, ReferenceMissing, ReferenceHolds
  <1>6. ES!Validation(l, e) = Validation(l, e)
    BY <1>1, <1>2, <1>5 DEF ES!Validation, Validation, ES!Admitted, Admitted
  <1>7. ES!Put(l, e) = Put(l, e)
    BY <1>2 DEF ES!Put, Put
  <1> QED
    BY <1>1, <1>6, <1>7

(* What a client sees of the session s.                                    *)
View(s) ==
  IF s.step = "idle"
    THEN ES!NoJob
    ELSE [op |-> s.op, batch |-> s.batch, results |-> s.results]

LEMMA JobViews ==
  /\ job = [q \in Procs |-> View(session[q])]
  /\ job' = [q \in Procs |-> View(session'[q])]
  BY DEF job, View, ES!NoJob

(* A step of p shows in the job of p at most.                              *)
LEMMA JobStep ==
  ASSUME TypeOK, NEW p \in Procs, Request(p) \/ Serve(p) \/ Crash(p)
  PROVE  job' = [job EXCEPT ![p] = View(session'[p])]
  <1>1. \A q \in Procs : q # p => session'[q] = session[q]
    BY OthersStay
  <1> QED
    BY <1>1, JobViews

(* What is seen of a process at work.                                      *)
LEMMA JobAtWork ==
  ASSUME NEW p \in Procs, Active(p)
  PROVE  /\ job[p] = [op |-> session[p].op, batch |-> session[p].batch,
                      results |-> session[p].results]
         /\ job[p].op = session[p].op
         /\ job[p].batch = session[p].batch
         /\ job[p].results = session[p].results
  <1>1. session[p].step # "idle"
    BY DEF Active
  <1>2. job[p] = View(session[p])
    BY JobViews
  <1> QED
    BY <1>1, <1>2 DEF View

(* The current entry gets its result, and gets it for the first time.      *)
LEMMA SettleGives ==
  ASSUME TypeOK, NEW p \in Procs, Request(p) \/ Serve(p) \/ Crash(p), Active(p),
         Owed(session[p]), NEW outcome, Settle(p, outcome)
  PROVE  /\ Entry(p) \in DOMAIN job[p].batch
         /\ job[p].batch[Entry(p)] = Current(p)
         /\ ES!Give(p, Entry(p), outcome)
  <1> DEFINE s == session[p]
             i == Entry(p)
             results == [s.results EXCEPT ![i] = outcome]
  <1>1. /\ job[p] = [op |-> s.op, batch |-> s.batch, results |-> s.results]
        /\ job[p].batch = s.batch
        /\ job[p].results = s.results
    BY JobAtWork
  <1>2. i \in DOMAIN s.batch
    BY EntryType
  <1>3. s.results[i] = "none"
    <2>1. s.pass \in PassOf(DOMAIN s.batch) /\ s.pass.queue # << >>
      BY DEF TypeOK, WellFormed, Active
    <2>2. Queued(s.pass, i)
      BY <2>1, HeadWaits DEF Entry
    <2> QED
      BY <2>2 DEF Owed
  <1>4. /\ session'[p].op = s.op /\ session'[p].batch = s.batch
        /\ session'[p].results = results
        /\ session'[p].step \in {"answer", "lookup"}
    BY NextEntryFields DEF Settle
  <1>5. View(session'[p]) = [op |-> s.op, batch |-> s.batch, results |-> results]
    BY <1>4 DEF View
  <1>6. job' = [job EXCEPT ![p] = [op |-> s.op, batch |-> s.batch, results |-> results]]
    BY <1>5, JobStep
  <1>7. [job EXCEPT ![p].results[i] = outcome]
          = [job EXCEPT ![p] = [op |-> s.op, batch |-> s.batch, results |-> results]]
    <2> DEFINE old == [op |-> s.op, batch |-> s.batch, results |-> s.results]
    <2>1. [old EXCEPT !.results = [old.results EXCEPT ![i] = outcome]]
            = [op |-> s.op, batch |-> s.batch, results |-> results]
      OBVIOUS
    <2>2. job[p] = old
      BY <1>1
    <2>3. [job EXCEPT ![p].results[i] = outcome]
            = [job EXCEPT ![p] =
                [job[p] EXCEPT !.results = [job[p].results EXCEPT ![i] = outcome]]]
      BY Zenon
    <2> HIDE DEF old, results
    <2> QED
      BY <2>1, <2>2, <2>3
  <1>8. ES!Give(p, i, outcome)
    BY <1>1, <1>3, <1>6, <1>7 DEF ES!Give
  <1> QED
    BY <1>1, <1>2, <1>8 DEF Current

(* Going on with the current entry, or putting it off, does not show.      *)
LEMMA QuietStep ==
  ASSUME TypeOK, NEW p \in Procs, Request(p) \/ Serve(p) \/ Crash(p), Active(p),
         \/ \E step \in {"reference", "append"} : GoTo(p, step)
         \/ \E pass : NextEntry(p, pass, session[p].results)
  PROVE  job' = job
  <1>1. /\ session'[p].op = session[p].op
        /\ session'[p].batch = session[p].batch
        /\ session'[p].results = session[p].results
        /\ session'[p].step # "idle"
    BY GoToFields, NextEntryFields
  <1>2. View(session'[p]) = View(session[p])
    BY <1>1 DEF View, Active
  <1> QED
    BY <1>2, JobStep, JobViews

Acts(p) == Request(p) \/ Serve(p) \/ Crash(p)

Shows == ES!Next \/ UNCHANGED ES!vars

(* What the service says of the current entry.                             *)
LEMMA EntryVerdict ==
  ASSUME NEW p \in Procs, Active(p), job[p].batch[Entry(p)] = Current(p)
  PROVE  /\ ES!Verdict(p, Entry(p)) = Validation(log, Current(p))
         /\ ES!VerifyEvent(job[p].batch[Entry(p)]) <=> VerifyEvent(Current(p))
         /\ ES!Put(log, job[p].batch[Entry(p)]) = Put(log, Current(p))
         /\ job[p].op = session[p].op
  BY ServiceOperators, JobAtWork DEF ES!Verdict

LEMMA DecideShows ==
  ASSUME NEW p \in Procs, NEW i \in DOMAIN job[p].batch, ES!Decide(p, i)
  PROVE  Shows
  BY DEF Shows, ES!Next

LEMMA TurnDownShows ==
  ASSUME TypeOK, NEW p \in Procs, Acts(p), Active(p), Owed(session[p]),
         NEW outcome \in {"invalid", "conflict", "missing"}, Settle(p, outcome),
         log' = log, Validation(log, Current(p)) = outcome
  PROVE  Shows
  <1>1. /\ Entry(p) \in DOMAIN job[p].batch
        /\ job[p].batch[Entry(p)] = Current(p)
        /\ ES!Give(p, Entry(p), outcome)
    BY SettleGives DEF Acts
  <1>2. ES!Verdict(p, Entry(p)) = outcome
    BY <1>1, EntryVerdict
  <1>3. ES!TurnDown(p, Entry(p))
    BY <1>1, <1>2 DEF ES!TurnDown
  <1> QED
    BY <1>1, <1>3, DecideShows DEF ES!Decide

(* A fit event goes on to its append, or the request ends with it.  A      *)
(* process that is alone gives up none.                                    *)
LEMMA ClearShows ==
  ASSUME TypeOK, NEW p \in Procs, Acts(p), Active(p), Owed(session[p]), Clear(p),
         log' = log, Validation(log, Current(p)) \in {"accepted", "conflict"},
         Validation(log, Current(p)) = "conflict" => Shared,
         ~Shared => Solo(log', session'[p])
  PROVE  Shows
  <1> DEFINE i == Entry(p)
  <1>1. CASE session[p].pass.round # "final"
    <2>1. job' = job
      BY <1>1, QuietStep DEF Clear, Acts
    <2> QED
      BY <2>1 DEF Shows, ES!vars
  <1>2. CASE session[p].pass.round = "final" /\ session[p].op = "validate"
    <2>1. Settle(p, "valid")
      BY <1>2 DEF Clear
    <2>2. /\ i \in DOMAIN job[p].batch
          /\ job[p].batch[i] = Current(p)
          /\ ES!Give(p, i, "valid")
      BY <2>1, SettleGives DEF Acts
    <2>3. ES!Verdict(p, i) = Validation(log, Current(p)) /\ job[p].op = "validate"
      BY <1>2, <2>2, EntryVerdict
    <2>4. ES!Welcome(p, i)
      BY <2>3 DEF ES!Welcome
    <2>5. ES!Approve(p, i)
      BY <2>2, <2>3, <2>4 DEF ES!Approve
    <2> QED
      BY <2>2, <2>5, DecideShows DEF ES!Decide
  <1>3. CASE session[p].pass.round = "final" /\ session[p].op # "validate"
    <2>1. Settle(p, "unsubmitted")
      BY <1>3 DEF Clear
    <2>2. /\ i \in DOMAIN job[p].batch
          /\ job[p].batch[i] = Current(p)
          /\ ES!Give(p, i, "unsubmitted")
      BY <2>1, SettleGives DEF Acts
    <2>3. session[p].op = "batch"
      <3>1. session[p].op \in {"submit", "batch", "validate"}
        BY DEF TypeOK, Session, FirstRound
      <3> QED
        BY <1>3, <3>1 DEF Owed, FirstRound
    <2>4. ES!Verdict(p, i) = Validation(log, Current(p)) /\ job[p].op = "batch"
      BY <2>2, <2>3, EntryVerdict
    <2>5. Shared
      <3> SUFFICES ASSUME ~Shared PROVE FALSE
        OBVIOUS
      <3>1. /\ i \in DOMAIN session[p].batch
            /\ session[p].results \in [DOMAIN session[p].batch -> Outcomes]
        BY EntryType DEF TypeOK, WellFormed
      <3>2. /\ session'[p].batch = session[p].batch
            /\ session'[p].results = [session[p].results EXCEPT ![i] = "unsubmitted"]
        BY <2>1, NextEntryFields DEF Settle
      <3>3. session'[p].results[i] = "unsubmitted"
        BY <3>1, <3>2
      <3>4. Fate(log', session'[p], session'[p].batch[i], session'[p].results[i])
        BY <3>1, <3>2 DEF Solo
      <3> QED
        BY <3>3, <3>4 DEF Fate
    <2>6. ES!Welcome(p, i)
      BY <2>4, <2>5 DEF ES!Welcome
    <2>7. ES!GiveUp(p, i)
      BY <2>2, <2>4, <2>5, <2>6 DEF ES!GiveUp
    <2> QED
      BY <2>2, <2>7, DecideShows DEF ES!Decide
  <1> QED
    BY <1>1, <1>2, <1>3

LEMMA MissShows ==
  ASSUME TypeOK, NEW p \in Procs, Acts(p), Active(p), Owed(session[p]), Miss(p),
         log' = log, Validation(log, Current(p)) = "missing"
  PROVE  Shows
  <1>1. CASE PutsOff(session[p].pass)
    <2>1. job' = job
      BY <1>1, QuietStep DEF Miss, Acts
    <2> QED
      BY <2>1 DEF Shows, ES!vars
  <1>2. CASE ~PutsOff(session[p].pass)
    BY <1>2, TurnDownShows DEF Miss
  <1> QED
    BY <1>1, <1>2

LEMMA LookupShows ==
  ASSUME TypeOK, NEW p \in Procs, Acts(p), Lookup(p), Owed(session[p]),
         ~Shared => Solo(log', session'[p])
  PROVE  Shows
  <1> DEFINE e == Current(p)
  <1>1. Active(p) /\ log' = log
    BY DEF Lookup, Active
  <1>2. CASE ~VerifyEvent(e) /\ Settle(p, "invalid")
    <2>1. Validation(log, e) = "invalid"
      BY <1>2 DEF Validation
    <2> QED
      BY <1>1, <1>2, <2>1, TurnDownShows
  <1>3. CASE VerifyEvent(e) /\ Conflicting(log, e) /\ Settle(p, "conflict")
    <2>1. Validation(log, e) = "conflict"
      BY <1>3 DEF Validation, Conflicting
    <2> QED
      BY <1>1, <1>3, <2>1, TurnDownShows
  <1>4. CASE VerifyEvent(e) /\ AlreadyStored(log, e) /\ Clear(p)
    <2>1. Validation(log, e) = "accepted"
      BY <1>4 DEF Validation, AlreadyStored, Conflicting, Admitted
    <2> QED
      BY <1>1, <1>4, <2>1, ClearShows
  <1>5. CASE VerifyEvent(e) /\ e.id \notin StoredIds(log) /\ ~Refers(e) /\ Clear(p)
    <2>1. Validation(log, e) = "accepted"
      BY <1>5 DEF Validation, Conflicting, ReferenceMissing, Admitted, ReferenceHolds
    <2> QED
      BY <1>1, <1>5, <2>1, ClearShows
  <1>6. CASE GoTo(p, "reference")
    <2>1. job' = job
      BY <1>1, <1>6, QuietStep DEF Acts
    <2> QED
      BY <1>1, <2>1 DEF Shows, ES!vars
  <1> QED
    BY <1>2, <1>3, <1>4, <1>5, <1>6 DEF Lookup

(* What was stored since the lookup changes nothing about the reference.   *)
LEMMA ReferenceShows ==
  ASSUME IInv, NEW p \in Procs, Acts(p), RequireReference(p), Owed(session[p]),
         ~Shared => Solo(log, session[p]) /\ Solo(log', session'[p])
  PROVE  Shows
  <1> DEFINE e == Current(p)
  <1>1. /\ Active(p) /\ log' = log /\ TypeOK /\ session[p].step = "reference"
        /\ Sound(log) /\ log \in Seq(Events)
    BY DEF RequireReference, Active, IInv, TypeOK
  <1>2. VerifyEvent(e)
    BY <1>1 DEF IInv, ClearedFits
  <1>3. CASE ReferenceMissing(log, e) /\ Miss(p)
    <2>1. Validation(log, e) = "missing"
      BY <1>1, <1>2, <1>3, MissingReported
    <2> QED
      BY <1>1, <1>3, <2>1, MissShows
  <1>4. CASE ~ReferenceMissing(log, e) /\ ReferenceHolds(log, e) /\ Clear(p)
    <2>1. Validation(log, e) \in {"accepted", "conflict"}
      BY <1>2, <1>4, HoldingWelcome
    <2>2. ~Shared => e.id \notin StoredIds(log)
      BY <1>1 DEF Solo, At, Current, Entry
    <2>3. Validation(log, e) = "conflict" => Shared
      BY <1>2, <1>4, <2>2 DEF Validation, Conflicting, Admitted
    <2> QED
      BY <1>1, <1>4, <2>1, <2>3, ClearShows
  <1>5. CASE ~ReferenceMissing(log, e) /\ ~ReferenceHolds(log, e) /\ Settle(p, "invalid")
    <2>1. Validation(log, e) = "invalid"
      BY <1>1, <1>2, <1>5, MismatchReported
    <2> QED
      BY <1>1, <1>5, <2>1, TurnDownShows
  <1> QED
    BY <1>3, <1>4, <1>5 DEF RequireReference

LEMMA AppendShows ==
  ASSUME IInv, NEW p \in Procs, Acts(p), AppendEvent(p), Owed(session[p]),
         ~Shared => Solo(log, session[p])
  PROVE  Shows
  <1> DEFINE e == Current(p)
             i == Entry(p)
  <1>1. /\ session[p].step = "append" /\ Active(p) /\ TypeOK
        /\ log' = Put(log, e) /\ Settle(p, "accepted")
        /\ Sound(log) /\ log \in Seq(Events)
    BY DEF AppendEvent, Active, IInv, TypeOK
  <1>2. VerifyEvent(e) /\ (e.id \in StoredIds(log) \/ ReferenceHolds(log, e))
    BY <1>1 DEF IInv, ClearedFits
  <1>3. Validation(log, e) \in {"accepted", "conflict"}
    BY <1>1, <1>2, StoredReferenceHolds, HoldingWelcome
  <1>4. ~Shared => Validation(log, e) = "accepted"
    BY <1>1 DEF Solo, At, Current, Entry
  <1>5. session[p].op # "validate"
    BY <1>1 DEF Owed, FirstRound
  <1>6. /\ i \in DOMAIN job[p].batch
        /\ job[p].batch[i] = e
        /\ ES!Give(p, i, "accepted")
    BY <1>1, SettleGives DEF Acts
  <1>7. /\ ES!Verdict(p, i) = Validation(log, e)
        /\ ES!Put(log, job[p].batch[i]) = Put(log, e)
        /\ job[p].op = session[p].op
    BY <1>1, <1>6, EntryVerdict
  <1>8. ES!Welcome(p, i)
    BY <1>3, <1>4, <1>7 DEF ES!Welcome
  <1>9. ES!Accept(p, i)
    BY <1>1, <1>5, <1>6, <1>7, <1>8 DEF ES!Accept
  <1> QED
    BY <1>6, <1>9, DecideShows DEF ES!Decide

LEMMA FailShows ==
  ASSUME TypeOK, NEW p \in Procs, Acts(p), StoreFails(p), Owed(session[p])
  PROVE  Shows
  <1>1. Active(p) /\ log' = log /\ VerifyEvent(Current(p)) /\ Settle(p, "store_error")
    BY DEF StoreFails, Active
  <1>2. /\ Entry(p) \in DOMAIN job[p].batch
        /\ job[p].batch[Entry(p)] = Current(p)
        /\ ES!Give(p, Entry(p), "store_error")
    BY <1>1, SettleGives DEF Acts
  <1>3. ES!VerifyEvent(job[p].batch[Entry(p)])
    BY <1>1, <1>2, EntryVerdict
  <1>4. ES!Fail(p, Entry(p))
    BY <1>1, <1>2, <1>3 DEF ES!Fail
  <1> QED
    BY <1>2, <1>4, DecideShows DEF ES!Decide

LEMMA EndShows ==
  ASSUME TypeOK, NEW p \in Procs, Respond(p) \/ Crash(p)
  PROVE  Shows
  <1>1. session[p].step # "idle" /\ log' = log /\ session'[p] = Idle
    BY DEF Respond, Crash, TypeOK
  <1>2. job[p].op = session[p].op
    BY <1>1, JobViews DEF View
  <1>3. session[p].op # "none"
    BY DEF TypeOK, Session, FirstRound
  <1>4. ES!NoJob.op = "none"
    BY DEF ES!NoJob
  <1>5. View(session'[p]) = ES!NoJob
    BY <1>1 DEF View, Idle
  <1>6. job' = [job EXCEPT ![p] = ES!NoJob]
    BY <1>5, JobStep DEF Serve
  <1>7. ES!End(p)
    BY <1>1, <1>2, <1>3, <1>4, <1>6 DEF ES!End
  <1> QED
    BY <1>7 DEF Shows, ES!Next

LEMMA RequestShows ==
  ASSUME TypeOK, NEW p \in Procs, Request(p)
  PROVE  Shows
  <1>1. ASSUME NEW op \in DOMAIN FirstRound, NEW batch \in Seq(Events),
               Receive(p, op, batch)
        PROVE  ES!Begin(p, op, batch)
    <2>1. session[p].step = "idle" /\ log' = log
      BY <1>1 DEF Receive
    <2>2. job[p] = ES!NoJob
      BY <2>1, JobViews DEF View
    <2>3. /\ session'[p].op = op
          /\ session'[p].batch = batch
          /\ session'[p].step = IF batch = << >> THEN "answer" ELSE "lookup"
      BY <1>1, ReceiveFields
    <2>4. session'[p].results = [i \in 1 .. Len(batch) |-> "none"]
      BY <1>1, ReceiveFields, Zenon
    <2>5. View(session'[p]) = [op |-> session'[p].op, batch |-> session'[p].batch,
                               results |-> session'[p].results]
      BY <2>3 DEF View
    <2>6. job' = [job EXCEPT ![p] = View(session'[p])]
      BY JobStep
    <2>7. job' = [job EXCEPT ![p] = [op |-> op, batch |-> batch,
                                     results |-> [i \in 1 .. Len(batch) |-> "none"]]]
      BY <2>3, <2>4, <2>5, <2>6, Zenon
    <2> QED
      BY <2>1, <2>2, <2>7, Zenon DEF ES!Begin
  <1>2. \A e \in Events : << e >> \in Seq(Events)
    OBVIOUS
  <1>3. CASE PostEvent(p) \/ ValidateEvent(p)
    <2>1. PICK e \in Events, op \in {"submit", "validate"} : Receive(p, op, << e >>)
      BY <1>3 DEF PostEvent, ValidateEvent
    <2>2. ES!Begin(p, op, << e >>)
      BY <1>1, <1>2, <2>1 DEF FirstRound
    <2> QED
      BY <2>2 DEF Shows, ES!Next, ES!Request
  <1>4. CASE PostBatch(p)
    <2>1. PICK batch \in Batches : Receive(p, "batch", batch)
      BY <1>4 DEF PostBatch
    <2>2. ES!Begin(p, "batch", batch)
      BY <1>1, <2>1, BatchesAssumption DEF FirstRound
    <2> QED
      BY <2>2 DEF Shows, ES!Next, ES!Request
  <1> QED
    BY <1>3, <1>4 DEF Request

ServiceInv == IInv /\ AllOwed /\ (~Shared => AllSolo)

LEMMA StepService == ServiceInv /\ [Next]_vars => ServiceInv' /\ [ES!Next]_(ES!vars)
  <1> SUFFICES ASSUME ServiceInv, [Next]_vars
               PROVE  ServiceInv' /\ [ES!Next]_(ES!vars)
    OBVIOUS
  <1>1. IInv /\ TypeOK /\ AllOwed
    BY DEF ServiceInv, IInv
  <1>2. ~Shared => AllSolo'
    <2>1. ~Shared => Alone /\ AllSolo
      BY DEF ServiceInv, Shared, Alone
    <2> QED
      BY <1>1, <2>1, StepSolo
  <1>3. ServiceInv'
    BY <1>1, <1>2, StepInv, StepOwed DEF ServiceInv, Shared
  <1>4. CASE UNCHANGED vars
    <2>1. job' = job
      BY <1>4, JobViews DEF vars
    <2> QED
      BY <1>3, <1>4, <2>1 DEF vars, ES!vars
  <1>5. CASE Next
    <2>1. PICK p \in Procs : Acts(p)
      BY <1>5 DEF Next, Acts
    <2>2. /\ Owed(session[p])
          /\ ~Shared => Solo(log, session[p]) /\ Solo(log', session'[p])
      BY <1>1, <1>2 DEF AllOwed, AllSolo, ServiceInv
    <2>3. Shows
      BY <1>1, <2>1, <2>2, LookupShows, ReferenceShows, AppendShows, FailShows,
         EndShows, RequestShows
      DEF Acts, Serve
    <2> QED
      BY <1>3, <2>3 DEF Shows
  <1> QED
    BY <1>4, <1>5

(* However the statements of the processes interleave, and however often a *)
(* batch goes over its events, each event is decided once and as the       *)
(* validation in one go decides it (submit_event,                          *)
(* submit_events_with_reference_retry).  Processes that share the store    *)
(* may in addition accept an event of a taken id, or give up one whose     *)
(* reference has just come.                                                *)
THEOREM ImplementsTheService == Spec => ImplementsService
  <1>1. Init => ServiceInv /\ ES!Init
    <2> SUFFICES ASSUME Init PROVE ServiceInv /\ ES!Init
      OBVIOUS
    <2>1. AllOwed /\ AllSolo
      BY IdleOwed, IdleSolo DEF Init, AllOwed, AllSolo
    <2>2. \A p \in Procs : View(session[p]) = ES!NoJob
      BY DEF Init, View, Idle
    <2>3. job = [p \in Procs |-> ES!NoJob]
      BY <2>2, JobViews
    <2> QED
      BY <2>1, <2>3, InitInv DEF ServiceInv, Init, ES!Init
  <1> QED
    BY <1>1, StepService, PTL DEF Spec, ImplementsService, ES!Spec

(* The service alone makes the store the log of EventLog: that events are  *)
(* verified, have new ids and come after what they take back follows from  *)
(* how each of them is decided (validate_event_for_submission), whatever   *)
(* the requests are.                                                       *)
THEOREM ServicePublishes == ImplementsService => RefinesEventLog
  <1>1. ES!Init => EL!Init
    BY DEF ES!Init, EL!Init
  <1>2. [ES!Next]_(ES!vars) => [EL!Next]_log
    <2> SUFFICES ASSUME ES!Next, log' # log PROVE EL!Next
      BY DEF ES!vars
    <2>0. PICK p \in Procs : \E i \in DOMAIN job[p].batch : ES!Accept(p, i)
      BY DEF ES!Next, ES!Request, ES!Begin, ES!Decide, ES!Approve, ES!TurnDown,
             ES!GiveUp, ES!Fail, ES!End
    <2>1. PICK i \in DOMAIN job[p].batch : ES!Accept(p, i)
      BY <2>0
    <2> DEFINE e == job[p].batch[i]
    <2>2. /\ log' = ES!Put(log, e)
          /\ ES!Verdict(p, i) \in {"accepted", "conflict"}
          /\ ES!Verdict(p, i) = ES!Validation(log, e)
      BY <2>1 DEF ES!Accept, ES!Welcome, ES!Verdict
    <2> HIDE DEF e
    <2>3. log' = Put(log, e) /\ Validation(log, e) \in {"accepted", "conflict"}
      BY <2>2, ServiceOperators
    <2>4. e.id \notin StoredIds(log) /\ log' = Append(log, e)
      BY <2>3 DEF Put
    <2>5. Validation(log, e) = "accepted"
      BY <2>3, <2>4 DEF Validation, Conflicting, VerifyEvent
    <2>6. VerifyEvent(e) /\ ReferenceHolds(log, e)
      BY <2>4, <2>5, AcceptedFits
    <2>7. e \in Events
      BY <2>6, EventsAssumption DEF VerifyEvent
    <2>8. EL!Publishable(e)
      BY <2>4, <2>6
      DEF EL!Publishable, EL!VerifyEvent, EL!ValidShape, EL!StoredIds,
          EL!ReferenceHolds, EL!Refers, EL!ReferenceMatches, EL!RevokedKind,
          EL!Get, EL!RevocationKind, VerifyEvent, ValidShape, StoredIds,
          ReferenceHolds, Refers, ReferenceMatches, RevokedKind, Get,
          RevocationKind
    <2>9. EL!Publish(e)
      BY <2>4, <2>8 DEF EL!Publish
    <2> QED
      BY <2>7, <2>9 DEF EL!Next
  <1> QED
    BY <1>1, <1>2, PTL DEF ImplementsService, ES!Spec, RefinesEventLog, EL!Spec
==============================================================================
