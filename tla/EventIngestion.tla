--------------------------- MODULE EventIngestion ---------------------------
(***************************************************************************)
(* How events get into the store of one node.                              *)
(*                                                                         *)
(* Procs are the operating system processes that have the database file    *)
(* open: `tip-node serve`, and any `tip-node sync` started next to it.     *)
(* Within a process the store mutex serialises the handlers, so a process  *)
(* works on one request at a time; between processes only the statements   *)
(* of SQLite are atomic, and an action is one of them together with the    *)
(* code up to the next.                                                    *)
(*                                                                         *)
(* session[p] is the request process p works on:                           *)
(*   op        what it asks for: "submit" one event, "batch", "validate"   *)
(*   step      where it is: "idle"; before the SELECT of                   *)
(*             event_already_stored ("lookup"), before the one of          *)
(*             require_referenced_event ("reference"), before the INSERT   *)
(*             ("append"); "answer" when every event has its result        *)
(*   batch     the events of the request                                   *)
(*   pass      what submit_events_with_reference_retry keeps               *)
(*   results   the result of each event, "none" as long as it has none     *)
(***************************************************************************)
EXTENDS EventStore, ReferenceRetry

CONSTANTS
  Procs,     \* the processes with the database open
  Batches    \* the sequences of events that arrive in one request

ASSUME BatchesAssumption == Batches \subseteq Seq(Events)

VARIABLES log, session

vars == << log, session >>

Steps == {"idle", "lookup", "reference", "append", "answer"}

Outcomes ==
  {"none", "accepted", "valid", "invalid", "conflict", "missing",
   "unsubmitted", "store_error"}

Rejections == {"invalid", "conflict", "missing", "unsubmitted"}

Idle ==
  [op |-> "submit", step |-> "idle", batch |-> << >>, pass |-> NoPass,
   results |-> << >>]

Init ==
  /\ log = << >>
  /\ session = [p \in Procs |-> Idle]

-----------------------------------------------------------------------------
(* Requests. *)

FirstRound == [submit |-> "only", batch |-> "first", validate |-> "final"]

(* The faulty form counts the events of the batch from 0.                  *)
ReceiveFromZero(p, op, batch) ==
  /\ session[p].step = "idle"
  /\ session' = [session EXCEPT ![p] =
       [op      |-> op,
        step    |-> IF batch = << >> THEN "answer" ELSE "lookup",
        batch   |-> batch,
        pass    |-> StartPass(FirstRound[op], [i \in 1 .. Len(batch) |-> i - 1]),
        results |-> [i \in 1 .. Len(batch) |-> "none"]]]
  /\ UNCHANGED log

Receive(p, op, batch) ==
  /\ session[p].step = "idle"
  /\ session' = [session EXCEPT ![p] =
       [op      |-> op,
        step    |-> IF batch = << >> THEN "answer" ELSE "lookup",
        batch   |-> batch,
        pass    |-> StartPass(FirstRound[op], [i \in 1 .. Len(batch) |-> i]),
        results |-> [i \in 1 .. Len(batch) |-> "none"]]]
  /\ UNCHANGED log

(* POST /events: one submit_event. *)
PostEvent(p) == \E e \in Events : Receive(p, "submit", << e >>)

(* POST /events/batch, and every page of a synchronisation. *)
PostBatch(p) == \E batch \in Batches : Receive(p, "batch", batch)

(* POST /events/validate: the validation of submit_event without append. *)
ValidateEvent(p) == \E e \in Events : Receive(p, "validate", << e >>)

-----------------------------------------------------------------------------
(* The event that p works on, and the result it gets. *)

Entry(p) == Head(session[p].pass.queue)

Current(p) == session[p].batch[Entry(p)]

NextEntry(p, pass, results) ==
  session' = [session EXCEPT ![p] =
    [@ EXCEPT !.results = results,
              !.pass = Continue(pass),
              !.step = IF AllDone(pass) THEN "answer" ELSE "lookup"]]

Settle(p, outcome) ==
  NextEntry(p, SettleHead(session[p].pass),
            [session[p].results EXCEPT ![Entry(p)] = outcome])

(* The event lacks its reference; a batch tries it again later. *)
Miss(p) ==
  IF PutsOff(session[p].pass)
    THEN NextEntry(p, DeferHead(session[p].pass), session[p].results)
    ELSE Settle(p, "missing")

GoTo(p, step) == session' = [session EXCEPT ![p].step = step]

(***************************************************************************)
(* validate_event_for_submission succeeded.  POST /events/validate and the *)
(* last round of a batch end with that; the latter then rejects the event  *)
(* as one that "could not be submitted".                                   *)
(***************************************************************************)
Clear(p) ==
  IF session[p].pass.round = "final"
    THEN Settle(p, IF session[p].op = "validate" THEN "valid" ELSE "unsubmitted")
    ELSE GoTo(p, "append")

-----------------------------------------------------------------------------
(* Statements. *)

(***************************************************************************)
(* verify_event, then the SELECT of event_already_stored.  The faulty form *)
(* compares nothing but the ids.                                           *)
(***************************************************************************)
LookupById(p) ==
  /\ session[p].step = "lookup"
  /\ LET e == Current(p) IN
     \/ ~VerifyEvent(e) /\ Settle(p, "invalid")
     \/ VerifyEvent(e) /\ e.id \in StoredIds(log) /\ Clear(p)
     \/ VerifyEvent(e) /\ e.id \notin StoredIds(log) /\ ~Refers(e) /\ Clear(p)
     \/ VerifyEvent(e) /\ e.id \notin StoredIds(log) /\ Refers(e) /\ GoTo(p, "reference")
  /\ UNCHANGED log

Lookup(p) ==
  /\ session[p].step = "lookup"
  /\ LET e == Current(p) IN
     \/ ~VerifyEvent(e) /\ Settle(p, "invalid")
     \/ VerifyEvent(e) /\ Conflicting(log, e) /\ Settle(p, "conflict")
     \/ VerifyEvent(e) /\ AlreadyStored(log, e) /\ Clear(p)
     \/ VerifyEvent(e) /\ e.id \notin StoredIds(log) /\ ~Refers(e) /\ Clear(p)
     \/ VerifyEvent(e) /\ e.id \notin StoredIds(log) /\ Refers(e) /\ GoTo(p, "reference")
  /\ UNCHANGED log

(***************************************************************************)
(* The SELECT of require_referenced_event, and the checks on its row.  The *)
(* faulty form checks that the row exists and nothing more.                *)
(***************************************************************************)
RequireAnyReference(p) ==
  /\ session[p].step = "reference"
  /\ \/ ReferenceMissing(log, Current(p)) /\ Miss(p)
     \/ ~ReferenceMissing(log, Current(p)) /\ Clear(p)
  /\ UNCHANGED log

RequireReference(p) ==
  /\ session[p].step = "reference"
  /\ LET e == Current(p) IN
     \/ ReferenceMissing(log, e) /\ Miss(p)
     \/ ~ReferenceMissing(log, e) /\ ReferenceHolds(log, e) /\ Clear(p)
     \/ ~ReferenceMissing(log, e) /\ ~ReferenceHolds(log, e) /\ Settle(p, "invalid")
  /\ UNCHANGED log

(***************************************************************************)
(* The INSERT of append.  The faulty form does not ignore a stored id.     *)
(***************************************************************************)
AppendAlways(p) ==
  /\ session[p].step = "append"
  /\ log' = Append(log, Current(p))
  /\ Settle(p, "accepted")

AppendEvent(p) ==
  /\ session[p].step = "append"
  /\ log' = Put(log, Current(p))
  /\ Settle(p, "accepted")

(* A statement fails: the database is locked, or the disk is full. *)
StoreFails(p) ==
  /\ session[p].step \in {"lookup", "reference", "append"}
  /\ VerifyEvent(Current(p))
  /\ Settle(p, "store_error")
  /\ UNCHANGED log

Respond(p) ==
  /\ session[p].step = "answer"
  /\ session' = [session EXCEPT ![p] = Idle]
  /\ UNCHANGED log

(* The process dies and is started again: only the database is left. *)
Crash(p) ==
  /\ session[p].step # "idle"
  /\ session' = [session EXCEPT ![p] = Idle]
  /\ UNCHANGED log

Request(p) == PostEvent(p) \/ PostBatch(p) \/ ValidateEvent(p)

Serve(p) ==
  \/ Lookup(p)
  \/ RequireReference(p)
  \/ AppendEvent(p)
  \/ StoreFails(p)
  \/ Respond(p)

Next == \E p \in Procs : Request(p) \/ Serve(p) \/ Crash(p)

Spec == Init /\ [][Next]_vars

(* A process that has begun with a request keeps running. *)
FairSpec == Spec /\ \A p \in Procs : WF_vars(Serve(p))

-----------------------------------------------------------------------------
(* Properties. *)

(* The entries of the passes are indices into the batch, every event of it *)
(* has a place for its result, and a pass that is under way has an entry   *)
(* to go on with.                                                          *)
Session ==
  [op : DOMAIN FirstRound, step : Steps, batch : Seq(Events), pass : PassOf(Nat),
   results : Seq(Outcomes)]

WellFormed(s) ==
  /\ s.pass \in PassOf(DOMAIN s.batch)
  /\ s.results \in [DOMAIN s.batch -> Outcomes]
  /\ s.step \in {"lookup", "reference", "append"} => s.pass.queue # << >>

TypeOK ==
  /\ log \in Seq(Events)
  /\ session \in [Procs -> Session]
  /\ \A p \in Procs : WellFormed(session[p])

(* Between the validation of an event and its append, other processes may  *)
(* write to the store, yet the event stays fit to be appended.             *)
ClearedFits ==
  \A p \in Procs :
    /\ session[p].step \in {"reference", "append"} => VerifyEvent(Current(p))
    /\ session[p].step = "append" =>
         Current(p).id \in StoredIds(log) \/ ReferenceHolds(log, Current(p))

(* An id names one stored event, also when two processes that validated    *)
(* different events under that id append them both (SPEC.md, POST /events: *)
(* the same id with different content is a conflict).                      *)
UniqueIds == HasUniqueIds(log)

(* However passes are interleaved, retried or cut short, a stored          *)
(* revocation has the event it takes back before it, with its kind,        *)
(* subject and issuer (validate_event_references).                         *)
RevocationsResolve == RevocationsResolved(log)

(* active_claims and active_attestations look at ids alone, among the      *)
(* events about one subject; what they show are exactly the events that    *)
(* their own issuer has not taken back.                                    *)
ProjectionExact ==
  \A subject \in {e.subject : e \in Events},
     kind \in {"claim.added", "attestation.issued"} :
    ActiveEvents(EventsAbout(log, subject), kind) = Unrevoked(log, subject, kind)

(* What was answered "accepted" is in the store: this very event, not      *)
(* another one of the same id (SPEC.md, POST /events).                     *)
AcceptedIsStored ==
  \A p \in Procs : \A i \in DOMAIN session[p].batch :
    session[p].results[i] = "accepted" => session[p].batch[i] \in Range(log)

(* Wherever in a batch the events stood, one that was turned down would be *)
(* turned down again after the batch: no event is lost for a reference     *)
(* that came later in the batch, and permanent failures stay rejected      *)
(* (SPEC.md, POST /events/batch).                                          *)
RejectionsStand ==
  \A p \in Procs : session[p].step = "answer" =>
    \A i \in DOMAIN session[p].batch :
      session[p].results[i] \in Rejections =>
        Validation(log, session[p].batch[i]) # "accepted"

(* A process that has the database to itself answers for a lone event what *)
(* the validation in one go says, and says it of the store it leaves.      *)
SoloAnswersExact ==
  \A p \in Procs :
    session[p].step = "answer" /\ session[p].op \in {"submit", "validate"} =>
      LET answer == session[p].results[1] IN
      answer # "store_error" =>
        Validation(log, session[p].batch[1]) =
          IF answer = "valid" THEN "accepted" ELSE answer

(* Every event of a batch has a result when the batch is answered: the     *)
(* expect of submit_events_with_reference_retry never panics, which would  *)
(* poison the store mutex.                                                 *)
EveryEventAnswered ==
  \A p \in Procs : session[p].step = "answer" =>
    \A i \in DOMAIN session[p].batch : session[p].results[i] # "none"

(* The retries of a batch come to an end, whatever refers to what.         *)
RequestsEnd ==
  \A p \in Procs : session[p].step # "idle" ~> session[p].step = "idle"

EL == INSTANCE EventLog

(* The processes together behave like one log of published events.         *)
RefinesEventLog == EL!Spec

(* What clients see of a session.                                          *)
job ==
  [p \in Procs |->
     IF session[p].step = "idle"
       THEN [op |-> "none", batch |-> << >>, results |-> << >>]
       ELSE [op |-> session[p].op, batch |-> session[p].batch,
             results |-> session[p].results]]

Shared == \E p, q \in Procs : p # q

ES == INSTANCE EventService

(* Each event of a request is decided once and at one moment, although its *)
(* validation and its append are several statements and a batch looks at   *)
(* it again and again: what submit_event and                               *)
(* submit_events_with_reference_retry answer is what the validation in one *)
(* go says of the store at that moment.  Processes that share the store    *)
(* may answer "accepted" for a conflict, or give up an event that has just *)
(* become acceptable, and do no other harm to each other's answers.        *)
ImplementsService == ES!Spec

(* The steps that a request still has to take for the event it is at.      *)
StepsLeft == [lookup |-> 3, reference |-> 2, append |-> 1, answer |-> 0]

Advances(s, t) ==
  \/ t.step = "idle"
  \/ /\ t.batch = s.batch
     /\ \/ FurtherOn(t.pass, s.pass)
        \/ t.pass = s.pass /\ StepsLeft[t.step] < StepsLeft[s.step]

(* Every step on a request ends it, gets further with the current event,   *)
(* or takes a submission off those that may still come, however much       *)
(* refers to what: submit_events_with_reference_retry, which goes over the *)
(* same events again and again, submits at most (n + 1) * (n + 2) / 2      *)
(* times for a batch of n events.                                          *)
RequestsAdvance ==
  [][\A p \in Procs : session[p].step # "idle" /\ session'[p] # session[p] =>
       Advances(session[p], session'[p])]_vars
==============================================================================
