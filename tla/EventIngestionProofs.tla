------------------------ MODULE EventIngestionProofs ------------------------
(***************************************************************************)
(* EventIngestion is type correct, keeps its store sound, and implements   *)
(* EventLog, for every set of events, batches and processes.               *)
(*                                                                         *)
(* Soundness of the store is not inductive by itself: the append of one    *)
(* process relies on a validation made before other processes wrote to the *)
(* store.  ClearedFits is what is left of that validation.                 *)
(***************************************************************************)
EXTENDS EventIngestion, EventStoreLemmas, ReferenceRetryLemmas

IInv == TypeOK /\ Sound(log) /\ ClearedFits

Active(p) == session[p].step \in {"lookup", "reference", "append"}

-----------------------------------------------------------------------------
(* Type correctness. *)

LEMMA InitType == Init => TypeOK
  <1> SUFFICES ASSUME Init PROVE TypeOK
    OBVIOUS
  <1>1. NoPass \in PassOf(Nat) /\ NoPass \in PassOf(DOMAIN << >>)
    BY NoPassType
  <1>2. Idle \in Session
    BY <1>1 DEF Idle, Session, FirstRound, Steps
  <1>3. WellFormed(Idle)
    BY <1>1 DEF WellFormed, Idle
  <1> QED
    BY <1>2, <1>3 DEF Init, TypeOK

(* A step that gives one process another well formed session.              *)
LEMMA SessionType ==
  ASSUME TypeOK, NEW p \in Procs, NEW s \in Session, WellFormed(s),
         session' = [session EXCEPT ![p] = s], log' \in Seq(Events)
  PROVE  TypeOK'
  <1>1. \A q \in Procs : session'[q] = IF q = p THEN s ELSE session[q]
    BY DEF TypeOK
  <1>2. session' \in [Procs -> Session]
    BY DEF TypeOK
  <1>3. \A q \in Procs : WellFormed(session'[q])
    BY <1>1 DEF TypeOK
  <1> QED
    BY <1>2, <1>3 DEF TypeOK

(* What a process works on while it is active.                             *)
LEMMA EntryType ==
  ASSUME TypeOK, NEW p \in Procs, Active(p)
  PROVE  /\ Entry(p) \in DOMAIN session[p].batch
         /\ Current(p) \in Events
         /\ SettleHead(session[p].pass) \in PassOf(DOMAIN session[p].batch)
         /\ DeferHead(session[p].pass) \in PassOf(DOMAIN session[p].batch)
  <1>1. /\ session[p].pass \in PassOf(DOMAIN session[p].batch)
        /\ session[p].pass.queue # << >>
    BY DEF TypeOK, WellFormed, Active
  <1>2. Entry(p) \in DOMAIN session[p].batch
    BY <1>1, HeadType DEF Entry
  <1>3. session[p].batch \in Seq(Events)
    BY DEF TypeOK, Session
  <1> QED
    BY <1>1, <1>2, <1>3, HeadType DEF Current

(* Going over to the next entry keeps the session well formed.             *)
LEMMA NextEntryType ==
  ASSUME TypeOK, NEW p \in Procs, log' \in Seq(Events),
         NEW pass \in PassOf(DOMAIN session[p].batch),
         NEW results \in [DOMAIN session[p].batch -> Outcomes],
         NextEntry(p, pass, results)
  PROVE  TypeOK'
  <1> DEFINE old == session[p]
             new == [old EXCEPT !.results = results,
                                !.pass = Continue(pass),
                                !.step = IF AllDone(pass) THEN "answer" ELSE "lookup"]
  <1>1. old \in Session
    BY DEF TypeOK
  <1>2. Continue(pass) \in PassOf(DOMAIN old.batch)
    BY ContinueType
  <1>3. DOMAIN old.batch \subseteq Nat
    BY <1>1 DEF Session
  <1>4. Continue(pass) \in PassOf(Nat)
    BY <1>2, <1>3, PassOfWider
  <1>5. results \in Seq(Outcomes)
    <2>1. DOMAIN old.batch = 1 .. Len(old.batch) /\ Len(old.batch) \in Nat
      BY <1>1 DEF Session
    <2> QED
      BY <2>1
  <1>6. /\ new.op = old.op
        /\ new.batch = old.batch
        /\ new.pass = Continue(pass)
        /\ new.results = results
        /\ new.step = IF AllDone(pass) THEN "answer" ELSE "lookup"
    BY <1>1 DEF Session
  <1>7. new \in Session
    BY <1>1, <1>4, <1>5 DEF Session, Steps
  <1>8. WellFormed(new)
    BY <1>2, <1>6, ContinueType DEF WellFormed
  <1>9. session' = [session EXCEPT ![p] = new]
    BY DEF NextEntry, TypeOK
  <1> HIDE DEF new
  <1> QED
    BY <1>7, <1>8, <1>9, SessionType

(* Settling the current entry, going elsewhere with it, or both.           *)
LEMMA SettleType ==
  ASSUME TypeOK, NEW p \in Procs, Active(p), log' \in Seq(Events),
         NEW outcome \in Outcomes, Settle(p, outcome)
  PROVE  TypeOK'
  <1>1. session[p].results \in [DOMAIN session[p].batch -> Outcomes]
    BY DEF TypeOK, WellFormed
  <1>2. [session[p].results EXCEPT ![Entry(p)] = outcome]
          \in [DOMAIN session[p].batch -> Outcomes]
    BY <1>1
  <1> QED
    BY <1>2, EntryType, NextEntryType DEF Settle

LEMMA MissType ==
  ASSUME TypeOK, NEW p \in Procs, Active(p), log' \in Seq(Events), Miss(p)
  PROVE  TypeOK'
  <1>1. CASE PutsOff(session[p].pass)
    <2>1. session[p].results \in [DOMAIN session[p].batch -> Outcomes]
      BY DEF TypeOK, WellFormed
    <2> QED
      BY <1>1, <2>1, EntryType, NextEntryType DEF Miss
  <1>2. CASE ~PutsOff(session[p].pass)
    BY <1>2, SettleType DEF Miss, Outcomes
  <1> QED
    BY <1>1, <1>2

LEMMA GoToType ==
  ASSUME TypeOK, NEW p \in Procs, Active(p), log' \in Seq(Events),
         NEW step \in {"reference", "append"}, GoTo(p, step)
  PROVE  TypeOK'
  <1> DEFINE new == [session[p] EXCEPT !.step = step]
  <1>1. new \in Session
    BY DEF TypeOK, Session, Steps
  <1>2. new.pass = session[p].pass /\ new.batch = session[p].batch
        /\ new.results = session[p].results /\ new.step = step
    BY DEF TypeOK, Session
  <1>3. WellFormed(new)
    BY <1>2 DEF TypeOK, WellFormed, Active
  <1>4. session' = [session EXCEPT ![p] = new]
    BY DEF GoTo, TypeOK
  <1> HIDE DEF new
  <1> QED
    BY <1>1, <1>3, <1>4, SessionType

LEMMA ClearType ==
  ASSUME TypeOK, NEW p \in Procs, Active(p), log' \in Seq(Events), Clear(p)
  PROVE  TypeOK'
  <1>1. {"valid", "unsubmitted"} \subseteq Outcomes
    BY DEF Outcomes
  <1> QED
    BY <1>1, SettleType, GoToType DEF Clear

LEMMA ReceiveType ==
  ASSUME TypeOK, NEW p \in Procs, NEW op \in DOMAIN FirstRound,
         NEW batch \in Seq(Events), Receive(p, op, batch)
  PROVE  TypeOK'
  <1> DEFINE entries == [i \in 1 .. Len(batch) |-> i]
             results == [i \in 1 .. Len(batch) |-> "none"]
             new == [op      |-> op,
                     step    |-> IF batch = << >> THEN "answer" ELSE "lookup",
                     batch   |-> batch,
                     pass    |-> StartPass(FirstRound[op], entries),
                     results |-> results]
  <1>1. DOMAIN batch = 1 .. Len(batch) /\ Len(batch) \in Nat
    OBVIOUS
  <1>2. entries \in Seq(DOMAIN batch) /\ entries \in Seq(Nat)
    BY <1>1
  <1>3. results \in [DOMAIN batch -> Outcomes] /\ results \in Seq(Outcomes)
    BY <1>1 DEF Outcomes
  <1>4. FirstRound[op] \in Rounds
    BY DEF FirstRound, Rounds
  <1>5. /\ StartPass(FirstRound[op], entries) \in PassOf(DOMAIN batch)
        /\ StartPass(FirstRound[op], entries) \in PassOf(Nat)
    BY <1>2, <1>4, StartPassType
  <1>6. batch # << >> => StartPass(FirstRound[op], entries).queue # << >>
    <2>1. StartPass(FirstRound[op], entries).queue = entries
      BY DEF StartPass
    <2>2. batch # << >> => 1 \in DOMAIN entries
      BY <1>1
    <2> QED
      BY <2>1, <2>2
  <1>7. new \in Session
    BY <1>3, <1>5 DEF Session, Steps
  <1>8. WellFormed(new)
    BY <1>3, <1>5, <1>6 DEF WellFormed
  <1>9. session' = [session EXCEPT ![p] = new] /\ log' = log
    BY DEF Receive
  <1>10. log' \in Seq(Events)
    BY <1>9 DEF TypeOK
  <1> HIDE DEF new
  <1> QED
    BY <1>7, <1>8, <1>9, <1>10, SessionType

LEMMA IdleType ==
  ASSUME TypeOK, NEW p \in Procs, session' = [session EXCEPT ![p] = Idle],
         log' = log
  PROVE  TypeOK'
  <1>1. NoPass \in PassOf(Nat) /\ NoPass \in PassOf(DOMAIN << >>)
    BY NoPassType
  <1>2. Idle \in Session
    BY <1>1 DEF Idle, Session, FirstRound, Steps
  <1>3. WellFormed(Idle)
    BY <1>1 DEF WellFormed, Idle
  <1> QED
    BY <1>2, <1>3, SessionType DEF TypeOK

LEMMA StepType == TypeOK /\ [Next]_vars => TypeOK'
  <1> SUFFICES ASSUME TypeOK, [Next]_vars PROVE TypeOK'
    OBVIOUS
  <1>1. CASE UNCHANGED vars
    BY <1>1 DEF vars, TypeOK, WellFormed
  <1>2. ASSUME NEW p \in Procs, Request(p) PROVE TypeOK'
    <2>1. \A e \in Events : << e >> \in Seq(Events)
      OBVIOUS
    <2> QED
      BY <1>2, <2>1, BatchesAssumption, ReceiveType
      DEF Request, PostEvent, PostBatch, ValidateEvent, FirstRound
  <1>3. ASSUME NEW p \in Procs, Lookup(p) PROVE TypeOK'
    <2>1. Active(p) /\ log' \in Seq(Events)
      BY <1>3 DEF Lookup, Active, TypeOK
    <2>2. {"invalid", "conflict"} \subseteq Outcomes
      BY DEF Outcomes
    <2> QED
      BY <1>3, <2>1, <2>2, SettleType, ClearType, GoToType DEF Lookup
  <1>4. ASSUME NEW p \in Procs, RequireReference(p) PROVE TypeOK'
    <2>1. Active(p) /\ log' \in Seq(Events)
      BY <1>4 DEF RequireReference, Active, TypeOK
    <2>2. "invalid" \in Outcomes
      BY DEF Outcomes
    <2> QED
      BY <1>4, <2>1, <2>2, SettleType, ClearType, MissType DEF RequireReference
  <1>5. ASSUME NEW p \in Procs, AppendEvent(p) PROVE TypeOK'
    <2>1. Active(p) /\ log \in Seq(Events)
      BY <1>5 DEF AppendEvent, Active, TypeOK
    <2>2. log' \in Seq(Events)
      BY <1>5, <2>1, EntryType, PutAddsId DEF AppendEvent
    <2>3. "accepted" \in Outcomes
      BY DEF Outcomes
    <2> QED
      BY <1>5, <2>1, <2>2, <2>3, SettleType DEF AppendEvent
  <1>6. ASSUME NEW p \in Procs, StoreFails(p) PROVE TypeOK'
    <2>1. Active(p) /\ log' \in Seq(Events)
      BY <1>6 DEF StoreFails, Active, TypeOK
    <2>2. "store_error" \in Outcomes
      BY DEF Outcomes
    <2> QED
      BY <1>6, <2>1, <2>2, SettleType DEF StoreFails
  <1>7. ASSUME NEW p \in Procs, Respond(p) \/ Crash(p) PROVE TypeOK'
    BY <1>7, IdleType DEF Respond, Crash
  <1> QED
    BY <1>1, <1>2, <1>3, <1>4, <1>5, <1>6, <1>7 DEF Next, Serve

(* Sessions and the store have their types in every reachable state.       *)
THEOREM TypeCorrect == Spec => []TypeOK
  BY InitType, StepType, PTL DEF Spec
-----------------------------------------------------------------------------
(* The store is sound. *)

(* A step of one process leaves the sessions of the others alone.          *)
LEMMA OthersStay ==
  ASSUME TypeOK, NEW p \in Procs, Request(p) \/ Serve(p) \/ Crash(p),
         NEW q \in Procs, q # p
  PROVE  session'[q] = session[q]
  <1>1. \A step : GoTo(p, step) => session'[q] = session[q]
    BY DEF GoTo, TypeOK
  <1>2. \A pass, results : NextEntry(p, pass, results) => session'[q] = session[q]
    BY DEF NextEntry, TypeOK
  <1>3. \A outcome : Settle(p, outcome) => session'[q] = session[q]
    BY <1>2 DEF Settle
  <1>4. Miss(p) => session'[q] = session[q]
    BY <1>2, <1>3 DEF Miss
  <1>5. Clear(p) => session'[q] = session[q]
    BY <1>1, <1>3 DEF Clear
  <1>6. \A op, batch : Receive(p, op, batch) => session'[q] = session[q]
    BY DEF Receive, TypeOK
  <1>7. Respond(p) \/ Crash(p) => session'[q] = session[q]
    BY DEF Respond, Crash, TypeOK
  <1> QED
    BY <1>1, <1>3, <1>4, <1>5, <1>6, <1>7
    DEF Request, PostEvent, PostBatch, ValidateEvent, Serve, Lookup,
        RequireReference, AppendEvent, StoreFails

(* After a step of p that goes over to another entry, or to none, p has no *)
(* event that is cleared.                                                  *)
LEMMA NextEntryStep ==
  ASSUME TypeOK, NEW p \in Procs, NEW pass, NEW results, NextEntry(p, pass, results)
  PROVE  session'[p].step \in {"answer", "lookup"}
  <1>1. session[p] \in Session
    BY DEF TypeOK
  <1>2. session'[p] = [session[p] EXCEPT !.results = results,
                                        !.pass = Continue(pass),
                                        !.step = IF AllDone(pass) THEN "answer" ELSE "lookup"]
    BY DEF NextEntry, TypeOK
  <1> QED
    BY <1>1, <1>2 DEF Session

(* A step that moves the current entry of p on keeps what it is.           *)
LEMMA GoToStep ==
  ASSUME TypeOK, NEW p \in Procs, NEW step, GoTo(p, step)
  PROVE  session'[p].step = step /\ Current(p)' = Current(p)
  <1>1. session[p] \in Session
    BY DEF TypeOK
  <1>2. session'[p] = [session[p] EXCEPT !.step = step]
    BY DEF GoTo, TypeOK
  <1>3. /\ session'[p].step = step
        /\ session'[p].pass = session[p].pass
        /\ session'[p].batch = session[p].batch
    BY <1>1, <1>2 DEF Session
  <1> QED
    BY <1>3 DEF Current, Entry

(* What ClearedFits says of one process.                                   *)
Fits(p) ==
  /\ session[p].step \in {"reference", "append"} => VerifyEvent(Current(p))
  /\ session[p].step = "append" =>
       Current(p).id \in StoredIds(log) \/ ReferenceHolds(log, Current(p))

(* The step of p itself establishes or keeps its own clearance.            *)
LEMMA OwnStepFits ==
  ASSUME IInv, NEW p \in Procs, Request(p) \/ Serve(p) \/ Crash(p)
  PROVE  Fits(p)'
  <1> USE DEF IInv
  <1>1. \A outcome : Settle(p, outcome) => Fits(p)'
    BY NextEntryStep DEF Settle, Fits
  <1>2. Miss(p) => Fits(p)'
    BY <1>1, NextEntryStep DEF Miss, Fits
  <1>3. \A op, batch : Receive(p, op, batch) => Fits(p)'
    BY DEF Receive, Fits, TypeOK
  <1>4. Respond(p) \/ Crash(p) => Fits(p)'
    BY DEF Respond, Crash, Idle, Fits, TypeOK
  <1>5. ASSUME UNCHANGED log, Clear(p), VerifyEvent(Current(p)),
               Current(p).id \in StoredIds(log) \/ ReferenceHolds(log, Current(p))
        PROVE  Fits(p)'
    <2>1. CASE session[p].pass.round = "final"
      BY <1>1, <1>5, <2>1 DEF Clear
    <2>2. CASE session[p].pass.round # "final"
      BY <1>5, <2>2, GoToStep DEF Clear, Fits
    <2> QED
      BY <2>1, <2>2
  <1>6. CASE Lookup(p)
    <2>1. CASE VerifyEvent(Current(p)) /\ AlreadyStored(log, Current(p)) /\ Clear(p)
      BY <1>5, <1>6, <2>1 DEF Lookup, AlreadyStored
    <2>2. CASE VerifyEvent(Current(p)) /\ ~Refers(Current(p)) /\ Clear(p)
      BY <1>5, <1>6, <2>2 DEF Lookup, ReferenceHolds
    <2>3. CASE VerifyEvent(Current(p)) /\ GoTo(p, "reference")
      BY <1>6, <2>3, GoToStep DEF Lookup, Fits
    <2> QED
      BY <1>1, <1>6, <2>1, <2>2, <2>3 DEF Lookup
  <1>7. CASE RequireReference(p)
    <2>1. VerifyEvent(Current(p))
      BY <1>7 DEF RequireReference, ClearedFits
    <2> QED
      BY <1>1, <1>2, <1>5, <1>7, <2>1 DEF RequireReference
  <1> QED
    BY <1>1, <1>3, <1>4, <1>6, <1>7
    DEF Request, PostEvent, PostBatch, ValidateEvent, Serve, AppendEvent, StoreFails

(* The only step that changes the store: the append of a cleared event.    *)
LEMMA LogStep ==
  ASSUME IInv, NEW p \in Procs, Request(p) \/ Serve(p) \/ Crash(p)
  PROVE  \/ log' = log
         \/ /\ session[p].step = "append"
            /\ Current(p) \in Events
            /\ VerifyEvent(Current(p))
            /\ Current(p).id \in StoredIds(log) \/ ReferenceHolds(log, Current(p))
            /\ log' = Put(log, Current(p))
  <1>1. CASE AppendEvent(p)
    <2>1. session[p].step = "append" /\ Active(p)
      BY <1>1 DEF AppendEvent, Active
    <2> QED
      BY <1>1, <2>1, EntryType DEF AppendEvent, IInv, ClearedFits
  <1> QED
    BY <1>1
    DEF Request, PostEvent, PostBatch, ValidateEvent, Receive, Serve, Lookup,
        RequireReference, StoreFails, Respond, Crash

(* Nothing that another process does takes a clearance back.               *)
LEMMA OtherStepFits ==
  ASSUME IInv, NEW p \in Procs, Request(p) \/ Serve(p) \/ Crash(p),
         NEW q \in Procs, q # p
  PROVE  Fits(q)'
  <1>1. Fits(q) /\ log \in Seq(Events) /\ Sound(log)
    BY DEF IInv, ClearedFits, Fits, TypeOK
  <1>2. session'[q] = session[q]
    BY OthersStay DEF IInv
  <1>3. Current(q)' = Current(q)
    BY <1>2 DEF Current, Entry
  <1>4. CASE log' = log
    BY <1>1, <1>2, <1>3, <1>4 DEF Fits
  <1>5. CASE log' # log
    <2> DEFINE e == Current(p)
               f == Current(q)
    <2>1. /\ e \in Events
          /\ VerifyEvent(e)
          /\ e.id \in StoredIds(log) \/ ReferenceHolds(log, e)
          /\ log' = Put(log, e)
      BY <1>5, LogStep
    <2>2. session[q].step = "append" =>
            f \in Events /\ (f.id \in StoredIds(log) \/ ReferenceHolds(log, f))
      BY <1>1, EntryType DEF Fits, Active, IInv
    <2> HIDE DEF e, f
    <2>3. ASSUME session[q].step = "append"
          PROVE  f.id \in StoredIds(log') \/ ReferenceHolds(log', f)
      <3>1. StoredIds(log) \subseteq StoredIds(log')
        BY <1>1, <2>1, PutAddsId
      <3>2. ASSUME ReferenceHolds(log, f) PROVE ReferenceHolds(log', f)
        BY <1>1, <2>1, <2>2, <2>3, <3>2, ReferenceStays
      <3> QED
        BY <2>2, <2>3, <3>1, <3>2
    <2> QED
      BY <1>1, <1>2, <1>3, <2>3 DEF Fits, f
  <1> QED
    BY <1>4, <1>5

LEMMA InitInv == Init => IInv
  <1> SUFFICES ASSUME Init PROVE IInv
    OBVIOUS
  <1>1. TypeOK
    BY InitType
  <1>2. Sound(log)
    BY EmptySound DEF Init
  <1>3. ClearedFits
    BY DEF Init, ClearedFits, Idle
  <1> QED
    BY <1>1, <1>2, <1>3 DEF IInv

LEMMA StepInv == IInv /\ [Next]_vars => IInv'
  <1> SUFFICES ASSUME IInv, [Next]_vars PROVE IInv'
    OBVIOUS
  <1>1. TypeOK'
    BY StepType DEF IInv
  <1>2. CASE UNCHANGED vars
    <2>1. Sound(log)'
      BY <1>2 DEF vars, IInv
    <2>2. ClearedFits'
      BY <1>2 DEF vars, IInv, ClearedFits, Current, Entry
    <2> QED
      BY <1>1, <2>1, <2>2 DEF IInv
  <1>3. CASE Next
    <2>1. PICK p \in Procs : Request(p) \/ Serve(p) \/ Crash(p)
      BY <1>3 DEF Next
    <2>2. Sound(log')
      BY <2>1, LogStep, PutSound DEF IInv, TypeOK
    <2>3. \A q \in Procs : Fits(q)'
      BY <2>1, OwnStepFits, OtherStepFits
    <2>4. ClearedFits'
      BY <2>3 DEF ClearedFits, Fits
    <2> QED
      BY <1>1, <2>2, <2>4 DEF IInv
  <1> QED
    BY <1>2, <1>3

THEOREM Invariance == Spec => []IInv
  BY InitInv, StepInv, PTL DEF Spec

(* An event that passed validation stays fit to be appended, whatever      *)
(* other processes store before its own process does (submit_event).       *)
THEOREM ClearedEventsFit == Spec => []ClearedFits
  <1>1. IInv => ClearedFits
    BY DEF IInv
  <1> QED
    BY <1>1, Invariance, PTL

(* Two processes that validate different events under one id never get     *)
(* both of them into the store (the primary key and INSERT OR IGNORE).     *)
THEOREM StoreHasUniqueIds == Spec => []UniqueIds
  <1>1. IInv => UniqueIds
    BY DEF IInv, Sound, UniqueIds
  <1> QED
    BY <1>1, Invariance, PTL

(* A stored revocation follows the event it takes back, although its       *)
(* reference was looked up before other processes wrote to the store.      *)
THEOREM StoredRevocationsResolve == Spec => []RevocationsResolve
  <1>1. IInv => RevocationsResolve
    BY DEF IInv, Sound, RevocationsResolve
  <1> QED
    BY <1>1, Invariance, PTL

(* active_claims and active_attestations show exactly the events that      *)
(* their own issuer has not revoked, in every reachable store.             *)
THEOREM ProjectionsExact == Spec => []ProjectionExact
  <1>1. IInv => ProjectionExact
    BY SoundProjection DEF IInv, TypeOK, ProjectionExact
  <1> QED
    BY <1>1, Invariance, PTL

-----------------------------------------------------------------------------
(* Refinement. *)

(* However the statements of the processes interleave, the store behaves   *)
(* like the one log of EventLog.                                           *)
THEOREM ImplementsEventLog == Spec => RefinesEventLog
  <1>1. Init => EL!Init
    BY DEF Init, EL!Init
  <1>2. IInv /\ [Next]_vars => [EL!Next]_log
    <2> SUFFICES ASSUME IInv, Next, log' # log
                 PROVE  EL!Next
      BY DEF vars
    <2>1. PICK p \in Procs : Request(p) \/ Serve(p) \/ Crash(p)
      BY DEF Next
    <2>2. /\ Current(p) \in Events
          /\ VerifyEvent(Current(p))
          /\ Current(p).id \in StoredIds(log) \/ ReferenceHolds(log, Current(p))
          /\ log' = Put(log, Current(p))
      BY <2>1, LogStep
    <2>3. /\ Current(p).id \notin StoredIds(log)
          /\ log' = Append(log, Current(p))
      BY <2>2 DEF Put
    <2>4. ReferenceHolds(log, Current(p))
      BY <2>2, <2>3
    <2>5. EL!Publishable(Current(p))
      BY <2>2, <2>3, <2>4
      DEF EL!Publishable, EL!VerifyEvent, EL!ValidShape, EL!StoredIds,
          EL!ReferenceHolds, EL!Refers, EL!ReferenceMatches, EL!RevokedKind,
          EL!Get, EL!RevocationKind, VerifyEvent, ValidShape, StoredIds,
          ReferenceHolds, Refers, ReferenceMatches, RevokedKind, Get,
          RevocationKind
    <2>6. EL!Publish(Current(p))
      BY <2>3, <2>5 DEF EL!Publish
    <2> QED
      BY <2>2, <2>6 DEF EL!Next
  <1> QED
    BY <1>1, <1>2, Invariance, PTL DEF Spec, RefinesEventLog, EL!Spec
==============================================================================
