--------------------------- MODULE PeerSyncProofs ---------------------------
(***************************************************************************)
(* PeerSync is type correct, keeps every node's store sound, never lets a  *)
(* cursor get ahead of what has been stored, leaves nothing behind that a  *)
(* peer hands out, and gets on with every run that waits in no circle,     *)
(* for every network, every set of events and any number of overlapping    *)
(* runs.                                                                   *)
(***************************************************************************)
EXTENDS PeerSync, EventStoreLemmas, ReferenceRetryLemmas, WellFoundedInduction

-----------------------------------------------------------------------------
(* Type correctness. *)

LEMMA InitType == Init => TypeOK
  <1> SUFFICES ASSUME Init PROVE TypeOK
    OBVIOUS
  <1>1. NoPass \in PassOf(Events)
    BY NoPassType
  <1>2. NoRun \in Run /\ NoRun.phase = "idle"
    BY <1>1 DEF NoRun, Run, Phases
  <1> QED
    BY <1>2, PeersAssumption DEF Init, TypeOK

(* A step that changes nothing but the run of one syncer, and counters.    *)
LEMMA RunType ==
  ASSUME TypeOK, NEW w \in Syncers, NEW r \in Run,
         r.phase # "idle" => r.left # << >>,
         run' = [run EXCEPT ![w] = r],
         log' \in [Nodes -> Seq(Events)],
         cursor' \in [Nodes -> [Nodes \cup Feeds -> Nat]],
         faults' \in 0 .. MaxFaults
  PROVE  TypeOK'
  <1>1. \A v \in Syncers : run'[v] = IF v = w THEN r ELSE run[v]
    BY DEF TypeOK
  <1>2. run' \in [Syncers -> Run]
    BY DEF TypeOK
  <1> QED
    BY <1>1, <1>2 DEF TypeOK

(* What a step does to the run of w, by the kind of step.                  *)
LEMMA NoRunType == NoRun \in Run /\ NoRun.phase = "idle"
  BY NoPassType DEF NoRun, Run, Phases

(* A pass that goes over to its next entry stays a pass over events.       *)
LEMMA WithPassRun ==
  ASSUME TypeOK, NEW w \in Syncers, NEW pass \in PassOf(Events)
  PROVE  \E r \in Run :
           /\ WithPass(w, pass) = [run EXCEPT ![w] = r]
           /\ r.pass = Continue(pass)
           /\ r.phase = run[w].phase
           /\ r.left = run[w].left
           /\ r.after = run[w].after
           /\ r.next = run[w].next
  <1> DEFINE r == [run[w] EXCEPT !.pass = Continue(pass)]
  <1>1. run[w] \in Run /\ Continue(pass) \in PassOf(Events)
    BY ContinueType DEF TypeOK
  <1>2. /\ r \in Run
        /\ r.pass = Continue(pass)
        /\ r.phase = run[w].phase
        /\ r.left = run[w].left
        /\ r.after = run[w].after
        /\ r.next = run[w].next
    BY <1>1 DEF Run
  <1>3. WithPass(w, pass) = [run EXCEPT ![w] = r]
    BY DEF WithPass, TypeOK
  <1> HIDE DEF r
  <1> QED
    BY <1>2, <1>3

(* While a page is applied, its queue has a head that is an event.         *)
LEMMA IncomingType ==
  ASSUME TypeOK, NEW w \in Syncers, Applying(w)
  PROVE  /\ Incoming(w) \in Events
         /\ SettleHead(run[w].pass) \in PassOf(Events)
         /\ DeferHead(run[w].pass) \in PassOf(Events)
         /\ Home[w] \in Nodes
  <1>1. run[w].pass \in PassOf(Events) /\ run[w].pass.queue # << >>
    BY DEF TypeOK, Run, Applying, PassOver
  <1> QED
    BY <1>1, HeadType, PeersAssumption DEF Incoming

(* What a peer may answer.  The page of a node is part of its log.         *)
LEMMA ReplyType ==
  ASSUME TypeOK, NEW w \in Syncers, run[w].phase = "fetch",
         NEW page \in Replies(Peer(w), run[w].after)
  PROVE  /\ page.events \in Seq(Events)
         /\ page.next \in Nat
         /\ page.events # << >> => page.next <= LastSequence(Peer(w))
         /\ Peer(w) \in Nodes => page = Listing(log[Peer(w)], run[w].after)
  <1> DEFINE m == Peer(w)
             after == run[w].after
             listed == ListAfter(log[m], after, PageLimit)
  <1>1. run[w].left \in Seq(Nodes \cup Feeds) /\ run[w].left # << >> /\ after \in Nat
    BY DEF TypeOK, Run
  <1>2. m \in Nodes \cup Feeds
    BY <1>1 DEF Peer
  <1>3. CASE m \in Nodes
    <2>1. page = Listing(log[m], after) /\ log[m] \in Seq(Events)
      BY <1>3 DEF Replies, TypeOK
    <2>2. page.events = listed /\ page.next = after + Len(listed)
      BY <2>1 DEF Listing
    <2>3. listed \in Seq(Events) /\ (after + Len(listed) <= Len(log[m]) \/ listed = << >>)
      BY <1>1, <2>1, PageProperties, PeersAssumption
    <2>4. after + Len(listed) \in Nat
      BY <1>1, <2>3
    <2> QED
      BY <1>3, <2>1, <2>2, <2>3, <2>4 DEF LastSequence
  <1>4. CASE m \notin Nodes
    <2>1. page \in Page
      BY <1>2, <1>4, PeersAssumption DEF Replies
    <2> QED
      BY <1>4, <2>1, PeersAssumption DEF Page, LastSequence
  <1> QED
    BY <1>3, <1>4

(* An empty page moves the cursor forward, if at all.                      *)
LEMMA FetchEndRun ==
  ASSUME TypeOK, NEW w \in Syncers, FetchEnd(w)
  PROVE  \E r \in Run :
           /\ run' = [run EXCEPT ![w] = r]
           /\ r.phase = "persist"
           /\ r.after >= run[w].after
           /\ Peer(w) \in Nodes => r.after = run[w].after
           /\ r.left = run[w].left
           /\ r.pass = run[w].pass
           /\ r.pulled = run[w].pulled
  <1>1. run[w] \in Run /\ run[w].phase = "fetch" /\ run[w].after \in Nat
    BY DEF TypeOK, Run, FetchEnd
  <1>2. PICK page \in Replies(Peer(w), run[w].after) :
          /\ page.events = << >>
          /\ run' = [run EXCEPT ![w] = LastPage(run[w], page)]
    BY DEF FetchEnd
  <1> DEFINE after == IF page.next > run[w].after THEN page.next ELSE run[w].after
             r == [run[w] EXCEPT !.phase = "persist", !.after = after]
  <1>3. /\ page.next \in Nat
        /\ Peer(w) \in Nodes => page = Listing(log[Peer(w)], run[w].after)
    BY <1>1, <1>2, ReplyType
  <1>4. Peer(w) \in Nodes => page.next = run[w].after
    <2> SUFFICES ASSUME Peer(w) \in Nodes PROVE page.next = run[w].after
      OBVIOUS
    <2> DEFINE listed == ListAfter(log[Peer(w)], run[w].after, PageLimit)
    <2>1. listed = << >> /\ page.next = run[w].after + Len(listed)
      BY <1>2, <1>3 DEF Listing
    <2> QED
      BY <1>1, <2>1
  <1>5. after \in Nat /\ after >= run[w].after
        /\ (Peer(w) \in Nodes => after = run[w].after)
    BY <1>1, <1>3, <1>4
  <1>6. run' = [run EXCEPT ![w] = r]
    BY <1>2 DEF LastPage
  <1> HIDE DEF after
  <1>7. /\ r \in Run
        /\ r.phase = "persist"
        /\ r.after = after
        /\ r.left = run[w].left
        /\ r.pass = run[w].pass
        /\ r.pulled = run[w].pulled
    BY <1>1, <1>5 DEF Run, Phases
  <1> HIDE DEF r
  <1> QED
    BY <1>5, <1>6, <1>7

(* Another page goes behind what is pending.                               *)
LEMMA FetchPageRun ==
  ASSUME TypeOK, NEW w \in Syncers, FetchPage(w)
  PROVE  \E page \in Replies(Peer(w), run[w].after), r \in Run :
           /\ page.events # << >>
           /\ run' = [run EXCEPT ![w] = r]
           /\ r.phase = "apply"
           /\ r.after = run[w].after
           /\ r.next = page.next
           /\ r.left = run[w].left
           /\ run[w].pass.deferred \o page.events \in Seq(Events)
           /\ r.pass = StartPass("first", run[w].pass.deferred \o page.events)
           /\ r.pulled = run[w].pulled \cup Range(page.events)
  <1>1. run[w] \in Run /\ run[w].phase = "fetch"
    BY DEF TypeOK, FetchPage
  <1>2. PICK page \in Replies(Peer(w), run[w].after) :
          /\ page.events # << >>
          /\ run' = [run EXCEPT ![w] =
               TakePage(run[w], page, run[w].pass.deferred \o page.events)]
    BY DEF FetchPage
  <1> DEFINE events == run[w].pass.deferred \o page.events
             short == Len(page.events) < PageLimit
             pass == StartPass("first", events)
             pulled == run[w].pulled \cup Range(page.events)
             r == [run[w] EXCEPT !.phase = "apply", !.next = page.next, !.short = short,
                                 !.pass = pass, !.pulled = pulled]
  <1>3. page.events \in Seq(Events) /\ page.next \in Nat
    BY <1>1, <1>2, ReplyType
  <1>4. events \in Seq(Events)
    <2>1. run[w].pass.deferred \in Seq(Events)
      BY <1>1 DEF Run, PassOf
    <2> QED
      BY <1>3, <2>1
  <1>5. pass \in PassOf(Events)
    BY <1>4, StartPassType DEF Rounds
  <1>6. short \in BOOLEAN
    OBVIOUS
  <1>7. pulled \subseteq Events
    <2>1. run[w].pulled \subseteq Events
      BY <1>1 DEF Run
    <2>2. Range(page.events) \subseteq Events
      BY <1>3 DEF Range
    <2> QED
      BY <2>1, <2>2
  <1>8. run' = [run EXCEPT ![w] = r]
    BY <1>1, <1>2 DEF TakePage, Run
  <1> HIDE DEF pass, short, pulled, events
  <1>9. /\ r \in Run
        /\ r.phase = "apply"
        /\ r.after = run[w].after
        /\ r.next = page.next
        /\ r.left = run[w].left
        /\ r.pass = pass
        /\ r.pulled = pulled
    BY <1>1, <1>3, <1>5, <1>6, <1>7 DEF Run, Phases
  <1> HIDE DEF r
  <1> QED
    BY <1>2, <1>4, <1>8, <1>9 DEF pass, pulled, events

(* A step that appends to the log of one node.                             *)
LEMMA LogType ==
  ASSUME TypeOK, NEW n \in Nodes, NEW e \in Events,
         log' = [log EXCEPT ![n] = Put(@, e)]
  PROVE  log' \in [Nodes -> Seq(Events)] /\ log'[n] = Put(log[n], e)
  <1>1. Put(log[n], e) \in Seq(Events)
    BY PutAddsId DEF TypeOK
  <1> QED
    BY <1>1 DEF TypeOK

(* The parts of TypeOK that a step which only touches runs leaves alone.   *)
LEMMA KeptType ==
  ASSUME TypeOK, UNCHANGED << log, cursor >>,
         faults' = faults \/ (faults < MaxFaults /\ faults' = faults + 1)
  PROVE  /\ log' \in [Nodes -> Seq(Events)]
         /\ cursor' \in [Nodes -> [Nodes \cup Feeds -> Nat]]
         /\ faults' \in 0 .. MaxFaults
  <1>1. faults \in 0 .. MaxFaults /\ MaxFaults \in Nat
    BY PeersAssumption DEF TypeOK
  <1>2. faults' \in 0 .. MaxFaults
    BY <1>1
  <1> QED
    BY <1>2 DEF TypeOK

(* A step that goes on with the page.                                      *)
LEMMA PassType ==
  ASSUME TypeOK, NEW w \in Syncers, Applying(w), NEW pass \in PassOf(Events),
         run' = WithPass(w, pass),
         log' \in [Nodes -> Seq(Events)],
         cursor' \in [Nodes -> [Nodes \cup Feeds -> Nat]],
         faults' \in 0 .. MaxFaults
  PROVE  TypeOK'
  <1>1. PICK r \in Run : /\ run' = [run EXCEPT ![w] = r]
                         /\ r.phase = run[w].phase
                         /\ r.left = run[w].left
    BY WithPassRun
  <1>2. run[w].left # << >>
    BY DEF TypeOK, Applying
  <1> QED
    BY <1>1, <1>2, RunType

LEMMA StepType == TypeOK /\ [Next]_vars => TypeOK'
  <1> SUFFICES ASSUME TypeOK, [Next]_vars PROVE TypeOK'
    OBVIOUS
  <1>1. CASE UNCHANGED vars
    BY <1>1 DEF vars, TypeOK
  <1>2. ASSUME NEW n \in Nodes, NEW e \in Events, Submit(n, e) PROVE TypeOK'
    BY <1>2, LogType DEF Submit, TypeOK
  <1>14. ASSUME NEW m \in Nodes, Replace(m) PROVE TypeOK'
    <2>1. log' \in [Nodes -> Seq(Events)]
      BY <1>14 DEF Replace, TypeOK
    <2>2. cursor' \in [Nodes -> [Nodes \cup Feeds -> Nat]]
      BY <1>14 DEF Replace, TypeOK
    <2>3. faults' \in 0 .. MaxFaults /\ run' = run
      BY <1>14, PeersAssumption DEF Replace, TypeOK
    <2> QED
      BY <2>1, <2>2, <2>3 DEF TypeOK
  <1> SUFFICES ASSUME NEW w \in Syncers, Sync(w) PROVE TypeOK'
    BY <1>1, <1>2, <1>14 DEF Next
  <1>3. run[w] \in Run
    BY DEF TypeOK
  <1>4. ASSUME NEW full \in BOOLEAN, StartSync(w, full) PROVE TypeOK'
    <2> DEFINE r == [NoRun EXCEPT !.phase = "identify", !.left = Peers[Home[w]],
                                  !.full = full]
    <2>1. Peers[Home[w]] \in Seq(Nodes \cup Feeds) /\ Peers[Home[w]] # << >>
      BY <1>4, PeersAssumption DEF StartSync
    <2>2. r \in Run /\ r.left = Peers[Home[w]]
      BY <2>1, NoRunType DEF Run, Phases, NoRun
    <2>3. run' = [run EXCEPT ![w] = r]
      BY <1>4 DEF StartSync
    <2> HIDE DEF r
    <2> QED
      BY <1>4, <2>1, <2>2, <2>3, RunType, KeptType DEF StartSync
  <1>5. CASE Identify(w)
    <2> DEFINE from == IF run[w].full THEN 0 ELSE cursor[Home[w]][Peer(w)]
               r == [run[w] EXCEPT !.phase = "fetch", !.after = from, !.pass = NoPass,
                                   !.pulled = {}]
    <2>1. run[w].left \in Seq(Nodes \cup Feeds) /\ run[w].left # << >>
      BY <1>5 DEF TypeOK, Run, Identify
    <2>2. Peer(w) \in Nodes \cup Feeds
      BY <2>1 DEF Peer
    <2>3. from \in Nat
      BY <2>2, PeersAssumption DEF TypeOK
    <2> HIDE DEF from
    <2>4. r \in Run /\ r.left = run[w].left
      BY <1>3, <2>3, NoPassType DEF Run, Phases
    <2>5. run' = [run EXCEPT ![w] = r]
      BY <1>5 DEF Identify, TypeOK, from
    <2> HIDE DEF r
    <2> QED
      BY <1>5, <2>1, <2>4, <2>5, RunType, KeptType DEF Identify
  <1>6. CASE FetchEnd(w)
    <2>1. PICK r \in Run : run' = [run EXCEPT ![w] = r] /\ r.left = run[w].left
      BY <1>6, FetchEndRun
    <2>2. run[w].left # << >>
      BY <1>6 DEF FetchEnd, TypeOK
    <2> QED
      BY <1>6, <2>1, <2>2, RunType, KeptType DEF FetchEnd
  <1>7. CASE FetchPage(w)
    <2>1. PICK r \in Run : run' = [run EXCEPT ![w] = r] /\ r.left = run[w].left
      BY <1>7, FetchPageRun
    <2>2. run[w].left # << >>
      BY <1>7 DEF FetchPage, TypeOK
    <2> QED
      BY <1>7, <2>1, <2>2, RunType, KeptType DEF FetchPage
  <1>8. CASE Accept(w)
    <2>1. Applying(w)
      BY <1>8 DEF Accept
    <2>2. log' \in [Nodes -> Seq(Events)]
      BY <1>8, <2>1, IncomingType, LogType DEF Accept, TypeOK
    <2>3. run' = WithPass(w, SettleHead(run[w].pass))
      BY <1>8 DEF Accept
    <2>4. /\ cursor' \in [Nodes -> [Nodes \cup Feeds -> Nat]]
          /\ faults' \in 0 .. MaxFaults
      BY <1>8 DEF Accept, TypeOK
    <2> QED
      BY <2>1, <2>2, <2>3, <2>4, IncomingType, PassType
  <1>9. CASE PutOff(w)
    <2>1. Applying(w) /\ run' = WithPass(w, DeferHead(run[w].pass))
      BY <1>9 DEF PutOff
    <2>2. UNCHANGED << log, cursor >> /\ faults' = faults
      BY <1>9 DEF PutOff
    <2> QED
      BY <2>1, <2>2, IncomingType, PassType, KeptType
  <1>10. CASE Reject(w) \/ StoreFails(w)
    <2>1. Applying(w) /\ run' = WithPass(w, SettleHead(run[w].pass))
      BY <1>10 DEF Reject, StoreFails
    <2>2. UNCHANGED << log, cursor >>
      BY <1>10 DEF Reject, StoreFails
    <2>3. faults' = faults \/ (faults < MaxFaults /\ faults' = faults + 1)
      BY <1>10 DEF Reject, StoreFails
    <2> QED
      BY <2>1, <2>2, <2>3, IncomingType, PassType, KeptType
  <1>11. CASE EndPage(w)
    <2> DEFINE phase == IF run[w].short THEN "persist" ELSE "fetch"
               r == [run[w] EXCEPT !.after = run[w].next, !.phase = phase]
    <2>1. phase \in Phases
      BY DEF Phases
    <2>2. run[w].left # << >>
      BY <1>11 DEF EndPage, PageDone, TypeOK
    <2>3. run' = [run EXCEPT ![w] = r]
      BY <1>11 DEF EndPage, TypeOK
    <2> HIDE DEF phase
    <2>4. r \in Run /\ r.left = run[w].left
      BY <1>3, <2>1 DEF Run
    <2> HIDE DEF r
    <2> QED
      BY <1>11, <2>2, <2>3, <2>4, RunType, KeptType DEF EndPage
  <1>12. CASE Persist(w)
    <2> DEFINE rest == Tail(run[w].left)
               r == IF rest = << >> THEN NoRun
                    ELSE [run[w] EXCEPT !.left = rest, !.phase = "identify"]
    <2>1. run[w].left \in Seq(Nodes \cup Feeds) /\ run[w].left # << >>
          /\ run[w].after \in Nat
      BY <1>12 DEF TypeOK, Run, Persist
    <2>2. rest \in Seq(Nodes \cup Feeds) /\ Peer(w) \in Nodes \cup Feeds
      BY <2>1 DEF Peer
    <2>3. cursor' \in [Nodes -> [Nodes \cup Feeds -> Nat]]
      BY <1>12, <2>1, <2>2, PeersAssumption DEF Persist, TypeOK
    <2>4. run' = [run EXCEPT ![w] = r]
      BY <1>12 DEF Persist, TypeOK
    <2>5. r \in Run /\ (r.phase # "idle" => r.left # << >>)
      <3>1. CASE rest = << >>
        BY <3>1, NoRunType
      <3>2. CASE rest # << >>
        BY <1>3, <2>2, <3>2 DEF Run, Phases
      <3> QED
        BY <3>1, <3>2
    <2> HIDE DEF r
    <2> QED
      BY <1>12, <2>3, <2>4, <2>5, RunType DEF Persist, TypeOK
  <1>13. CASE EndFrozenPage(w) \/ IdentifyFails(w) \/ Fail(w) \/ Timeout(w)
    <2>1. run' = [run EXCEPT ![w] = NoRun] /\ UNCHANGED << log, cursor >>
      BY <1>13 DEF EndFrozenPage, IdentifyFails, Fail, Timeout, Abort
    <2>2. faults' = faults \/ (faults < MaxFaults /\ faults' = faults + 1)
      BY <1>13 DEF EndFrozenPage, IdentifyFails, Fail, Timeout
    <2> QED
      BY <2>1, <2>2, NoRunType, RunType, KeptType
  <1> QED
    BY <1>4, <1>5, <1>6, <1>7, <1>8, <1>9, <1>10, <1>11, <1>12, <1>13
    DEF Sync, Proceed

(* Logs, cursors and runs have their types in every reachable state.       *)
THEOREM TypeCorrect == Spec => []TypeOK
  BY InitType, StepType, PTL DEF Spec

-----------------------------------------------------------------------------
(* What is stored. *)

(* Store t is s with a new event that is fit for s.                        *)
Published(s, t) ==
  \E e \in Events : /\ VerifyEvent(e)
                    /\ e.id \notin StoredIds(s)
                    /\ ReferenceHolds(s, e)
                    /\ t = Append(s, e)

(* What validation accepts is published, or stored already.                *)
LEMMA AcceptedPublished ==
  ASSUME NEW s \in Seq(Events), NEW e \in Events, Validation(s, e) = "accepted"
  PROVE  Put(s, e) = s \/ Published(s, Put(s, e))
  <1>1. CASE e.id \in StoredIds(s)
    BY <1>1 DEF Put
  <1>2. CASE e.id \notin StoredIds(s)
    <2>1. VerifyEvent(e) /\ ReferenceHolds(s, e) /\ Put(s, e) = Append(s, e)
      BY <1>2, AcceptedFits DEF Put
    <2> QED
      BY <1>2, <2>1 DEF Published
  <1> QED
    BY <1>1, <1>2

(* A step leaves the log of a node alone or publishes an event in it,      *)
(* unless the node starts over.                                            *)
LEMMA LogStep ==
  ASSUME TypeOK, [Next]_vars, NEW n \in Nodes
  PROVE  log'[n] = log[n] \/ Published(log[n], log'[n]) \/ Replace(n)
  <1>1. ASSUME NEW h \in Nodes, NEW e \in Events,
               Validation(log[h], e) = "accepted", log' = [log EXCEPT ![h] = Put(@, e)]
        PROVE  log'[n] = log[n] \/ Published(log[n], log'[n])
    <2>1. CASE n = h
      BY <1>1, <2>1, AcceptedPublished DEF TypeOK
    <2>2. CASE n # h
      BY <1>1, <2>2 DEF TypeOK
    <2> QED
      BY <2>1, <2>2
  <1>2. ASSUME NEW h \in Nodes, NEW e \in Events, Submit(h, e)
        PROVE  log' = [log EXCEPT ![h] = Put(@, e)] /\ Validation(log[h], e) = "accepted"
    BY <1>2 DEF Submit
  <1>3. ASSUME NEW w \in Syncers, Accept(w)
        PROVE  \/ log' = log
               \/ \E h \in Nodes, e \in Events :
                    /\ Validation(log[h], e) = "accepted"
                    /\ log' = [log EXCEPT ![h] = Put(@, e)]
    BY <1>3, IncomingType DEF Accept
  <1>4. ASSUME NEW w \in Syncers, Sync(w), ~Accept(w)
        PROVE  log' = log
    BY <1>4 DEF Sync, Proceed, StartSync, Identify, FetchEnd, FetchPage, PutOff,
                Reject, StoreFails, EndPage, EndFrozenPage, Persist,
                IdentifyFails, Fail, Timeout
  <1>5. CASE UNCHANGED vars
    BY <1>5 DEF vars
  <1>6. ASSUME NEW m \in Nodes, Replace(m), m # n PROVE log'[n] = log[n]
    BY <1>6 DEF Replace, TypeOK
  <1>7. CASE Next
    BY <1>1, <1>2, <1>3, <1>4, <1>6, <1>7 DEF Next
  <1> QED
    BY <1>5, <1>7

(* The log t of a node extends its log s before a step.                    *)
Grows(s, t) ==
  /\ Len(s) <= Len(t)
  /\ \A i \in 1 .. Len(s) : t[i] = s[i]
  /\ StoredIds(s) \subseteq StoredIds(t)

LEMMA PublishedGrows ==
  ASSUME NEW s \in Seq(Events), NEW t, Published(s, t)
  PROVE  Grows(s, t)
  <1>1. PICK e \in Events : e.id \notin StoredIds(s) /\ t = Append(s, e)
    BY Zenon DEF Published
  <1>2. Put(s, e) = t
    BY <1>1 DEF Put
  <1>3. StoredIds(s) \subseteq StoredIds(t)
    BY <1>2, PutAddsId
  <1>4. Len(s) <= Len(t) /\ \A i \in 1 .. Len(s) : t[i] = s[i]
    BY <1>1
  <1> QED
    BY <1>3, <1>4 DEF Grows

LEMMA LogsGrow ==
  ASSUME TypeOK, [Next]_vars, NEW n \in Nodes, ~Replace(n)
  PROVE  Grows(log[n], log'[n])
  <1>1. log[n] \in Seq(Events)
    BY DEF TypeOK
  <1>2. CASE log'[n] = log[n]
    BY <1>1, <1>2 DEF Grows
  <1>3. CASE Published(log[n], log'[n])
    BY <1>1, <1>3, PublishedGrows
  <1> QED
    BY <1>2, <1>3, LogStep

LEMMA PublishedSound ==
  ASSUME NEW s \in Seq(Events), NEW t, Sound(s), Published(s, t)
  PROVE  Sound(t)
  BY AppendSound, Zenon DEF Published

LEMMA SoundStep == TypeOK /\ LogsSound /\ [Next]_vars => LogsSound'
  <1> SUFFICES ASSUME TypeOK, LogsSound, [Next]_vars, NEW n \in Nodes
               PROVE  Sound(log'[n])
    BY DEF LogsSound
  <1>1. log[n] \in Seq(Events) /\ Sound(log[n])
    BY DEF TypeOK, LogsSound
  <1>2. CASE log'[n] = log[n]
    BY <1>1, <1>2
  <1>3. CASE Published(log[n], log'[n])
    BY <1>1, <1>3, PublishedSound
  <1>4. CASE Replace(n)
    BY <1>4, EmptySound DEF Replace, TypeOK
  <1> QED
    BY <1>2, <1>3, <1>4, LogStep

(* Every node's store has unique ids, verified events only, and the target *)
(* of every revocation, whatever feeds offer and however runs overlap.     *)
THEOREM StoresSound == Spec => []LogsSound
  <1>1. Init => LogsSound
    BY EmptySound DEF Init, LogsSound
  <1> QED
    BY <1>1, SoundStep, TypeCorrect, PTL DEF Spec

(* Every node by itself implements the log of published events.            *)
THEOREM ImplementsEventLogs == Spec => RefinesEventLogs
  <1>1. Init => \A n \in Nodes : EL(n)!Init
    BY DEF Init, EL!Init
  <1>2. TypeOK /\ [Next]_vars
          => [\A n \in Nodes \ Replaced : EL(n)!Next \/ UNCHANGED log[n]]_vars
    <2> SUFFICES ASSUME TypeOK, [Next]_vars, NEW n \in Nodes \ Replaced,
                        log'[n] # log[n]
                 PROVE  EL(n)!Next
      OBVIOUS
    <2>2. ~Replace(n)
      BY DEF Replace
    <2>1. PICK e \in Events : /\ VerifyEvent(e)
                              /\ e.id \notin StoredIds(log[n])
                              /\ ReferenceHolds(log[n], e)
                              /\ log'[n] = Append(log[n], e)
      BY <2>2, LogStep, Zenon DEF Published
    <2>3. EL(n)!Publishable(e)
      BY <2>1
      DEF EL!Publishable, EL!VerifyEvent, EL!ValidShape, EL!StoredIds,
          EL!ReferenceHolds, EL!Refers, EL!ReferenceMatches, EL!RevokedKind,
          EL!Get, EL!RevocationKind, VerifyEvent, ValidShape, StoredIds,
          ReferenceHolds, Refers, ReferenceMatches, RevokedKind, Get,
          RevocationKind
    <2>4. EL(n)!Publish(e)
      BY <2>1, <2>3 DEF EL!Publish
    <2> QED
      BY <2>4 DEF EL!Next
  <1> QED
    BY <1>1, <1>2, TypeCorrect, PTL DEF Spec, RefinesEventLogs

-----------------------------------------------------------------------------
(* Cursors. *)

(* What PullsInOrder says of syncer v, when the logs are l and its run is  *)
(* r.                                                                      *)
Ordered(v, l, r) ==
  r.phase \in {"fetch", "apply", "persist"} /\ Home[v] \notin Faulty
      /\ Head(r.left) \in Nodes \ Replaced =>
    InOrder(l[Head(r.left)], l[Home[v]], r)

IInv == TypeOK /\ LogsSound /\ CursorCovers /\ PullsInOrder

LEMMA OrderedEquiv ==
  /\ PullsInOrder <=> \A v \in Syncers : Ordered(v, log, run[v])
  /\ PullsInOrder' <=> \A v \in Syncers : Ordered(v, log', run'[v])
  BY DEF PullsInOrder, Ordered, Pulling, Peer

(* Coverage survives the growth of both stores.                            *)
LEMMA CoveredGrows ==
  ASSUME NEW s \in Seq(Events), NEW t, NEW s2 \in Seq(Events), NEW t2,
         Grows(s, s2), Grows(t, t2), NEW i \in Nat, Covered(s, t, i)
  PROVE  Covered(s2, t2, i)
  BY DEF Covered, Grows

(* So does the order of a page.                                            *)
LEMMA InOrderGrows ==
  ASSUME NEW s \in Seq(Events), NEW t, NEW s2 \in Seq(Events), NEW t2,
         Grows(s, s2), Grows(t, t2), NEW r \in Run, InOrder(s, t, r)
  PROVE  InOrder(s2, t2, r)
  <1>1. r.after \in Nat /\ r.next \in Nat /\ r.pass.queue \in Seq(Events)
    BY DEF Run, PassOf
  <1>2. Covered(s2, t2, r.after)
    BY <1>1, CoveredGrows DEF InOrder
  <1>3. ASSUME r.phase = "apply" PROVE PageInOrder(s2, t2, r)
    <2> DEFINE waiting == r.pass.queue
               applied == r.next - Len(waiting)
    <2>1. PageInOrder(s, t, r)
      BY <1>3 DEF InOrder
    <2>2. applied \in Nat /\ Covered(s, t, applied) /\ r.next <= Len(s)
      BY <2>1 DEF PageInOrder
    <2>3. Covered(s2, t2, applied)
      BY <2>2, CoveredGrows
    <2>4. r.next <= Len(s2)
      BY <1>1, <2>2 DEF Grows
    <2>5. \A k \in 1 .. Len(waiting) : waiting[k] = s2[applied + k]
      <3> SUFFICES ASSUME NEW k \in 1 .. Len(waiting)
                   PROVE  waiting[k] = s2[applied + k]
        OBVIOUS
      <3>1. waiting[k] = s[applied + k]
        BY <2>1 DEF PageInOrder
      <3>2. applied + k \in 1 .. Len(s)
        BY <1>1, <2>2
      <3> QED
        BY <3>1, <3>2 DEF Grows
    <2> QED
      BY <2>1, <2>2, <2>3, <2>4, <2>5 DEF PageInOrder
  <1> QED
    BY <1>2, <1>3 DEF InOrder

(* The next event of a page that is in order follows those that are        *)
(* covered.                                                                *)
LEMMA HeadOfPage ==
  ASSUME NEW s \in Seq(Events), NEW t, NEW r \in Run, PageInOrder(s, t, r),
         r.pass.queue # << >>
  PROVE  LET applied == r.next - Len(r.pass.queue)
         IN  /\ applied + 1 \in DOMAIN s
             /\ Head(r.pass.queue) = s[applied + 1]
             /\ \A j \in 1 .. applied : s[j].id \in StoredIds(t)
  <1> DEFINE waiting == r.pass.queue
             applied == r.next - Len(waiting)
  <1>1. r.next \in Nat /\ waiting \in Seq(Events) /\ Len(waiting) \in Nat
    BY DEF Run, PassOf
  <1>2. Len(waiting) >= 1 /\ Head(waiting) = waiting[1]
    BY <1>1
  <1>3. applied \in Nat /\ r.next <= Len(s) /\ Covered(s, t, applied)
        /\ \A k \in 1 .. Len(waiting) : waiting[k] = s[applied + k]
    BY DEF PageInOrder
  <1>4. Head(waiting) = s[applied + 1]
    BY <1>1, <1>2, <1>3
  <1>5. applied + 1 \in DOMAIN s
    BY <1>1, <1>2, <1>3
  <1>6. \A j \in 1 .. applied : s[j].id \in StoredIds(t)
    BY <1>3 DEF Covered
  <1> QED
    BY <1>4, <1>5, <1>6

(* Once that event is stored, the rest of the page is in order.            *)
LEMMA TailOfPage ==
  ASSUME NEW s \in Seq(Events), NEW t, NEW t2, Grows(t, t2),
         NEW r \in Run, PageInOrder(s, t, r), r.pass.queue # << >>,
         Head(r.pass.queue).id \in StoredIds(t2),
         NEW r2 \in Run, r2.next = r.next, r2.pass = Continue(SettleHead(r.pass))
  PROVE  PageInOrder(s, t2, r2)
  <1> DEFINE waiting == r.pass.queue
             applied == r.next - Len(waiting)
  <1>1. r.next \in Nat /\ waiting \in Seq(Events) /\ r.pass \in PassOf(Events)
    BY DEF Run, PassOf
  <1>2. /\ applied \in Nat /\ r.next <= Len(s) /\ Covered(s, t, applied)
        /\ \A k \in 1 .. Len(waiting) : waiting[k] = s[applied + k]
        /\ r.pass.deferred = << >> /\ r.pass.round = "first"
    BY DEF PageInOrder
  <1>3. r2.pass = SettleHead(r.pass)
    <2>1. SettleHead(r.pass).deferred = << >>
      BY <1>1, <1>2 DEF SettleHead, PassOf
    <2> QED
      BY <2>1 DEF Continue, AllDone
  <1>4. r2.pass.queue = Tail(waiting) /\ r2.pass.deferred = << >>
        /\ r2.pass.round = "first"
    BY <1>1, <1>2, <1>3 DEF SettleHead, PassOf
  <1>5. /\ Len(Tail(waiting)) = Len(waiting) - 1
        /\ \A k \in 1 .. Len(Tail(waiting)) : Tail(waiting)[k] = waiting[k + 1]
        /\ Len(waiting) \in Nat \ {0}
    BY <1>1, HeadTailProperties
  <1>6. r.next - Len(Tail(waiting)) = applied + 1
    BY <1>1, <1>5
  <1>7. Covered(s, t2, applied + 1)
    <2>1. Head(waiting) = s[applied + 1] /\ applied + 1 \in DOMAIN s
      BY HeadOfPage
    <2>2. \A j \in 1 .. applied : s[j].id \in StoredIds(t2)
      BY <1>2 DEF Covered, Grows
    <2> QED
      BY <1>2, <2>1, <2>2 DEF Covered
  <1>8. \A k \in 1 .. Len(Tail(waiting)) : Tail(waiting)[k] = s[applied + 1 + k]
    BY <1>2, <1>5
  <1> QED
    BY <1>2, <1>4, <1>6, <1>7, <1>8 DEF PageInOrder

(* A step of one syncer leaves the runs of the others alone.               *)
LEMMA OtherRun ==
  ASSUME TypeOK, NEW w \in Syncers, Sync(w), NEW v \in Syncers, v # w
  PROVE  run'[v] = run[v]
  BY DEF TypeOK, Sync, Proceed, StartSync, Identify, FetchEnd, FetchPage, Accept,
         PutOff, Reject, StoreFails, EndPage, EndFrozenPage, Persist,
         IdentifyFails, Fail, Timeout, Abort, WithPass

(* A run that is not changed stays in order while the logs grow.           *)
LEMMA OrderStays ==
  ASSUME TypeOK, [Next]_vars, NEW v \in Syncers, Ordered(v, log, run[v])
  PROVE  Ordered(v, log', run[v])
  <1> SUFFICES ASSUME run[v].phase \in {"fetch", "apply", "persist"},
                      Home[v] \notin Faulty, Head(run[v].left) \in Nodes \ Replaced
               PROVE  InOrder(log'[Head(run[v].left)], log'[Home[v]], run[v])
    BY DEF Ordered
  <1> DEFINE m == Head(run[v].left)
             n == Home[v]
  <1>1. m \in Nodes /\ n \in Nodes /\ run[v] \in Run
    BY PeersAssumption DEF TypeOK
  <1>2. log[m] \in Seq(Events) /\ log'[m] \in Seq(Events)
    BY <1>1, StepType DEF TypeOK
  <1>3. InOrder(log[m], log[n], run[v])
    BY DEF Ordered
  <1>4. Grows(log[m], log'[m]) /\ Grows(log[n], log'[n])
    <2>1. ~Replace(m) /\ ~Replace(n)
      BY DEF Replace
    <2> QED
      BY <1>1, <2>1, LogsGrow
  <1> HIDE DEF m, n
  <1>5. InOrder(log'[m], log'[n], run[v])
    BY <1>1, <1>2, <1>3, <1>4, InOrderGrows
  <1> QED
    BY <1>5 DEF m, n
(* A syncer begins to pull where the cursor says, or from the beginning.   *)
LEMMA IdentifyOrdered ==
  ASSUME TypeOK, CursorCovers, NEW w \in Syncers, Identify(w)
  PROVE  Ordered(w, log', run'[w])
  <1> DEFINE m == Peer(w)
             n == Home[w]
             after == IF run[w].full THEN 0 ELSE cursor[n][m]
  <1>1. /\ run'[w] = [run[w] EXCEPT !.phase = "fetch", !.after = after, !.pass = NoPass,
                                    !.pulled = {}]
        /\ run[w] \in Run
        /\ log' = log
    BY DEF Identify, TypeOK
  <1> HIDE DEF after
  <1>2. /\ run'[w].after = after
        /\ run'[w].phase = "fetch"
        /\ run'[w].pass = NoPass
        /\ run'[w].left = run[w].left
    BY <1>1 DEF Run
  <1>3. NoPass.deferred = << >>
    BY DEF NoPass, StartPass
  <1>4. ASSUME m \in Nodes \ Replaced, n \notin Faulty
        PROVE  Covered(log[m], log[n], after)
    <2>1. n \in Nodes /\ log[m] \in Seq(Events)
      BY <1>4, PeersAssumption DEF TypeOK
    <2>2. CASE run[w].full
      BY <2>1, <2>2 DEF Covered, after
    <2>3. CASE ~run[w].full
      BY <1>4, <2>1, <2>3 DEF CursorCovers, after
    <2> QED
      BY <2>2, <2>3
  <1>5. ASSUME m \in Nodes \ Replaced, n \notin Faulty
        PROVE  InOrder(log[m], log[n], run'[w])
    BY <1>2, <1>3, <1>4, <1>5 DEF InOrder
  <1> QED
    BY <1>1, <1>2, <1>5 DEF Ordered, Peer

(* What PullsInOrder says of a syncer that works for a node whose store    *)
(* works, and pulls from a node.                                           *)
LEMMA PullingFacts ==
  ASSUME IInv, NEW w \in Syncers, Pulling(w), Home[w] \notin Faulty,
         Peer(w) \in Nodes \ Replaced
  PROVE  /\ InOrder(log[Peer(w)], log[Home[w]], run[w])
         /\ run[w] \in Run
         /\ Home[w] \in Nodes
         /\ log[Peer(w)] \in Seq(Events) /\ log[Home[w]] \in Seq(Events)
         /\ Sound(log[Peer(w)]) /\ Sound(log[Home[w]])
  BY PeersAssumption DEF IInv, TypeOK, LogsSound, PullsInOrder

(* A page of a node follows on what its cursor covers.                     *)
LEMMA FetchOrdered ==
  ASSUME IInv, NEW w \in Syncers, FetchEnd(w) \/ FetchPage(w)
  PROVE  Ordered(w, log', run'[w])
  <1> DEFINE m == Peer(w)
             n == Home[w]
             after == run[w].after
  <1>1. TypeOK /\ run[w].phase = "fetch" /\ log' = log
    BY DEF IInv, FetchEnd, FetchPage
  <1>2. ASSUME n \notin Faulty, m \in Nodes \ Replaced
        PROVE  /\ log[m] \in Seq(Events) /\ after \in Nat
               /\ Covered(log[m], log[n], after) /\ run[w].pass.deferred = << >>
    <2>1. InOrder(log[m], log[n], run[w]) /\ log[m] \in Seq(Events) /\ after \in Nat
      BY <1>1, <1>2, PullingFacts DEF Pulling, Run
    <2> QED
      BY <1>1, <2>1 DEF InOrder
  <1>3. CASE FetchEnd(w)
    <2>1. PICK r \in Run : /\ run' = [run EXCEPT ![w] = r]
                           /\ r.phase = "persist"
                           /\ m \in Nodes => r.after = after
                           /\ r.left = run[w].left
      BY <1>1, <1>3, FetchEndRun
    <2>2. run'[w] = r
      BY <1>1, <2>1 DEF TypeOK
    <2>3. ASSUME n \notin Faulty, m \in Nodes \ Replaced PROVE InOrder(log[m], log[n], r)
      BY <1>2, <2>1, <2>3 DEF InOrder
    <2> QED
      BY <1>1, <2>1, <2>2, <2>3 DEF Ordered, Peer
  <1>4. CASE FetchPage(w)
    <2>1. PICK page \in Replies(m, after), r \in Run :
            /\ page.events # << >>
            /\ run' = [run EXCEPT ![w] = r]
            /\ r.phase = "apply"
            /\ r.after = after
            /\ r.next = page.next
            /\ r.left = run[w].left
            /\ r.pass = StartPass("first", run[w].pass.deferred \o page.events)
      BY <1>1, <1>4, FetchPageRun
    <2>2. run'[w] = r
      BY <1>1, <2>1 DEF TypeOK
    <2>3. ASSUME n \notin Faulty, m \in Nodes \ Replaced PROVE InOrder(log[m], log[n], r)
      <3> DEFINE events == ListAfter(log[m], after, PageLimit)
      <3>1. page.events = events /\ page.next = after + Len(events)
        BY <1>1, <2>1, <2>3, ReplyType DEF Listing
      <3>2. /\ events \in Seq(Events) /\ events # << >>
            /\ after + Len(events) <= Len(log[m])
            /\ \A k \in 1 .. Len(events) : events[k] = log[m][after + k]
        <4>1. PageLimit \in Nat \ {0}
          BY PeersAssumption
        <4> QED
          BY <1>2, <2>1, <2>3, <3>1, <4>1, PageProperties
      <3> HIDE DEF events
      <3>3. run[w].pass.deferred \o events = events
        BY <1>2, <2>3, <3>2
      <3>4. /\ r.pass.queue = events
            /\ r.pass.deferred = << >>
            /\ r.pass.round = "first"
        BY <2>1, <3>1, <3>3 DEF StartPass
      <3>5. r.next - Len(r.pass.queue) = after /\ r.next <= Len(log[m])
        BY <1>2, <2>1, <2>3, <3>1, <3>2, <3>4
      <3>6. PageInOrder(log[m], log[n], r)
        BY <1>2, <2>3, <3>2, <3>4, <3>5 DEF PageInOrder
      <3> QED
        BY <1>2, <2>1, <2>3, <3>6 DEF InOrder
    <2> QED
      BY <1>1, <2>1, <2>2, <2>3 DEF Ordered, Peer
  <1> QED
    BY <1>3, <1>4

(* The next event of a page is accepted or has its id stored already.      *)
LEMMA NextOfPage ==
  ASSUME IInv, NEW w \in Syncers, Applying(w), Home[w] \notin Faulty,
         Peer(w) \in Nodes \ Replaced
  PROVE  /\ PageInOrder(log[Peer(w)], log[Home[w]], run[w])
         /\ Validation(log[Home[w]], Incoming(w)) \in {"accepted", "conflict"}
         /\ Validation(log[Home[w]], Incoming(w)) = "conflict"
              => Incoming(w).id \in StoredIds(log[Home[w]])
  <1> DEFINE s == log[Peer(w)]
             t == log[Home[w]]
             applied == run[w].next - Len(run[w].pass.queue)
             k == applied + 1
  <1>1. Pulling(w) /\ run[w].phase = "apply" /\ run[w].pass.queue # << >>
    BY DEF Pulling, Applying, PassOver
  <1>2. /\ PageInOrder(s, t, run[w])
        /\ run[w] \in Run
        /\ s \in Seq(Events) /\ t \in Seq(Events)
        /\ Sound(s) /\ Sound(t)
    BY <1>1, PullingFacts DEF InOrder
  <1> HIDE DEF s, t
  <1>3. /\ k \in DOMAIN s
        /\ Incoming(w) = s[k]
        /\ \A j \in 1 .. applied : s[j].id \in StoredIds(t)
    BY <1>1, <1>2, HeadOfPage DEF Incoming
  <1>4. applied \in Nat /\ k - 1 = applied
    BY <1>2 DEF PageInOrder
  <1> HIDE DEF applied, k
  <1>5. \A j \in 1 .. k - 1 : s[j].id \in StoredIds(t)
    BY <1>3, <1>4
  <1>6. /\ Validation(t, s[k]) \in {"accepted", "conflict"}
        /\ Validation(t, s[k]) = "conflict" => s[k].id \in StoredIds(t)
    BY <1>2, <1>3, <1>5, NextEventFits, Zenon
  <1> QED
    BY <1>2, <1>3, <1>6 DEF s, t
(* Applying the next event of a page in order leaves the rest in order:    *)
(* nothing is put off, and nothing is turned down that is not stored.      *)
LEMMA ApplyOrdered ==
  ASSUME IInv, [Next]_vars, NEW w \in Syncers,
         Accept(w) \/ PutOff(w) \/ Reject(w) \/ StoreFails(w)
  PROVE  Ordered(w, log', run'[w])
  <1> DEFINE m == Peer(w)
             n == Home[w]
             r == run'[w]
  <1>1. Applying(w) /\ TypeOK /\ run[w] \in Run /\ run[w].phase = "apply"
    BY DEF Accept, PutOff, Reject, StoreFails, IInv, TypeOK, Applying
  <1>2. PICK pass \in PassOf(Events) :
          /\ pass = SettleHead(run[w].pass) \/ PutOff(w)
          /\ run' = WithPass(w, pass)
    BY <1>1, IncomingType DEF Accept, PutOff, Reject, StoreFails
  <1>3. r = [run[w] EXCEPT !.pass = Continue(pass)]
    BY <1>1, <1>2 DEF WithPass, TypeOK
  <1>4. /\ r \in Run
        /\ r.left = run[w].left
        /\ r.phase = "apply"
        /\ r.after = run[w].after
        /\ r.next = run[w].next
        /\ r.pass = Continue(pass)
    <2>1. Continue(pass) \in PassOf(Events)
      BY <1>2, ContinueType
    <2> QED
      BY <1>1, <1>3, <2>1 DEF Run
  <1> SUFFICES ASSUME n \notin Faulty, m \in Nodes \ Replaced
               PROVE  InOrder(log'[m], log'[n], r)
    BY <1>4 DEF Ordered, Peer
  <1>5. /\ PageInOrder(log[m], log[n], run[w])
        /\ Validation(log[n], Incoming(w)) \in {"accepted", "conflict"}
        /\ Validation(log[n], Incoming(w)) = "conflict" => Incoming(w).id \in StoredIds(log[n])
    BY <1>1, NextOfPage
  <1>6. /\ n \in Nodes
        /\ log[m] \in Seq(Events) /\ log[n] \in Seq(Events)
        /\ log'[m] \in Seq(Events) /\ log'[n] \in Seq(Events)
        /\ run[w].pass.queue # << >>
        /\ Incoming(w) \in Events
    BY <1>1, IncomingType, StepType DEF TypeOK, Applying, PassOver
  <1>7. Grows(log[m], log'[m]) /\ Grows(log[n], log'[n])
    <2>1. ~Replace(m) /\ ~Replace(n)
      BY <1>1 DEF Replace
    <2> QED
      BY <1>1, <1>6, <2>1, LogsGrow
  <1>8. ~PutOff(w) /\ ~StoreFails(w)
    BY <1>5 DEF PutOff, StoreFails
  <1>9. Incoming(w).id \in StoredIds(log'[n])
    <2>1. CASE Accept(w)
      <3>1. run[w].pass.round = "first"
        BY <1>5 DEF PageInOrder
      <3>2. log' = [log EXCEPT ![n] = Put(@, Incoming(w))]
        BY <2>1, <3>1 DEF Accept
      <3>3. log'[n] = Put(log[n], Incoming(w))
        BY <1>1, <1>6, <3>2, LogType
      <3>4. StoredIds(Put(log[n], Incoming(w))) = StoredIds(log[n]) \cup {Incoming(w).id}
        BY <1>6, PutAddsId
      <3> QED
        BY <3>3, <3>4
    <2>2. CASE Reject(w)
      <3>1. log' = log /\ Validation(log[n], Incoming(w)) # "accepted"
        BY <2>2 DEF Reject
      <3> QED
        BY <1>5, <3>1
    <2> QED
      BY <1>8, <2>1, <2>2
  <1>10. pass = SettleHead(run[w].pass) /\ Head(run[w].pass.queue).id \in StoredIds(log'[n])
    BY <1>2, <1>8, <1>9 DEF Incoming
  <1>11. Covered(log[m], log[n], run[w].after) /\ run[w].after \in Nat
    BY <1>1, PullingFacts DEF Pulling, InOrder, Run
  <1> HIDE DEF m, n, r
  <1>12. PageInOrder(log[m], log'[n], r)
    BY <1>1, <1>4, <1>5, <1>6, <1>7, <1>10, TailOfPage
  <1>13. Grows(log[m], log[m]) /\ Grows(log'[n], log'[n])
    BY <1>6 DEF Grows
  <1>14. Covered(log[m], log'[n], r.after)
    BY <1>4, <1>6, <1>7, <1>11, <1>13, CoveredGrows
  <1>15. InOrder(log[m], log'[n], r)
    BY <1>4, <1>12, <1>14 DEF InOrder
  <1> QED
    BY <1>4, <1>6, <1>7, <1>13, <1>15, InOrderGrows
(* A page that is done was stored up to the sequence of its last event.    *)
LEMMA EndPageOrdered ==
  ASSUME IInv, NEW w \in Syncers, EndPage(w)
  PROVE  Ordered(w, log', run'[w])
  <1> DEFINE m == Peer(w)
             n == Home[w]
             phase == IF run[w].short THEN "persist" ELSE "fetch"
  <1>1. /\ run[w] \in Run
        /\ run[w].phase = "apply"
        /\ run[w].pass.queue = << >>
        /\ log' = log
    BY DEF EndPage, PageDone, PassOver, IInv, TypeOK
  <1>2. run'[w] = [run[w] EXCEPT !.after = run[w].next, !.phase = phase]
    BY DEF EndPage, IInv, TypeOK
  <1> HIDE DEF phase
  <1>3. /\ run'[w].left = run[w].left
        /\ run'[w].after = run[w].next
        /\ run'[w].phase = phase
        /\ run'[w].pass = run[w].pass
        /\ run[w].next \in Nat
    BY <1>1, <1>2 DEF Run
  <1> SUFFICES ASSUME n \notin Faulty, m \in Nodes \ Replaced
               PROVE  InOrder(log[m], log[n], run'[w])
    BY <1>1, <1>3 DEF Ordered, Peer
  <1>4. PageInOrder(log[m], log[n], run[w])
    BY <1>1, PullingFacts DEF Pulling, InOrder
  <1>5. run[w].next - Len(run[w].pass.queue) = run[w].next
    BY <1>1, <1>3
  <1>6. Covered(log[m], log[n], run[w].next) /\ run[w].pass.deferred = << >>
    BY <1>4, <1>5 DEF PageInOrder
  <1>7. phase # "apply"
    BY DEF phase
  <1> QED
    BY <1>3, <1>6, <1>7 DEF InOrder

(* The other steps of a syncer leave it at no peer.                        *)
LEMMA BetweenPulls ==
  ASSUME TypeOK, NEW w \in Syncers,
         \/ \E full \in BOOLEAN : StartSync(w, full)
         \/ EndFrozenPage(w) \/ Persist(w) \/ IdentifyFails(w) \/ Fail(w) \/ Timeout(w)
  PROVE  run'[w].phase \in {"idle", "identify"}
  <1>1. run[w] \in Run /\ NoRun.phase = "idle"
    BY NoRunType DEF TypeOK
  <1>2. CASE \E full \in BOOLEAN : StartSync(w, full)
    BY <1>2 DEF StartSync, NoRun, TypeOK
  <1>3. CASE Persist(w)
    BY <1>1, <1>3 DEF Persist, Run, TypeOK
  <1>4. CASE EndFrozenPage(w) \/ IdentifyFails(w) \/ Fail(w) \/ Timeout(w)
    BY <1>1, <1>4 DEF EndFrozenPage, IdentifyFails, Fail, Timeout, Abort, TypeOK
  <1> QED
    BY <1>2, <1>3, <1>4

LEMMA OtherOrdered ==
  ASSUME TypeOK, NEW w \in Syncers,
         \/ \E full \in BOOLEAN : StartSync(w, full)
         \/ EndFrozenPage(w) \/ Persist(w) \/ IdentifyFails(w) \/ Fail(w) \/ Timeout(w)
  PROVE  Ordered(w, log', run'[w])
  BY BetweenPulls DEF Ordered

LEMMA PullsStep == IInv /\ [Next]_vars => PullsInOrder'
  <1> SUFFICES ASSUME IInv, [Next]_vars, NEW v \in Syncers
               PROVE  Ordered(v, log', run'[v])
    BY OrderedEquiv
  <1>1. TypeOK /\ CursorCovers /\ Ordered(v, log, run[v])
    BY OrderedEquiv DEF IInv
  <1>2. CASE run'[v] = run[v]
    BY <1>1, <1>2, OrderStays
  <1>3. CASE Sync(v)
    BY <1>1, <1>3, IdentifyOrdered, FetchOrdered, ApplyOrdered, EndPageOrdered, OtherOrdered
    DEF Sync, Proceed
  <1>4. ASSUME NEW w \in Syncers, w # v, Sync(w) PROVE run'[v] = run[v]
    BY <1>1, <1>4, OtherRun
  <1>5. \/ \E n \in Nodes, e \in Events : Submit(n, e)
        \/ \E n \in Nodes : Replace(n)
        \/ UNCHANGED vars
        => run' = run
    BY DEF Submit, Replace, vars
  <1> QED
    BY <1>2, <1>3, <1>4, <1>5 DEF Next

(* A cursor moves only when a run records what it has pulled.              *)
LEMMA CursorStep == IInv /\ [Next]_vars => CursorCovers'
  <1> SUFFICES ASSUME IInv, [Next]_vars, NEW n \in Nodes \ Faulty,
                      NEW m \in Nodes \ Replaced
               PROVE  Covered(log'[m], log'[n], cursor'[n][m])
    BY DEF CursorCovers
  <1>1. /\ TypeOK
        /\ log[m] \in Seq(Events) /\ log'[m] \in Seq(Events)
        /\ Grows(log[m], log'[m])
        /\ cursor[n][m] \in Nat
        /\ Covered(log[m], log[n], cursor[n][m])
    <2>1. ~Replace(m)
      BY DEF Replace
    <2> QED
      BY <2>1, StepType, LogsGrow DEF IInv, TypeOK, CursorCovers
  <1>2. CASE Replace(n)
    <2>1. cursor'[n][m] = 0
      BY <1>1, <1>2 DEF Replace, TypeOK
    <2> QED
      BY <1>1, <2>1 DEF Covered
  <1> SUFFICES ASSUME ~Replace(n)
               PROVE  Covered(log'[m], log'[n], cursor'[n][m])
    BY <1>2
  <1>3. Grows(log[n], log'[n])
    BY <1>1, LogsGrow
  <1>4. CASE cursor'[n][m] = cursor[n][m]
    BY <1>1, <1>3, <1>4, CoveredGrows
  <1>5. ASSUME NEW w \in Syncers, Persist(w), cursor'[n][m] # cursor[n][m]
        PROVE  Covered(log'[m], log'[n], cursor'[n][m])
    <2>1. /\ cursor' = [cursor EXCEPT ![Home[w]][Peer(w)] = run[w].after]
          /\ run[w].phase = "persist"
      BY <1>5 DEF Persist
    <2>2. Home[w] = n /\ Peer(w) = m
      BY <1>1, <1>5, <2>1, PeersAssumption DEF TypeOK
    <2>3. cursor'[n][m] = run[w].after
      BY <1>1, <2>1, <2>2 DEF TypeOK
    <2>4. Covered(log[m], log[n], run[w].after) /\ run[w].after \in Nat
      BY <2>1, <2>2, PullingFacts DEF Pulling, InOrder, Run
    <2> QED
      BY <1>1, <1>3, <2>3, <2>4, CoveredGrows
  <1>6. ASSUME NEW w \in Syncers, Sync(w), ~Persist(w) PROVE cursor' = cursor
    BY <1>6 DEF Sync, Proceed, StartSync, Identify, FetchEnd, FetchPage, Accept,
                PutOff, Reject, StoreFails, EndPage, EndFrozenPage, IdentifyFails,
                Fail, Timeout
  <1>7. (\E h \in Nodes, e \in Events : Submit(h, e)) \/ UNCHANGED vars => cursor' = cursor
    BY DEF Submit, vars
  <1>8. ASSUME NEW h \in Nodes, Replace(h) PROVE cursor'[n][m] = cursor[n][m]
    BY <1>1, <1>8 DEF Replace, TypeOK
  <1> QED
    BY <1>4, <1>5, <1>6, <1>7, <1>8 DEF Next

LEMMA InitIInv == Init => IInv
  <1> SUFFICES ASSUME Init PROVE IInv
    OBVIOUS
  <1>1. TypeOK /\ LogsSound
    BY InitType, EmptySound DEF Init, LogsSound
  <1>2. CursorCovers
    BY DEF Init, CursorCovers, Covered
  <1>3. PullsInOrder
    BY NoRunType DEF Init, PullsInOrder, Pulling
  <1> QED
    BY <1>1, <1>2, <1>3 DEF IInv

LEMMA Invariance == Spec => []IInv
  <1>1. IInv /\ [Next]_vars => IInv'
    BY StepType, SoundStep, CursorStep, PullsStep DEF IInv
  <1> QED
    BY <1>1, InitIInv, PTL DEF Spec

(* No event of another node is skipped for good: a node whose store works  *)
(* has stored every event of the other one up to its cursor.               *)
THEOREM CursorsCovered == Spec => []CursorCovers
  BY Invariance, PTL DEF IInv

(* Between nodes nothing is ever put off: events arrive in an order in     *)
(* which each of them can be stored at once.                               *)
THEOREM OrderedPulls == Spec => []PullsInOrder
  BY Invariance, PTL DEF IInv

(* Two nodes that have pulled all there is from each other have the same   *)
(* ids, so they show the same active events, whoever sent them what and in *)
(* whatever order (active_claims, active_attestations).                    *)
THEOREM CaughtUpNodesAgree == Spec => []CaughtUpAgree
  <1>1. ASSUME IInv, NEW n \in Nodes \ (Faulty \cup Replaced),
               NEW m \in Nodes \ (Faulty \cup Replaced), CaughtUp(n, m)
        PROVE  StoredIds(log[m]) \subseteq StoredIds(log[n])
    <2>1. Covered(log[m], log[n], cursor[n][m])
      BY <1>1 DEF IInv, CursorCovers
    <2>2. \A j \in 1 .. Len(log[m]) : log[m][j].id \in StoredIds(log[n])
      BY <1>1, <2>1 DEF CaughtUp, Covered
    <2>3. log[m] \in Seq(Events)
      BY <1>1 DEF IInv, TypeOK
    <2> QED
      BY <2>2, <2>3 DEF StoredIds
  <1>2. ASSUME IInv, NEW n \in Nodes \ (Faulty \cup Replaced),
               NEW m \in Nodes \ (Faulty \cup Replaced), CaughtUp(n, m), CaughtUp(m, n),
               NEW subject, NEW kind
        PROVE  ActiveIds(n, subject, kind) = ActiveIds(m, subject, kind)
    <2>1. StoredIds(log[m]) = StoredIds(log[n])
      <3>1. StoredIds(log[m]) \subseteq StoredIds(log[n])
        BY <1>1, <1>2
      <3>2. StoredIds(log[n]) \subseteq StoredIds(log[m])
        BY <1>1, <1>2
      <3> QED
        BY <3>1, <3>2
    <2>2. OnlyVerified(log[m]) /\ OnlyVerified(log[n])
      BY <1>2 DEF IInv, LogsSound, Sound
    <2> DEFINE activeN == ActiveEvents(EventsAbout(log[n], subject), kind)
               activeM == ActiveEvents(EventsAbout(log[m], subject), kind)
    <2>3. \A e \in activeN : \E f \in activeM : f.id = e.id
      BY <2>1, <2>2, SameIdsAgree
    <2>4. \A e \in activeM : \E f \in activeN : f.id = e.id
      BY <2>1, <2>2, SameIdsAgree
    <2> HIDE DEF activeN, activeM
    <2>5. {e.id : e \in activeN} = {e.id : e \in activeM}
      BY <2>3, <2>4
    <2> QED
      BY <2>5 DEF ActiveIds, activeN, activeM
  <1>3. IInv => CaughtUpAgree
    BY <1>2 DEF CaughtUpAgree
  <1> QED
    BY <1>3, Invariance, PTL

-----------------------------------------------------------------------------
(* Runs come to their end. *)

AllPaced == \A w \in Syncers : Paced(run[w].pass)

LEMMA NoPassPaced == Paced(NoPass) /\ Paced(NoRun.pass)
  <1>1. NoPass = StartPass("only", << >>) /\ << >> \in Seq(Nat) /\ NoRun.pass = NoPass
    BY DEF NoPass, NoRun
  <1> QED
    BY <1>1, StartPaced

(* An event of the page has its result, or is put off.                     *)
LEMMA ApplyAdvances ==
  ASSUME TypeOK, NEW w \in Syncers, Applying(w), Paced(run[w].pass),
         NEW pass \in {SettleHead(run[w].pass), DeferHead(run[w].pass)},
         run' = WithPass(w, pass)
  PROVE  /\ Paced(run'[w].pass)
         /\ RunAdvances(run[w], run'[w], LastSequence(Peer(w)))
  <1>1. run[w].pass \in PassOf(Events) /\ run[w].pass.queue # << >>
    BY DEF TypeOK, Run, Applying, PassOver
  <1>2. pass \in PassOf(Events) /\ Paced(pass)
    BY <1>1, IncomingType, HeadPaced
  <1>3. PICK r \in Run : /\ run' = [run EXCEPT ![w] = r]
                         /\ r.pass = Continue(pass)
                         /\ r.phase = run[w].phase
                         /\ r.left = run[w].left
                         /\ r.after = run[w].after
    BY <1>2, WithPassRun
  <1>4. run'[w] = r
    BY <1>3 DEF TypeOK
  <1>5. Paced(r.pass)
    BY <1>2, <1>3, ContinuePaced
  <1>6. FurtherOn(r.pass, run[w].pass)
    BY <1>1, <1>3, HeadAdvances
  <1>7. run[w].phase = "apply"
    BY DEF Applying
  <1>8. RunAdvances(run[w], r, LastSequence(Peer(w)))
    BY <1>3, <1>6, <1>7 DEF RunAdvances, GetsOn
  <1> QED
    BY <1>4, <1>5, <1>8

(* A page ends within the store of the peer.                               *)
LEMMA FetchAdvances ==
  ASSUME TypeOK, NEW w \in Syncers, FetchEnd(w) \/ FetchPage(w), Paced(run[w].pass)
  PROVE  /\ Paced(run'[w].pass)
         /\ RunAdvances(run[w], run'[w], LastSequence(Peer(w)))
  <1> DEFINE last == LastSequence(Peer(w))
  <1>1. run[w].phase = "fetch" /\ run[w] \in Run /\ run[w].after \in Nat
    BY DEF FetchEnd, FetchPage, TypeOK, Run
  <1>2. CASE FetchEnd(w)
    <2>1. PICK t \in Run : /\ run' = [run EXCEPT ![w] = t]
                           /\ t.phase = "persist"
                           /\ t.after >= run[w].after
                           /\ t.left = run[w].left
                           /\ t.pass = run[w].pass
      BY <1>2, FetchEndRun
    <2>2. run'[w] = t /\ t.after \in Nat
      BY <2>1 DEF TypeOK, Run
    <2>3. GetsOn(run[w], t, last)
      BY <1>1, <2>1, <2>2 DEF GetsOn, PhasesLeft
    <2>4. RunAdvances(run[w], t, last)
      BY <2>1, <2>3 DEF RunAdvances
    <2> QED
      BY <2>1, <2>2, <2>4
  <1>3. CASE FetchPage(w)
    <2>1. PICK page \in Replies(Peer(w), run[w].after), t \in Run :
            /\ page.events # << >>
            /\ run' = [run EXCEPT ![w] = t]
            /\ t.phase = "apply"
            /\ t.after = run[w].after
            /\ t.next = page.next
            /\ t.left = run[w].left
            /\ run[w].pass.deferred \o page.events \in Seq(Events)
            /\ t.pass = StartPass("first", run[w].pass.deferred \o page.events)
      BY <1>3, FetchPageRun
    <2>2. run'[w] = t
      BY <2>1 DEF TypeOK
    <2>3. Paced(t.pass)
      BY <2>1, StartPaced
    <2>4. t.next <= last
      BY <1>1, <2>1, ReplyType
    <2> HIDE DEF last
    <2>5. GetsOn(run[w], t, last)
      BY <1>1, <2>1, <2>4 DEF GetsOn, PhasesLeft
    <2>6. RunAdvances(run[w], t, last)
      BY <2>1, <2>5 DEF RunAdvances
    <2> QED
      BY <2>2, <2>3, <2>6 DEF last
  <1> QED
    BY <1>2, <1>3

(* A page is left behind for a later place only.                           *)
LEMMA EndPageAdvances ==
  ASSUME TypeOK, NEW w \in Syncers, EndPage(w), Paced(run[w].pass)
  PROVE  /\ Paced(run'[w].pass)
         /\ RunAdvances(run[w], run'[w], LastSequence(Peer(w)))
  <1>1. run[w] \in Run
    BY DEF TypeOK
  <1>2. /\ run'[w].after = run[w].next /\ run[w].next > run[w].after
        /\ run'[w].left = run[w].left /\ run'[w].pass = run[w].pass
        /\ run'[w].phase \in {"persist", "fetch"}
    BY <1>1 DEF EndPage, TypeOK, Run
  <1> QED
    BY <1>2 DEF RunAdvances, GetsOn

(* A peer is done with, or the run is over.                                *)
LEMMA LeaveAdvances ==
  ASSUME TypeOK, NEW w \in Syncers, Paced(run[w].pass),
         Persist(w) \/ EndFrozenPage(w) \/ IdentifyFails(w) \/ Fail(w) \/ Timeout(w)
  PROVE  /\ Paced(run'[w].pass)
         /\ RunAdvances(run[w], run'[w], LastSequence(Peer(w)))
  <1>1. CASE run'[w] = NoRun
    BY <1>1, NoPassPaced, NoRunType DEF RunAdvances
  <1>2. CASE Persist(w) /\ run'[w] # NoRun
    <2>1. run[w] \in Run /\ run[w].left # << >>
      BY <1>2 DEF Persist, TypeOK
    <2>2. /\ run'[w].left = Tail(run[w].left)
          /\ run'[w].pass = run[w].pass
      BY <1>2, <2>1 DEF Persist, TypeOK, Run
    <2>3. Len(Tail(run[w].left)) < Len(run[w].left)
      <3>1. run[w].left \in Seq(Nodes \cup Feeds) /\ run[w].left # << >>
        BY <2>1 DEF Run
      <3>2. Len(run[w].left) \in Nat /\ Len(Tail(run[w].left)) = Len(run[w].left) - 1
        BY <3>1
      <3> QED
        BY <3>2
    <2> QED
      BY <2>2, <2>3 DEF RunAdvances
  <1>3. EndFrozenPage(w) \/ IdentifyFails(w) \/ Fail(w) \/ Timeout(w) => run'[w] = NoRun
    BY DEF EndFrozenPage, IdentifyFails, Fail, Timeout, Abort, TypeOK
  <1> QED
    BY <1>1, <1>2, <1>3

LEMMA OwnStepAdvances ==
  ASSUME TypeOK, NEW w \in Syncers, Sync(w), Paced(run[w].pass)
  PROVE  /\ Paced(run'[w].pass)
         /\ run[w].phase # "idle" => RunAdvances(run[w], run'[w], LastSequence(Peer(w)))
  <1>1. CASE \E full \in BOOLEAN : StartSync(w, full)
    <2>1. run[w].phase = "idle" /\ run'[w].pass = NoRun.pass
      BY <1>1 DEF StartSync, TypeOK, NoRun
    <2> QED
      BY <2>1, NoPassPaced
  <1>2. CASE Identify(w)
    <2>1. /\ run[w].phase = "identify" /\ run'[w].phase = "fetch"
          /\ run'[w].left = run[w].left /\ run'[w].pass = NoPass
      BY <1>2 DEF Identify, TypeOK, Run
    <2> QED
      BY <2>1, NoPassPaced DEF RunAdvances
  <1>3. CASE FetchEnd(w) \/ FetchPage(w)
    BY <1>3, FetchAdvances
  <1>4. CASE Accept(w) \/ PutOff(w) \/ Reject(w) \/ StoreFails(w)
    <2>1. Applying(w) /\ \/ run' = WithPass(w, SettleHead(run[w].pass))
                         \/ run' = WithPass(w, DeferHead(run[w].pass))
      BY <1>4 DEF Accept, PutOff, Reject, StoreFails
    <2> QED
      BY <2>1, ApplyAdvances
  <1>5. CASE EndPage(w)
    BY <1>5, EndPageAdvances
  <1>6. CASE Persist(w) \/ EndFrozenPage(w) \/ IdentifyFails(w) \/ Fail(w) \/ Timeout(w)
    BY <1>6, LeaveAdvances
  <1> QED
    BY <1>1, <1>2, <1>3, <1>4, <1>5, <1>6 DEF Sync, Proceed

LEMMA StepAdvances ==
  TypeOK /\ AllPaced /\ [Next]_vars
    => /\ AllPaced'
       /\ \A w \in Syncers : run[w].phase # "idle" /\ run'[w] # run[w] =>
            RunAdvances(run[w], run'[w], LastSequence(Peer(w)))
  <1> SUFFICES ASSUME TypeOK, AllPaced, [Next]_vars, NEW v \in Syncers
               PROVE  /\ Paced(run'[v].pass)
                      /\ run[v].phase # "idle" /\ run'[v] # run[v] =>
                           RunAdvances(run[v], run'[v], LastSequence(Peer(v)))
    BY DEF AllPaced
  <1>1. Paced(run[v].pass)
    BY DEF AllPaced
  <1>2. CASE run'[v] = run[v]
    BY <1>1, <1>2
  <1>3. CASE run'[v] # run[v]
    <2>1. PICK w \in Syncers : Sync(w)
      BY <1>3 DEF Next, vars, Submit, Replace
    <2>2. w = v
      BY <1>3, <2>1, OtherRun
    <2> QED
      BY <1>1, <2>1, <2>2, OwnStepAdvances
  <1> QED
    BY <1>2, <1>3

(* Every step of a run ends it, turns to a further peer, or gets on at the *)
(* current one, whatever pages it answers with.  So the sequence numbers   *)
(* behind the cursor bound how many pages a run asks for: at a node the    *)
(* events it stores, at a feed whose cursors go up one by one nothing less *)
(* than MaxSequence (sync_from_peer_with_state).                           *)
THEOREM RunsGetOn == Spec => RunsAdvance
  <1>1. Init => AllPaced
    BY NoPassPaced DEF Init, AllPaced
  <1>2. TypeOK /\ AllPaced /\ [Next]_vars
          => /\ AllPaced'
             /\ [\A w \in Syncers : run[w].phase # "idle" /\ run'[w] # run[w] =>
                   RunAdvances(run[w], run'[w], LastSequence(Peer(w)))]_vars
    BY StepAdvances
  <1> QED
    BY <1>1, <1>2, TypeCorrect, PTL DEF Spec, RunsAdvance

-----------------------------------------------------------------------------
(* Waits. *)

(* Periodic runs each of which waits for another one of them. *)
Circle(C) == C \subseteq Locking /\ \A v \in C : WaitsFor(v) \cap C # {}

(* The pairs of a peer and a node whose periodic runs pull from it.        *)
PullsFrom ==
  {p \in Nodes \X Nodes : \E w \in Locking :
     Home[w] = p[2] /\ \E i \in DOMAIN Peers[p[2]] : Peers[p[2]][i] = p[1]}

(* A run has only configured peers left. *)
PeersInv ==
  \A w \in Syncers : \A i \in DOMAIN run[w].left :
    \E j \in DOMAIN Peers[Home[w]] : Peers[Home[w]][j] = run[w].left[i]

LEMMA StepLeaves ==
  ASSUME TypeOK, NEW w \in Syncers, Sync(w)
  PROVE  run'[w].left \in {<< >>, Peers[Home[w]], run[w].left, Tail(run[w].left)}
  <1>1. run \in [Syncers -> Run]
    BY DEF TypeOK
  <1>2. CASE \E full \in BOOLEAN : StartSync(w, full)
    BY <1>1, <1>2 DEF StartSync, NoRun
  <1>3. CASE Identify(w) \/ FetchEnd(w) \/ FetchPage(w) \/ EndPage(w)
    <2>1. CASE Identify(w)
      BY <1>1, <2>1 DEF Identify, Run
    <2>2. CASE FetchEnd(w)
      BY <1>1, <2>2, FetchEndRun
    <2>3. CASE FetchPage(w)
      BY <1>1, <2>3, FetchPageRun
    <2>4. CASE EndPage(w)
      BY <1>1, <2>4 DEF EndPage, Run
    <2> QED
      BY <1>3, <2>1, <2>2, <2>3, <2>4
  <1>4. CASE Accept(w) \/ PutOff(w) \/ Reject(w) \/ StoreFails(w)
    <2>1. PICK pass : run' = WithPass(w, pass)
      BY <1>4 DEF Accept, PutOff, Reject, StoreFails
    <2> QED
      BY <1>1, <2>1 DEF WithPass, Run
  <1>5. CASE EndFrozenPage(w) \/ IdentifyFails(w) \/ Fail(w) \/ Timeout(w)
    BY <1>1, <1>5 DEF EndFrozenPage, IdentifyFails, Fail, Timeout, Abort, NoRun
  <1>6. CASE Persist(w)
    BY <1>1, <1>6 DEF Persist, NoRun
  <1> QED
    BY <1>2, <1>3, <1>4, <1>5, <1>6 DEF Sync, Proceed

LEMMA PeersStep == TypeOK /\ PeersInv /\ [Next]_vars => PeersInv'
  <1> SUFFICES ASSUME TypeOK, PeersInv, [Next]_vars, NEW v \in Syncers
               PROVE  \A i \in DOMAIN run'[v].left :
                        \E j \in DOMAIN Peers[Home[v]] : Peers[Home[v]][j] = run'[v].left[i]
    BY DEF PeersInv
  <1>1. CASE run'[v] = run[v]
    BY <1>1 DEF PeersInv
  <1>2. ASSUME NEW w \in Syncers, Sync(w), run'[v] # run[v]
        PROVE  run'[v].left \in {<< >>, Peers[Home[v]], run[v].left, Tail(run[v].left)}
    <2>1. v = w
      BY <1>2, OtherRun
    <2> QED
      BY <1>2, <2>1, StepLeaves
  <1>3. ASSUME run'[v].left \in {<< >>, Peers[Home[v]], run[v].left, Tail(run[v].left)}
        PROVE  \A i \in DOMAIN run'[v].left :
                 \E j \in DOMAIN Peers[Home[v]] : Peers[Home[v]][j] = run'[v].left[i]
    <2>1. run[v].left \in Seq(Nodes \cup Feeds) /\ Peers[Home[v]] \in Seq(Nodes \cup Feeds)
      BY PeersAssumption DEF TypeOK, Run
    <2>2. CASE run'[v].left = Tail(run[v].left) /\ run[v].left # << >>
      <3>1. \A i \in DOMAIN run'[v].left :
              i + 1 \in DOMAIN run[v].left /\ run'[v].left[i] = run[v].left[i + 1]
        BY <2>1, <2>2
      <3> QED
        BY <3>1 DEF PeersInv
    <2>3. CASE run'[v].left = Tail(run[v].left) /\ run[v].left = << >>
      BY <2>3
    <2>4. CASE run'[v].left \in {<< >>, Peers[Home[v]], run[v].left}
      BY <2>4 DEF PeersInv
    <2> QED
      BY <1>3, <2>2, <2>3, <2>4
  <1>4. run'[v] = run[v] \/ \E w \in Syncers : Sync(w)
    BY DEF Next, Submit, Replace, vars
  <1> QED
    BY <1>1, <1>2, <1>3, <1>4

(* What a run waits for is a run of the node it is asking. *)
LEMMA WaitsForPeer ==
  ASSUME TypeOK, PeersInv, NEW v \in Locking, NEW u \in WaitsFor(v)
  PROVE  << Home[u], Home[v] >> \in PullsFrom
  <1>1. v \in Syncers /\ u \in Syncers /\ Home[u] = Peer(v) /\ run[v].phase = "fetch"
    BY PeersAssumption DEF WaitsFor
  <1>2. run[v].left \in Seq(Nodes \cup Feeds) /\ run[v].left # << >>
    BY <1>1 DEF TypeOK, Run
  <1>3. 1 \in DOMAIN run[v].left /\ Peer(v) = run[v].left[1]
    BY <1>2 DEF Peer
  <1>4. PICK j \in DOMAIN Peers[Home[v]] : Peers[Home[v]][j] = Home[u]
    BY <1>1, <1>3 DEF PeersInv
  <1>5. Home[u] \in Nodes /\ Home[v] \in Nodes
    BY <1>1, PeersAssumption
  <1> QED
    BY <1>4, <1>5 DEF PullsFrom

LEMMA NoCircleInHierarchy ==
  ASSUME TypeOK, PeersInv, IsWellFoundedOn(PullsFrom, Nodes),
         NEW w \in Syncers, WaitsInCircle(w)
  PROVE  FALSE
  <1>1. PICK C \in SUBSET Locking : w \in C /\ \A v \in C : WaitsFor(v) \cap C # {}
    BY DEF WaitsInCircle
  <1> DEFINE T == {Home[v] : v \in C}
  <1>2. T \subseteq Nodes /\ T # {}
    BY <1>1, PeersAssumption
  <1>3. \A v \in C : \E u \in C : << Home[u], Home[v] >> \in PullsFrom
    BY <1>1, WaitsForPeer
  <1>4. \A x \in T : \E y \in T : << y, x >> \in PullsFrom
    BY <1>3
  <1> HIDE DEF T
  <1>5. \E x \in T : \A y \in T : ~(<< y, x >> \in PullsFrom)
    BY <1>2, WFMin
  <1> QED
    BY <1>4, <1>5

(* Where no node that synchronises periodically gets back to itself by     *)
(* going from peer to peer, no run ever waits in a circle for the store    *)
(* mutexes that the others hold (spawn_periodic_sync, sync_events).        *)
THEOREM HierarchiesNeverWait ==
  ASSUME IsWellFoundedOn(PullsFrom, Nodes)
  PROVE  Spec => [](\A w \in Syncers : ~WaitsInCircle(w))
  <1>1. Init => PeersInv
    BY DEF Init, NoRun, PeersInv
  <1>2. TypeOK /\ PeersInv => \A w \in Syncers : ~WaitsInCircle(w)
    BY NoCircleInHierarchy
  <1> QED
    BY <1>1, <1>2, PeersStep, TypeCorrect, PTL DEF Spec

(* A run in a circle can do nothing but give up. *)
LEMMA StuckInCircle ==
  ASSUME NEW C, Circle(C), NEW w \in C, Sync(w)
  PROVE  Timeout(w) \/ Fail(w)
  <1>1. WaitsFor(w) \cap C # {} /\ C \subseteq Locking
    BY DEF Circle
  <1>2. run[w].phase = "fetch"
    BY <1>1 DEF WaitsFor
  <1>3. Locked(Peer(w))
    BY <1>1, <1>2 DEF WaitsFor, Locked
  <1> QED
    BY <1>2, <1>3 DEF Sync, Proceed, StartSync, Identify, FetchEnd, FetchPage, Accept, PutOff,
       Reject, StoreFails, Applying, EndPage, EndFrozenPage, PageDone, Persist, IdentifyFails

LEMMA CircleStep ==
  ASSUME TypeOK, [Next]_vars, NEW C, Circle(C)
  PROVE  Circle(C)' \/ \E w \in C : Timeout(w) \/ Fail(w)
  <1>1. C \subseteq Syncers
    BY PeersAssumption DEF Circle
  <1>2. CASE \A v \in C : run'[v] = run[v]
    <2>1. ASSUME NEW v \in C PROVE WaitsFor(v)' \cap C = WaitsFor(v) \cap C
      <3>1. run'[v] = run[v] /\ Peer(v)' = Peer(v)
        BY <1>2 DEF Peer
      <3> QED
        BY <1>2, <3>1 DEF WaitsFor
    <2> QED
      BY <2>1 DEF Circle
  <1>3. ASSUME NEW v \in C, run'[v] # run[v]
        PROVE  \E w \in C : Timeout(w) \/ Fail(w)
    <2>1. PICK w \in Syncers : Sync(w)
      BY <1>3 DEF Next, Submit, Replace, vars
    <2>2. v = w
      BY <1>1, <1>3, <2>1, OtherRun
    <2> QED
      BY <1>3, <2>1, <2>2, StuckInCircle
  <1> QED
    BY <1>2, <1>3

(* A circle of waits never dissolves by itself: whatever other runs and    *)
(* clients do, it stays until the HTTP client of one of its members gives  *)
(* up, or a process dies.                                                  *)
THEOREM CirclesStay ==
  Spec => [][\A C \in SUBSET Locking :
               Circle(C) => Circle(C)' \/ \E w \in C : Timeout(w) \/ Fail(w)]_vars
  <1>1. TypeOK /\ [Next]_vars
          => [\A C \in SUBSET Locking :
                Circle(C) => Circle(C)' \/ \E w \in C : Timeout(w) \/ Fail(w)]_vars
    BY CircleStep
  <1> QED
    BY <1>1, TypeCorrect, PTL DEF Spec

-----------------------------------------------------------------------------
(* What a pull leaves behind. *)

Settled(t, e) == e.id \in StoredIds(t) \/ Stuck(t, e)

Missing(t) == {e \in Events : Validation(t, e) = "missing"}

(* How far a run r has got with the store t: what the peer handed out is   *)
(* settled or still pending, and what is pending at the end of a page      *)
(* lacks its reference.                                                    *)
BetweenPages(t, r) ==
  /\ \A e \in r.pulled : Settled(t, e) \/ Deferred(r.pass, e)
  /\ \A e : Deferred(r.pass, e) => e \in Missing(t)

WithinPage(t, r) ==
  /\ \A e \in r.pulled : Settled(t, e) \/ Queued(r.pass, e) \/ Deferred(r.pass, e)
  /\ Resigned(r.pass, Missing(t))
  /\ r.pass.round # "only"
  /\ PassOver(r.pass) => AllDone(r.pass)

Complete(t, r) ==
  /\ r.phase \in {"fetch", "persist"} => BetweenPages(t, r)
  /\ r.phase = "apply" => WithinPage(t, r)

Tracked(v, l, r) ==
  r.phase \in {"fetch", "apply", "persist"} /\ Undisturbed(v) => Complete(l[Home[v]], r)

AllTracked == \A v \in Syncers : Tracked(v, log, run[v])

(* While a syncer that locks its node runs, and works for it alone, its    *)
(* own steps are the only ones that store anything there.                  *)
LEMMA QuietLog ==
  ASSUME TypeOK, [Next]_vars, NEW v \in Syncers, Undisturbed(v),
         run[v].phase # "idle", ~Accept(v)
  PROVE  log'[Home[v]] = log[Home[v]]
  <1> DEFINE n == Home[v]
  <1>1. n \in Nodes
    BY PeersAssumption
  <1>2. Locked(n)
    BY DEF Undisturbed, Locked
  <1>3. ASSUME NEW h \in Nodes, NEW e \in Events, Submit(h, e) PROVE log'[n] = log[n]
    <2>1. h # n
      BY <1>2, <1>3 DEF Submit
    <2> QED
      BY <1>3, <2>1 DEF Submit, TypeOK
  <1>4. ASSUME NEW w \in Syncers, Accept(w) PROVE log'[n] = log[n]
    <2>1. Home[w] # n
      BY <1>4 DEF Undisturbed
    <2> QED
      BY <1>4, <2>1 DEF Accept, TypeOK
  <1>5. ASSUME NEW h \in Nodes, Replace(h) PROVE log'[n] = log[n]
    <2>1. h # n
      BY <1>5 DEF Replace
    <2> QED
      BY <1>5, <2>1 DEF Replace, TypeOK
  <1>6. ASSUME NEW w \in Syncers, Sync(w), ~Accept(w) PROVE log' = log
    BY <1>6 DEF Sync, Proceed, StartSync, Identify, FetchEnd, FetchPage, PutOff,
                Reject, StoreFails, EndPage, EndFrozenPage, Persist,
                IdentifyFails, Fail, Timeout
  <1> QED
    BY <1>3, <1>4, <1>5, <1>6 DEF Next, vars

(* A run that is not changed stays tracked.                                *)
LEMMA TrackStays ==
  ASSUME TypeOK, [Next]_vars, NEW v \in Syncers, Tracked(v, log, run[v]), ~Accept(v)
  PROVE  Tracked(v, log', run[v])
  BY QuietLog DEF Tracked

(* What is settled stays settled when an event is accepted, and the event  *)
(* itself is settled by it.                                                *)
LEMMA AcceptSettles ==
  ASSUME NEW t \in Seq(Events), Sound(t), NEW e \in Events, Validation(t, e) = "accepted"
  PROVE  /\ Settled(Put(t, e), e)
         /\ \A f : Settled(t, f) => Settled(Put(t, e), f)
  <1>1. VerifyEvent(e) /\ (e.id \in StoredIds(t) \/ ReferenceHolds(t, e))
    BY AcceptedFits
  <1>2. StoredIds(Put(t, e)) = StoredIds(t) \cup {e.id}
    BY PutAddsId
  <1>3. \A f : Stuck(t, f) => Stuck(Put(t, e), f)
    BY <1>1, StuckStays
  <1> QED
    BY <1>2, <1>3 DEF Settled

(* The head of the queue is settled in the store t2, in which everything   *)
(* stays settled.                                                          *)
LEMMA SettleComplete ==
  ASSUME NEW t, NEW t2, NEW r \in Run, WithinPage(t, r),
         r.pass.queue # << >>,
         Settled(t2, Head(r.pass.queue)), \A e : Settled(t, e) => Settled(t2, e),
         r.pass.round = "final" => t2 = t,
         NEW r2, r2.pulled = r.pulled, r2.pass = Continue(SettleHead(r.pass))
  PROVE  WithinPage(t2, r2)
  <1> DEFINE p == SettleHead(r.pass)
             h == Head(r.pass.queue)
  <1>1. r.pass \in PassOf(Events)
    BY DEF Run
  <1>2. p \in PassOf(Events) /\ p.round = r.pass.round
    BY <1>1, HeadType DEF SettleHead, PassOf
  <1>3. \A e : Queued(r.pass, e) \/ Deferred(r.pass, e) =>
               e = h \/ Queued(p, e) \/ Deferred(p, e)
    BY <1>1, HeadWaits
  <1>4. Resigned(p, Missing(t2))
    BY <1>1, SettleResigned DEF WithinPage
  <1> HIDE DEF p, h
  <1>5. /\ \A e : Queued(p, e) \/ Deferred(p, e) =>
               Queued(Continue(p), e) \/ Deferred(Continue(p), e)
        /\ PassOver(Continue(p)) => AllDone(Continue(p))
    BY <1>2, ContinueWaits
  <1>6. Continue(p).round # "only"
    BY <1>2, ContinueRound DEF WithinPage
  <1>7. Resigned(Continue(p), Missing(t2))
    BY <1>2, <1>4, ContinueResigned
  <1>8. ASSUME NEW e \in r.pulled
        PROVE  Settled(t2, e) \/ Queued(Continue(p), e) \/ Deferred(Continue(p), e)
    <2>1. Settled(t, e) \/ Queued(r.pass, e) \/ Deferred(r.pass, e)
      BY <1>8 DEF WithinPage
    <2>2. Settled(t2, h)
      BY DEF h
    <2> QED
      BY <1>3, <1>5, <2>1, <2>2
  <1> QED
    BY <1>5, <1>6, <1>7, <1>8 DEF WithinPage, p

(* The head of the queue is put off because it lacks its reference.        *)
LEMMA DeferComplete ==
  ASSUME NEW t, NEW r \in Run, WithinPage(t, r),
         r.pass.queue # << >>, Validation(t, Head(r.pass.queue)) = "missing",
         NEW r2, r2.pulled = r.pulled, r2.pass = Continue(DeferHead(r.pass))
  PROVE  WithinPage(t, r2)
  <1> DEFINE p == DeferHead(r.pass)
  <1>1. r.pass \in PassOf(Events)
    BY DEF Run
  <1>2. p \in PassOf(Events) /\ p.round = r.pass.round
    BY <1>1, HeadType DEF DeferHead, PassOf
  <1>3. \A e : Queued(r.pass, e) \/ Deferred(r.pass, e) => Queued(p, e) \/ Deferred(p, e)
    BY <1>1, HeadWaits
  <1>4. Head(r.pass.queue) \in Missing(t)
    BY <1>1, HeadType DEF Missing
  <1>5. Resigned(p, Missing(t))
    BY <1>1, <1>4, DeferResigned DEF WithinPage
  <1> HIDE DEF p
  <1>6. /\ \A e : Queued(p, e) \/ Deferred(p, e) =>
               Queued(Continue(p), e) \/ Deferred(Continue(p), e)
        /\ PassOver(Continue(p)) => AllDone(Continue(p))
    BY <1>2, ContinueWaits
  <1>7. Continue(p).round # "only"
    BY <1>2, ContinueRound DEF WithinPage
  <1>8. Resigned(Continue(p), Missing(t))
    BY <1>2, <1>5, ContinueResigned
  <1>9. \A e \in r.pulled :
          Settled(t, e) \/ Queued(Continue(p), e) \/ Deferred(Continue(p), e)
    BY <1>3, <1>6 DEF WithinPage
  <1> QED
    BY <1>6, <1>7, <1>8, <1>9 DEF WithinPage, p

(* A new page comes after what is still pending.                           *)
LEMMA PageComplete ==
  ASSUME NEW t, NEW r \in Run, BetweenPages(t, r),
         NEW page \in Seq(Events), page # << >>,
         NEW r2, r2.pulled = r.pulled \cup Range(page),
         r2.pass = StartPass("first", r.pass.deferred \o page)
  PROVE  WithinPage(t, r2)
  <1> DEFINE d == r.pass.deferred
             q == d \o page
  <1>1. d \in Seq(Events) /\ Len(page) \in Nat
    BY DEF Run, PassOf
  <1>2. /\ q \in Seq(Events)
        /\ DOMAIN q = 1 .. Len(d) + Len(page)
        /\ \A i \in DOMAIN d : i \in DOMAIN q /\ q[i] = d[i]
        /\ \A k \in 1 .. Len(page) : Len(d) + k \in DOMAIN q /\ q[Len(d) + k] = page[k]
        /\ DOMAIN page = 1 .. Len(page)
        /\ Len(q) # 0
    BY <1>1
  <1>3. r2.pass.queue = q /\ r2.pass.deferred = << >> /\ r2.pass.round = "first"
    BY DEF StartPass
  <1> HIDE DEF d, q
  <1>4. \A e : Deferred(r.pass, e) => Queued(r2.pass, e)
    BY <1>2, <1>3 DEF Deferred, Queued, d
  <1>5. \A e \in Range(page) : Queued(r2.pass, e)
    BY <1>2, <1>3 DEF Queued, Range
  <1>6. \A e \in r2.pulled : Settled(t, e) \/ Queued(r2.pass, e)
    BY <1>4, <1>5 DEF BetweenPages
  <1>7. Resigned(r2.pass, Missing(t))
    <2>1. "first" \in Rounds \ {"final"}
      BY DEF Rounds
    <2>2. Resigned(StartPass("first", q), Missing(t))
      BY <1>2, <2>1, FreshResigned
    <2> QED
      BY <2>2 DEF d, q
  <1>8. AllDone(r2.pass) \/ ~PassOver(r2.pass)
    BY <1>3 DEF AllDone
  <1> QED
    BY <1>3, <1>6, <1>7, <1>8 DEF WithinPage

(* A run begins with nothing pulled and nothing pending.                   *)
LEMMA IdentifyTrack ==
  ASSUME TypeOK, NEW w \in Syncers, Identify(w)
  PROVE  Tracked(w, log', run'[w])
  <1>1. run'[w].phase = "fetch" /\ run'[w].pass = NoPass /\ run'[w].pulled = {}
    BY DEF Identify, TypeOK, Run
  <1>2. \A e : ~Deferred(NoPass, e)
    BY DEF Deferred, NoPass, StartPass
  <1> QED
    BY <1>1, <1>2 DEF Tracked, Complete, BetweenPages

(* A page is fetched, or there is none left.                               *)
LEMMA FetchTrack ==
  ASSUME TypeOK, NEW w \in Syncers, FetchEnd(w) \/ FetchPage(w),
         Tracked(w, log, run[w])
  PROVE  Tracked(w, log', run'[w])
  <1> DEFINE t == log[Home[w]]
  <1>1. run[w].phase = "fetch" /\ run[w] \in Run /\ log' = log
    BY DEF FetchEnd, FetchPage, TypeOK
  <1>2. Undisturbed(w) => BetweenPages(t, run[w])
    BY <1>1 DEF Tracked, Complete
  <1>3. CASE FetchEnd(w)
    <2>1. PICK r \in Run : /\ run' = [run EXCEPT ![w] = r]
                           /\ r.phase = "persist"
                           /\ r.pass = run[w].pass
                           /\ r.pulled = run[w].pulled
      BY <1>3, FetchEndRun
    <2>2. run'[w] = r
      BY <2>1 DEF TypeOK
    <2>3. Undisturbed(w) => BetweenPages(t, r)
      BY <1>2, <2>1 DEF BetweenPages
    <2> QED
      BY <1>1, <2>1, <2>2, <2>3 DEF Tracked, Complete
  <1>4. CASE FetchPage(w)
    <2>1. PICK page \in Replies(Peer(w), run[w].after), r \in Run :
            /\ page.events # << >>
            /\ run' = [run EXCEPT ![w] = r]
            /\ r.phase = "apply"
            /\ r.pass = StartPass("first", run[w].pass.deferred \o page.events)
            /\ r.pulled = run[w].pulled \cup Range(page.events)
      BY <1>4, FetchPageRun
    <2>2. run'[w] = r
      BY <2>1 DEF TypeOK
    <2>3. page.events \in Seq(Events)
      BY <1>1, <2>1, ReplyType
    <2>4. Undisturbed(w) => WithinPage(t, r)
      BY <1>1, <1>2, <2>1, <2>3, PageComplete
    <2> QED
      BY <1>1, <2>1, <2>2, <2>4 DEF Tracked, Complete
  <1> QED
    BY <1>3, <1>4

(* An event of the page has its result.  The last round never accepts one, *)
(* since it goes through events that lack their reference.                 *)
LEMMA ApplyTrack ==
  ASSUME TypeOK, LogsSound, NEW w \in Syncers,
         Accept(w) \/ PutOff(w) \/ Reject(w) \/ StoreFails(w),
         Tracked(w, log, run[w])
  PROVE  Tracked(w, log', run'[w])
  <1> DEFINE r == run'[w]
             t == log[Home[w]]
             t2 == log'[Home[w]]
             h == Incoming(w)
  <1>1. run[w].phase = "apply" /\ run[w].pass.queue # << >> /\ Applying(w)
    BY DEF Accept, PutOff, Reject, StoreFails, Applying, PassOver
  <1>2. /\ run[w] \in Run
        /\ t \in Seq(Events)
        /\ Home[w] \in Nodes
        /\ h \in Events
        /\ Sound(t)
    BY <1>1, IncomingType DEF LogsSound, TypeOK
  <1>3. ASSUME NEW pass, run' = WithPass(w, pass)
        PROVE  r.phase = "apply" /\ r.pass = Continue(pass) /\ r.pulled = run[w].pulled
    BY <1>1, <1>2, <1>3 DEF WithPass, TypeOK, Run
  <1> HIDE DEF r, t, t2, h
  <1>4. ASSUME Undisturbed(w) PROVE Complete(t2, r)
    <2>1. WithinPage(t, run[w])
      BY <1>1, <1>4 DEF Tracked, Complete, t
    <2>2. ~StoreFails(w)
      BY <1>4 DEF StoreFails, Undisturbed
    <2>3. run[w].pass.round = "final" => Validation(t, h) = "missing"
      <3>1. Queued(run[w].pass, h)
        <4>1. run[w].pass.queue \in Seq(Events)
          BY <1>2 DEF Run, PassOf
        <4>2. 1 \in DOMAIN run[w].pass.queue /\ run[w].pass.queue[1] = h
          BY <1>1, <4>1 DEF h, Incoming
        <4> QED
          BY <4>2 DEF Queued
      <3> QED
        BY <2>1, <3>1 DEF WithinPage, Resigned, Missing
    <2>4. CASE Accept(w)
      <3>1. Validation(t, h) = "accepted" /\ run' = WithPass(w, SettleHead(run[w].pass))
        BY <2>4 DEF Accept, t, h
      <3>2. t2 = Put(t, h)
        BY <1>2, <2>3, <2>4, <3>1 DEF Accept, TypeOK, t, t2, h
      <3>3. Settled(t2, h) /\ \A f : Settled(t, f) => Settled(t2, f)
        BY <1>2, <3>1, <3>2, AcceptSettles
      <3>4. run[w].pass.round # "final"
        BY <2>3, <3>1
      <3>5. /\ r.phase = "apply"
            /\ r.pass = Continue(SettleHead(run[w].pass))
            /\ r.pulled = run[w].pulled
        BY <1>3, <3>1
      <3>6. WithinPage(t2, r)
        BY <1>1, <1>2, <2>1, <3>3, <3>4, <3>5, SettleComplete DEF h, Incoming
      <3> QED
        BY <3>5, <3>6 DEF Complete
    <2>5. CASE PutOff(w)
      <3>1. /\ Validation(t, h) = "missing" /\ run' = WithPass(w, DeferHead(run[w].pass))
            /\ t2 = t
        BY <2>5 DEF PutOff, t, t2, h
      <3>2. /\ r.phase = "apply"
            /\ r.pass = Continue(DeferHead(run[w].pass))
            /\ r.pulled = run[w].pulled
        BY <1>3, <3>1
      <3>3. WithinPage(t, r)
        BY <1>1, <1>2, <2>1, <3>1, <3>2, DeferComplete DEF h, Incoming
      <3> QED
        BY <3>1, <3>2, <3>3 DEF Complete
    <2>6. CASE Reject(w)
      <3>1. /\ Validation(t, h) \in {"invalid", "conflict"}
            /\ run' = WithPass(w, SettleHead(run[w].pass))
            /\ t2 = t
        BY <2>6 DEF Reject, t, t2, h
      <3>2. /\ r.phase = "apply"
            /\ r.pass = Continue(SettleHead(run[w].pass))
            /\ r.pulled = run[w].pulled
        BY <1>3, <3>1
      <3>3. Settled(t, h)
        BY <3>1, RejectedSettled DEF Settled
      <3>4. WithinPage(t, r)
        BY <1>1, <1>2, <2>1, <3>2, <3>3, SettleComplete DEF h, Incoming
      <3> QED
        BY <3>1, <3>2, <3>4 DEF Complete
    <2> QED
      BY <2>2, <2>4, <2>5, <2>6
  <1> QED
    BY <1>4 DEF Tracked, r, t2

(* A page is done: what is still put off went through the last round.      *)
LEMMA EndTrack ==
  ASSUME TypeOK, NEW w \in Syncers, EndPage(w), Tracked(w, log, run[w])
  PROVE  Tracked(w, log', run'[w])
  <1> DEFINE r == run'[w]
             t == log[Home[w]]
  <1>1. /\ run[w].phase = "apply" /\ PassOver(run[w].pass) /\ log' = log
        /\ r.pulled = run[w].pulled /\ r.pass = run[w].pass
        /\ r.phase \in {"fetch", "persist"}
    BY DEF EndPage, PageDone, TypeOK, Run
  <1>2. run[w].pass.round \in Rounds
    BY DEF TypeOK, Run, PassOf
  <1> HIDE DEF r, t
  <1>3. ASSUME Undisturbed(w) PROVE BetweenPages(t, r)
    <2>1. WithinPage(t, run[w])
      BY <1>1, <1>3 DEF Tracked, Complete, t
    <2>2. \A e : ~Queued(run[w].pass, e)
      BY <1>1 DEF PassOver, Queued
    <2>3. ASSUME NEW e, Deferred(run[w].pass, e) PROVE e \in Missing(t)
      <3>1. ~PutsOff(run[w].pass)
        BY <1>1, <2>1, <2>3 DEF WithinPage, AllDone, Deferred
      <3>2. run[w].pass.round = "final"
        BY <1>2, <2>1, <3>1 DEF PutsOff, Rounds, WithinPage
      <3> QED
        BY <2>1, <2>3, <3>2 DEF WithinPage, Resigned
    <2> QED
      BY <1>1, <2>1, <2>2, <2>3 DEF BetweenPages, WithinPage
  <1> QED
    BY <1>1, <1>3 DEF Tracked, Complete, r, t

(* Every other step of a syncer leaves it between two pulls.               *)
LEMMA OtherTrack ==
  ASSUME TypeOK, NEW w \in Syncers,
         \/ \E full \in BOOLEAN : StartSync(w, full)
         \/ EndFrozenPage(w) \/ Persist(w) \/ IdentifyFails(w) \/ Fail(w) \/ Timeout(w)
  PROVE  Tracked(w, log', run'[w])
  BY BetweenPulls DEF Tracked

LEMMA TrackStep == TypeOK /\ LogsSound /\ AllTracked /\ [Next]_vars => AllTracked'
  <1> SUFFICES ASSUME TypeOK, LogsSound, AllTracked, [Next]_vars, NEW v \in Syncers
               PROVE  Tracked(v, log', run'[v])
    BY DEF AllTracked
  <1>1. Tracked(v, log, run[v])
    BY DEF AllTracked
  <1>2. CASE Sync(v)
    BY <1>1, <1>2, IdentifyTrack, FetchTrack, ApplyTrack, EndTrack, OtherTrack
    DEF Sync, Proceed
  <1>3. CASE ~Sync(v)
    <2>1. run'[v] = run[v]
      <3>1. ASSUME NEW w \in Syncers, Sync(w) PROVE run'[v] = run[v]
        BY <1>3, <3>1, OtherRun
      <3>2. \/ \E n \in Nodes, e \in Events : Submit(n, e)
            \/ \E n \in Nodes : Replace(n)
            \/ UNCHANGED vars
            => run' = run
        BY DEF Submit, Replace, vars
      <3> QED
        BY <3>1, <3>2 DEF Next
    <2>2. ~Accept(v)
      BY <1>3 DEF Sync, Proceed
    <2> QED
      BY <1>1, <2>1, <2>2, TrackStays
  <1> QED
    BY <1>2, <1>3

LEMMA InitTracked == Init => AllTracked
  BY NoRunType DEF Init, AllTracked, Tracked

(* A run that has gone through all pages has nothing left but events that  *)
(* are stored, that never can be, or whose reference is missing.           *)
LEMMA TrackedComplete == AllTracked => PullComplete
  <1> SUFFICES ASSUME AllTracked, NEW w \in Syncers, run[w].phase = "persist",
                      Undisturbed(w), NEW e \in run[w].pulled
               PROVE  \/ e.id \in StoredIds(log[Home[w]])
                      \/ Validation(log[Home[w]], e) # "accepted"
    BY DEF PullComplete
  <1>1. Complete(log[Home[w]], run[w])
    BY DEF AllTracked, Tracked
  <1>2. Settled(log[Home[w]], e) \/ e \in Missing(log[Home[w]])
    BY <1>1 DEF Complete, BetweenPages
  <1>3. Stuck(log[Home[w]], e) => Validation(log[Home[w]], e) = "invalid"
    BY StuckInvalid
  <1> QED
    BY <1>2, <1>3 DEF Settled, Missing

(* The order in which a peer lists an event and its revocation does not    *)
(* matter, nor on which of its pages they are: a run that had the store to *)
(* itself leaves nothing behind that it was handed and that could be       *)
(* stored (apply_synced_events keeps the pending).                         *)
THEOREM PullsComplete == Spec => []PullComplete
  <1>1. IInv /\ AllTracked /\ [Next]_vars => AllTracked'
    BY TrackStep DEF IInv
  <1>2. AllTracked => PullComplete
    BY TrackedComplete
  <1> QED
    BY <1>1, <1>2, InitTracked, Invariance, PTL DEF Spec
==============================================================================
