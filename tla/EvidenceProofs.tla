--------------------------- MODULE EvidenceProofs ---------------------------
(***************************************************************************)
(* The answers of Evidence are justified, for every set of events, every   *)
(* limit and every policy: trust rests on what was active at one moment,   *)
(* and the answer is exact as long as the list of events is complete.      *)
(***************************************************************************)
EXTENDS Evidence, EventStoreLemmas, FiniteSetTheorems, WellFoundedInduction

-----------------------------------------------------------------------------
(* Logs that grow. *)

Prefix(s, i) == SubSeq(s, 1, i)

LEMMA PrefixProperties ==
  ASSUME NEW s \in Seq(Events), NEW i \in 0 .. Len(s)
  PROVE  /\ Prefix(s, i) \in Seq(Events)
         /\ Len(Prefix(s, i)) = i
         /\ DOMAIN Prefix(s, i) = 1 .. i
         /\ \A k \in 1 .. i : Prefix(s, i)[k] = s[k]
  <1>1. \A k \in 1 .. i : s[k] \in Events
    OBVIOUS
  <1>2. /\ Prefix(s, i) \in Seq(Events)
        /\ Len(Prefix(s, i)) = IF 1 <= i THEN i - 1 + 1 ELSE 0
        /\ \A k \in 1 .. i - 1 + 1 : Prefix(s, i)[k] = s[1 + k - 1]
    BY <1>1, SubSeqProperties DEF Prefix
  <1> QED
    BY <1>2

(* The past of a log does not change.                                      *)
LEMMA PrefixStays ==
  ASSUME NEW s \in Seq(Events), NEW e \in Events, NEW i \in 0 .. Len(s)
  PROVE  Prefix(Append(s, e), i) = Prefix(s, i)
  <1> DEFINE t == Append(s, e)
  <1>1. t \in Seq(Events) /\ Len(t) = Len(s) + 1 /\ \A k \in 1 .. Len(s) : t[k] = s[k]
    OBVIOUS
  <1> HIDE DEF t
  <1>2. i \in 0 .. Len(t)
    BY <1>1
  <1>3. /\ Prefix(t, i) \in Seq(Events) /\ Len(Prefix(t, i)) = i
        /\ \A k \in 1 .. i : Prefix(t, i)[k] = t[k]
    BY <1>1, <1>2, PrefixProperties
  <1>4. /\ Prefix(s, i) \in Seq(Events) /\ Len(Prefix(s, i)) = i
        /\ \A k \in 1 .. i : Prefix(s, i)[k] = s[k]
    BY PrefixProperties
  <1>5. \A k \in 1 .. i : Prefix(t, i)[k] = Prefix(s, i)[k]
    BY <1>1, <1>3, <1>4
  <1>6. Prefix(t, i) = Prefix(s, i)
    BY <1>3, <1>4, <1>5, SeqEqual
  <1> QED
    BY <1>6 DEF t

LEMMA PrefixSound ==
  ASSUME NEW s \in Seq(Events), Sound(s), NEW i \in 0 .. Len(s)
  PROVE  Sound(Prefix(s, i))
  <1> DEFINE t == Prefix(s, i)
  <1>1. DOMAIN t = 1 .. i /\ \A k \in 1 .. i : t[k] = s[k] /\ k \in DOMAIN s
    BY PrefixProperties
  <1> HIDE DEF t
  <1>2. HasUniqueIds(t) /\ OnlyVerified(t)
    BY <1>1 DEF HasUniqueIds, OnlyVerified, Sound
  <1>3. RevocationsResolved(t)
    <2> SUFFICES ASSUME NEW k \in DOMAIN t, Refers(t[k])
                 PROVE  \E j \in 1 .. k - 1 :
                          /\ t[j].id = t[k].field
                          /\ t[j].kind = RevokedKind(t[k].kind)
                          /\ t[j].subject = t[k].subject
                          /\ t[j].issuer = t[k].issuer
      BY DEF RevocationsResolved
    <2>1. PICK j \in 1 .. k - 1 :
            /\ s[j].id = s[k].field
            /\ s[j].kind = RevokedKind(s[k].kind)
            /\ s[j].subject = s[k].subject
            /\ s[j].issuer = s[k].issuer
      BY <1>1 DEF Sound, RevocationsResolved
    <2>2. j \in 1 .. i
      BY <1>1
    <2> QED
      BY <1>1, <2>1, <2>2
  <1> QED
    BY <1>2, <1>3 DEF Sound, t

LEMMA AboutGrows ==
  ASSUME NEW s \in Seq(Events), NEW j \in 0 .. Len(s), NEW i \in 0 .. j, NEW subject
  PROVE  EventsAbout(Prefix(s, i), subject) \subseteq EventsAbout(Prefix(s, j), subject)
  <1>1. /\ DOMAIN Prefix(s, i) = 1 .. i
        /\ \A k \in 1 .. i : Prefix(s, i)[k] = s[k]
    BY PrefixProperties
  <1>2. /\ DOMAIN Prefix(s, j) = 1 .. j
        /\ \A k \in 1 .. j : Prefix(s, j)[k] = s[k]
    BY PrefixProperties
  <1>3. \A k \in 1 .. i : k \in 1 .. j
    OBVIOUS
  <1> QED
    BY <1>1, <1>2, <1>3 DEF EventsAbout, Range

(* An event that was listed at one moment, and that is active later, was   *)
(* active at that moment.                                                  *)
LEMMA ActiveBefore ==
  ASSUME NEW s \in Seq(Events), NEW j \in 0 .. Len(s), NEW i \in 0 .. j,
         NEW subject, NEW kind,
         NEW e \in EventsAbout(Prefix(s, i), subject),
         e \in ActiveEvents(EventsAbout(Prefix(s, j), subject), kind)
  PROVE  e \in Unrevoked(Prefix(s, i), subject, kind)
  <1>1. EventsAbout(Prefix(s, i), subject) \subseteq EventsAbout(Prefix(s, j), subject)
    BY AboutGrows
  <1>2. \A r : r \in Range(Prefix(s, i)) /\ r.subject = subject
                 => r \in EventsAbout(Prefix(s, j), subject)
    BY <1>1 DEF EventsAbout
  <1>3. e \in Range(Prefix(s, i)) /\ e.subject = subject /\ e.kind = kind
    BY DEF EventsAbout, ActiveEvents
  <1>4. e.id \notin RevokedIds(EventsAbout(Prefix(s, j), subject), kind)
    BY DEF ActiveEvents
  <1>5. ~ \E r \in Range(Prefix(s, i)) : /\ r.kind \in RevocationsOf(kind)
                                        /\ r.field = e.id
                                        /\ r.subject = subject
                                        /\ r.issuer = e.issuer
    BY <1>2, <1>4 DEF RevokedIds
  <1> QED
    BY <1>3, <1>5 DEF Unrevoked

-----------------------------------------------------------------------------
(* Bundles and policies. *)

LEMMA ListedAbout ==
  ASSUME NEW s, NEW subject
  PROVE  IdentityEvents(s, subject) \subseteq EventsAbout(s, subject)
  BY DEF IdentityEvents, First

(* A store holds finitely many events.                                     *)
LEMMA FinitelyMany ==
  ASSUME NEW s \in Seq(Events)
  PROVE  IsFiniteSet(Range(s)) /\ Range(s) \subseteq Events
  <1>1. IsFiniteSet(1 .. Len(s))
    BY FS_Interval
  <1> DEFINE f == [i \in 1 .. Len(s) |-> s[i]]
             listed == {s[i] : i \in 1 .. Len(s)}
  <1>2. f \in Surjection(1 .. Len(s), listed)
    BY DEF Surjection
  <1>3. IsFiniteSet(listed)
    BY <1>1, <1>2, FS_Surjection
  <1>4. DOMAIN s = 1 .. Len(s)
    OBVIOUS
  <1>5. Range(s) = listed
    BY <1>4 DEF Range
  <1>6. listed \subseteq Events
    OBVIOUS
  <1> QED
    BY <1>3, <1>5, <1>6

(* A list that is not cut off has every event about the subject.           *)
LEMMA ListedAll ==
  ASSUME NEW s \in Seq(Events), NEW subject,
         Cardinality(EventsAbout(s, subject)) <= Limit
  PROVE  IdentityEvents(s, subject) = EventsAbout(s, subject)
  <1> DEFINE about == EventsAbout(s, subject)
             Before(e) == {f \in about : Precedes(f, e)}
  <1>1. about \subseteq Events
    BY DEF EventsAbout, Range
  <1>2. IsFiniteSet(about)
    <2>1. about \subseteq Range(s)
      BY DEF EventsAbout
    <2> QED
      BY <2>1, FinitelyMany, FS_Subset
  <1>3. ASSUME NEW e \in about
        PROVE  Cardinality(Before(e)) < Limit
    <2>1. Before(e) \in SUBSET about /\ e \notin Before(e)
      BY <1>1, EvidenceAssumption DEF Precedes
    <2>2. /\ Cardinality(about) \in Nat
          /\ IsFiniteSet(Before(e))
          /\ Cardinality(Before(e)) <= Cardinality(about)
          /\ Cardinality(about) = Cardinality(Before(e)) => about = Before(e)
      BY <1>2, <2>1, FS_Subset, FS_CardinalityType
    <2>3. Cardinality(Before(e)) \in Nat
      BY <2>2, FS_CardinalityType
    <2>4. Cardinality(about) # Cardinality(Before(e))
      BY <2>1, <2>2
    <2> HIDE DEF Before, about
    <2>5. Cardinality(about) <= Limit
      BY DEF about
    <2> QED
      BY <2>2, <2>3, <2>4, <2>5, EvidenceAssumption
  <1> QED
    BY <1>3 DEF IdentityEvents, First

(* More evidence never turns trust into distrust.                          *)
LEMMA EvaluateMonotone ==
  ASSUME NEW policy, NEW claims, NEW attestations, NEW claims2, NEW attestations2,
         claims \subseteq claims2, attestations \subseteq attestations2,
         EvaluateTrust(policy, claims, attestations)
  PROVE  EvaluateTrust(policy, claims2, attestations2)
  BY DEF EvaluateTrust

(* Among events with unique ids, what a bundle calls active is what its    *)
(* events say.                                                             *)
LEMMA ActiveById ==
  ASSUME NEW s \in Seq(Events), Sound(s), NEW subject, NEW kind,
         NEW active \in SUBSET EventsAbout(s, subject),
         EventIds(active) = EventIds(ActiveEvents(EventsAbout(s, subject), kind))
  PROVE  active = Unrevoked(s, subject, kind)
  <1> DEFINE about == EventsAbout(s, subject)
             expected == ActiveEvents(about, kind)
  <1>1. \A e, f \in about : e.id = f.id => e = f
    BY DEF Sound, HasUniqueIds, EventsAbout, Range
  <1>2. expected \subseteq about
    BY DEF ActiveEvents
  <1> HIDE DEF about, expected
  <1>3. active \subseteq about /\ EventIds(active) = EventIds(expected)
    BY DEF about, expected
  <1>4. ASSUME NEW e \in active PROVE e \in expected
    <2>1. e.id \in EventIds(expected)
      BY <1>3 DEF EventIds
    <2>2. PICK f \in expected : f.id = e.id
      BY <2>1 DEF EventIds
    <2> QED
      BY <1>1, <1>2, <1>3, <2>2
  <1>5. ASSUME NEW e \in expected PROVE e \in active
    <2>1. e.id \in EventIds(active)
      BY <1>3 DEF EventIds
    <2>2. PICK f \in active : f.id = e.id
      BY <2>1 DEF EventIds
    <2> QED
      BY <1>1, <1>2, <1>3, <2>2
  <1>6. active = expected
    BY <1>4, <1>5
  <1> QED
    BY <1>6, SoundProjection DEF expected, about

(* A bundle of one moment, with a complete list of events, verifies.       *)
LEMMA SnapshotVerifies ==
  ASSUME NEW s \in Seq(Events), Sound(s), NEW b, NEW subject,
         b.version = Version, b.subject = subject,
         b.events = EventsAbout(s, subject),
         b.active_claims = IdentityClaims(s, subject),
         b.active_attestations = IdentityAttestations(s, subject)
  PROVE  Verify(b)
  <1>1. \A e \in b.events : e.subject = b.subject /\ VerifyEvent(e)
    BY DEF EventsAbout, Range, Sound, OnlyVerified
  <1>2. /\ b.active_claims = ActiveEvents(b.events, "claim.added")
        /\ b.active_attestations = ActiveEvents(b.events, "attestation.issued")
    BY DEF IdentityClaims, IdentityAttestations
  <1>3. b.active_claims \cup b.active_attestations \subseteq b.events
    BY <1>2 DEF ActiveEvents
  <1> QED
    BY <1>1, <1>2, <1>3 DEF Verify, ActiveBundleEvents
-----------------------------------------------------------------------------
(* The client. *)

About(i) == EventsAbout(Prefix(log, i), client.subject)

HasEvents == client.step \notin {"idle", "events"}

HasClaims == HasEvents /\ client.step # "claims"

HasAttestations == HasClaims /\ client.step # "attestations"

(* What the parts of the bundle of a client c have of a log s.             *)
EventsOf(s, c) ==
  /\ c.at.events <= Len(s)
  /\ c.bundle.version = Version
  /\ c.bundle.subject = c.subject
  /\ c.bundle.events = IdentityEvents(Prefix(s, c.at.events), c.subject)

ClaimsOf(s, c) ==
  /\ c.at.events <= c.at.claims
  /\ c.at.claims <= Len(s)
  /\ c.bundle.active_claims = IdentityClaims(Prefix(s, c.at.claims), c.subject)

AttestationsOf(s, c) ==
  /\ c.at.claims <= c.at.attestations
  /\ c.at.attestations <= Len(s)
  /\ c.bundle.active_attestations =
       IdentityAttestations(Prefix(s, c.at.attestations), c.subject)

(* A bundle from a node is made of what the node had when it was asked.    *)
Fetched ==
  client.source = "node" =>
    /\ HasEvents => EventsOf(log, client)
    /\ HasClaims => ClaimsOf(log, client)
    /\ HasAttestations => AttestationsOf(log, client)

(* Requests go to nodes, and a list is no evidence.                        *)
Requests ==
  /\ client.step \in {"events", "claims", "attestations"} => client.source = "node"
  /\ client.step \in {"page", "listed"} => client.source = "query"

(* An answer is what Answer said of the bundle.                            *)
Answered ==
  client.step \in {"refused"} \cup Answers => client.step = Answer

IInv == TypeOK /\ Sound(log) /\ Requests /\ Fetched /\ Answered

(* A step of the node, as the lemmas on stores put it.                     *)
LEMMA StorePublishes ==
  ASSUME TypeOK, NodeStores
  PROVE  \E e \in Events : /\ VerifyEvent(e)
                           /\ e.id \notin StoredIds(log)
                           /\ ReferenceHolds(log, e)
                           /\ log' = Append(log, e)
                           /\ client' = client
  <1>1. PICK e \in Events : Node!Publish(e) /\ client' = client
    BY DEF NodeStores, Node!Next
  <1>2. log' = Append(log, e) /\ Node!Publishable(e)
    BY <1>1 DEF Node!Publish
  <1>3. VerifyEvent(e) /\ e.id \notin StoredIds(log) /\ ReferenceHolds(log, e)
    BY <1>2
    DEF Node!Publishable, Node!VerifyEvent, Node!ValidShape, Node!StoredIds,
        Node!ReferenceHolds, Node!Refers, Node!ReferenceMatches, Node!RevokedKind,
        Node!Get, Node!RevocationKind, VerifyEvent, ValidShape, StoredIds,
        ReferenceHolds, Refers, ReferenceMatches, RevokedKind, Get, RevocationKind
  <1> QED
    BY <1>1, <1>2, <1>3

LEMMA StoreStep == IInv /\ NodeStores => IInv'
  <1> SUFFICES ASSUME IInv, NodeStores PROVE IInv'
    OBVIOUS
  <1>1. PICK e \in Events : /\ VerifyEvent(e)
                            /\ e.id \notin StoredIds(log)
                            /\ ReferenceHolds(log, e)
                            /\ log' = Append(log, e)
                            /\ client' = client
    BY StorePublishes DEF IInv
  <1>2. log \in Seq(Events) /\ Sound(log) /\ client \in ClientState
    BY DEF IInv, TypeOK
  <1>3. log' \in Seq(Events) /\ Len(log') = Len(log) + 1
    BY <1>1, <1>2
  <1>4. Sound(log')
    BY <1>1, <1>2, AppendSound
  <1>5. client.at.events \in Nat /\ client.at.claims \in Nat /\ client.at.attestations \in Nat
    BY <1>2 DEF ClientState
  <1>6. TypeOK'
    BY <1>1, <1>3, <1>5 DEF IInv, TypeOK
  <1>7. \A i \in 0 .. Len(log) : Prefix(log', i) = Prefix(log, i)
    BY <1>1, <1>2, PrefixStays
  <1>8. Fetched'
    <2>1. Fetched /\ Len(log) \in Nat
      BY <1>2 DEF IInv
    <2>2. \A i \in Nat : i <= Len(log) => i <= Len(log') /\ Prefix(log', i) = Prefix(log, i)
      BY <1>2, <1>3, <1>7
    <2>3. /\ HasEvents' <=> HasEvents
          /\ HasClaims' <=> HasClaims
          /\ HasAttestations' <=> HasAttestations
          /\ client'.source = client.source
      BY <1>1 DEF HasEvents, HasClaims, HasAttestations
    <2> SUFFICES ASSUME client.source = "node"
                 PROVE  /\ HasEvents => EventsOf(log', client)
                        /\ HasClaims => ClaimsOf(log', client)
                        /\ HasAttestations => AttestationsOf(log', client)
      BY <1>1, <2>3 DEF Fetched
    <2>4. HasEvents => EventsOf(log', client)
      BY <1>5, <2>1, <2>2 DEF Fetched, EventsOf
    <2>5. HasClaims => ClaimsOf(log', client)
      BY <1>5, <2>1, <2>2 DEF Fetched, ClaimsOf
    <2>6. HasAttestations => AttestationsOf(log', client)
      BY <1>5, <2>1, <2>2 DEF Fetched, AttestationsOf
    <2> QED
      BY <2>4, <2>5, <2>6
  <1>9. Answered'
    BY <1>1 DEF IInv, Answered, Answer
  <1>10. Requests'
    BY <1>1 DEF IInv, Requests
  <1> QED
    BY <1>4, <1>6, <1>8, <1>9, <1>10 DEF IInv

LEMMA NoBundleType == NoBundle \in EventBundle
  BY DEF NoBundle, EventBundle

LEMMA NoCommandType == NoCommand \in ClientState
  <1>1. NoBundle \in EventBundle
    BY NoBundleType
  <1> QED
    BY <1>1 DEF NoCommand, ClientState, Steps

(* What the node answers are events of its log.                            *)
LEMMA AnswerType ==
  ASSUME NEW s \in Seq(Events), NEW subject
  PROVE  /\ IdentityEvents(s, subject) \subseteq Events
         /\ IdentityClaims(s, subject) \subseteq Events
         /\ IdentityAttestations(s, subject) \subseteq Events
  <1>1. EventsAbout(s, subject) \subseteq Events
    BY DEF EventsAbout, Range
  <1> QED
    BY <1>1 DEF IdentityEvents, First, IdentityClaims, IdentityAttestations, ActiveEvents

LEMMA SelectedWithin ==
  ASSUME NEW s \in Seq(Events), NEW subject
  PROVE  Selected(s, subject) \subseteq Range(s) /\ Selected(s, subject) \subseteq Events
  BY FinitelyMany DEF Selected, EventsAbout

LEMMA WholePrefix ==
  ASSUME NEW s \in Seq(Events)
  PROVE  Prefix(s, Len(s)) = s
  <1>1. /\ Prefix(s, Len(s)) \in Seq(Events) /\ Len(Prefix(s, Len(s))) = Len(s)
        /\ \A k \in 1 .. Len(s) : Prefix(s, Len(s))[k] = s[k]
    BY PrefixProperties
  <1> QED
    BY <1>1, SeqEqual

LEMMA CommandStep == IInv /\ Command => IInv'
  <1> SUFFICES ASSUME IInv, Command PROVE IInv'
    OBVIOUS
  <1>1. log \in Seq(Events) /\ Sound(log) /\ client \in ClientState /\ Len(log) \in Nat
    BY DEF IInv, TypeOK
  <1>2. log' = log
    BY DEF Command, Evaluate, EvaluateBundle, GetEvents, GetClaims,
           GetAttestations, Decide, Exit, Query, GetPage
  <1>3. /\ client.bundle \in EventBundle
        /\ client.subject \in Subjects \cup {Absent}
        /\ client.at \in [events : Nat, claims : Nat, attestations : Nat]
    BY <1>1 DEF ClientState
  <1> SUFFICES /\ client' \in ClientState
               /\ client'.at.events <= Len(log)
               /\ client'.step \notin {"events", "claims"}
                    => client'.at.events <= client'.at.claims
               /\ client'.step \notin {"events", "claims", "attestations"}
                    => client'.at.claims <= client'.at.attestations
               /\ Requests' /\ Fetched' /\ Answered'
    BY <1>1, <1>2 DEF IInv, TypeOK
  <1>4. ASSUME NEW subject \in Subjects, NEW policy \in Policies, Evaluate(subject, policy)
        PROVE  /\ client' \in ClientState
               /\ client'.step = "events"
               /\ client'.at = NoCommand.at
    BY <1>4, NoCommandType DEF Evaluate, NoCommand, ClientState, Steps
  <1>5. ASSUME NEW subject \in Subjects, NEW policy \in Policies, NEW bundle \in Bundles,
               EvaluateBundle(subject, policy, bundle)
        PROVE  /\ client' \in ClientState
               /\ client'.step = "evaluate"
               /\ client'.source = "file"
               /\ client'.at = NoCommand.at
    BY <1>5, NoCommandType, EvidenceAssumption
    DEF EvaluateBundle, NoCommand, ClientState, Steps
  <1>6. ASSUME \/ \E subject \in Subjects, policy \in Policies :
                    Evaluate(subject, policy)
               \/ Exit
               \/ \E subject \in Subjects, policy \in Policies, bundle \in Bundles :
                    EvaluateBundle(subject, policy, bundle)
        PROVE  /\ client' \in ClientState
               /\ client'.at = NoCommand.at
               /\ client'.step \in {"idle", "events"} \/ client'.source = "file"
               /\ client'.step \in {"idle", "events", "evaluate"}
    <2>1. CASE Exit
      BY <2>1, NoCommandType DEF Exit, NoCommand
    <2> QED
      BY <1>4, <1>5, <1>6, <2>1
  <1>7. NoCommand.at = [events |-> 0, claims |-> 0, attestations |-> 0]
    BY DEF NoCommand
  <1>8. CASE \/ \E subject \in Subjects, policy \in Policies :
                  Evaluate(subject, policy)
             \/ Exit
             \/ \E subject \in Subjects, policy \in Policies, bundle \in Bundles :
                  EvaluateBundle(subject, policy, bundle)
    <2>1. /\ client'.at.events = 0 /\ client'.at.claims = 0
          /\ client'.at.attestations = 0
      BY <1>6, <1>7, <1>8
    <2>2. Fetched'
      BY <1>6, <1>8 DEF Fetched, HasEvents, HasClaims, HasAttestations
    <2>3. Answered'
      BY <1>6, <1>8 DEF Answered, Answers
    <2>4. Requests'
      <3>1. CASE Exit
        BY <3>1 DEF Exit, NoCommand, Requests
      <3>2. ASSUME NEW subject \in Subjects, NEW policy \in Policies,
                   Evaluate(subject, policy)
            PROVE  Requests'
        BY <3>2 DEF Evaluate, NoCommand, Requests
      <3>3. ASSUME NEW subject \in Subjects, NEW policy \in Policies,
                   NEW bundle \in Bundles, EvaluateBundle(subject, policy, bundle)
            PROVE  Requests'
        BY <1>5, <3>3 DEF Requests
      <3> QED
        BY <1>8, <3>1, <3>2, <3>3
    <2> QED
      BY <1>1, <1>6, <1>8, <2>1, <2>2, <2>3, <2>4
  <1>9. Prefix(log, Len(log)) = log
    BY <1>1, WholePrefix
  <1>10. /\ IdentityEvents(log, client.subject) \subseteq Events
         /\ IdentityClaims(log, client.subject) \subseteq Events
         /\ IdentityAttestations(log, client.subject) \subseteq Events
    BY <1>1, AnswerType
  <1>11. CASE GetEvents
    <2> DEFINE events == IdentityEvents(log, client.subject)
               b == [NoBundle EXCEPT !.subject = client.subject, !.events = events]
               at == [client.at EXCEPT !.events = Len(log)]
    <2> HIDE DEF events
    <2>1. /\ b \in EventBundle /\ b.version = Version
          /\ b.subject = client.subject /\ b.events = events
      BY <1>3, <1>10, NoBundleType DEF NoBundle, EventBundle, events
    <2>2. at \in [events : Nat, claims : Nat, attestations : Nat] /\ at.events = Len(log)
      BY <1>1, <1>3
    <2>3. client' = [client EXCEPT !.step = "claims", !.bundle = b, !.at = at]
      BY <1>1, <1>11 DEF GetEvents, ClientState, events
    <2> HIDE DEF b, at
    <2>4. /\ client' \in ClientState
          /\ client'.step = "claims"
          /\ client'.bundle = b
          /\ client'.at = at
          /\ client'.subject = client.subject
          /\ client'.source = client.source
      BY <1>1, <2>1, <2>2, <2>3 DEF ClientState, Steps
    <2>5. EventsOf(log', client')
      BY <1>1, <1>2, <1>9, <2>1, <2>2, <2>4 DEF EventsOf, events
    <2>6. Fetched'
      BY <2>4, <2>5 DEF Fetched, HasClaims, HasAttestations
    <2>7. Answered'
      BY <2>4 DEF Answered, Answers
    <2>8. Requests'
      BY <1>11, <2>4 DEF GetEvents, IInv, Requests
    <2> QED
      BY <1>1, <2>2, <2>4, <2>6, <2>7, <2>8
  <1>12. CASE GetClaims
    <2> DEFINE claims == IdentityClaims(log, client.subject)
               b == [client.bundle EXCEPT !.active_claims = claims]
               at == [client.at EXCEPT !.claims = Len(log)]
    <2> HIDE DEF claims
    <2>1. /\ b \in EventBundle /\ b.version = client.bundle.version
          /\ b.subject = client.bundle.subject /\ b.events = client.bundle.events
          /\ b.active_claims = claims
      BY <1>3, <1>10 DEF EventBundle, claims
    <2>2. /\ at \in [events : Nat, claims : Nat, attestations : Nat]
          /\ at.events = client.at.events /\ at.claims = Len(log)
      BY <1>1, <1>3
    <2>3. client' = [client EXCEPT !.step = "attestations", !.bundle = b, !.at = at]
          /\ client.step = "claims"
      BY <1>1, <1>12 DEF GetClaims, ClientState, claims
    <2> HIDE DEF b, at
    <2>4. /\ client' \in ClientState
          /\ client'.step = "attestations"
          /\ client'.bundle = b
          /\ client'.at = at
          /\ client'.subject = client.subject
          /\ client'.source = client.source
      BY <1>1, <2>1, <2>2, <2>3 DEF ClientState, Steps
    <2>5. client.at.events <= Len(log)
      BY DEF IInv, TypeOK
    <2>6. ASSUME client.source = "node"
          PROVE  EventsOf(log', client') /\ ClaimsOf(log', client')
      <3>1. EventsOf(log, client)
        BY <2>3, <2>6 DEF IInv, Fetched, HasEvents
      <3>2. EventsOf(log', client')
        BY <1>2, <2>1, <2>2, <2>4, <3>1 DEF EventsOf
      <3>3. ClaimsOf(log', client')
        BY <1>1, <1>2, <1>9, <2>1, <2>2, <2>4, <2>5 DEF ClaimsOf, claims
      <3> QED
        BY <3>2, <3>3
    <2>7. Fetched'
      BY <2>4, <2>6 DEF Fetched, HasAttestations
    <2>8. Answered'
      BY <2>4 DEF Answered, Answers
    <2>9. Requests'
      BY <2>3, <2>4 DEF IInv, Requests
    <2> QED
      BY <1>1, <2>2, <2>4, <2>5, <2>7, <2>8, <2>9
  <1>13. CASE GetAttestations
    <2> DEFINE attestations == IdentityAttestations(log, client.subject)
               b == [client.bundle EXCEPT !.active_attestations = attestations]
               at == [client.at EXCEPT !.attestations = Len(log)]
    <2> HIDE DEF attestations
    <2>1. /\ b \in EventBundle /\ b.version = client.bundle.version
          /\ b.subject = client.bundle.subject /\ b.events = client.bundle.events
          /\ b.active_claims = client.bundle.active_claims
          /\ b.active_attestations = attestations
      BY <1>3, <1>10 DEF EventBundle, attestations
    <2>2. /\ at \in [events : Nat, claims : Nat, attestations : Nat]
          /\ at.events = client.at.events /\ at.claims = client.at.claims
          /\ at.attestations = Len(log)
      BY <1>1, <1>3
    <2>3. client' = [client EXCEPT !.step = "evaluate", !.bundle = b, !.at = at]
          /\ client.step = "attestations"
      BY <1>1, <1>13 DEF GetAttestations, ClientState, attestations
    <2> HIDE DEF b, at
    <2>4. /\ client' \in ClientState
          /\ client'.step = "evaluate"
          /\ client'.bundle = b
          /\ client'.at = at
          /\ client'.subject = client.subject
          /\ client'.source = client.source
      BY <1>1, <2>1, <2>2, <2>3 DEF ClientState, Steps
    <2>5. client.at.events <= Len(log) /\ client.at.events <= client.at.claims
      BY <2>3 DEF IInv, TypeOK
    <2>6. ASSUME client.source = "node"
          PROVE  /\ EventsOf(log', client') /\ ClaimsOf(log', client')
                 /\ AttestationsOf(log', client')
                 /\ client.at.claims <= Len(log)
      <3>1. EventsOf(log, client) /\ ClaimsOf(log, client)
        BY <2>3, <2>6 DEF IInv, Fetched, HasEvents, HasClaims
      <3>2. EventsOf(log', client') /\ ClaimsOf(log', client')
        BY <1>2, <2>1, <2>2, <2>4, <3>1 DEF EventsOf, ClaimsOf
      <3>3. client.at.claims <= Len(log)
        BY <3>1 DEF ClaimsOf
      <3>4. AttestationsOf(log', client')
        BY <1>1, <1>2, <1>9, <2>1, <2>2, <2>4, <3>3 DEF AttestationsOf, attestations
      <3> QED
        BY <3>2, <3>3, <3>4
    <2>7. Fetched'
      BY <2>4, <2>6 DEF Fetched
    <2>8. Answered'
      BY <2>4 DEF Answered, Answers
    <2>9. client.source = "node"
      BY <2>3 DEF IInv, Requests
    <2>10. Requests'
      BY <2>4 DEF Requests
    <2> QED
      BY <1>1, <2>2, <2>4, <2>5, <2>6, <2>7, <2>8, <2>9, <2>10
  <1>14. CASE Decide
    <2>1. client.step = "evaluate" /\ client' = [client EXCEPT !.step = Answer]
      BY <1>14 DEF Decide
    <2>2. Answer \in {"refused"} \cup Answers
      BY DEF Answer, Answers
    <2> HIDE DEF Answer
    <2>3. /\ client' \in ClientState
          /\ client'.step = Answer
          /\ client'.source = client.source
          /\ client'.subject = client.subject
          /\ client'.policy = client.policy
          /\ client'.bundle = client.bundle
          /\ client'.at = client.at
      BY <1>1, <2>1, <2>2 DEF ClientState, Steps
    <2>4. Answered'
      BY <2>3 DEF Answered, Answer
    <2>5. Fetched'
      <3>1. client.source = "node" =>
              EventsOf(log, client) /\ ClaimsOf(log, client) /\ AttestationsOf(log, client)
        BY <2>1 DEF IInv, Fetched, HasEvents, HasClaims, HasAttestations
      <3> QED
        BY <1>2, <2>3, <3>1 DEF Fetched, EventsOf, ClaimsOf, AttestationsOf
    <2>6. /\ client.at.events <= Len(log)
          /\ client.at.events <= client.at.claims
          /\ client.at.claims <= client.at.attestations
      BY <2>1 DEF IInv, TypeOK
    <2>7. Requests'
      BY <2>2, <2>3 DEF Requests, Answers
    <2> QED
      BY <2>3, <2>4, <2>5, <2>6, <2>7
  <1>15. ASSUME NEW subject \in Subjects \cup {Absent}, Query(subject)
         PROVE  /\ client' \in ClientState
                /\ client'.at.events = Len(log) /\ client'.at.claims = Len(log)
                /\ client'.at.attestations = Len(log)
                /\ client'.step = "page" /\ client'.source = "query"
    <2> DEFINE at == [events |-> Len(log), claims |-> Len(log), attestations |-> Len(log)]
    <2>1. at \in [events : Nat, claims : Nat, attestations : Nat]
      BY <1>1
    <2>2. client' = [NoCommand EXCEPT !.step = "page", !.source = "query", !.subject = subject,
                                      !.at = at]
      BY <1>15 DEF Query
    <2>3. /\ at.events = Len(log) /\ at.claims = Len(log) /\ at.attestations = Len(log)
      OBVIOUS
    <2> HIDE DEF at
    <2>4. /\ client' \in ClientState /\ client'.at = at
          /\ client'.step = "page" /\ client'.source = "query"
      BY <2>1, <2>2, NoCommandType DEF ClientState, Steps, NoCommand
    <2> QED
      BY <2>3, <2>4
  <1>16. CASE GetPage
    <2> DEFINE page == Page(log, client.subject, client.bundle.events)
               next == IF Cardinality(page) < Limit THEN "listed" ELSE "page"
               b == [client.bundle EXCEPT !.events = @ \cup page]
    <2>1. page \subseteq Events /\ next \in {"listed", "page"}
      BY <1>1, SelectedWithin DEF Page, First
    <2>2. client' = [client EXCEPT !.step = next, !.bundle = b]
      BY <1>16, <1>1 DEF GetPage, ClientState
    <2> HIDE DEF page, next
    <2>3. b \in EventBundle
      BY <1>3, <2>1 DEF EventBundle
    <2> HIDE DEF b
    <2>4. /\ client' \in ClientState
          /\ client'.step = next
          /\ client'.source = client.source
          /\ client'.at = client.at
      BY <1>1, <2>1, <2>2, <2>3 DEF ClientState, Steps
    <2>5. client.source = "query" /\ client.step = "page"
      BY <1>16 DEF GetPage, IInv, Requests
    <2> QED
      BY <1>1, <2>1, <2>4, <2>5
      DEF IInv, TypeOK, Requests, Fetched, Answered, Answers
  <1> QED
    BY <1>8, <1>11, <1>12, <1>13, <1>14, <1>15, <1>16
    DEF Command, Requests, Fetched, Answered, Answers

LEMMA InitIInv == Init => IInv
  <1> SUFFICES ASSUME Init PROVE IInv
    OBVIOUS
  <1>1. log = << >> /\ client = NoCommand
    BY DEF Init, Node!Init
  <1>2. log \in Seq(Events) /\ Len(log) = 0 /\ DOMAIN log = {}
    BY <1>1
  <1>3. Sound(log)
    BY <1>2 DEF Sound, HasUniqueIds, OnlyVerified, RevocationsResolved
  <1>4. client \in ClientState /\ client.step = "idle"
    BY <1>1, NoCommandType DEF NoCommand
  <1>5. client.at = [events |-> 0, claims |-> 0, attestations |-> 0]
    BY <1>1 DEF NoCommand
  <1>6. TypeOK
    BY <1>2, <1>4, <1>5 DEF TypeOK
  <1>7. Requests /\ Fetched /\ Answered
    BY <1>4 DEF Requests, Fetched, Answered, Answers, HasEvents, HasClaims, HasAttestations
  <1> QED
    BY <1>3, <1>6, <1>7 DEF IInv

LEMMA Invariance == Spec => []IInv
  <1>1. Init => IInv
    BY InitIInv
  <1>2. IInv /\ [Next]_vars => IInv'
    <2> SUFFICES ASSUME IInv, [Next]_vars PROVE IInv'
      OBVIOUS
    <2>1. CASE NodeStores
      BY <2>1, StoreStep
    <2>2. CASE Command
      BY <2>2, CommandStep
    <2>3. CASE UNCHANGED vars
      <3>1. log' = log /\ client' = client
        BY <2>3 DEF vars
      <3> QED
        BY <3>1
        DEF IInv, TypeOK, Requests, Fetched, Answered, Answer, HasEvents, HasClaims,
            HasAttestations
    <2> QED
      BY <2>1, <2>2, <2>3 DEF Next
  <1> QED
    BY <1>1, <1>2, PTL DEF Spec

(* The records and the log have the types that the model declares, and the *)
(* answers came in the order of the requests.                              *)
THEOREM TypeCorrect == Spec => []TypeOK
  <1>1. IInv => TypeOK
    BY DEF IInv
  <1> QED
    BY <1>1, Invariance, PTL

-----------------------------------------------------------------------------
(* What an answer rests on. *)

(* The bundle that was fetched, in terms of the log at the moment of the   *)
(* first request.                                                          *)
LEMMA AnswerRests ==
  ASSUME IInv, client.source = "node", client.step \in {"refused"} \cup Answers
  PROVE  /\ Snapshot \in Seq(Events) /\ Sound(Snapshot)
         /\ client.at.events \in 0 .. Len(log)
         /\ client.at.claims \in 0 .. Len(log)
         /\ client.at.attestations \in 0 .. Len(log)
         /\ client.at.events <= client.at.claims
         /\ client.at.claims <= client.at.attestations
         /\ Snapshot = Prefix(log, client.at.events)
         /\ client.bundle.version = Version
         /\ client.bundle.subject = client.subject
         /\ client.bundle.events = IdentityEvents(Snapshot, client.subject)
         /\ client.bundle.active_claims =
              ActiveEvents(About(client.at.claims), "claim.added")
         /\ client.bundle.active_attestations =
              ActiveEvents(About(client.at.attestations), "attestation.issued")
  <1>1. client.step \notin {"idle", "events", "claims", "attestations"}
    BY DEF Answers
  <1>2. EventsOf(log, client) /\ ClaimsOf(log, client) /\ AttestationsOf(log, client)
    BY <1>1 DEF IInv, Fetched, HasEvents, HasClaims, HasAttestations
  <1>3. log \in Seq(Events) /\ Sound(log) /\ Len(log) \in Nat
    BY DEF IInv, TypeOK
  <1>4. client.at.events \in Nat /\ client.at.claims \in Nat /\ client.at.attestations \in Nat
    BY DEF IInv, TypeOK, ClientState
  <1>5. /\ client.at.events \in 0 .. Len(log)
        /\ client.at.claims \in 0 .. Len(log)
        /\ client.at.attestations \in 0 .. Len(log)
        /\ client.at.events <= client.at.claims
        /\ client.at.claims <= client.at.attestations
    BY <1>2, <1>3, <1>4 DEF EventsOf, ClaimsOf, AttestationsOf
  <1>6. Snapshot = Prefix(log, client.at.events)
    BY DEF Snapshot, Prefix
  <1>7. Snapshot \in Seq(Events) /\ Sound(Snapshot)
    BY <1>3, <1>5, <1>6, PrefixProperties, PrefixSound
  <1> QED
    BY <1>2, <1>5, <1>6, <1>7
    DEF EventsOf, ClaimsOf, AttestationsOf, IdentityClaims, IdentityAttestations, About

(* What is listed at the first moment and active at a later one was active *)
(* at the first.                                                           *)
LEMMA ListedAndActive ==
  ASSUME IInv, client.source = "node", client.step \in {"refused"} \cup Answers,
         NEW j \in 0 .. Len(log), client.at.events <= j, NEW kind,
         NEW active, active = ActiveEvents(About(j), kind),
         active \subseteq client.bundle.events
  PROVE  active \subseteq ActiveThen(kind)
  <1>1. /\ Snapshot = Prefix(log, client.at.events)
        /\ client.bundle.events = IdentityEvents(Snapshot, client.subject)
        /\ client.at.events \in 0 .. Len(log)
    BY AnswerRests
  <1>2. client.at.events \in 0 .. j
    BY <1>1
  <1>3. active \subseteq EventsAbout(Snapshot, client.subject)
    BY <1>1, ListedAbout
  <1>4. log \in Seq(Events)
    BY DEF IInv, TypeOK
  <1> SUFFICES ASSUME NEW e \in active PROVE e \in ActiveThen(kind)
    OBVIOUS
  <1>5. e \in EventsAbout(Prefix(log, client.at.events), client.subject)
    BY <1>1, <1>3
  <1>6. e \in ActiveEvents(EventsAbout(Prefix(log, j), client.subject), kind)
    BY DEF About
  <1>7. e \in Unrevoked(Prefix(log, client.at.events), client.subject, kind)
    BY <1>2, <1>4, <1>5, <1>6, ActiveBefore
  <1> QED
    BY <1>1, <1>7 DEF ActiveThen

(* Trust that rests on a node rests on claims and attestations that were   *)
(* all active when it listed the events (create_bundle, verify), for any   *)
(* limit of the list and any number of events stored between the requests. *)
THEOREM JustifiedTrust == Spec => []TrustJustified
  <1>1. IInv => TrustJustified
    <2> SUFFICES ASSUME IInv, client.step = "trusted", client.source = "node"
                 PROVE  EvaluateTrust(client.policy, ActiveThen("claim.added"),
                                      ActiveThen("attestation.issued"))
      BY DEF TrustJustified
    <2> DEFINE b == client.bundle
    <2>1. client.step \in {"refused"} \cup Answers /\ client.step = Answer
      BY DEF IInv, Answered, Answers
    <2>2. /\ Verify(b)
          /\ EvaluateTrust(client.policy, b.active_claims, b.active_attestations)
      BY <2>1 DEF Answer
    <2>3. b.active_claims \subseteq b.events /\ b.active_attestations \subseteq b.events
      BY <2>2 DEF Verify
    <2>4. /\ client.at.events <= client.at.claims
          /\ client.at.events \in Nat /\ client.at.claims \in 0 .. Len(log)
          /\ client.at.claims <= client.at.attestations
          /\ client.at.attestations \in 0 .. Len(log)
          /\ b.active_claims = ActiveEvents(About(client.at.claims), "claim.added")
          /\ b.active_attestations =
               ActiveEvents(About(client.at.attestations), "attestation.issued")
      BY <2>1, AnswerRests
    <2>5. client.at.events <= client.at.attestations
      BY <2>4
    <2> HIDE DEF b
    <2>6. b.active_claims \subseteq ActiveThen("claim.added")
      BY <2>1, <2>3, <2>4, ListedAndActive DEF b
    <2>7. b.active_attestations \subseteq ActiveThen("attestation.issued")
      BY <2>1, <2>3, <2>4, <2>5, ListedAndActive DEF b
    <2> QED
      BY <2>2, <2>6, <2>7, EvaluateMonotone
  <1> QED
    BY <1>1, Invariance, PTL

(* A complete list of events makes the answer, yes or no, the one that the *)
(* whole store gave when it was asked for the events.                      *)
THEOREM ExactAnswer == Spec => []AnswerExact
  <1>1. IInv => AnswerExact
    <2> SUFFICES ASSUME IInv, client.step \in Answers, client.source = "node", Complete
                 PROVE  client.step = "trusted" <=>
                          EvaluateTrust(client.policy, ActiveThen("claim.added"),
                                        ActiveThen("attestation.issued"))
      BY DEF AnswerExact
    <2> DEFINE b == client.bundle
               about == EventsAbout(Snapshot, client.subject)
    <2>1. client.step \in {"refused"} \cup Answers /\ client.step = Answer
      BY DEF IInv, Answered
    <2>2. /\ Verify(b)
          /\ client.step = "trusted" <=>
               EvaluateTrust(client.policy, b.active_claims, b.active_attestations)
      BY <2>1 DEF Answer, Answers
    <2>3. /\ Snapshot \in Seq(Events) /\ Sound(Snapshot)
          /\ b.events = IdentityEvents(Snapshot, client.subject)
      BY <2>1, AnswerRests
    <2>4. b.events = about
      BY <2>3, ListedAll DEF Complete
    <2>5. /\ b.active_claims \subseteq about /\ b.active_attestations \subseteq about
          /\ EventIds(b.active_claims) = EventIds(ActiveEvents(about, "claim.added"))
          /\ EventIds(b.active_attestations) =
               EventIds(ActiveEvents(about, "attestation.issued"))
      BY <2>2, <2>4 DEF Verify, ActiveBundleEvents
    <2>6. b.active_claims = ActiveThen("claim.added")
      BY <2>3, <2>5, ActiveById DEF ActiveThen
    <2>7. b.active_attestations = ActiveThen("attestation.issued")
      BY <2>3, <2>5, ActiveById DEF ActiveThen
    <2> QED
      BY <2>2, <2>6, <2>7
  <1> QED
    BY <1>1, Invariance, PTL

(* A node that stores nothing between the requests has evidence that the   *)
(* client takes, unless its list of events was cut off.                    *)
THEOREM QuietNodes == Spec => []QuietNodeAnswers
  <1>1. IInv => QuietNodeAnswers
    <2> SUFFICES ASSUME IInv, client.step = "refused", client.source = "node", Complete,
                        client.at.events = client.at.attestations
                 PROVE  FALSE
      BY DEF QuietNodeAnswers
    <2> DEFINE b == client.bundle
    <2>1. client.step \in {"refused"} \cup Answers /\ client.step = Answer
      BY DEF IInv, Answered
    <2>2. /\ Snapshot \in Seq(Events) /\ Sound(Snapshot)
          /\ client.at.events \in Nat /\ client.at.claims \in 0 .. Len(log)
          /\ client.at.events <= client.at.claims
          /\ client.at.claims <= client.at.attestations
          /\ Snapshot = Prefix(log, client.at.events)
          /\ b.version = Version /\ b.subject = client.subject
          /\ b.events = IdentityEvents(Snapshot, client.subject)
          /\ b.active_claims = ActiveEvents(About(client.at.claims), "claim.added")
          /\ b.active_attestations =
               ActiveEvents(About(client.at.attestations), "attestation.issued")
      BY <2>1, AnswerRests
    <2>3. client.at.claims = client.at.events
      BY <2>2
    <2>4. /\ b.active_claims = IdentityClaims(Snapshot, client.subject)
          /\ b.active_attestations = IdentityAttestations(Snapshot, client.subject)
      BY <2>2, <2>3 DEF About, IdentityClaims, IdentityAttestations
    <2>5. b.events = EventsAbout(Snapshot, client.subject)
      BY <2>2, ListedAll DEF Complete
    <2>6. Verify(b)
      BY <2>2, <2>4, <2>5, SnapshotVerifies
    <2> QED
      BY <2>1, <2>2, <2>6 DEF Answer
  <1> QED
    BY <1>1, Invariance, PTL

(* Whatever a bundle comes from, an answer rests on verified events about  *)
(* the subject that no event of the bundle revokes (EventBundle::verify).  *)
THEOREM StandingEvidence == Spec => []EvidenceStands
  <1>1. IInv => EvidenceStands
    <2> DEFINE b == client.bundle
    <2> SUFFICES ASSUME IInv, client.step \in Answers,
                        NEW e \in b.active_claims \cup b.active_attestations
                 PROVE  /\ VerifyEvent(e)
                        /\ e.subject = client.subject
                        /\ ~ \E r \in b.events : /\ r.kind \in RevocationsOf(e.kind)
                                                  /\ r.field = e.id
      BY DEF EvidenceStands
    <2>1. Verify(b) /\ client.subject = b.subject
      BY DEF IInv, Answered, Answer, Answers
    <2> HIDE DEF b
    <2>2. e \in b.events /\ e.subject = b.subject /\ VerifyEvent(e)
      BY <2>1 DEF Verify
    <2>3. PICK kind : e.id \in EventIds(ActiveEvents(b.events, kind))
      <3>1. CASE e \in b.active_claims
        BY <2>1, <3>1 DEF Verify, EventIds, ActiveBundleEvents
      <3>2. CASE e \in b.active_attestations
        BY <2>1, <3>2 DEF Verify, EventIds, ActiveBundleEvents
      <3> QED
        BY <3>1, <3>2
    <2>4. PICK f \in ActiveEvents(b.events, kind) : f.id = e.id
      BY <2>3 DEF EventIds
    <2>5. f \in b.events /\ f.kind = kind /\ f.id \notin RevokedIds(b.events, kind)
      BY DEF ActiveEvents
    <2>6. e.kind = kind
      BY <2>1, <2>2, <2>4, <2>5, EventsAssumption DEF Verify, VerifyEvent
    <2>7. ~ \E r \in b.events : r.kind \in RevocationsOf(kind) /\ r.field = e.id
      BY <2>4, <2>5 DEF RevokedIds
    <2> QED
      BY <2>1, <2>2, <2>6, <2>7
  <1> QED
    BY <1>1, Invariance, PTL
-----------------------------------------------------------------------------
(* Lists. *)

LEMMA LeastNumber ==
  ASSUME NEW T \in SUBSET Nat, T # {}
  PROVE  \E x \in T : \A y \in T : x <= y
  <1>1. PICK x \in T : \A y \in T : ~(<< y, x >> \in OpToRel(<, Nat))
    BY NatLessThanWellFounded, WFMin
  <1>2. \A y \in T : ~(y < x)
    BY <1>1 DEF OpToRel
  <1> QED
    BY <1>2

(* Of some events one comes first.                                         *)
LEMMA OneIsFirst ==
  ASSUME NEW S \in SUBSET Events, S # {}
  PROVE  \E e \in S : \A f \in S : ~Precedes(f, e)
  <1> DEFINE seconds == {CreatedAt[e] : e \in S}
  <1>1. seconds \in SUBSET Nat /\ seconds # {}
    BY EvidenceAssumption
  <1>2. PICK c \in seconds : \A d \in seconds : c <= d
    BY <1>1, LeastNumber
  <1> DEFINE places == {IdOrder[e] : e \in {f \in S : CreatedAt[f] = c}}
  <1>3. places \in SUBSET Nat /\ places # {}
    BY EvidenceAssumption
  <1>4. PICK i \in places : \A j \in places : i <= j
    BY <1>3, LeastNumber
  <1>5. PICK e \in S : CreatedAt[e] = c /\ IdOrder[e] = i
    OBVIOUS
  <1>6. \A f \in S : CreatedAt[f] \in Nat /\ IdOrder[f] \in Nat /\ c <= CreatedAt[f]
    BY <1>2, EvidenceAssumption
  <1>7. \A f \in S : CreatedAt[f] = c => i <= IdOrder[f]
    BY <1>4
  <1> QED
    BY <1>5, <1>6, <1>7 DEF Precedes

(* What is left out by LIMIT comes behind all that is not, and a list that *)
(* is not full leaves out nothing.                                         *)
LEMMA FirstIsFirst ==
  ASSUME NEW S \in SUBSET Events, IsFiniteSet(S),
         \A e, f \in S : e # f => Precedes(e, f) \/ Precedes(f, e)
  PROVE  /\ \A e \in First(S), f \in S \ First(S) : Precedes(e, f)
         /\ Cardinality(First(S)) < Limit => First(S) = S
  <1> DEFINE Before(e) == {f \in S : Precedes(f, e)}
  <1>1. \A e \in S : CreatedAt[e] \in Nat /\ IdOrder[e] \in Nat
    BY EvidenceAssumption
  <1>2. \A e \in S : IsFiniteSet(Before(e)) /\ Cardinality(Before(e)) \in Nat
    BY FS_Subset, FS_CardinalityType
  <1>3. ASSUME NEW e \in First(S), NEW f \in S \ First(S)
        PROVE  Precedes(e, f)
    <2> SUFFICES ASSUME Precedes(f, e) PROVE FALSE
      BY DEF First
    <2>1. e \in S /\ f \in S
      BY DEF First
    <2>2. Before(f) \subseteq Before(e)
      BY <1>1, <2>1 DEF Precedes
    <2>3. Cardinality(Before(f)) <= Cardinality(Before(e))
      BY <1>2, <2>1, <2>2, FS_Subset
    <2>4. Cardinality(Before(e)) < Limit /\ ~(Cardinality(Before(f)) < Limit)
      BY DEF First
    <2> HIDE DEF Before
    <2> QED
      BY <1>2, <2>1, <2>3, <2>4, EvidenceAssumption
  <1>4. ASSUME Cardinality(First(S)) < Limit, First(S) # S
        PROVE  FALSE
    <2>1. First(S) \subseteq S
      BY DEF First
    <2>2. PICK e \in S \ First(S) : \A f \in S \ First(S) : ~Precedes(f, e)
      BY <1>4, <2>1, OneIsFirst
    <2>3. Before(e) \subseteq First(S)
      BY <2>2
    <2>4. /\ IsFiniteSet(First(S)) /\ Cardinality(First(S)) \in Nat
          /\ Cardinality(Before(e)) <= Cardinality(First(S))
      BY <2>1, <2>3, FS_Subset, FS_CardinalityType
    <2>5. ~(Cardinality(Before(e)) < Limit)
      BY <2>2 DEF First
    <2> HIDE DEF Before
    <2> QED
      BY <1>2, <1>4, <2>4, <2>5, EvidenceAssumption
  <1> QED
    BY <1>3, <1>4

(* Events of a sound log are in a total order.                             *)
LEMMA StoredInOrder ==
  ASSUME NEW s \in Seq(Events), Sound(s), NEW e \in Range(s), NEW f \in Range(s), e # f
  PROVE  Precedes(e, f) \/ Precedes(f, e)
  <1>1. e \in Events /\ f \in Events
    BY FinitelyMany
  <1>2. e.id # f.id
    BY DEF Range, Sound, HasUniqueIds
  <1>3. /\ IdOrder[e] \in Nat /\ IdOrder[f] \in Nat /\ IdOrder[e] # IdOrder[f]
        /\ CreatedAt[e] \in Nat /\ CreatedAt[f] \in Nat
    BY <1>1, <1>2, EvidenceAssumption
  <1> QED
    BY <1>3 DEF Precedes

(* What was there when a list was begun is on it, or comes behind all that *)
(* is and will be asked for.                                               *)
Listing ==
  client.step \in {"page", "listed"} =>
    \A e \in Selected(Prefix(log, client.at.events), client.subject) :
      \/ e \in client.bundle.events
      \/ client.step = "page" /\ \A f \in client.bundle.events : Precedes(f, e)

LEMMA ListingStep == IInv /\ Listing /\ [Next]_vars => Listing'
  <1> SUFFICES ASSUME IInv, Listing, [Next]_vars PROVE Listing'
    OBVIOUS
  <1>1. /\ log \in Seq(Events) /\ Sound(log) /\ client \in ClientState /\ Len(log) \in Nat
        /\ client.at.events \in Nat /\ client.at.events <= Len(log)
    BY DEF IInv, TypeOK, ClientState
  <1>2. CASE UNCHANGED vars
    BY <1>2 DEF vars, Listing
  <1>3. CASE NodeStores
    <2>1. PICK e \in Events : log' = Append(log, e) /\ client' = client
      BY <1>3, StorePublishes DEF IInv
    <2>2. Prefix(log', client.at.events) = Prefix(log, client.at.events)
      BY <1>1, <2>1, PrefixStays
    <2> QED
      BY <2>1, <2>2 DEF Listing
  <1>4. ASSUME NEW subject \in Subjects \cup {Absent}, Query(subject)
        PROVE  Listing'
    <2>1. client'.step = "page" /\ client'.bundle.events = {}
      BY <1>4 DEF Query, NoCommand, NoBundle
    <2> QED
      BY <2>1 DEF Listing
  <1>5. CASE GetPage
    <2> DEFINE then == Selected(Prefix(log, client.at.events), client.subject)
               now == Selected(log, client.subject)
               got == client.bundle.events
               rest == {e \in now : \A f \in got : Precedes(f, e)}
    <2>1. then \subseteq now
      <3>1. Range(Prefix(log, client.at.events)) \subseteq Range(log)
        <4> DEFINE i == client.at.events
                   s == Prefix(log, i)
        <4>1. i \in 0 .. Len(log) /\ \A k \in 1 .. i : k \in 1 .. Len(log)
          BY <1>1
        <4>2. DOMAIN log = 1 .. Len(log)
          BY <1>1
        <4> HIDE DEF i
        <4>3. DOMAIN s = 1 .. i /\ \A k \in 1 .. i : s[k] = log[k]
          BY <1>1, <4>1, PrefixProperties
        <4> HIDE DEF s
        <4>4. Range(s) \subseteq Range(log)
          BY <4>1, <4>2, <4>3 DEF Range
        <4> QED
          BY <4>4 DEF i, s
      <3> QED
        BY <3>1 DEF Selected, EventsAbout
    <2>2. now \subseteq Range(log) /\ now \subseteq Events
      BY <1>1, SelectedWithin
    <2>3. rest \in SUBSET Events /\ IsFiniteSet(rest)
      BY <1>1, <2>2, FinitelyMany, FS_Subset
    <2>4. \A e, f \in rest : e # f => Precedes(e, f) \/ Precedes(f, e)
      BY <1>1, <2>2, StoredInOrder
    <2>5. /\ \A e \in First(rest), f \in rest \ First(rest) : Precedes(e, f)
          /\ Cardinality(First(rest)) < Limit => First(rest) = rest
      BY <2>3, <2>4, FirstIsFirst
    <2>6. Page(log, client.subject, got) = First(rest)
      BY DEF Page
    <2>7. /\ log' = log /\ client'.at = client.at /\ client'.subject = client.subject
          /\ client'.step = IF Cardinality(First(rest)) < Limit THEN "listed" ELSE "page"
          /\ client'.bundle.events = got \cup First(rest)
      <3> DEFINE next == IF Cardinality(First(rest)) < Limit THEN "listed" ELSE "page"
                 some == First(rest)
      <3>1. client' = [client EXCEPT !.step = next, !.bundle.events = @ \cup some]
        BY <1>5, <2>6 DEF GetPage
      <3>2. client.bundle \in EventBundle
        BY <1>1 DEF ClientState
      <3>3. log' = log
        BY <1>5 DEF GetPage
      <3> HIDE DEF next, some, rest
      <3>4. /\ client'.at = client.at /\ client'.subject = client.subject
            /\ client'.step = next /\ client'.bundle.events = client.bundle.events \cup some
        BY <1>1, <3>1, <3>2 DEF ClientState, EventBundle
      <3> QED
        BY <3>3, <3>4 DEF next, some
    <2>8. client.step = "page"
      BY <1>5 DEF GetPage
    <2>9. ASSUME NEW e \in then
          PROVE  \/ e \in got \cup First(rest)
                 \/ client'.step = "page" /\ \A f \in got \cup First(rest) : Precedes(f, e)
      <3>1. CASE e \in got
        BY <3>1
      <3>2. CASE e \notin got
        <4>1. e \in rest
          BY <2>1, <2>8, <3>2 DEF Listing
        <4> HIDE DEF rest
        <4>2. CASE e \in First(rest)
          BY <4>2
        <4>3. CASE e \notin First(rest)
          <5>1. client'.step = "page"
            BY <2>5, <2>7, <4>1, <4>3
          <5>2. \A f \in First(rest) : Precedes(f, e)
            BY <2>5, <4>1, <4>3
          <5>3. \A f \in got : Precedes(f, e)
            BY <4>1 DEF rest
          <5> QED
            BY <5>1, <5>2, <5>3
        <4> QED
          BY <4>2, <4>3
      <3> QED
        BY <3>1, <3>2
    <2> HIDE DEF rest
    <2> QED
      BY <2>7, <2>9 DEF Listing
  <1>6. CASE \/ \E subject \in Subjects, policy \in Policies :
                  \/ Evaluate(subject, policy)
                  \/ \E bundle \in Bundles : EvaluateBundle(subject, policy, bundle)
             \/ GetEvents \/ GetClaims \/ GetAttestations \/ Decide \/ Exit
    <2>1. client'.step \notin {"page", "listed"}
      <3>1. ASSUME NEW subject \in Subjects, NEW policy \in Policies, Evaluate(subject, policy)
            PROVE  client'.step = "events"
        BY <3>1 DEF Evaluate, NoCommand
      <3>2. ASSUME NEW subject \in Subjects, NEW policy \in Policies, NEW bundle \in Bundles,
                   EvaluateBundle(subject, policy, bundle)
            PROVE  client'.step = "evaluate"
        BY <3>2 DEF EvaluateBundle, NoCommand
      <3>3. CASE GetEvents
        BY <1>1, <3>3 DEF GetEvents, ClientState
      <3>4. CASE GetClaims
        BY <1>1, <3>4 DEF GetClaims, ClientState
      <3>5. CASE GetAttestations
        BY <1>1, <3>5 DEF GetAttestations, ClientState
      <3>6. CASE Decide
        <4>1. client'.step = Answer
          BY <1>1, <3>6 DEF Decide, ClientState
        <4> QED
          BY <4>1 DEF Answer
      <3>7. CASE Exit
        BY <3>7 DEF Exit, NoCommand
      <3> QED
        BY <1>6, <3>1, <3>2, <3>3, <3>4, <3>5, <3>6, <3>7
    <2> QED
      BY <2>1 DEF Listing
  <1> QED
    BY <1>2, <1>3, <1>4, <1>5, <1>6 DEF Next, Command

(* A client that reads a list to the end has all events that the node had  *)
(* when it began, for any order and any limit (query, try_into_filter).    *)
THEOREM CompleteLists == Spec => []ListsComplete
  <1>1. Init => Listing
    BY DEF Init, NoCommand, Listing
  <1>2. IInv /\ Listing => ListsComplete
    BY DEF Listing, ListsComplete, Snapshot, Prefix
  <1> QED
    BY <1>1, <1>2, ListingStep, Invariance, PTL DEF Spec
==============================================================================
