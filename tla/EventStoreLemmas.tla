-------------------------- MODULE EventStoreLemmas --------------------------
(***************************************************************************)
(* What the operators of EventStore preserve, for every set of events and  *)
(* every store.                                                            *)
(***************************************************************************)
EXTENDS EventStore, SequenceTheorems, TLAPS

(* A stored id is found: get returns a row of the table with that id.      *)
LEMMA GetFinds ==
  ASSUME NEW s, NEW id \in StoredIds(s)
  PROVE  \E i \in DOMAIN s : s[i].id = id /\ Get(s, id) = s[i]
  BY DEF StoredIds, Get

(* With unique ids, get returns the one row that has the id.               *)
LEMMA GetUnique ==
  ASSUME NEW s, HasUniqueIds(s), NEW i \in DOMAIN s
  PROVE  Get(s, s[i].id) = s[i]
  BY DEF Get, HasUniqueIds

(* append adds the id of its event and loses none.                         *)
LEMMA PutAddsId ==
  ASSUME NEW s \in Seq(Events), NEW e \in Events
  PROVE  /\ Put(s, e) \in Seq(Events)
         /\ StoredIds(Put(s, e)) = StoredIds(s) \cup {e.id}
  <1>1. CASE e.id \in StoredIds(s)
    BY <1>1 DEF Put
  <1>2. CASE e.id \notin StoredIds(s)
    <2>1. Put(s, e) = Append(s, e)
      BY <1>2 DEF Put
    <2>2. DOMAIN Append(s, e) = DOMAIN s \cup {Len(s) + 1}
      OBVIOUS
    <2>3. Append(s, e)[Len(s) + 1] = e /\ \A i \in DOMAIN s : Append(s, e)[i] = s[i]
      OBVIOUS
    <2>4. StoredIds(Append(s, e)) \subseteq StoredIds(s) \cup {e.id}
      BY <2>2, <2>3 DEF StoredIds
    <2>5. StoredIds(s) \cup {e.id} \subseteq StoredIds(Append(s, e))
      <3>1. Len(s) + 1 \in DOMAIN Append(s, e)
        BY <2>2
      <3>2. e.id \in StoredIds(Append(s, e))
        BY <3>1, <2>3 DEF StoredIds
      <3>3. \A i \in DOMAIN s : s[i].id \in StoredIds(Append(s, e))
        BY <2>2, <2>3 DEF StoredIds
      <3> QED
        BY <3>2, <3>3 DEF StoredIds
    <2> QED
      BY <2>1, <2>4, <2>5
  <1> QED
    BY <1>1, <1>2

(* An empty store is sound.                                                *)
LEMMA EmptySound == Sound(<< >>)
  BY DEF Sound, HasUniqueIds, RevocationsResolved, OnlyVerified

(* Appending an event that verifies, that has a new id and whose reference *)
(* holds keeps a store sound.                                              *)
LEMMA AppendSound ==
  ASSUME NEW s \in Seq(Events), NEW e \in Events, Sound(s), VerifyEvent(e),
         e.id \notin StoredIds(s), ReferenceHolds(s, e)
  PROVE  Sound(Append(s, e))
  <1> DEFINE t == Append(s, e)
  <1>1. /\ DOMAIN t = 1 .. Len(s) + 1
        /\ DOMAIN s = 1 .. Len(s)
        /\ Len(s) \in Nat
        /\ t[Len(s) + 1] = e
        /\ \A i \in 1 .. Len(s) : t[i] = s[i]
    OBVIOUS
  <1> HIDE DEF t
  <1>2. HasUniqueIds(t)
    BY <1>1 DEF HasUniqueIds, Sound, StoredIds
  <1>3. OnlyVerified(t)
    BY <1>1 DEF OnlyVerified, Sound
  <1>4. RevocationsResolved(t)
    <2> SUFFICES ASSUME NEW i \in DOMAIN t, Refers(t[i])
                 PROVE  \E j \in 1 .. i - 1 :
                          /\ t[j].id = t[i].field
                          /\ t[j].kind = RevokedKind(t[i].kind)
                          /\ t[j].subject = t[i].subject
                          /\ t[j].issuer = t[i].issuer
      BY DEF RevocationsResolved
    <2>1. CASE i \in 1 .. Len(s)
      <3>1. PICK j \in 1 .. i - 1 :
              /\ s[j].id = s[i].field
              /\ s[j].kind = RevokedKind(s[i].kind)
              /\ s[j].subject = s[i].subject
              /\ s[j].issuer = s[i].issuer
        BY <1>1, <2>1 DEF Sound, RevocationsResolved
      <3>2. j \in 1 .. Len(s)
        BY <1>1, <2>1
      <3> QED
        BY <1>1, <2>1, <3>1, <3>2
    <2>2. CASE i = Len(s) + 1
      <3>1. e.field \in StoredIds(s) /\ ReferenceMatches(e, Get(s, e.field))
        BY <1>1, <2>2 DEF ReferenceHolds
      <3>2. PICK j \in DOMAIN s : s[j].id = e.field /\ Get(s, e.field) = s[j]
        BY <3>1, GetFinds
      <3>3. j \in 1 .. i - 1 /\ t[j] = s[j]
        BY <1>1, <2>2, <3>2
      <3> QED
        BY <1>1, <2>2, <3>1, <3>2, <3>3 DEF ReferenceMatches
    <2> QED
      BY <1>1, <2>1, <2>2
  <1> QED
    BY <1>2, <1>3, <1>4 DEF Sound, t

(* The INSERT OR IGNORE of an event that is cleared for the store keeps it *)
(* sound, even if its id has been taken since it was cleared.              *)
LEMMA PutSound ==
  ASSUME NEW s \in Seq(Events), NEW e \in Events, Sound(s), VerifyEvent(e),
         e.id \in StoredIds(s) \/ ReferenceHolds(s, e)
  PROVE  Sound(Put(s, e))
  BY AppendSound DEF Put

(* What is stored stays what it is: the row of a stored id does not change *)
(* when another event is appended.                                         *)
LEMMA PutKeepsRows ==
  ASSUME NEW s \in Seq(Events), NEW e \in Events, Sound(s), VerifyEvent(e),
         e.id \in StoredIds(s) \/ ReferenceHolds(s, e),
         NEW id \in StoredIds(s)
  PROVE  id \in StoredIds(Put(s, e)) /\ Get(Put(s, e), id) = Get(s, id)
  <1>1. PICK i \in DOMAIN s : s[i].id = id /\ Get(s, id) = s[i]
    BY GetFinds
  <1>2. i \in DOMAIN Put(s, e) /\ Put(s, e)[i] = s[i]
    BY <1>1 DEF Put
  <1>3. HasUniqueIds(Put(s, e))
    BY PutSound DEF Sound
  <1>4. Get(Put(s, e), Put(s, e)[i].id) = Put(s, e)[i]
    BY <1>2, <1>3, GetUnique
  <1> QED
    BY <1>1, <1>2, <1>4, PutAddsId

(* A reference that holds keeps holding while others write to the store.   *)
LEMMA ReferenceStays ==
  ASSUME NEW s \in Seq(Events), NEW e \in Events, Sound(s), VerifyEvent(e),
         e.id \in StoredIds(s) \/ ReferenceHolds(s, e),
         NEW f \in Events, ReferenceHolds(s, f)
  PROVE  ReferenceHolds(Put(s, e), f)
  BY PutKeepsRows DEF ReferenceHolds

(* A page has at most limit events: those of the store that follow after,  *)
(* in order.                                                               *)
LEMMA PageProperties ==
  ASSUME NEW s \in Seq(Events), NEW after \in Nat, NEW limit \in Nat \ {0}
  PROVE  LET page == ListAfter(s, after, limit)
         IN  /\ page \in Seq(Events)
             /\ after + Len(page) <= Len(s) \/ page = << >>
             /\ \A k \in 1 .. Len(page) : page[k] = s[after + k]
  <1> DEFINE last == LastListed(s, after, limit)
             page == ListAfter(s, after, limit)
  <1>1. last \in Nat /\ last <= Len(s)
    BY DEF LastListed
  <1> HIDE DEF last
  <1>2. \A i \in after + 1 .. last : s[i] \in Events
    BY <1>1
  <1>3. page = SubSeq(s, after + 1, last)
    BY DEF ListAfter, last
  <1>4. /\ page \in Seq(Events)
        /\ Len(page) = IF after + 1 <= last THEN last - (after + 1) + 1 ELSE 0
        /\ \A i \in 1 .. last - (after + 1) + 1 : page[i] = s[after + 1 + i - 1]
    BY <1>1, <1>2, <1>3, SubSeqProperties
  <1>5. last < after + 1 => page = << >>
    BY <1>1, <1>3, SubSeqEmpty
  <1> HIDE DEF page
  <1>6. after + Len(page) <= Len(s) \/ page = << >>
    BY <1>1, <1>4, <1>5
  <1>7. \A k \in 1 .. Len(page) : page[k] = s[after + k]
    BY <1>1, <1>4
  <1> QED
    BY <1>4, <1>6, <1>7 DEF page

(* The events of a sound store s, in their order, can all be submitted to  *)
(* a sound store t: none of them lacks its reference, and one that is      *)
(* turned down has its id stored.                                          *)
LEMMA NextEventFits ==
  ASSUME NEW s \in Seq(Events), NEW t \in Seq(Events), Sound(s), Sound(t),
         NEW k \in DOMAIN s, \A j \in 1 .. k - 1 : s[j].id \in StoredIds(t)
  PROVE  /\ Validation(t, s[k]) \in {"accepted", "conflict"}
         /\ Validation(t, s[k]) = "conflict" => s[k].id \in StoredIds(t)
  <1> DEFINE e == s[k]
  <1>1. VerifyEvent(e)
    BY DEF Sound, OnlyVerified
  <1>2. ReferenceHolds(t, e)
    <2> SUFFICES ASSUME Refers(e)
                 PROVE  e.field \in StoredIds(t) /\ ReferenceMatches(e, Get(t, e.field))
      BY DEF ReferenceHolds
    <2>1. PICK j \in 1 .. k - 1 :
            /\ s[j].id = e.field
            /\ s[j].kind = RevokedKind(e.kind)
            /\ s[j].subject = e.subject
            /\ s[j].issuer = e.issuer
      BY DEF Sound, RevocationsResolved
    <2>2. e.field \in StoredIds(t)
      BY <2>1
    <2>3. PICK i \in DOMAIN t : t[i].id = e.field /\ Get(t, e.field) = t[i]
      BY <2>2, GetFinds
    <2>4. j \in DOMAIN s
      OBVIOUS
    <2>5. s[j] \in Genuine /\ t[i] \in Genuine
      BY <2>3, <2>4 DEF Sound, OnlyVerified, VerifyEvent
    <2>6. /\ t[i].kind = s[j].kind
          /\ t[i].subject = s[j].subject
          /\ t[i].issuer = s[j].issuer
      BY <2>1, <2>3, <2>5, EventsAssumption
    <2> QED
      BY <2>1, <2>2, <2>3, <2>6 DEF ReferenceMatches
  <1>3. ~ReferenceMissing(t, e) /\ Admitted(t, e)
    BY <1>2 DEF ReferenceMissing, ReferenceHolds, Admitted
  <1> QED
    BY <1>1, <1>3 DEF Validation, Conflicting

(* The reference of an event whose id is stored holds: what is stored under *)
(* that id has the same reference, and was appended with it.               *)
LEMMA StoredReferenceHolds ==
  ASSUME NEW s \in Seq(Events), NEW e, Sound(s), VerifyEvent(e), e.id \in StoredIds(s)
  PROVE  ReferenceHolds(s, e)
  <1> SUFFICES ASSUME Refers(e)
               PROVE  e.field \in StoredIds(s) /\ ReferenceMatches(e, Get(s, e.field))
    BY DEF ReferenceHolds
  <1>1. PICK i \in DOMAIN s : s[i].id = e.id
    BY DEF StoredIds
  <1>2. /\ s[i].kind = e.kind
        /\ s[i].subject = e.subject
        /\ s[i].issuer = e.issuer
        /\ s[i].field = e.field
    <2>1. s[i] \in Genuine /\ e \in Genuine
      BY DEF Sound, OnlyVerified, VerifyEvent
    <2> QED
      BY <1>1, <2>1, EventsAssumption
  <1>3. PICK j \in 1 .. i - 1 :
          /\ s[j].id = s[i].field
          /\ s[j].kind = RevokedKind(s[i].kind)
          /\ s[j].subject = s[i].subject
          /\ s[j].issuer = s[i].issuer
    BY <1>2 DEF Sound, RevocationsResolved, Refers
  <1>4. j \in DOMAIN s
    OBVIOUS
  <1>5. e.field \in StoredIds(s)
    BY <1>2, <1>3, <1>4 DEF StoredIds
  <1>6. Get(s, e.field) = s[j]
    BY <1>2, <1>3, <1>4, GetUnique DEF Sound
  <1> QED
    BY <1>2, <1>3, <1>5, <1>6 DEF ReferenceMatches

(* What validation makes of an event that verifies and whose reference     *)
(* holds, is missing, or does not match.                                   *)
LEMMA HoldingWelcome ==
  ASSUME NEW s, NEW e, VerifyEvent(e), ReferenceHolds(s, e)
  PROVE  Validation(s, e) \in {"accepted", "conflict"}
  <1>1. ~ReferenceMissing(s, e)
    BY DEF ReferenceHolds, ReferenceMissing
  <1>2. Admitted(s, e)
    BY DEF Admitted
  <1> QED
    BY <1>1, <1>2 DEF Validation

LEMMA MissingReported ==
  ASSUME NEW s \in Seq(Events), NEW e, Sound(s), VerifyEvent(e), ReferenceMissing(s, e)
  PROVE  Validation(s, e) = "missing"
  <1>1. e.id \notin StoredIds(s)
    BY StoredReferenceHolds DEF ReferenceMissing, ReferenceHolds
  <1> QED
    BY <1>1 DEF Validation, Conflicting

LEMMA MismatchReported ==
  ASSUME NEW s \in Seq(Events), NEW e, Sound(s), VerifyEvent(e),
         ~ReferenceMissing(s, e), ~ReferenceHolds(s, e)
  PROVE  Validation(s, e) = "invalid"
  <1>1. e.id \notin StoredIds(s)
    BY StoredReferenceHolds
  <1> QED
    BY <1>1 DEF Validation, Conflicting, Admitted, AlreadyStored

(* What validation accepts may be appended.                                *)
LEMMA AcceptedFits ==
  ASSUME NEW s, NEW e, Validation(s, e) = "accepted"
  PROVE  VerifyEvent(e) /\ (e.id \in StoredIds(s) \/ ReferenceHolds(s, e))
  BY DEF Validation, Admitted, AlreadyStored

(* What validation accepts is stored once it is appended.                  *)
LEMMA AcceptedStored ==
  ASSUME NEW s \in Seq(Events), NEW e \in Events, Validation(s, e) = "accepted"
  PROVE  e \in Range(Put(s, e))
  <1>1. CASE e.id \in StoredIds(s)
    <2>1. ~Conflicting(s, e)
      BY DEF Validation, VerifyEvent
    <2>2. Get(s, e.id) = e
      BY <1>1, <2>1 DEF Conflicting
    <2>3. e \in Range(s)
      BY <1>1, <2>2, GetFinds DEF Range
    <2> QED
      BY <1>1, <2>3 DEF Put
  <1>2. CASE e.id \notin StoredIds(s)
    <2>1. Put(s, e) = Append(s, e)
      BY <1>2 DEF Put
    <2>2. Len(s) + 1 \in DOMAIN Append(s, e) /\ Append(s, e)[Len(s) + 1] = e
      OBVIOUS
    <2> QED
      BY <2>1, <2>2 DEF Range
  <1> QED
    BY <1>1, <1>2

(* What is stored stays stored.                                            *)
LEMMA StoredStays ==
  ASSUME NEW s \in Seq(Events), NEW e \in Events, NEW f \in Range(s)
  PROVE  f \in Range(Put(s, e))
  <1>1. PICK i \in DOMAIN s : s[i] = f
    BY DEF Range
  <1>2. i \in DOMAIN Append(s, e) /\ Append(s, e)[i] = f
    BY <1>1
  <1>3. CASE e.id \in StoredIds(s)
    BY <1>3 DEF Put
  <1>4. CASE e.id \notin StoredIds(s)
    <2>1. Put(s, e) = Append(s, e)
      BY <1>4 DEF Put
    <2> QED
      BY <1>2, <2>1 DEF Range
  <1> QED
    BY <1>3, <1>4

(* A stored event is accepted once more.                                   *)
LEMMA StoredAccepted ==
  ASSUME NEW s \in Seq(Events), Sound(s), NEW f \in Range(s)
  PROVE  Validation(s, f) = "accepted"
  <1>1. PICK i \in DOMAIN s : s[i] = f
    BY DEF Range
  <1>2. f.id \in StoredIds(s) /\ Get(s, f.id) = f
    BY <1>1, GetUnique DEF Sound, StoredIds
  <1>3. VerifyEvent(f)
    BY <1>1 DEF Sound, OnlyVerified
  <1> QED
    BY <1>2, <1>3 DEF Validation, Conflicting, Admitted, AlreadyStored

(* The rejections that are final: an event that does not verify, or whose  *)
(* reference is stored and does not match.                                 *)
Stuck(s, e) ==
  \/ ~VerifyEvent(e)
  \/ /\ e.id \notin StoredIds(s)
     /\ Refers(e)
     /\ e.field \in StoredIds(s)
     /\ ~ReferenceMatches(e, Get(s, e.field))

LEMMA StuckInvalid ==
  ASSUME NEW s, NEW e, Stuck(s, e)
  PROVE  Validation(s, e) = "invalid"
  BY DEF Stuck, Validation, Conflicting, ReferenceMissing, Admitted,
         AlreadyStored, ReferenceHolds

LEMMA StuckStays ==
  ASSUME NEW s \in Seq(Events), NEW e \in Events, Sound(s), VerifyEvent(e),
         e.id \in StoredIds(s) \/ ReferenceHolds(s, e),
         NEW f, Stuck(s, f)
  PROVE  Stuck(Put(s, e), f)
  <1> SUFFICES ASSUME VerifyEvent(f), f.id \notin StoredIds(s), Refers(f),
                      f.field \in StoredIds(s),
                      ~ReferenceMatches(f, Get(s, f.field))
               PROVE  Stuck(Put(s, e), f)
    BY DEF Stuck
  <1>1. f.field \in StoredIds(Put(s, e)) /\ Get(Put(s, e), f.field) = Get(s, f.field)
    BY PutKeepsRows
  <1>2. f.id \notin StoredIds(Put(s, e))
    <2> SUFFICES ASSUME f.id = e.id PROVE FALSE
      BY PutAddsId
    <2>1. ReferenceHolds(s, e)
      OBVIOUS
    <2>2. /\ e.kind = f.kind
          /\ e.subject = f.subject
          /\ e.issuer = f.issuer
          /\ e.field = f.field
      BY EventsAssumption DEF VerifyEvent
    <2> QED
      BY <2>1, <2>2 DEF ReferenceHolds, Refers, ReferenceMatches
  <1> QED
    BY <1>1, <1>2 DEF Stuck

(* What validation turns down for good has its id taken, or is stuck.      *)
LEMMA RejectedSettled ==
  ASSUME NEW s, NEW e, Validation(s, e) \in {"invalid", "conflict"}
  PROVE  e.id \in StoredIds(s) \/ Stuck(s, e)
  <1> SUFFICES ASSUME VerifyEvent(e), e.id \notin StoredIds(s) PROVE Stuck(s, e)
    BY DEF Stuck
  <1>1. ~Conflicting(s, e) /\ ~AlreadyStored(s, e)
    BY DEF Conflicting, AlreadyStored
  <1>2. ~ReferenceMissing(s, e)
    BY DEF Validation, Conflicting
  <1>3. ~ReferenceHolds(s, e)
    BY <1>1, <1>2 DEF Validation, Admitted
  <1> QED
    BY <1>2, <1>3 DEF Stuck, ReferenceMissing, ReferenceHolds

(* A conflict lasts: the row that an id has does not change.               *)
LEMMA ConflictStays ==
  ASSUME NEW s \in Seq(Events), NEW e \in Events, Sound(s), VerifyEvent(e),
         e.id \in StoredIds(s) \/ ReferenceHolds(s, e),
         NEW f, Conflicting(s, f)
  PROVE  Conflicting(Put(s, e), f)
  BY PutKeepsRows DEF Conflicting

(* In a sound store the projection of active_events, which compares ids    *)
(* only, shows exactly the events that their own issuer has not revoked.   *)
THEOREM SoundProjection ==
  ASSUME NEW s \in Seq(Events), Sound(s), NEW subject, NEW kind
  PROVE  ActiveEvents(EventsAbout(s, subject), kind) = Unrevoked(s, subject, kind)
  <1> DEFINE about == EventsAbout(s, subject)
  <1>1. ASSUME NEW e \in about, NEW r \in about,
               r.kind \in RevocationsOf(kind), r.field = e.id
        PROVE  r.subject = subject /\ r.issuer = e.issuer
    <2>1. PICK i \in DOMAIN s : s[i] = r
      BY <1>1 DEF EventsAbout, Range
    <2>2. Refers(s[i])
      BY <1>1, <2>1 DEF Refers, RevocationsOf
    <2>3. PICK j \in 1 .. i - 1 : s[j].id = s[i].field /\ s[j].issuer = s[i].issuer
      BY <2>2 DEF Sound, RevocationsResolved
    <2>4. PICK k \in DOMAIN s : s[k] = e
      BY <1>1 DEF EventsAbout, Range
    <2>5. j \in DOMAIN s
      OBVIOUS
    <2>6. j = k
      BY <1>1, <2>1, <2>3, <2>4, <2>5 DEF Sound, HasUniqueIds
    <2> QED
      BY <1>1, <2>1, <2>3, <2>4, <2>6 DEF EventsAbout
  <1>2. ASSUME NEW e \in about
        PROVE  e.id \in RevokedIds(about, kind) <=>
                 \E r \in Range(s) : /\ r.kind \in RevocationsOf(kind)
                                     /\ r.field = e.id
                                     /\ r.subject = subject
                                     /\ r.issuer = e.issuer
    <2>1. e.id \in RevokedIds(about, kind) <=>
            \E r \in about : r.kind \in RevocationsOf(kind) /\ r.field = e.id
      BY DEF RevokedIds
    <2>2. \A r : r \in about <=> r \in Range(s) /\ r.subject = subject
      BY DEF EventsAbout
    <2> QED
      BY <1>1, <1>2, <2>1, <2>2
  <1>3. \A e : e \in about <=> e \in Range(s) /\ e.subject = subject
    BY DEF EventsAbout
  <1> QED
    BY <1>2, <1>3 DEF ActiveEvents, Unrevoked

(* What is stored in s under an id that t has as well is the same in t, up *)
(* to the signature.                                                       *)
LEMMA Counterpart ==
  ASSUME NEW s, NEW t, OnlyVerified(s), OnlyVerified(t),
         StoredIds(s) \subseteq StoredIds(t), NEW e \in Range(s)
  PROVE  \E f \in Range(t) : /\ f.id = e.id
                             /\ f.kind = e.kind
                             /\ f.subject = e.subject
                             /\ f.issuer = e.issuer
                             /\ f.field = e.field
  <1>1. PICK i \in DOMAIN s : s[i] = e
    BY DEF Range
  <1>2. PICK j \in DOMAIN t : t[j].id = e.id
    BY <1>1 DEF StoredIds
  <1>3. e \in Genuine /\ t[j] \in Genuine
    BY <1>1, <1>2 DEF OnlyVerified, VerifyEvent
  <1>4. t[j] \in Range(t)
    BY <1>2 DEF Range
  <1> QED
    BY <1>2, <1>3, <1>4, EventsAssumption

(* Of two stores with the same ids, one shows nothing as active that the   *)
(* other does not show.                                                    *)
LEMMA SameIdsAgree ==
  ASSUME NEW s, NEW t, OnlyVerified(s), OnlyVerified(t), StoredIds(s) = StoredIds(t),
         NEW subject, NEW kind, NEW e \in ActiveEvents(EventsAbout(s, subject), kind)
  PROVE  \E f \in ActiveEvents(EventsAbout(t, subject), kind) : f.id = e.id
  <1>1. /\ e \in Range(s) /\ e.subject = subject /\ e.kind = kind
        /\ e.id \notin RevokedIds(EventsAbout(s, subject), kind)
    BY DEF ActiveEvents, EventsAbout
  <1>2. PICK f \in Range(t) : f.id = e.id /\ f.kind = e.kind /\ f.subject = e.subject
    BY <1>1, Counterpart
  <1>3. ASSUME f.id \in RevokedIds(EventsAbout(t, subject), kind) PROVE FALSE
    <2>1. PICK r \in EventsAbout(t, subject) :
            r.kind \in RevocationsOf(kind) /\ r.field = f.id
      BY <1>3 DEF RevokedIds
    <2>2. r \in Range(t) /\ r.subject = subject
      BY <2>1 DEF EventsAbout
    <2>3. PICK q \in Range(s) : q.kind = r.kind /\ q.subject = r.subject /\ q.field = r.field
      BY <2>2, Counterpart
    <2>4. q \in EventsAbout(s, subject)
      BY <2>2, <2>3 DEF EventsAbout
    <2>5. e.id \in RevokedIds(EventsAbout(s, subject), kind)
      BY <1>2, <2>1, <2>3, <2>4 DEF RevokedIds
    <2> QED
      BY <1>1, <2>5
  <1>4. f \in ActiveEvents(EventsAbout(t, subject), kind)
    BY <1>1, <1>2, <1>3 DEF ActiveEvents, EventsAbout
  <1> QED
    BY <1>2, <1>4
==============================================================================
