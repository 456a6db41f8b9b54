----------------------------- MODULE EventStore -----------------------------
(***************************************************************************)
(* The events table of a node, and the use cases that read or extend it in *)
(* one go (crates/tip-node/src/adapters/sqlite_event_store.rs and          *)
(* crates/tip-core/src/use_cases/mod.rs).                                  *)
(*                                                                         *)
(* Rows are never updated or deleted and a new row gets MAX(sequence) + 1, *)
(* so the table is a sequence of events in which the position of an event  *)
(* is its sequence number.  Every operator takes that sequence, s.         *)
(***************************************************************************)
EXTENDS TipEvents, Integers

StoredIds(s) == {s[i].id : i \in DOMAIN s}

(* EventStore::get, for an id that is stored. *)
Get(s, id) == s[CHOOSE i \in DOMAIN s : s[i].id = id]

(***************************************************************************)
(* append: INSERT OR IGNORE, so an id that is present keeps its first row. *)
(* In the faulty form every append adds a row.                             *)
(***************************************************************************)
PutAlways(s, e) == Append(s, e)

Put(s, e) == IF e.id \in StoredIds(s) THEN s ELSE Append(s, e)

(***************************************************************************)
(* list_after_sequence: at most limit rows with a sequence above after, in *)
(* order.                                                                  *)
(***************************************************************************)
LastListed(s, after, limit) ==
  IF after + limit < Len(s) THEN after + limit ELSE Len(s)

ListAfter(s, after, limit) == SubSeq(s, after + 1, LastListed(s, after, limit))

(* event_already_stored: the stored event, signature included, is e. *)
AlreadyStored(s, e) == e.id \in StoredIds(s) /\ Get(s, e.id) = e

(* event_already_stored: another event is stored under the id of e. *)
Conflicting(s, e) == e.id \in StoredIds(s) /\ Get(s, e.id) # e

(* Revocations are the events that refer to another one. *)
Refers(e) == e.kind \in RevocationKind

(* require_referenced_event finds nothing. *)
ReferenceMissing(s, e) == Refers(e) /\ e.field \notin StoredIds(s)

(* validate_event_references accepts e. *)
ReferenceHolds(s, e) ==
  Refers(e) => /\ e.field \in StoredIds(s)
               /\ ReferenceMatches(e, Get(s, e.field))

(***************************************************************************)
(* validate_event_for_submission when nothing else touches the store while *)
(* it runs: what it answers for e.                                         *)
(***************************************************************************)
Admitted(s, e) == AlreadyStored(s, e) \/ ReferenceHolds(s, e)

Validation(s, e) ==
  CASE ~VerifyEvent(e) -> "invalid"
    [] VerifyEvent(e) /\ Conflicting(s, e) -> "conflict"
    [] VerifyEvent(e) /\ e.id \notin StoredIds(s) /\ ReferenceMissing(s, e) -> "missing"
    [] OTHER -> IF Admitted(s, e) THEN "accepted" ELSE "invalid"

(* query with a subject filter and no effective limit. *)
EventsAbout(s, subject) == {e \in Range(s) : e.subject = subject}

(***************************************************************************)
(* active_events on the rows of one subject: those of the active kind that *)
(* no revocation of the matching kind names.                               *)
(***************************************************************************)
RevocationsOf(kind) == {k \in RevocationKind : RevokedKind(k) = kind}

RevokedIds(events, kind) ==
  {r.field : r \in {e \in events : e.kind \in RevocationsOf(kind)}}

ActiveEvents(events, kind) ==
  {e \in events : e.kind = kind /\ e.id \notin RevokedIds(events, kind)}

(***************************************************************************)
(* What a store must be for the projections of a node, and the evidence it *)
(* hands out, to mean anything.                                            *)
(***************************************************************************)

(* An id names one event: a later event never takes an id that is stored   *)
(* (SPEC.md, "Same id, different event content").                          *)
HasUniqueIds(s) == \A i, j \in DOMAIN s : s[i].id = s[j].id => i = j

(* Every stored revocation was preceded by an event of the kind it takes   *)
(* back, about the same subject and by the same issuer.                    *)
RevocationsResolved(s) ==
  \A i \in DOMAIN s : Refers(s[i]) =>
    \E j \in 1 .. i - 1 :
      /\ s[j].id = s[i].field
      /\ s[j].kind = RevokedKind(s[i].kind)
      /\ s[j].subject = s[i].subject
      /\ s[j].issuer = s[i].issuer

(* Only verified events are stored. *)
OnlyVerified(s) == \A i \in DOMAIN s : VerifyEvent(s[i])

Sound(s) == HasUniqueIds(s) /\ RevocationsResolved(s) /\ OnlyVerified(s)

(* The events that issuer and subject alike would call active: nothing     *)
(* stored by their own issuer about their own subject takes them back.     *)
Unrevoked(s, subject, kind) ==
  {e \in Range(s) :
     /\ e.kind = kind
     /\ e.subject = subject
     /\ ~ \E r \in Range(s) : /\ r.kind \in RevocationsOf(kind)
                              /\ r.field = e.id
                              /\ r.subject = subject
                              /\ r.issuer = e.issuer}
==============================================================================
