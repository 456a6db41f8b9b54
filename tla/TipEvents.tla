------------------------------ MODULE TipEvents ------------------------------
(***************************************************************************)
(* The events of TIP 0.1 as far as a node looks at them                    *)
(* (crates/tip-core/src/domain/mod.rs).                                    *)
(*                                                                         *)
(* An event is a record with at least the fields                           *)
(*   id         the digest that names the event                            *)
(*   kind       its EventType                                              *)
(*   subject, issuer                                                       *)
(*   field      the one required string of its payload: the id of the      *)
(*              revoked event for a revocation, the statement for a claim  *)
(*              or an attestation, Absent when it is missing or empty      *)
(*   signature                                                             *)
(* Its other data (version, created_at, the rest of the payload, canonical *)
(* JSON) only matter through the outcome of the checks on them, which is   *)
(* the set Genuine.                                                        *)
(***************************************************************************)
EXTENDS Naturals, Sequences, Functions

CONSTANTS
  Events,    \* the signed events clients and peers can send
  Genuine,   \* those with a supported version, legal data, id equal to the
             \* digest of the unsigned event, and a signature that verifies
  Absent     \* the value of field when the payload lacks its string

(***************************************************************************)
(* SHA-256 is taken to be collision free: two genuine events of one id     *)
(* have the same unsigned content.  Nothing makes the signature unique, so *)
(* they may still be different events.                                     *)
(***************************************************************************)
ASSUME EventsAssumption ==
  /\ Genuine \subseteq Events
  /\ \A e, f \in Genuine : e.id = f.id =>
       /\ e.kind = f.kind
       /\ e.subject = f.subject
       /\ e.issuer = f.issuer
       /\ e.field = f.field

RevocationKind == {"claim.revoked", "attestation.revoked"}

EventType ==
  {"identity.created", "claim.added", "attestation.issued"} \cup RevocationKind

(* The kind of event that a revocation of kind k takes back. *)
RevokedKind(k) ==
  IF k = "claim.revoked" THEN "claim.added" ELSE "attestation.issued"

(* UnsignedEvent::validate_shape, the rules that depend on the kind. *)
ValidShape(e) ==
  /\ e.kind = "identity.created" => e.subject = e.issuer
  /\ e.kind # "identity.created" => e.field # Absent

(* verify_event: shape, id and signature. *)
VerifyEvent(e) ==
  /\ ValidShape(e)
  /\ e \in Genuine

(***************************************************************************)
(* The three checks of validate_event_references on the event r that the   *)
(* revocation e refers to.  The faulty forms leave one of them out.        *)
(***************************************************************************)
ReferenceMatchesAnySubject(e, r) ==
  /\ r.kind = RevokedKind(e.kind)
  /\ r.issuer = e.issuer

ReferenceMatchesAnyIssuer(e, r) ==
  /\ r.kind = RevokedKind(e.kind)
  /\ r.subject = e.subject

ReferenceMatches(e, r) ==
  /\ r.kind = RevokedKind(e.kind)
  /\ r.subject = e.subject
  /\ r.issuer = e.issuer
==============================================================================
