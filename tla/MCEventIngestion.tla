-------------------------- MODULE MCEventIngestion --------------------------
(***************************************************************************)
(* Instances of EventIngestion for TLC: two identities, a claim that can   *)
(* be signed in two ways, an attestation, and revocations of them that are *)
(* in order, about the wrong subject, by the wrong issuer, or of the wrong *)
(* kind of event.                                                          *)
(***************************************************************************)
EXTENDS EventIngestion

CONSTANTS alice, bob, none, p1, p2

Event(id, kind, subject, issuer, field, signature) ==
  [id |-> id, kind |-> kind, subject |-> subject, issuer |-> issuer,
   field |-> field, signature |-> signature]

Claim          == Event("c", "claim.added", alice, alice, "text", "s1")
ClaimResigned  == [Claim EXCEPT !.signature = "s2"]
ClaimForged    == [Claim EXCEPT !.id = "f"]
Attestation    == Event("t", "attestation.issued", bob, alice, "text", "s1")
Revocation     == Event("r", "claim.revoked", alice, alice, "c", "s1")
WrongSubject   == Event("rs", "claim.revoked", bob, alice, "c", "s1")
WrongIssuer    == Event("ri", "claim.revoked", alice, bob, "c", "s1")
WrongKind      == Event("rk", "claim.revoked", bob, alice, "t", "s1")
OfRevocation   == Event("rr", "claim.revoked", alice, alice, "r", "s1")
AttRevocation  == Event("tr", "attestation.revoked", bob, alice, "t", "s1")
NotSelf        == Event("n", "identity.created", alice, bob, "text", "s1")

(* One process: every kind of event on its own, and in batches of up to    *)
(* three those that matter to each other.                                  *)
BatchEvents ==
  {Claim, ClaimResigned, ClaimForged, Attestation, Revocation, WrongSubject,
   WrongIssuer, WrongKind, OfRevocation, AttRevocation, NotSelf}
BatchGenuine == BatchEvents \ {ClaimForged}
BatchBatches ==
  {<< AttRevocation, Attestation >>, << WrongKind, Attestation >>} \cup
  UNION {[1 .. n -> {Claim, ClaimResigned, ClaimForged, Revocation, WrongSubject,
                     OfRevocation}] : n \in 0 .. 2} \cup
  [1 .. 3 -> {Claim, ClaimResigned, Revocation, WrongSubject, OfRevocation}]

(* Two processes, batches of up to two events. *)
SharedEvents == {Claim, ClaimResigned, Revocation, WrongIssuer, WrongSubject}
SharedGenuine == SharedEvents
SharedBatches ==
  {<< e, f >> : e, f \in {Claim, ClaimResigned, Revocation}} \
    {<< e, e >> : e \in {ClaimResigned, Revocation}}

OneProc == {p1}
TwoProcs == {p1, p2}
==============================================================================
