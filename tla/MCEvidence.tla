----------------------------- MODULE MCEvidence -----------------------------
(***************************************************************************)
(* Instances of Evidence for TLC: claims and attestations about alice that *)
(* are revoked, a policy for each kind of requirement, and the bundles     *)
(* that can be made by leaving out or altering events.                     *)
(***************************************************************************)
EXTENDS Evidence

CONSTANTS alice, bob, carol, none

Event(id, kind, subject, issuer, field, signature) ==
  [id |-> id, kind |-> kind, subject |-> subject, issuer |-> issuer,
   field |-> field, signature |-> signature]

Claim         == Event("c", "claim.added", alice, alice, "site", "s1")
Revocation    == Event("r", "claim.revoked", alice, alice, "c", "s1")
Again         == Event("c2", "claim.added", alice, alice, "site", "s1")
Attestation   == Event("t", "attestation.issued", alice, bob, "known", "s1")
AttRevocation == Event("tr", "attestation.revoked", alice, bob, "t", "s1")
ByCarol       == Event("u", "attestation.issued", alice, carol, "known", "s1")
ClaimForged   == [Claim EXCEPT !.field = "other"]

(* In the order created_at, id the revocation of the claim comes first;    *)
(* the fourth event is of the same second as the fifth.                    *)
NodeGenuine == {Claim, Revocation, Again, Attestation, AttRevocation, ByCarol}
NodeEvents  == NodeGenuine \cup {ClaimForged}
NodeCreatedAt ==
  [e \in NodeEvents |->
     CASE e \in {Revocation, Claim, ClaimForged} -> 1
       [] e = Attestation -> 2
       [] e \in {Again, AttRevocation} -> 3
       [] OTHER -> 4]
NodeIdOrder ==
  [e \in NodeEvents |->
     CASE e = Revocation -> 1 [] e \in {Claim, ClaimForged} -> 2 [] e = Attestation -> 3
       [] e = Again -> 4 [] e = AttRevocation -> 5 [] OTHER -> 6]

(* Whatever a file can say of four events, and of another version or       *)
(* subject than the one asked for.                                         *)
Bundle(version, subject, events, claims, attestations) ==
  [version |-> version, subject |-> subject, events |-> events,
   active_claims |-> claims, active_attestations |-> attestations]

FileBundles ==
  {Bundle(Version, alice, events, claims, attestations) :
     events \in SUBSET {Claim, ClaimForged, Revocation, Attestation},
     claims \in {{}, {Claim}, {ClaimForged}},
     attestations \in {{}, {Attestation}}}
  \cup {Bundle("unknown", alice, {Claim}, {Claim}, {}), Bundle(Version, bob, {}, {}, {})}

NoBundles == {}

TestSubjects == {alice, bob}

ByIssuer  == [claim |-> "known", issuer |-> {carol}]
ByTrusted == [claim |-> "known", issuer |-> {}]

Policy(claims, attestations) ==
  [trusted_issuers |-> {bob}, required_claims |-> claims,
   accepted_attestations |-> attestations]

TestPolicies ==
  {Policy({{"site"}}, {ByTrusted}), Policy({{"site"}}, {}), Policy({}, {ByIssuer, ByTrusted})}
==============================================================================
