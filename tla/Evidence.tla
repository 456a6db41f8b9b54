------------------------------ MODULE Evidence ------------------------------
(***************************************************************************)
(* How a client gets evidence about a subject from a node or from a file,  *)
(* and what it decides on it: bundles and trust policies of the command    *)
(* line client (crates/tip-cli/src/main.rs), and the three projections of  *)
(* a node that it asks for (crates/tip-node/src/http/mod.rs).              *)
(*                                                                         *)
(* A bundle is put together from three requests, and between them the node *)
(* goes on storing events.                                                 *)
(*                                                                         *)
(*   log      the events of the node                                       *)
(*   client   the command that runs:                                       *)
(*     step     "idle"; before GET .../events ("events"), .../claims       *)
(*              ("claims"), .../attestations ("attestations"); with the    *)
(*              bundle complete ("evaluate"); with an answer ("trusted",   *)
(*              "distrusted"), or the bundle turned down ("refused");      *)
(*              before the next GET /events of a list ("page"), and with   *)
(*              its last page ("listed")                                   *)
(*     source   "node" or "file", or "query" for a list                    *)
(*     subject, policy                                                     *)
(*     bundle   the EventBundle; of a list the events so far               *)
(*     at       how long the log was when each request was answered; of a  *)
(*              list, when it was begun.  The client does not know: only   *)
(*              the properties look at it.                                 *)
(***************************************************************************)
EXTENDS EventStore, FiniteSets

CONSTANTS
  CreatedAt, \* the second in which each event says that it was made
  IdOrder,   \* the place of its id in the order of strings
  Subjects,  \* the identities that clients ask about, or have bundles of
  Limit,     \* the events that a query without a limit returns, 500
  Bundles,   \* the bundles that clients have in files
  Policies   \* the trust policies they use

Version == "tip-bundle/0.1"

EventBundle ==
  [version : {Version, "unknown"}, subject : Subjects \cup {Absent}, events : SUBSET Events,
   active_claims : SUBSET Events, active_attestations : SUBSET Events]

ASSUME EvidenceAssumption ==
  /\ CreatedAt \in [Events -> Nat]
  /\ IdOrder \in [Events -> Nat]
  /\ \A e, f \in Events : e.id # f.id => IdOrder[e] # IdOrder[f]
  /\ Bundles \subseteq EventBundle
  /\ Limit \in Nat \ {0}

VARIABLES log, client

vars == << log, client >>

Node == INSTANCE EventLog

NoBundle ==
  [version |-> Version, subject |-> Absent, events |-> {}, active_claims |-> {},
   active_attestations |-> {}]

NoPolicy ==
  [trusted_issuers |-> {}, required_claims |-> {}, accepted_attestations |-> {}]

NoCommand ==
  [step |-> "idle", source |-> "node", subject |-> Absent, policy |-> NoPolicy,
   bundle |-> NoBundle, at |-> [events |-> 0, claims |-> 0, attestations |-> 0]]

Init == Node!Init /\ client = NoCommand

-----------------------------------------------------------------------------
(* What the node answers, when its log is s. *)

(* ORDER BY created_at, id.                                                *)
Precedes(e, f) ==
  \/ CreatedAt[e] < CreatedAt[f]
  \/ CreatedAt[e] = CreatedAt[f] /\ IdOrder[e] < IdOrder[f]

(* LIMIT: those that fewer than Limit others precede.                      *)
First(events) ==
  {e \in events : Cardinality({f \in events : Precedes(f, e)}) < Limit}

(* The first events about a subject.  The faulty form is one event short.  *)
IdentityEventsShort(s, subject) ==
  LET about == EventsAbout(s, subject)
  IN {e \in about : Cardinality({f \in about : Precedes(f, e)}) + 1 < Limit}

IdentityEvents(s, subject) == First(EventsAbout(s, subject))

(***************************************************************************)
(* GET /events, for one subject or for all, and for what comes behind the  *)
(* events that the client has: after_created_at and after_id are those of  *)
(* the last one.  The filters by issuer and by type would be two further   *)
(* conditions like that on the subject.  The faulty form does without      *)
(* after_id.                                                               *)
(***************************************************************************)
Selected(s, subject) == IF subject = Absent THEN Range(s) ELSE EventsAbout(s, subject)

PageOfLaterSeconds(s, subject, got) ==
  First({e \in Selected(s, subject) : \A f \in got : CreatedAt[f] < CreatedAt[e]})

Page(s, subject, got) ==
  First({e \in Selected(s, subject) : \A f \in got : Precedes(f, e)})

IdentityClaims(s, subject) == ActiveEvents(EventsAbout(s, subject), "claim.added")

IdentityAttestations(s, subject) ==
  ActiveEvents(EventsAbout(s, subject), "attestation.issued")

-----------------------------------------------------------------------------
(* Bundles. *)

EventIds(events) == {e.id : e \in events}

(* active_bundle_events does for a bundle what active_events does for a    *)
(* node.                                                                   *)
ActiveBundleEvents(events, kind) == ActiveEvents(events, kind)

(***************************************************************************)
(* EventBundle::verify.  Two faulty forms leave out one of the conditions  *)
(* on what is active: that it be among the events, and that it be what the *)
(* events say.  The third leaves out both.                                 *)
(***************************************************************************)
VerifySignatures(b) ==
  /\ b.version = Version
  /\ \A e \in b.events : e.subject = b.subject /\ VerifyEvent(e)

VerifyIdsOnly(b) ==
  /\ b.version = Version
  /\ \A e \in b.events : e.subject = b.subject /\ VerifyEvent(e)
  /\ EventIds(b.active_claims) = EventIds(ActiveBundleEvents(b.events, "claim.added"))
  /\ EventIds(b.active_attestations) =
       EventIds(ActiveBundleEvents(b.events, "attestation.issued"))

VerifyPresence(b) ==
  /\ b.version = Version
  /\ \A e \in b.events : e.subject = b.subject /\ VerifyEvent(e)
  /\ b.active_claims \cup b.active_attestations \subseteq b.events

Verify(b) ==
  /\ b.version = Version
  /\ \A e \in b.events : e.subject = b.subject /\ VerifyEvent(e)
  /\ b.active_claims \cup b.active_attestations \subseteq b.events
  /\ EventIds(b.active_claims) = EventIds(ActiveBundleEvents(b.events, "claim.added"))
  /\ EventIds(b.active_attestations) =
       EventIds(ActiveBundleEvents(b.events, "attestation.issued"))

-----------------------------------------------------------------------------
(* Policies.  A required claim is the set of the statements that meet it:  *)
(* a claim type with one value, or with any.  The issuer of an accepted    *)
(* attestation is a set with one element, or empty when it is left out.    *)

ClaimMatches(claim, requirement) == claim.field \in requirement

AttestationMatches(attestation, requirement, trusted) ==
  /\ attestation.field = requirement.claim
  /\ attestation.issuer \in
       IF requirement.issuer = {} THEN trusted ELSE requirement.issuer

(* evaluate_trust: there is nothing to warn of. *)
EvaluateTrust(policy, claims, attestations) ==
  /\ policy.required_claims # {} \/ policy.accepted_attestations # {}
  /\ \A requirement \in policy.required_claims :
       \E claim \in claims : ClaimMatches(claim, requirement)
  /\ \A requirement \in policy.accepted_attestations :
       \E attestation \in attestations :
         AttestationMatches(attestation, requirement, policy.trusted_issuers)

-----------------------------------------------------------------------------
(* Actions. *)

(* The node stores a further event, whoever it comes from. *)
NodeStores == Node!Next /\ UNCHANGED client

(* tip trust evaluate, with the evidence of a node. *)
Evaluate(subject, policy) ==
  /\ client.step = "idle"
  /\ client' = [NoCommand EXCEPT !.step = "events", !.subject = subject,
                                 !.policy = policy]
  /\ UNCHANGED log

(* tip trust evaluate --bundle: read_bundle. *)
EvaluateBundle(subject, policy, bundle) ==
  /\ client.step = "idle"
  /\ client' = [NoCommand EXCEPT !.step = "evaluate", !.source = "file",
                                 !.subject = subject, !.policy = policy,
                                 !.bundle = bundle]
  /\ UNCHANGED log

GetEvents ==
  /\ client.step = "events"
  /\ client' =
       [client EXCEPT
          !.step = "claims",
          !.bundle = [NoBundle EXCEPT !.subject = client.subject,
                                      !.events = IdentityEvents(log, client.subject)],
          !.at.events = Len(log)]
  /\ UNCHANGED log

GetClaims ==
  /\ client.step = "claims"
  /\ client' = [client EXCEPT
                  !.step = "attestations",
                  !.bundle.active_claims = IdentityClaims(log, client.subject),
                  !.at.claims = Len(log)]
  /\ UNCHANGED log

(* The faulty form asks for the events once more at the end. *)
GetAttestationsAnew ==
  /\ client.step = "attestations"
  /\ client' = [client EXCEPT
                  !.step = "evaluate",
                  !.bundle.active_attestations = IdentityAttestations(log, client.subject),
                  !.bundle.events = IdentityEvents(log, client.subject),
                  !.at.attestations = Len(log),
                  !.at.events = Len(log)]
  /\ UNCHANGED log

GetAttestations ==
  /\ client.step = "attestations"
  /\ client' = [client EXCEPT
                  !.step = "evaluate",
                  !.bundle.active_attestations = IdentityAttestations(log, client.subject),
                  !.at.attestations = Len(log)]
  /\ UNCHANGED log

(* into_evidence_for_subject, then evaluate_trust. *)
Answer ==
  LET b == client.bundle IN
  IF client.subject = b.subject /\ Verify(b)
    THEN IF EvaluateTrust(client.policy, b.active_claims, b.active_attestations)
           THEN "trusted" ELSE "distrusted"
    ELSE "refused"

Decide ==
  /\ client.step = "evaluate"
  /\ client' = [client EXCEPT !.step = Answer]
  /\ UNCHANGED log

(* tip query, again and again, until a page is not full.                   *)
Query(subject) ==
  /\ client.step = "idle"
  /\ client' = [NoCommand EXCEPT !.step = "page", !.source = "query", !.subject = subject,
                                 !.at = [events |-> Len(log), claims |-> Len(log),
                                         attestations |-> Len(log)]]
  /\ UNCHANGED log

GetPage ==
  /\ client.step = "page"
  /\ LET page == Page(log, client.subject, client.bundle.events) IN
       client' = [client EXCEPT
                    !.step = IF Cardinality(page) < Limit THEN "listed" ELSE "page",
                    !.bundle.events = @ \cup page]
  /\ UNCHANGED log

(* The command has printed its answer, or a request has failed. *)
Exit ==
  /\ client.step # "idle"
  /\ client' = NoCommand
  /\ UNCHANGED log

Command ==
  \/ \E subject \in Subjects, policy \in Policies :
       \/ Evaluate(subject, policy)
       \/ \E bundle \in Bundles : EvaluateBundle(subject, policy, bundle)
  \/ \E subject \in Subjects \cup {Absent} : Query(subject)
  \/ GetPage
  \/ GetEvents
  \/ GetClaims
  \/ GetAttestations
  \/ Decide
  \/ Exit

Next == NodeStores \/ Command

Spec == Init /\ [][Next]_vars

-----------------------------------------------------------------------------
(* Properties. *)

Answers == {"trusted", "distrusted"}

(* The log holds events, the client has a bundle of events, and the        *)
(* requests were answered one after the other by a log that only grows.    *)
Steps ==
  {"idle", "events", "claims", "attestations", "evaluate", "refused", "page", "listed"}
    \cup Answers

ClientState ==
  [step : Steps, source : {"node", "file", "query"}, subject : Subjects \cup {Absent},
   policy : Policies \cup {NoPolicy}, bundle : EventBundle,
   at : [events : Nat, claims : Nat, attestations : Nat]]

TypeOK ==
  /\ log \in Seq(Events)
  /\ client \in ClientState
  /\ client.at.events <= Len(log)
  /\ client.step \notin {"events", "claims"} => client.at.events <= client.at.claims
  /\ client.step \notin {"events", "claims", "attestations"} =>
       client.at.claims <= client.at.attestations

(* The log as it was when the events were listed, and what was active in   *)
(* it, by the issuers' own revocations.                                    *)
Snapshot == SubSeq(log, 1, client.at.events)

ActiveThen(kind) == Unrevoked(Snapshot, client.subject, kind)

Complete == Cardinality(EventsAbout(Snapshot, client.subject)) <= Limit

(* Trust that rests on a node rests on claims and attestations that were   *)
(* all active at one moment, however the three requests interleave with    *)
(* revocations, and however many events there are (create_bundle, verify). *)
TrustJustified ==
  client.step = "trusted" /\ client.source = "node" =>
    EvaluateTrust(client.policy, ActiveThen("claim.added"),
                  ActiveThen("attestation.issued"))

(* As long as the list of events is complete, the answer is the one that   *)
(* the whole store gave at that moment, be it yes or no.                   *)
AnswerExact ==
  client.step \in Answers /\ client.source = "node" /\ Complete =>
    (client.step = "trusted" <=>
       EvaluateTrust(client.policy, ActiveThen("claim.added"),
                     ActiveThen("attestation.issued")))

(* Evidence is only refused if the node stored an event between the        *)
(* requests, or if the list of events was cut off.                         *)
QuietNodeAnswers ==
  client.step = "refused" /\ client.source = "node" =>
    client.at.events # client.at.attestations \/ ~Complete

(* Whatever a bundle comes from, what a decision rests on are verified     *)
(* events about the subject that no event of the bundle revokes.           *)
EvidenceStands ==
  client.step \in Answers =>
    \A e \in client.bundle.active_claims \cup client.bundle.active_attestations :
      /\ VerifyEvent(e)
      /\ e.subject = client.subject
      /\ ~ \E r \in client.bundle.events : r.kind \in RevocationsOf(e.kind) /\ r.field = e.id

(* A list that was read to the end lacks no event that was there when it   *)
(* was begun, although events with any created_at are stored between the   *)
(* pages and many may be of the same second (query, SPEC.md, "Event        *)
(* listing cursor").                                                       *)
ListsComplete ==
  client.step = "listed" => Selected(Snapshot, client.subject) \subseteq client.bundle.events

(* What bundle validation asks for of a bundle made by the client itself   *)
(* while the node stores nothing (SPEC.md, "active_claims exactly matches  *)
(* the active claim projection reconstructed from events").                *)
CreatedBundlesVerify ==
  client.step = "evaluate" /\ client.source = "node"
      /\ client.at.events = client.at.attestations =>
    Verify(client.bundle)
==============================================================================
