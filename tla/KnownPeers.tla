----------------------------- MODULE KnownPeers -----------------------------
(***************************************************************************)
(* What nodes know of other nodes: the table known_peers, and the three    *)
(* that write to it (crates/tip-node): a synchronisation, when it checks   *)
(* the identity of a configured peer and when it takes over the candidates *)
(* that the peer advertises (src/main.rs), and POST /peers/announce        *)
(* (src/http/mod.rs).                                                      *)
(*                                                                         *)
(*   known[n][u]   the row of node n for URL u, NoRow when there is none.  *)
(*                 A row has no times; verified says that last_verified_at *)
(*                 is not NULL.                                            *)
(*   request[h]    the URL whose GET /info the handler h of an             *)
(*                 announcement awaits, Absent when it awaits none         *)
(*   run[w]        the local variables of a run of sync_peers:             *)
(*     phase   "idle"; in verify_peer_identity before GET /info ("verify") *)
(*             and before the INSERT that records a failure ("record");    *)
(*             in sync_from_peer_with_state ("pull"); in                   *)
(*             ingest_peer_candidates before GET /peers ("gossip"), before *)
(*             list_known_peers ("list"), and at the candidates ("ingest") *)
(*     left        the peers still to do, the current one first            *)
(*     row         the failed update that is about to be written           *)
(*     candidates  those not yet looked at                                 *)
(*     seen        known_urls                                              *)
(*   faults        how many things have gone wrong so far                  *)
(*                                                                         *)
(* Events are left out: PeerSync has them.                                 *)
(***************************************************************************)
EXTENDS Naturals, Sequences, FiniteSets

CONSTANTS
  Nodes,        \* nodes that run this program
  Urls,         \* spellings of addresses
  Absent,       \* no value
  Canon,        \* what Url::parse makes of each, Absent for an invalid one
  UrlOrder,     \* the place of each in the order of strings
  NodeAt,       \* the node that answers there, or Absent
  Keys,         \* node public keys
  OwnKey,       \* the one of each node
  Answers,      \* the keys that GET /info may show there, Absent for failures
  Advertised,   \* what GET /peers answers where no node of ours is
  Syncers,      \* the threads that synchronise
  Handlers,     \* the handlers of POST /peers/announce
  Home,         \* the node each syncer and handler belongs to
  Configured,   \* the peers of each syncer, in the order of their URLs
  Pin,          \* its expected_node_public_key for each URL, or Absent
  Locking,      \* the syncers that hold the store mutex of their node
  AdHoc,        \* the syncers that were given --peer, and ingest nothing
  Announced,    \* the URLs that clients announce
  ListLimit,    \* how many peers GET /peers returns, 500
  MaxFailures,  \* where failure_count stops counting in this model
  MaxFaults     \* how many things may go wrong

Candidate == [url : Urls, key : Keys \cup {Absent}]

ASSUME KnownPeersAssumption ==
  /\ Absent \notin Urls \cup Keys \cup Nodes
  /\ Canon \in [Urls -> Urls \cup {Absent}]
  /\ \A u \in Urls : Canon[u] # Absent => Canon[Canon[u]] = Canon[u]
  /\ UrlOrder \in [Urls -> Nat]
  /\ NodeAt \in [Urls -> Nodes \cup {Absent}]
  /\ OwnKey \in [Nodes -> Keys]
  /\ Answers \in [Urls -> SUBSET (Keys \cup {Absent})]
  /\ \A u \in Urls : Canon[u] = Absent => Answers[u] \subseteq {Absent}
  /\ Advertised \in [Urls -> SUBSET Candidate]
  /\ Syncers \cap Handlers = {}
  /\ Home \in [Syncers \cup Handlers -> Nodes]
  /\ Configured \in [Syncers -> Seq(Urls)]
  /\ Pin \in [Syncers -> [Urls -> Keys \cup {Absent}]]
  /\ Locking \subseteq Syncers
  /\ Announced \subseteq Urls
  /\ ListLimit \in Nat \ {0}
  /\ MaxFailures \in Nat \ {0}
  /\ MaxFaults \in Nat

VARIABLES known, request, run, faults

vars == << known, request, run, faults >>

Status == {"unknown", "candidate", "reachable", "unreachable", "key_mismatch"}

KnownPeer ==
  [status : Status, key : Keys \cup {Absent}, verified : BOOLEAN,
   source : Urls \cup {Absent}, failures : 0 .. MaxFailures]

NoRow ==
  [status |-> "unknown", key |-> Absent, verified |-> FALSE, source |-> Absent, failures |-> 0]

NoRun ==
  [phase |-> "idle", left |-> << >>, row |-> NoRow, candidates |-> {}, seen |-> {}]

Init ==
  /\ known = [n \in Nodes |-> [u \in Urls |-> NoRow]]
  /\ request = [h \in Handlers |-> Absent]
  /\ run = [w \in Syncers |-> NoRun]
  /\ faults = 0

-----------------------------------------------------------------------------
(* The table. *)

Rows(n) == {u \in Urls : known[n][u] # NoRow}

(* The INSERT of upsert_known_peer: of an existing row it keeps the source *)
(* where the update has none.                                              *)
Upsert(n, u, row) ==
  known' = [known EXCEPT ![n][u] =
    [row EXCEPT !.source = IF row.source = Absent THEN known[n][u].source ELSE row.source]]

Count(failures) == IF failures < MaxFailures THEN failures + 1 ELSE failures

(***************************************************************************)
(* What GET /peers with the largest limit answers at u: the rows with the  *)
(* first URLs, whatever their status.  The faulty form stops one short.    *)
(***************************************************************************)
ListedShort(n) ==
  {u \in Rows(n) : Cardinality({v \in Rows(n) : UrlOrder[v] < UrlOrder[u]}) + 1 < ListLimit}

Listed(n) ==
  {u \in Rows(n) : Cardinality({v \in Rows(n) : UrlOrder[v] < UrlOrder[u]}) < ListLimit}

PeersAt(u) ==
  IF NodeAt[u] = Absent
    THEN Advertised[u]
    ELSE {[url |-> v, key |-> known[NodeAt[u]][v].key] : v \in Listed(NodeAt[u])}

(* The store mutex of the process that serves n is taken by a run. *)
Locked(n) == \E v \in Locking : Home[v] = n /\ run[v].phase # "idle"

-----------------------------------------------------------------------------
(* POST /peers/announce. *)

(* existing_known_peer finds nothing under the normalised URL.  The answer *)
(* to a known one changes nothing.                                         *)
Announce(h, u) ==
  /\ request[h] = Absent
  /\ Canon[u] # Absent
  /\ ~Locked(Home[h])
  /\ known[Home[h]][Canon[u]] = NoRow
  /\ request' = [request EXCEPT ![h] = Canon[u]]
  /\ UNCHANGED << known, run, faults >>

(***************************************************************************)
(* GET /info has shown another key than the node's own, and the candidate  *)
(* is stored.  The mutex was free while the handler waited for the answer. *)
(* The faulty form does not wait for it to be free again.                  *)
(***************************************************************************)
StoreAnnouncedUnlocked(h) ==
  /\ request[h] # Absent
  /\ \E key \in Answers[request[h]] \ {Absent, OwnKey[Home[h]]} :
       Upsert(Home[h], request[h],
              [NoRow EXCEPT !.status = "candidate", !.key = key, !.verified = TRUE])
  /\ request' = [request EXCEPT ![h] = Absent]
  /\ UNCHANGED << run, faults >>

StoreAnnounced(h) ==
  /\ request[h] # Absent
  /\ ~Locked(Home[h])
  /\ \E key \in Answers[request[h]] \ {Absent, OwnKey[Home[h]]} :
       Upsert(Home[h], request[h],
              [NoRow EXCEPT !.status = "candidate", !.key = key, !.verified = TRUE])
  /\ request' = [request EXCEPT ![h] = Absent]
  /\ UNCHANGED << run, faults >>

(* GET /info fails, shows the key of the node itself, or not the claimed   *)
(* one.                                                                    *)
RefuseAnnounced(h) ==
  /\ request[h] # Absent
  /\ request' = [request EXCEPT ![h] = Absent]
  /\ UNCHANGED << known, run, faults >>

-----------------------------------------------------------------------------
(* sync_peers. *)

Peer(w) == Head(run[w].left)

(* On to the next peer, if any; the faulty form goes on in any case. *)
NextPeerOn(w) ==
  run' = [run EXCEPT ![w] = [NoRun EXCEPT !.phase = "verify", !.left = Tail(run[w].left)]]

NextPeer(w) ==
  LET rest == Tail(run[w].left) IN
  run' = [run EXCEPT ![w] =
    IF rest = << >> THEN NoRun ELSE [NoRun EXCEPT !.phase = "verify", !.left = rest]]

StartSync(w) ==
  /\ run[w].phase = "idle"
  /\ Configured[w] # << >>
  /\ w \in Locking => ~Locked(Home[w])
  /\ run' = [run EXCEPT ![w] = [NoRun EXCEPT !.phase = "verify", !.left = Configured[w]]]
  /\ UNCHANGED << known, request, faults >>

(***************************************************************************)
(* verify_peer_identity: GET /info shows the pinned key, or any if there   *)
(* is no pin.  The faulty form compares nothing.                           *)
(***************************************************************************)
Fits(w, u, key) == Pin[w][u] \in {Absent, key}

VerifiedUnpinned(w) ==
  /\ run[w].phase = "verify"
  /\ \E key \in Answers[Peer(w)] \ {Absent} :
       Upsert(Home[w], Peer(w),
              [NoRow EXCEPT !.status = "reachable", !.key = key, !.verified = TRUE])
  /\ run' = [run EXCEPT ![w].phase = "pull"]
  /\ UNCHANGED << request, faults >>

Verified(w) ==
  /\ run[w].phase = "verify"
  /\ \E key \in Answers[Peer(w)] \ {Absent} :
       /\ Fits(w, Peer(w), key)
       /\ Upsert(Home[w], Peer(w),
                 [NoRow EXCEPT !.status = "reachable", !.key = key, !.verified = TRUE])
  /\ run' = [run EXCEPT ![w].phase = "pull"]
  /\ UNCHANGED << request, faults >>

(***************************************************************************)
(* It fails or shows another key: the SELECT of upsert_known_peer gets the *)
(* failures so far.  The faulty form does without it.                      *)
(***************************************************************************)
NotVerifiedAnew(w) ==
  /\ run[w].phase = "verify"
  /\ \E key \in Answers[Peer(w)] :
       /\ key # Absent => ~Fits(w, Peer(w), key)
       /\ run' = [run EXCEPT
            ![w].phase = "record",
            ![w].row = [NoRow EXCEPT
               !.status = IF key = Absent THEN "unreachable" ELSE "key_mismatch",
               !.key = key,
               !.verified = key # Absent,
               !.failures = 1]]
  /\ UNCHANGED << known, request, faults >>

NotVerified(w) ==
  /\ run[w].phase = "verify"
  /\ \E key \in Answers[Peer(w)] :
       /\ key # Absent => ~Fits(w, Peer(w), key)
       /\ run' = [run EXCEPT
            ![w].phase = "record",
            ![w].row = [NoRow EXCEPT
               !.status = IF key = Absent THEN "unreachable" ELSE "key_mismatch",
               !.key = key,
               !.verified = key # Absent,
               !.failures = Count(known[Home[w]][Peer(w)].failures)]]
  /\ UNCHANGED << known, request, faults >>

(* Its INSERT; the run ends, peers that are left included. *)
RecordFailure(w) ==
  /\ run[w].phase = "record"
  /\ Upsert(Home[w], Peer(w), run[w].row)
  /\ run' = [run EXCEPT ![w] = NoRun]
  /\ UNCHANGED << request, faults >>

(***************************************************************************)
(* GET /sync/events and GET /peers wait for the store mutex of the peer.   *)
(* When runs wait in a circle for each other's mutex, only the timeout of  *)
(* the HTTP client gets them out (see PeerSync).                           *)
(***************************************************************************)
WaitsFor(w) ==
  IF run[w].phase \in {"pull", "gossip"}
    THEN {v \in Locking : Home[v] = NodeAt[Peer(w)] /\ run[v].phase # "idle"}
    ELSE {}

WaitsInCircle(w) ==
  \E circle \in SUBSET Locking :
    w \in circle /\ \A v \in circle : WaitsFor(v) \cap circle # {}

(* sync_from_peer_with_state is done; a timeout ends the run. *)
Pulled(w) ==
  /\ run[w].phase = "pull"
  /\ IF WaitsInCircle(w)
       THEN run' = [run EXCEPT ![w] = NoRun]
       ELSE /\ ~Locked(NodeAt[Peer(w)])
            /\ IF w \in AdHoc THEN NextPeer(w) ELSE run' = [run EXCEPT ![w].phase = "gossip"]
  /\ UNCHANGED << known, request, faults >>

-----------------------------------------------------------------------------
(* ingest_peer_candidates. *)

(* GET /peers is answered, which takes the store mutex of the peer. *)
FetchPeers(w) ==
  /\ run[w].phase = "gossip"
  /\ ~Locked(NodeAt[Peer(w)])
  /\ run' = [run EXCEPT ![w].phase = "list", ![w].candidates = PeersAt(Peer(w))]
  /\ UNCHANGED << known, request, faults >>

(* GET /peers fails or times out, and the run goes on without it. *)
SkipGossip(w) ==
  /\ run[w].phase = "gossip"
  /\ IF WaitsInCircle(w) THEN UNCHANGED faults
                         ELSE faults < MaxFaults /\ faults' = faults + 1
  /\ NextPeer(w)
  /\ UNCHANGED << known, request >>

(***************************************************************************)
(* known_urls are the normalised URLs of all rows.  The faulty form takes  *)
(* the URLs of the rows as they are.                                       *)
(***************************************************************************)
ListKnownAsSpelled(w) ==
  /\ run[w].phase = "list"
  /\ run' = [run EXCEPT ![w].phase = "ingest", ![w].seen = Rows(Home[w])]
  /\ UNCHANGED << known, request, faults >>

ListKnown(w) ==
  /\ run[w].phase = "list"
  /\ run' = [run EXCEPT ![w].phase = "ingest",
                        ![w].seen = {Canon[u] : u \in Rows(Home[w])} \ {Absent}]
  /\ UNCHANGED << known, request, faults >>

(* A candidate that has a valid URL, which is neither that of the source   *)
(* nor among the known ones, is stored.  The faulty form compares nothing. *)
NewIfValid(w, u) == Canon[u] # Absent

New(w, u) == Canon[u] # Absent /\ Canon[u] # Canon[Peer(w)] /\ Canon[u] \notin run[w].seen

IngestNew(w, c) ==
  /\ run[w].phase = "ingest"
  /\ c \in run[w].candidates
  /\ New(w, c.url)
  /\ Upsert(Home[w], Canon[c.url],
            [NoRow EXCEPT !.status = "candidate", !.key = c.key, !.source = Canon[Peer(w)]])
  /\ run' = [run EXCEPT ![w].candidates = @ \ {c}, ![w].seen = @ \cup {Canon[c.url]}]
  /\ UNCHANGED << request, faults >>

IgnoreCandidate(w, c) ==
  /\ run[w].phase = "ingest"
  /\ c \in run[w].candidates
  /\ ~New(w, c.url)
  /\ run' = [run EXCEPT ![w].candidates = @ \ {c}]
  /\ UNCHANGED << known, request, faults >>

EndGossip(w) ==
  /\ run[w].phase = "ingest"
  /\ run[w].candidates = {}
  /\ NextPeer(w)
  /\ UNCHANGED << known, request, faults >>

(* A request or a statement fails, or the process dies. *)
Fail(w) ==
  /\ run[w].phase # "idle"
  /\ faults < MaxFaults
  /\ faults' = faults + 1
  /\ run' = [run EXCEPT ![w] = NoRun]
  /\ UNCHANGED << known, request >>

-----------------------------------------------------------------------------

Handle(h) ==
  \/ \E u \in Announced : Announce(h, u)
  \/ StoreAnnounced(h)
  \/ RefuseAnnounced(h)

Ingest(w) ==
  \/ \E c \in run[w].candidates : IngestNew(w, c) \/ IgnoreCandidate(w, c)
  \/ EndGossip(w)

Proceed(w) ==
  \/ Verified(w)
  \/ NotVerified(w)
  \/ RecordFailure(w)
  \/ Pulled(w)
  \/ FetchPeers(w)
  \/ SkipGossip(w)
  \/ ListKnown(w)
  \/ Ingest(w)

Sync(w) == StartSync(w) \/ Proceed(w) \/ Fail(w)

Next == (\E h \in Handlers : Handle(h)) \/ (\E w \in Syncers : Sync(w))

Spec == Init /\ [][Next]_vars

(***************************************************************************)
(* The periodic task goes on with its runs and starts new ones, and as in  *)
(* PeerSync a request that waits for a mutex gets it when it keeps being   *)
(* released.  A peer that runs this program and may be verified whenever   *)
(* it is asked is verified some time; nothing is assumed of other peers,   *)
(* of manual runs and of announcements.                                    *)
(***************************************************************************)
Fairness ==
  \A w \in Locking :
    /\ WF_vars(StartSync(w) \/ Proceed(w))
    /\ \A i \in {j \in DOMAIN Configured[w] : NodeAt[Configured[w][j]] \in Nodes} :
         /\ SF_vars(Verified(w) /\ Peer(w) = Configured[w][i])
         /\ SF_vars(Pulled(w) /\ Peer(w) = Configured[w][i])
         /\ SF_vars(FetchPeers(w) /\ Peer(w) = Configured[w][i])

FairSpec == Spec /\ Fairness

-----------------------------------------------------------------------------
(* Properties. *)

(* Rows, requests and runs are of their types, and a run that is under way *)
(* has a peer.                                                             *)
Run ==
  [phase : {"idle", "verify", "record", "pull", "gossip", "list", "ingest"},
   left : Seq(Urls), row : KnownPeer, candidates : SUBSET Candidate, seen : SUBSET Urls]

TypeOK ==
  /\ known \in [Nodes -> [Urls -> KnownPeer]]
  /\ request \in [Handlers -> Urls \cup {Absent}]
  /\ run \in [Syncers -> Run]
  /\ \A w \in Syncers : run[w].phase # "idle" => run[w].left # << >>
  /\ faults \in 0 .. MaxFaults

(* The only synchronisation of node n is the periodic task of the process  *)
(* that serves it.                                                         *)
Solo(n) ==
  \A v \in Syncers : Home[v] = n =>
    v \in Locking /\ \A w \in Syncers : Home[w] = n => v = w

(* A peer that a node without manual runs reports as reachable has shown   *)
(* the key it is pinned to, whoever wrote to its row in between: status    *)
(* and key of a row are never from different updates (upsert_known_peer,   *)
(* verify_peer_identity).                                                  *)
PinsHold ==
  \A w \in Syncers : Solo(Home[w]) => \A u \in Urls :
    LET row == known[Home[w]][u] IN
    /\ row.status = "reachable" => Fits(w, u, row.key) /\ row.verified
    /\ row.status = "key_mismatch" => ~Fits(w, u, row.key)

(* While a node without manual runs goes through the candidates of a peer, *)
(* the URLs that it holds to be known are still all that are: no           *)
(* announcement gets in between list_known_peers and the last INSERT.      *)
SeenIsCurrent ==
  \A w \in Syncers : Solo(Home[w]) /\ run[w].phase = "ingest" =>
    \A u \in Rows(Home[w]) : Canon[u] # Absent => Canon[u] \in run[w].seen

(* A verdict of verify_peer_identity on a peer stays a verdict: nothing    *)
(* that is merely said about the peer turns it back into a candidate       *)
(* (docs/STATE.md, "already-known peers are ignored").                     *)
Verdict == {"reachable", "unreachable", "key_mismatch"}

VerdictsStand ==
  [][\A n \in Nodes, u \in Urls :
       known[n][u].status \in Verdict => known'[n][u].status \in Verdict]_vars

(* That is so of nodes without manual runs, and of URLs that nobody        *)
(* announces.                                                              *)
Unannounced(u) == \A v \in Announced : Canon[v] # u

GossipKeepsVerdicts ==
  [][\A n \in Nodes, u \in Urls : Solo(n) /\ Unannounced(u) =>
       (known[n][u].status \in Verdict => known'[n][u].status \in Verdict)]_vars

(* failure_count counts: a verdict that is a failure has one failure more  *)
(* than the row had, although upsert_known_peer reads the count in one     *)
(* statement and writes it in another.                                     *)
FailuresCounted ==
  [][\A w \in Syncers : Solo(Home[w]) /\ RecordFailure(w) =>
       known'[Home[w]][Peer(w)].failures = Count(known[Home[w]][Peer(w)].failures)]_vars

(* A row that comes to a node without manual runs when it has one for the  *)
(* address is that of a peer that was configured or announced: gossip in   *)
(* another spelling is recognised (normalize_candidate_url on both sides). *)
Spoken(n) ==
  {Canon[u] : u \in Announced}
    \cup {v \in Urls : \E w \in Syncers : Home[w] = n /\ \E i \in DOMAIN Configured[w] : Configured[w][i] = v}

NoTwins ==
  [][\A n \in Nodes : Solo(n) =>
       \A u \in Rows(n)' \ Rows(n), v \in Rows(n) :
         Canon[u] = Canon[v] /\ Canon[u] # Absent => u \in Spoken(n)]_vars

(* What a configured peer has among the first ListLimit of its rows, and   *)
(* keeps there, the node knows in the end, if the peer can be verified;    *)
(* and so on along the peers of the peer.  What comes behind them in the   *)
(* order of URLs never spreads: GET /peers has no second page (query_peers *)
(* and ingest_peer_candidates).                                            *)
AmongFirst(m, u) ==
  /\ u \in Rows(m)
  /\ Cardinality({v \in Rows(m) : UrlOrder[v] <= UrlOrder[u]}) <= ListLimit

Learns(n, u) == \E v \in Rows(n) : Canon[v] = Canon[u]

CanBeVerified(w) ==
  \A i \in DOMAIN Configured[w] :
    \E key \in Answers[Configured[w][i]] \ {Absent} : Fits(w, Configured[w][i], key)

PeersSpread ==
  \A w \in Locking \ AdHoc : CanBeVerified(w) =>
    \A i \in DOMAIN Configured[w] : \A u \in Urls :
      LET m == NodeAt[Configured[w][i]] IN
      m \in Nodes /\ Canon[u] # Absent =>
        (AmongFirst(m, u) ~> Learns(Home[w], u) \/ ~AmongFirst(m, u))
==============================================================================
