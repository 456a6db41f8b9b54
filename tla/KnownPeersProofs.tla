-------------------------- MODULE KnownPeersProofs --------------------------
(***************************************************************************)
(* What the table of a node without manual runs keeps, for every set of    *)
(* nodes, spellings, answers and announcements.  The argument: only the    *)
(* run of the periodic task writes while it is under way, because it holds *)
(* the store mutex; an announcement writes between two runs.               *)
(***************************************************************************)
EXTENDS KnownPeers, SequenceTheorems, TLAPS

-----------------------------------------------------------------------------
(* What an announcement waits for has been announced, and the peers of a   *)
(* run are configured.                                                     *)
RequestInv ==
  \A h \in Handlers : request[h] # Absent => \E v \in Announced : Canon[v] = request[h]

PeersInv ==
  \A w \in Syncers : \A i \in DOMAIN run[w].left :
    \E j \in DOMAIN Configured[w] : Configured[w][j] = run[w].left[i]

(* A failure that is about to be written counts from the row as it is.     *)
RecordInv ==
  \A w \in Syncers : run[w].phase = "record" =>
    /\ run[w].row.status \in {"unreachable", "key_mismatch"}
    /\ run[w].row.status = "key_mismatch" => ~Fits(w, Peer(w), run[w].row.key)
    /\ Solo(Home[w]) => run[w].row.failures = Count(known[Home[w]][Peer(w)].failures)

IInv ==
  /\ TypeOK
  /\ RequestInv
  /\ PeersInv
  /\ RecordInv
  /\ PinsHold
  /\ SeenIsCurrent

-----------------------------------------------------------------------------
(* Rows. *)

LEMMA NoRowType == NoRow \in KnownPeer
  BY KnownPeersAssumption DEF NoRow, KnownPeer, Status

LEMMA CountType ==
  ASSUME NEW k \in 0 .. MaxFailures
  PROVE  Count(k) \in 0 .. MaxFailures
  BY KnownPeersAssumption DEF Count

(* The rows that the steps write. *)
LEMMA AnnouncedRow ==
  ASSUME NEW key \in Keys,
         NEW row, row = [NoRow EXCEPT !.status = "candidate", !.key = key, !.verified = TRUE]
  PROVE  /\ row \in KnownPeer
         /\ row.status = "candidate"
  <1>1. row = [status |-> "candidate", key |-> key, verified |-> TRUE,
              source |-> Absent, failures |-> 0]
    BY DEF NoRow
  <1>2. [status |-> "candidate", key |-> key, verified |-> TRUE,
              source |-> Absent, failures |-> 0] \in KnownPeer
    BY KnownPeersAssumption DEF KnownPeer, Status
  <1> QED
    BY <1>1, <1>2

LEMMA GossipRow ==
  ASSUME NEW key \in Keys \cup {Absent}, NEW s \in Urls \cup {Absent},
         NEW row, row = [NoRow EXCEPT !.status = "candidate", !.key = key, !.source = s]
  PROVE  /\ row \in KnownPeer
         /\ row.status = "candidate"
  <1>1. row = [status |-> "candidate", key |-> key, verified |-> FALSE,
              source |-> s, failures |-> 0]
    BY DEF NoRow
  <1>2. [status |-> "candidate", key |-> key, verified |-> FALSE,
              source |-> s, failures |-> 0] \in KnownPeer
    BY KnownPeersAssumption DEF KnownPeer, Status
  <1> QED
    BY <1>1, <1>2

LEMMA ReachableRow ==
  ASSUME NEW key \in Keys,
         NEW row, row = [NoRow EXCEPT !.status = "reachable", !.key = key, !.verified = TRUE]
  PROVE  /\ row \in KnownPeer
         /\ row.status = "reachable" /\ row.key = key /\ row.verified
  <1>1. row = [status |-> "reachable", key |-> key, verified |-> TRUE,
              source |-> Absent, failures |-> 0]
    BY DEF NoRow
  <1>2. [status |-> "reachable", key |-> key, verified |-> TRUE,
              source |-> Absent, failures |-> 0] \in KnownPeer
    BY KnownPeersAssumption DEF KnownPeer, Status
  <1> QED
    BY <1>1, <1>2

FailedRow(key, k) ==
  [NoRow EXCEPT !.status = IF key = Absent THEN "unreachable" ELSE "key_mismatch",
                !.key = key, !.verified = key # Absent, !.failures = k]

LEMMA FailureRow ==
  ASSUME NEW key \in Keys \cup {Absent}, NEW k \in 0 .. MaxFailures
  PROVE  /\ FailedRow(key, k) \in KnownPeer
         /\ FailedRow(key, k).status = IF key = Absent THEN "unreachable" ELSE "key_mismatch"
         /\ FailedRow(key, k).key = key
         /\ FailedRow(key, k).failures = k
  BY KnownPeersAssumption DEF FailedRow, NoRow, KnownPeer, Status

WritesOnly(n, u) ==
  /\ known' \in [Nodes -> [Urls -> KnownPeer]]
  /\ \A m \in Nodes : m # n => known'[m] = known[m]
  /\ \A v \in Urls : v # u => known'[n][v] = known[n][v]

(* The INSERT writes one row, and of it everything but the source.         *)
LEMMA UpsertWrites ==
  ASSUME TypeOK, NEW n \in Nodes, NEW u \in Urls, NEW row \in KnownPeer, Upsert(n, u, row)
  PROVE  /\ WritesOnly(n, u)
         /\ known'[n][u].status = row.status
         /\ known'[n][u].key = row.key
         /\ known'[n][u].verified = row.verified
         /\ known'[n][u].failures = row.failures
  <1> DEFINE s == IF row.source = Absent THEN known[n][u].source ELSE row.source
  <1> DEFINE new == [row EXCEPT !.source = s]
  <1>1. known \in [Nodes -> [Urls -> KnownPeer]]
    BY DEF TypeOK
  <1>2. known[n] \in [Urls -> KnownPeer] /\ known[n][u] \in KnownPeer
    BY <1>1
  <1>3. s \in Urls \cup {Absent}
    BY <1>2 DEF KnownPeer
  <1>4. /\ new \in KnownPeer
        /\ new.status = row.status /\ new.key = row.key
        /\ new.verified = row.verified /\ new.failures = row.failures
    BY <1>3 DEF KnownPeer
  <1>5. known' = [known EXCEPT ![n][u] = new]
    BY DEF Upsert
  <1> HIDE DEF new
  <1>6. known'[n] = [known[n] EXCEPT ![u] = new] /\ \A m \in Nodes : m # n => known'[m] = known[m]
    BY <1>1, <1>5
  <1>7. known'[n] \in [Urls -> KnownPeer]
    BY <1>2, <1>4, <1>6
  <1>8. known' \in [Nodes -> [Urls -> KnownPeer]]
    BY <1>1, <1>5, <1>7
  <1>9. known'[n][u] = new /\ \A v \in Urls : v # u => known'[n][v] = known[n][v]
    BY <1>2, <1>6
  <1> QED
    BY <1>4, <1>6, <1>8, <1>9 DEF WritesOnly

-----------------------------------------------------------------------------
(* What the steps write. *)

LEMMA PeerIsUrl ==
  ASSUME TypeOK, NEW w \in Syncers, run[w].phase # "idle"
  PROVE  Peer(w) \in Urls /\ Home[w] \in Nodes /\ Tail(run[w].left) \in Seq(Urls)
  <1>1. run[w].left \in Seq(Urls) /\ run[w].left # << >>
    BY DEF TypeOK, Run
  <1>2. Home[w] \in Nodes
    BY KnownPeersAssumption
  <1> QED
    BY <1>1, <1>2 DEF Peer

LEMMA StoreAnnouncedWrites ==
  ASSUME TypeOK, NEW h \in Handlers, StoreAnnounced(h)
  PROVE  /\ request[h] \in Urls
         /\ WritesOnly(Home[h], request[h])
         /\ known'[Home[h]][request[h]].status = "candidate"
         /\ ~Locked(Home[h])
  <1>1. request[h] \in Urls /\ Home[h] \in Nodes
    BY KnownPeersAssumption DEF TypeOK, StoreAnnounced
  <1>2. PICK key \in Answers[request[h]] \ {Absent, OwnKey[Home[h]]} :
          Upsert(Home[h], request[h],
                 [NoRow EXCEPT !.status = "candidate", !.key = key, !.verified = TRUE])
    BY DEF StoreAnnounced
  <1>3. key \in Keys
    BY <1>1, KnownPeersAssumption
  <1> DEFINE new == [NoRow EXCEPT !.status = "candidate", !.key = key, !.verified = TRUE]
  <1>4. new \in KnownPeer /\ new.status = "candidate"
    BY <1>3, AnnouncedRow
  <1> HIDE DEF new
  <1>5. Upsert(Home[h], request[h], new)
    BY <1>2 DEF new
  <1>6. /\ WritesOnly(Home[h], request[h])
        /\ known'[Home[h]][request[h]].status = "candidate"
    BY <1>1, <1>4, <1>5, UpsertWrites
  <1> QED
    BY <1>1, <1>6 DEF StoreAnnounced

LEMMA VerifiedWrites ==
  ASSUME TypeOK, NEW w \in Syncers, Verified(w)
  PROVE  /\ Peer(w) \in Urls
         /\ WritesOnly(Home[w], Peer(w))
         /\ known'[Home[w]][Peer(w)].status = "reachable"
         /\ known'[Home[w]][Peer(w)].verified
         /\ Fits(w, Peer(w), known'[Home[w]][Peer(w)].key)
  <1>1. Peer(w) \in Urls /\ Home[w] \in Nodes
    BY PeerIsUrl DEF Verified
  <1>2. PICK key \in Answers[Peer(w)] \ {Absent} :
          /\ Fits(w, Peer(w), key)
          /\ Upsert(Home[w], Peer(w),
                    [NoRow EXCEPT !.status = "reachable", !.key = key, !.verified = TRUE])
    BY DEF Verified
  <1>3. key \in Keys
    BY <1>1, KnownPeersAssumption
  <1> DEFINE new == [NoRow EXCEPT !.status = "reachable", !.key = key, !.verified = TRUE]
  <1>4. new \in KnownPeer /\ new.status = "reachable" /\ new.key = key /\ new.verified
    BY <1>3, ReachableRow
  <1> HIDE DEF new
  <1>5. Upsert(Home[w], Peer(w), new)
    BY <1>2 DEF new
  <1>6. /\ WritesOnly(Home[w], Peer(w))
        /\ known'[Home[w]][Peer(w)].status = new.status
        /\ known'[Home[w]][Peer(w)].verified = new.verified
        /\ known'[Home[w]][Peer(w)].key = new.key
    BY <1>1, <1>4, <1>5, UpsertWrites
  <1> QED
    BY <1>1, <1>2, <1>4, <1>6

LEMMA RecordFailureWrites ==
  ASSUME TypeOK, NEW w \in Syncers, RecordFailure(w)
  PROVE  /\ Peer(w) \in Urls
         /\ WritesOnly(Home[w], Peer(w))
         /\ known'[Home[w]][Peer(w)].status = run[w].row.status
         /\ known'[Home[w]][Peer(w)].key = run[w].row.key
         /\ known'[Home[w]][Peer(w)].failures = run[w].row.failures
  <1>1. Peer(w) \in Urls /\ Home[w] \in Nodes
    BY PeerIsUrl DEF RecordFailure
  <1>2. run[w].row \in KnownPeer
    BY DEF TypeOK, Run
  <1>3. Upsert(Home[w], Peer(w), run[w].row)
    BY DEF RecordFailure
  <1> QED
    BY <1>1, <1>2, <1>3, UpsertWrites

LEMMA IngestNewWrites ==
  ASSUME TypeOK, NEW w \in Syncers, NEW c \in run[w].candidates, IngestNew(w, c)
  PROVE  /\ c \in Candidate
         /\ Canon[c.url] \in Urls
         /\ Canon[Canon[c.url]] = Canon[c.url]
         /\ WritesOnly(Home[w], Canon[c.url])
         /\ known'[Home[w]][Canon[c.url]].status = "candidate"
  <1>1. Peer(w) \in Urls /\ Home[w] \in Nodes
    BY PeerIsUrl DEF IngestNew
  <1>2. c \in Candidate
    BY DEF TypeOK, Run
  <1>3. c.url \in Urls /\ c.key \in Keys \cup {Absent}
    BY <1>2 DEF Candidate
  <1>4. Canon[c.url] \in Urls /\ Canon[Canon[c.url]] = Canon[c.url]
    BY <1>3, KnownPeersAssumption DEF IngestNew, New
  <1>5. Canon[Peer(w)] \in Urls \cup {Absent}
    BY <1>1, KnownPeersAssumption
  <1> DEFINE new ==
        [NoRow EXCEPT !.status = "candidate", !.key = c.key, !.source = Canon[Peer(w)]]
  <1>6. new \in KnownPeer /\ new.status = "candidate"
    BY <1>3, <1>5, GossipRow
  <1> HIDE DEF new
  <1>7. Upsert(Home[w], Canon[c.url], new)
    BY DEF new, IngestNew
  <1> QED
    BY <1>1, <1>2, <1>4, <1>6, <1>7, UpsertWrites

(* Who writes to the table of a node, and who changes a run. *)
LEMMA WhoWrites ==
  ASSUME TypeOK, NEW n \in Nodes, [Next]_vars
  PROVE  \/ known'[n] = known[n]
         \/ \E h \in Handlers : Home[h] = n /\ StoreAnnounced(h)
         \/ \E w \in Syncers : Home[w] = n /\ Verified(w)
         \/ \E w \in Syncers : Home[w] = n /\ RecordFailure(w)
         \/ \E w \in Syncers : Home[w] = n /\ \E c \in run[w].candidates : IngestNew(w, c)
  <1>1. CASE UNCHANGED vars
    BY <1>1 DEF vars
  <1>2. ASSUME NEW h \in Handlers, StoreAnnounced(h)
        PROVE  known'[n] = known[n] \/ Home[h] = n
    BY <1>2, StoreAnnouncedWrites DEF WritesOnly
  <1>3. ASSUME NEW h \in Handlers, Handle(h), ~StoreAnnounced(h)
        PROVE  known' = known
    BY <1>3 DEF Handle, Announce, RefuseAnnounced
  <1>4. ASSUME NEW w \in Syncers, Verified(w)
        PROVE  known'[n] = known[n] \/ Home[w] = n
    BY <1>4, VerifiedWrites DEF WritesOnly
  <1>5. ASSUME NEW w \in Syncers, RecordFailure(w)
        PROVE  known'[n] = known[n] \/ Home[w] = n
    BY <1>5, RecordFailureWrites DEF WritesOnly
  <1>6. ASSUME NEW w \in Syncers, NEW c \in run[w].candidates, IngestNew(w, c)
        PROVE  known'[n] = known[n] \/ Home[w] = n
    BY <1>6, IngestNewWrites DEF WritesOnly
  <1>7. ASSUME NEW w \in Syncers, Sync(w), ~Verified(w), ~RecordFailure(w),
               ~\E c \in run[w].candidates : IngestNew(w, c)
        PROVE  known' = known
    BY <1>7 DEF Sync, StartSync, Proceed, Fail, NotVerified, Pulled, FetchPeers, SkipGossip,
       ListKnown, Ingest, IgnoreCandidate, EndGossip
  <1> QED
    BY <1>1, <1>2, <1>3, <1>4, <1>5, <1>6, <1>7 DEF Next

LEMMA WhoRuns ==
  ASSUME TypeOK, NEW w \in Syncers, [Next]_vars
  PROVE  run'[w] = run[w] \/ Sync(w)
  <1>1. CASE UNCHANGED vars
    BY <1>1 DEF vars
  <1>2. ASSUME NEW h \in Handlers, Handle(h)
        PROVE  run' = run
    BY <1>2 DEF Handle, Announce, StoreAnnounced, RefuseAnnounced
  <1>3. ASSUME NEW v \in Syncers, Sync(v), v # w
        PROVE  run'[w] = run[w]
    <2>1. run \in [Syncers -> Run]
      BY DEF TypeOK
    <2> QED
      BY <1>3, <2>1 DEF Sync, StartSync, Proceed, Fail, Verified, NotVerified, RecordFailure, Pulled,
         FetchPeers, SkipGossip, ListKnown, Ingest, IngestNew, IgnoreCandidate, EndGossip, NextPeer
  <1> QED
    BY <1>1, <1>2, <1>3 DEF Next

-----------------------------------------------------------------------------
(* Where a run goes. *)

GoesTo(w, x) ==
  /\ x \in Run
  /\ x.phase # "idle" => x.left # << >>
  /\ \/ x.left \in {<< >>, Configured[w], run[w].left}
     \/ run[w].left # << >> /\ x.left = Tail(run[w].left)
  /\ run' = [run EXCEPT ![w] = x]

LEMMA NoRunType ==
  /\ NoRun \in Run
  /\ NoRun.phase = "idle"
  /\ NoRun.left = << >>
  BY NoRowType DEF NoRun, Run

LEMMA AtPeers ==
  ASSUME NEW s \in Seq(Urls), NEW x, x = [NoRun EXCEPT !.phase = "verify", !.left = s]
  PROVE  x \in Run /\ x.phase = "verify" /\ x.left = s
  BY NoRowType DEF NoRun, Run

LEMMA NextPeerGoes ==
  ASSUME TypeOK, NEW w \in Syncers, run[w].phase # "idle", NextPeer(w)
  PROVE  \E x : GoesTo(w, x) /\ x.phase \in {"idle", "verify"}
  <1> DEFINE rest == Tail(run[w].left)
  <1>1. rest \in Seq(Urls) /\ run[w].left # << >>
    BY PeerIsUrl DEF TypeOK
  <1>2. CASE rest = << >>
    BY <1>2, NoRunType DEF NextPeer, GoesTo
  <1>3. CASE rest # << >>
    <2> DEFINE x == [NoRun EXCEPT !.phase = "verify", !.left = rest]
    <2>1. x \in Run /\ x.phase = "verify" /\ x.left = rest
      BY <1>1, AtPeers
    <2>2. run' = [run EXCEPT ![w] = x]
      BY <1>3 DEF NextPeer
    <2> HIDE DEF x
    <2> QED
      BY <1>1, <1>3, <2>1, <2>2 DEF GoesTo
  <1> QED
    BY <1>2, <1>3

(* A run goes on with the same peer: only what is said to differ does.     *)
LEMMA SameGoes ==
  ASSUME TypeOK, NEW w \in Syncers, run[w].phase # "idle", NEW x \in Run,
         x.left = run[w].left, run' = [run EXCEPT ![w] = x]
  PROVE  GoesTo(w, x)
  BY DEF TypeOK, GoesTo

LEMMA AnswersTypes ==
  ASSUME TypeOK, NEW u \in Urls
  PROVE  PeersAt(u) \in SUBSET Candidate
  <1>1. CASE NodeAt[u] = Absent
    BY <1>1, KnownPeersAssumption DEF PeersAt
  <1>2. CASE NodeAt[u] # Absent
    <2>1. NodeAt[u] \in Nodes
      BY <1>2, KnownPeersAssumption
    <2>2. known[NodeAt[u]] \in [Urls -> KnownPeer]
      BY <2>1 DEF TypeOK
    <2>3. \A v \in Listed(NodeAt[u]) : v \in Urls /\ known[NodeAt[u]][v].key \in Keys \cup {Absent}
      BY <2>2 DEF Listed, Rows, KnownPeer
    <2>4. \A v \in Listed(NodeAt[u]) : [url |-> v, key |-> known[NodeAt[u]][v].key] \in Candidate
      BY <2>3 DEF Candidate
    <2> QED
      BY <1>2, <2>4 DEF PeersAt
  <1> QED
    BY <1>1, <1>2

LEMMA SyncGoes ==
  ASSUME TypeOK, NEW w \in Syncers, Sync(w)
  PROVE  \E x : GoesTo(w, x)
  <1>1. run[w] \in Run /\ Home[w] \in Nodes
    BY KnownPeersAssumption DEF TypeOK
  <1>2. CASE StartSync(w)
    <2> DEFINE x == [NoRun EXCEPT !.phase = "verify", !.left = Configured[w]]
    <2>1. x \in Run /\ x.phase = "verify" /\ x.left = Configured[w]
      BY KnownPeersAssumption, AtPeers
    <2>2. run' = [run EXCEPT ![w] = x] /\ Configured[w] # << >>
      BY <1>2 DEF StartSync
    <2> HIDE DEF x
    <2> QED
      BY <2>1, <2>2 DEF GoesTo
  <1>3. CASE Verified(w)
    <2> DEFINE x == [run[w] EXCEPT !.phase = "pull"]
    <2>1. x \in Run /\ x.left = run[w].left
      BY <1>1 DEF Run
    <2>2. run' = [run EXCEPT ![w] = x] /\ run[w].phase # "idle"
      BY <1>3 DEF Verified
    <2> HIDE DEF x
    <2> QED
      BY <2>1, <2>2, SameGoes
  <1>4. CASE NotVerified(w)
    <2>1. Peer(w) \in Urls /\ run[w].phase = "verify"
      BY <1>4, PeerIsUrl DEF NotVerified
    <2> DEFINE fails == Count(known[Home[w]][Peer(w)].failures)
    <2>2. PICK key \in Answers[Peer(w)] :
            run' = [run EXCEPT ![w].phase = "record", ![w].row = FailedRow(key, fails)]
      BY <1>4 DEF NotVerified, FailedRow
    <2>3. key \in Keys \cup {Absent}
      BY <2>1, KnownPeersAssumption
    <2>4. fails \in 0 .. MaxFailures
      <3>1. known[Home[w]][Peer(w)] \in KnownPeer
        BY <1>1, <2>1 DEF TypeOK
      <3>2. known[Home[w]][Peer(w)].failures \in 0 .. MaxFailures
        BY <3>1 DEF KnownPeer
      <3> QED
        BY <3>2, CountType
    <2> HIDE DEF fails
    <2>5. FailedRow(key, fails) \in KnownPeer
      BY <2>3, <2>4, FailureRow
    <2> DEFINE x == [run[w] EXCEPT !.phase = "record", !.row = FailedRow(key, fails)]
    <2>6. x \in Run /\ x.left = run[w].left
      BY <1>1, <2>5 DEF Run
    <2>7. run' = [run EXCEPT ![w] = x]
      BY <2>2 DEF TypeOK
    <2> HIDE DEF x
    <2> QED
      BY <2>1, <2>6, <2>7, SameGoes
  <1>5. CASE RecordFailure(w) \/ Fail(w) \/ (Pulled(w) /\ WaitsInCircle(w))
    <2>1. run' = [run EXCEPT ![w] = NoRun]
      BY <1>5 DEF RecordFailure, Fail, Pulled
    <2> QED
      BY <2>1, NoRunType DEF GoesTo
  <1>6. CASE Pulled(w) /\ ~WaitsInCircle(w) /\ w \notin AdHoc
    <2> DEFINE x == [run[w] EXCEPT !.phase = "gossip"]
    <2>1. x \in Run /\ x.left = run[w].left
      BY <1>1 DEF Run
    <2>2. run' = [run EXCEPT ![w] = x] /\ run[w].phase # "idle"
      BY <1>6 DEF Pulled
    <2> HIDE DEF x
    <2> QED
      BY <2>1, <2>2, SameGoes
  <1>7. CASE (Pulled(w) /\ ~WaitsInCircle(w) /\ w \in AdHoc) \/ SkipGossip(w) \/ EndGossip(w)
    BY <1>7, NextPeerGoes DEF Pulled, SkipGossip, EndGossip
  <1>8. CASE FetchPeers(w)
    <2>1. PeersAt(Peer(w)) \in SUBSET Candidate /\ run[w].phase # "idle"
      BY <1>8, PeerIsUrl, AnswersTypes DEF FetchPeers
    <2> DEFINE x == [run[w] EXCEPT !.phase = "list", !.candidates = PeersAt(Peer(w))]
    <2>2. x \in Run /\ x.left = run[w].left
      BY <1>1, <2>1 DEF Run
    <2>3. run' = [run EXCEPT ![w] = x]
      BY <1>8 DEF FetchPeers, TypeOK
    <2> HIDE DEF x
    <2> QED
      BY <2>1, <2>2, <2>3, SameGoes
  <1>9. CASE ListKnown(w)
    <2> DEFINE urls == {Canon[u] : u \in Rows(Home[w])} \ {Absent}
    <2>1. urls \in SUBSET Urls
      BY KnownPeersAssumption DEF Rows
    <2> HIDE DEF urls
    <2> DEFINE x == [run[w] EXCEPT !.phase = "ingest", !.seen = urls]
    <2>2. x \in Run /\ x.left = run[w].left
      BY <1>1, <2>1 DEF Run
    <2>3. run' = [run EXCEPT ![w] = x] /\ run[w].phase # "idle"
      BY <1>9 DEF ListKnown, TypeOK, urls
    <2> HIDE DEF x
    <2> QED
      BY <2>2, <2>3, SameGoes
  <1>10. ASSUME NEW c \in run[w].candidates, IngestNew(w, c)
         PROVE  \E x : GoesTo(w, x)
    <2> DEFINE left == run[w].candidates \ {c}
    <2> DEFINE urls == run[w].seen \cup {Canon[c.url]}
    <2>1. left \in SUBSET Candidate /\ urls \in SUBSET Urls
      BY <1>1, <1>10, IngestNewWrites DEF Run
    <2>2. run' = [run EXCEPT ![w] = [run[w] EXCEPT !.candidates = left, !.seen = urls]]
      BY <1>10 DEF IngestNew, TypeOK
    <2> HIDE DEF left, urls
    <2> DEFINE x == [run[w] EXCEPT !.candidates = left, !.seen = urls]
    <2>3. x \in Run /\ x.left = run[w].left
      BY <1>1, <2>1 DEF Run
    <2>4. run[w].phase # "idle"
      BY <1>10 DEF IngestNew
    <2> HIDE DEF x
    <2>5. run' = [run EXCEPT ![w] = x]
      BY <2>2 DEF x
    <2> QED
      BY <2>3, <2>4, <2>5, SameGoes
  <1>11. ASSUME NEW c \in run[w].candidates, IgnoreCandidate(w, c)
         PROVE  \E x : GoesTo(w, x)
    <2> DEFINE left == run[w].candidates \ {c}
    <2>1. left \in SUBSET Candidate
      BY <1>1 DEF Run
    <2>2. run' = [run EXCEPT ![w] = [run[w] EXCEPT !.candidates = left]]
      BY <1>11 DEF IgnoreCandidate, TypeOK
    <2> HIDE DEF left
    <2> DEFINE x == [run[w] EXCEPT !.candidates = left]
    <2>3. x \in Run /\ x.left = run[w].left
      BY <1>1, <2>1 DEF Run
    <2>4. run[w].phase # "idle"
      BY <1>11 DEF IgnoreCandidate
    <2> HIDE DEF x
    <2>5. run' = [run EXCEPT ![w] = x]
      BY <2>2 DEF x
    <2> QED
      BY <2>3, <2>4, <2>5, SameGoes
  <1> QED
    BY <1>2, <1>3, <1>4, <1>5, <1>6, <1>7, <1>8, <1>9, <1>10, <1>11 DEF Sync, Proceed, Ingest

(* Only these steps bring a run to the INSERT of a failure, or to the      *)
(* candidates.                                                             *)
LEMMA PhasesReached ==
  ASSUME TypeOK, NEW w \in Syncers, Sync(w)
  PROVE  /\ run'[w].phase = "record" => NotVerified(w)
         /\ run'[w].phase = "ingest" =>
              \/ ListKnown(w)
              \/ run[w].phase = "ingest" /\ run[w].seen \subseteq run'[w].seen
  <1> DEFINE Goal ==
        /\ run'[w].phase = "record" => NotVerified(w)
        /\ run'[w].phase = "ingest" =>
             \/ ListKnown(w)
             \/ run[w].phase = "ingest" /\ run[w].seen \subseteq run'[w].seen
  <1>1. run \in [Syncers -> Run] /\ run[w] \in Run
    BY DEF TypeOK
  <1>2. CASE StartSync(w)
    BY <1>1, <1>2, NoRunType DEF StartSync, NoRun
  <1>3. CASE Verified(w) \/ FetchPeers(w) \/ (Pulled(w) /\ ~WaitsInCircle(w) /\ w \notin AdHoc)
    <2>1. run'[w].phase \in {"pull", "list", "gossip"}
      <3>1. CASE Verified(w)
        BY <1>1, <3>1 DEF Verified, Run
      <3>2. CASE FetchPeers(w)
        BY <1>1, <3>2 DEF FetchPeers, Run
      <3>3. CASE Pulled(w) /\ ~WaitsInCircle(w) /\ w \notin AdHoc
        BY <1>1, <3>3 DEF Pulled, Run
      <3> QED
        BY <1>3, <3>1, <3>2, <3>3
    <2> QED
      BY <2>1
  <1>4. CASE RecordFailure(w) \/ Fail(w) \/ (Pulled(w) /\ WaitsInCircle(w))
    BY <1>1, <1>4 DEF RecordFailure, Fail, Pulled, NoRun
  <1>5. CASE (Pulled(w) /\ ~WaitsInCircle(w) /\ w \in AdHoc) \/ SkipGossip(w) \/ EndGossip(w)
    <2>1. PICK x : GoesTo(w, x) /\ x.phase \in {"idle", "verify"}
      BY <1>5, NextPeerGoes DEF Pulled, SkipGossip, EndGossip
    <2> QED
      BY <1>1, <2>1 DEF GoesTo
  <1>6. ASSUME NEW c \in run[w].candidates, IngestNew(w, c) \/ IgnoreCandidate(w, c)
        PROVE  Goal
    <2>1. run[w].phase = "ingest" /\ run'[w].phase = "ingest"
      BY <1>1, <1>6 DEF IngestNew, IgnoreCandidate, Run
    <2>2. run[w].seen \subseteq run'[w].seen
      BY <1>1, <1>6 DEF IngestNew, IgnoreCandidate, Run
    <2> QED
      BY <2>1, <2>2
  <1>7. CASE NotVerified(w)
    <2>1. run'[w].phase = "record"
      BY <1>1, <1>7 DEF NotVerified, Run
    <2> QED
      BY <1>7, <2>1
  <1>8. CASE ListKnown(w)
    <2>1. run'[w].phase = "ingest"
      BY <1>1, <1>8 DEF ListKnown, Run
    <2> QED
      BY <1>8, <2>1
  <1> HIDE DEF Goal
  <1>9. Goal
    BY <1>2, <1>3, <1>4, <1>5, <1>6, <1>7, <1>8 DEF Sync, Proceed, Ingest, Goal
  <1> QED
    BY <1>9 DEF Goal

-----------------------------------------------------------------------------
(* The steps preserve the invariant. *)

LEMMA KnownStep ==
  ASSUME TypeOK, [Next]_vars
  PROVE  known' \in [Nodes -> [Urls -> KnownPeer]]
  <1>1. known \in [Nodes -> [Urls -> KnownPeer]]
    BY DEF TypeOK
  <1>2. CASE known' = known
    BY <1>1, <1>2
  <1>3. ASSUME NEW h \in Handlers, Handle(h)
        PROVE  known' \in [Nodes -> [Urls -> KnownPeer]]
    BY <1>1, <1>3, StoreAnnouncedWrites DEF WritesOnly, Handle, Announce, RefuseAnnounced
  <1>4. ASSUME NEW w \in Syncers, Sync(w)
        PROVE  known' \in [Nodes -> [Urls -> KnownPeer]]
    <2>1. CASE Verified(w) \/ RecordFailure(w)
      BY <2>1, VerifiedWrites, RecordFailureWrites DEF WritesOnly
    <2>2. ASSUME NEW c \in run[w].candidates, IngestNew(w, c)
          PROVE  known' \in [Nodes -> [Urls -> KnownPeer]]
      BY <2>2, IngestNewWrites DEF WritesOnly
    <2> QED
      BY <1>2, <1>4, <2>1, <2>2
      DEF Sync, StartSync, Proceed, Fail, NotVerified, Pulled, FetchPeers, SkipGossip, ListKnown,
        Ingest, IgnoreCandidate, EndGossip
  <1> QED
    BY <1>2, <1>3, <1>4 DEF Next, vars

LEMMA RequestStep ==
  ASSUME TypeOK, RequestInv, [Next]_vars
  PROVE  /\ request' \in [Handlers -> Urls \cup {Absent}]
         /\ RequestInv'
  <1>1. request \in [Handlers -> Urls \cup {Absent}]
    BY DEF TypeOK
  <1>2. CASE request' = request
    BY <1>1, <1>2 DEF RequestInv
  <1>3. ASSUME NEW h \in Handlers, NEW u \in Announced, Announce(h, u)
        PROVE  request' \in [Handlers -> Urls \cup {Absent}] /\ RequestInv'
    <2>1. Canon[u] \in Urls \cup {Absent}
      BY KnownPeersAssumption
    <2> QED
      BY <1>1, <1>3, <2>1 DEF Announce, RequestInv
  <1>4. ASSUME NEW h \in Handlers, StoreAnnounced(h) \/ RefuseAnnounced(h)
        PROVE  request' \in [Handlers -> Urls \cup {Absent}] /\ RequestInv'
    BY <1>1, <1>4 DEF StoreAnnounced, RefuseAnnounced, RequestInv
  <1>5. ASSUME NEW w \in Syncers, Sync(w)
        PROVE  request' = request
    BY <1>5 DEF Sync, StartSync, Proceed, Fail, Verified, NotVerified, RecordFailure, Pulled,
       FetchPeers, SkipGossip, ListKnown, Ingest, IngestNew, IgnoreCandidate, EndGossip
  <1> QED
    BY <1>2, <1>3, <1>4, <1>5 DEF Next, Handle, vars

LEMMA RunStep ==
  ASSUME TypeOK, PeersInv, [Next]_vars
  PROVE  /\ run' \in [Syncers -> Run]
         /\ \A w \in Syncers : run'[w].phase # "idle" => run'[w].left # << >>
         /\ PeersInv'
  <1>1. run \in [Syncers -> Run]
    BY DEF TypeOK
  <1>2. CASE run' = run
    BY <1>1, <1>2 DEF TypeOK, PeersInv
  <1>3. ASSUME NEW h \in Handlers, Handle(h)
        PROVE  run' = run
    BY <1>3 DEF Handle, Announce, StoreAnnounced, RefuseAnnounced
  <1>4. ASSUME NEW w \in Syncers, Sync(w)
        PROVE  /\ run' \in [Syncers -> Run]
               /\ \A v \in Syncers : run'[v].phase # "idle" => run'[v].left # << >>
               /\ PeersInv'
    <2>1. PICK x : GoesTo(w, x)
      BY <1>4, SyncGoes
    <2>2. run' \in [Syncers -> Run]
      BY <1>1, <2>1 DEF GoesTo
    <2>3. \A v \in Syncers : run'[v].phase # "idle" => run'[v].left # << >>
      BY <1>1, <2>1 DEF GoesTo, TypeOK
    <2>4. \A i \in DOMAIN x.left : \E j \in DOMAIN Configured[w] : Configured[w][j] = x.left[i]
      <3>1. run[w].left \in Seq(Urls) /\ Configured[w] \in Seq(Urls)
        BY <1>1, KnownPeersAssumption DEF Run
      <3>2. CASE run[w].left # << >> /\ x.left = Tail(run[w].left)
        <4>1. \A i \in DOMAIN x.left :
                i + 1 \in DOMAIN run[w].left /\ x.left[i] = run[w].left[i + 1]
          BY <3>1, <3>2
        <4> QED
          BY <4>1 DEF PeersInv
      <3>3. CASE x.left \in {<< >>, Configured[w], run[w].left}
        BY <3>1, <3>3 DEF PeersInv
      <3> QED
        BY <2>1, <3>2, <3>3 DEF GoesTo
    <2>5. PeersInv'
      BY <1>1, <2>1, <2>4 DEF GoesTo, PeersInv
    <2> QED
      BY <2>2, <2>3, <2>5
  <1> QED
    BY <1>2, <1>3, <1>4 DEF Next, vars

LEMMA FaultsStep ==
  ASSUME TypeOK, [Next]_vars
  PROVE  faults' \in 0 .. MaxFaults
  <1>1. faults \in 0 .. MaxFaults /\ MaxFaults \in Nat
    BY KnownPeersAssumption DEF TypeOK
  <1>2. ASSUME NEW h \in Handlers, Handle(h)
        PROVE  faults' = faults
    BY <1>2 DEF Handle, Announce, StoreAnnounced, RefuseAnnounced
  <1>3. ASSUME NEW w \in Syncers, Sync(w)
        PROVE  faults' = faults \/ (faults < MaxFaults /\ faults' = faults + 1)
    BY <1>3 DEF Sync, StartSync, Proceed, Fail, Verified, NotVerified, RecordFailure, Pulled,
       FetchPeers, SkipGossip, ListKnown, Ingest, IngestNew, IgnoreCandidate, EndGossip
  <1>4. faults' = faults \/ (faults < MaxFaults /\ faults' = faults + 1)
    BY <1>2, <1>3 DEF Next, vars
  <1> QED
    BY <1>1, <1>4

(* The table of a node whose only run is under way is written by that run  *)
(* alone.                                                                  *)
LEMMA OwnWrites ==
  ASSUME TypeOK, NEW w \in Syncers, Solo(Home[w]), [Next]_vars
  PROVE  \/ known'[Home[w]] = known[Home[w]]
         \/ Verified(w)
         \/ RecordFailure(w)
         \/ \E c \in run[w].candidates : IngestNew(w, c)
         \/ /\ run' = run /\ run[w].phase = "idle"
            /\ \E h \in Handlers : Home[h] = Home[w] /\ StoreAnnounced(h)
  <1>1. Home[w] \in Nodes
    BY KnownPeersAssumption
  <1>2. \A v \in Syncers : Home[v] = Home[w] => v = w
    BY DEF Solo
  <1>3. ASSUME NEW h \in Handlers, Home[h] = Home[w], StoreAnnounced(h)
        PROVE  run' = run /\ run[w].phase = "idle"
    <2>1. w \in Locking
      BY DEF Solo
    <2> QED
      BY <1>3, <2>1 DEF StoreAnnounced, Locked
  <1> QED
    BY <1>1, <1>2, <1>3, WhoWrites

LEMMA RecordStep ==
  ASSUME IInv, [Next]_vars
  PROVE  RecordInv'
  <1> USE DEF IInv
  <1> SUFFICES ASSUME NEW w \in Syncers, run'[w].phase = "record"
               PROVE  /\ run'[w].row.status \in {"unreachable", "key_mismatch"}
                      /\ run'[w].row.status = "key_mismatch" => ~Fits(w, Peer(w)', run'[w].row.key)
                      /\ Solo(Home[w]) =>
                           run'[w].row.failures = Count(known'[Home[w]][Peer(w)'].failures)
    BY DEF RecordInv, Fits
  <1>1. run \in [Syncers -> Run] /\ run[w] \in Run /\ Home[w] \in Nodes
    BY KnownPeersAssumption DEF TypeOK
  <1>2. CASE run'[w] = run[w]
    <2>1. Peer(w)' = Peer(w)
      BY <1>2 DEF Peer
    <2>2. ASSUME Solo(Home[w])
          PROVE  known'[Home[w]] = known[Home[w]]
      <3>1. run[w].phase = "record"
        BY <1>2
      <3>2. ~Verified(w) /\ \A c \in run[w].candidates : ~IngestNew(w, c)
        BY <3>1 DEF Verified, IngestNew
      <3>3. ~RecordFailure(w)
        BY <1>1, <1>2, <3>1, NoRunType DEF RecordFailure
      <3> QED
        BY <2>2, <3>1, <3>2, <3>3, OwnWrites
    <2> QED
      BY <1>2, <2>1, <2>2 DEF RecordInv
  <1>3. CASE Sync(w)
    <2>1. NotVerified(w)
      BY <1>3, PhasesReached
    <2>2. Peer(w) \in Urls /\ run[w].phase = "verify"
      BY <2>1, PeerIsUrl DEF NotVerified
    <2> DEFINE fails == Count(known[Home[w]][Peer(w)].failures)
    <2>3. PICK key \in Answers[Peer(w)] :
            /\ key # Absent => ~Fits(w, Peer(w), key)
            /\ run' = [run EXCEPT ![w].phase = "record", ![w].row = FailedRow(key, fails)]
      BY <2>1 DEF NotVerified, FailedRow
    <2>4. key \in Keys \cup {Absent}
      BY <2>2, KnownPeersAssumption
    <2>5. fails \in 0 .. MaxFailures
      <3>1. known[Home[w]][Peer(w)] \in KnownPeer
        BY <1>1, <2>2 DEF TypeOK
      <3>2. known[Home[w]][Peer(w)].failures \in 0 .. MaxFailures
        BY <3>1 DEF KnownPeer
      <3> QED
        BY <3>2, CountType
    <2>6. known' = known
      BY <2>1 DEF NotVerified
    <2>7. run'[w].row = FailedRow(key, fails) /\ run'[w].left = run[w].left
      BY <1>1, <2>3 DEF Run
    <2>8. Peer(w)' = Peer(w)
      BY <2>7 DEF Peer
    <2>9. run'[w].row.failures = Count(known'[Home[w]][Peer(w)'].failures)
      <3> HIDE DEF fails
      <3>1. run'[w].row.failures = fails
        BY <2>4, <2>5, <2>7, FailureRow
      <3> QED
        BY <2>6, <2>8, <3>1 DEF fails
    <2> HIDE DEF fails
    <2>10. /\ run'[w].row.status = IF key = Absent THEN "unreachable" ELSE "key_mismatch"
           /\ run'[w].row.key = key
      BY <2>4, <2>5, <2>7, FailureRow
    <2> QED
      BY <2>3, <2>8, <2>9, <2>10
  <1> QED
    BY <1>2, <1>3, WhoRuns

LEMMA PinsStep ==
  ASSUME IInv, [Next]_vars
  PROVE  PinsHold'
  <1> USE DEF IInv
  <1> SUFFICES ASSUME NEW w \in Syncers, Solo(Home[w]), NEW u \in Urls
               PROVE  /\ known'[Home[w]][u].status = "reachable" =>
                           Fits(w, u, known'[Home[w]][u].key) /\ known'[Home[w]][u].verified
                      /\ known'[Home[w]][u].status = "key_mismatch" =>
                           ~Fits(w, u, known'[Home[w]][u].key)
    BY DEF PinsHold, Solo, Fits
  <1>1. /\ known[Home[w]][u].status = "reachable" =>
             Fits(w, u, known[Home[w]][u].key) /\ known[Home[w]][u].verified
        /\ known[Home[w]][u].status = "key_mismatch" => ~Fits(w, u, known[Home[w]][u].key)
    BY DEF PinsHold
  <1>2. CASE known'[Home[w]][u] = known[Home[w]][u]
    BY <1>1, <1>2
  <1>3. CASE Verified(w)
    <2>1. CASE u = Peer(w)
      BY <1>3, <2>1, VerifiedWrites
    <2>2. CASE u # Peer(w)
      BY <1>2, <1>3, <2>2, VerifiedWrites DEF WritesOnly
    <2> QED
      BY <2>1, <2>2
  <1>4. CASE RecordFailure(w)
    <2>1. /\ run[w].row.status \in {"unreachable", "key_mismatch"}
          /\ run[w].row.status = "key_mismatch" => ~Fits(w, Peer(w), run[w].row.key)
      BY <1>4 DEF RecordInv, RecordFailure
    <2>2. CASE u = Peer(w)
      BY <1>4, <2>1, <2>2, RecordFailureWrites
    <2>3. CASE u # Peer(w)
      BY <1>2, <1>4, <2>3, RecordFailureWrites DEF WritesOnly
    <2> QED
      BY <2>2, <2>3
  <1>5. ASSUME NEW c \in run[w].candidates, IngestNew(w, c)
        PROVE  known'[Home[w]][u] = known[Home[w]][u] \/ known'[Home[w]][u].status = "candidate"
    BY <1>5, IngestNewWrites DEF WritesOnly
  <1>6. ASSUME NEW h \in Handlers, Home[h] = Home[w], StoreAnnounced(h)
        PROVE  known'[Home[w]][u] = known[Home[w]][u] \/ known'[Home[w]][u].status = "candidate"
    BY <1>6, StoreAnnouncedWrites DEF WritesOnly
  <1> QED
    BY <1>2, <1>3, <1>4, <1>5, <1>6, OwnWrites

LEMMA SeenStep ==
  ASSUME IInv, [Next]_vars
  PROVE  SeenIsCurrent'
  <1> USE DEF IInv
  <1> SUFFICES ASSUME NEW w \in Syncers, Solo(Home[w]), run'[w].phase = "ingest",
                      NEW u \in Urls, known'[Home[w]][u] # NoRow, Canon[u] # Absent
               PROVE  Canon[u] \in run'[w].seen
    BY DEF SeenIsCurrent, Solo, Rows
  <1>1. run \in [Syncers -> Run] /\ run[w] \in Run /\ Home[w] \in Nodes
    BY KnownPeersAssumption DEF TypeOK
  <1>2. run[w].phase = "ingest" /\ known[Home[w]][u] # NoRow => Canon[u] \in run[w].seen
    BY DEF SeenIsCurrent, Rows
  <1>3. CASE ListKnown(w)
    <2>1. run'[w].seen = {Canon[v] : v \in Rows(Home[w])} \ {Absent} /\ known' = known
      BY <1>1, <1>3 DEF ListKnown, Run
    <2> QED
      BY <2>1 DEF Rows
  <1>4. CASE ~ListKnown(w)
    <2>1. run[w].phase = "ingest" /\ run[w].seen \subseteq run'[w].seen
      BY <1>4, WhoRuns, PhasesReached
    <2>2. CASE known'[Home[w]][u] = known[Home[w]][u]
      BY <1>2, <2>1, <2>2
    <2>3. ASSUME NEW c \in run[w].candidates, IngestNew(w, c)
          PROVE  Canon[u] \in run'[w].seen
      <3>1. Canon[c.url] \in run'[w].seen /\ Canon[Canon[c.url]] = Canon[c.url]
        BY <1>1, <2>3, IngestNewWrites DEF IngestNew, Run
      <3>2. u = Canon[c.url] \/ known'[Home[w]][u] = known[Home[w]][u]
        BY <2>3, IngestNewWrites DEF WritesOnly
      <3> QED
        BY <2>2, <3>1, <3>2
    <2>4. ~Verified(w) /\ ~RecordFailure(w) /\ run[w].phase # "idle"
      BY <2>1 DEF Verified, RecordFailure
    <2> QED
      BY <2>2, <2>3, <2>4, OwnWrites
  <1> QED
    BY <1>3, <1>4

LEMMA InitIInv == Init => IInv
  <1> SUFFICES ASSUME Init PROVE IInv
    OBVIOUS
  <1>1. TypeOK
    BY NoRowType, NoRunType, KnownPeersAssumption DEF Init, TypeOK
  <1>2. RequestInv
    BY DEF Init, RequestInv
  <1>3. \A w \in Syncers : run[w] = NoRun
    BY DEF Init
  <1>4. \A w \in Syncers : run[w].phase = "idle" /\ DOMAIN run[w].left = {}
    BY <1>3, NoRunType
  <1>5. PeersInv /\ RecordInv /\ SeenIsCurrent
    BY <1>4 DEF PeersInv, RecordInv, SeenIsCurrent
  <1>6. \A n \in Nodes, u \in Urls : known[n][u].status = "unknown"
    BY DEF Init, NoRow
  <1>7. PinsHold
    BY <1>6, KnownPeersAssumption DEF PinsHold
  <1> QED
    BY <1>1, <1>2, <1>5, <1>7 DEF IInv

LEMMA NextIInv == IInv /\ [Next]_vars => IInv'
  <1> SUFFICES ASSUME IInv, [Next]_vars PROVE IInv'
    OBVIOUS
  <1>1. TypeOK /\ RequestInv /\ PeersInv
    BY DEF IInv
  <1>2. TypeOK'
    BY <1>1, KnownStep, RequestStep, RunStep, FaultsStep DEF TypeOK
  <1> QED
    BY <1>1, <1>2, RequestStep, RunStep, RecordStep, PinsStep, SeenStep DEF IInv

LEMMA Invariance == Spec => []IInv
  BY InitIInv, NextIInv, PTL DEF Spec

-----------------------------------------------------------------------------
(* Every variable keeps its type.                                          *)
THEOREM PeersTypeCorrect == Spec => []TypeOK
  BY Invariance, PTL DEF IInv

(* A peer that a node reports as reachable has shown the key it is pinned  *)
(* to (verify_peer_identity, upsert_known_peer).                           *)
THEOREM PinnedPeers == Spec => []PinsHold
  BY Invariance, PTL DEF IInv

(* No announcement gets between list_known_peers and the last INSERT of    *)
(* ingest_peer_candidates.                                                 *)
THEOREM KnownUrlsCurrent == Spec => []SeenIsCurrent
  BY Invariance, PTL DEF IInv

(* Gossip never undoes a verdict: ingest_peer_candidates writes to a URL   *)
(* that has no row.                                                        *)
THEOREM GossipIsHarmless == Spec => GossipKeepsVerdicts
  <1>1. IInv /\ [Next]_vars =>
          [\A n \in Nodes, u \in Urls : Solo(n) /\ Unannounced(u) =>
             (known[n][u].status \in Verdict => known'[n][u].status \in Verdict)]_vars
    <2> SUFFICES ASSUME IInv, [Next]_vars, NEW n \in Nodes, NEW u \in Urls, Solo(n), Unannounced(u),
                        known[n][u].status \in Verdict
                 PROVE  known'[n][u].status \in Verdict
      OBVIOUS
    <2> USE DEF IInv
    <2>1. CASE known'[n][u] = known[n][u]
      BY <2>1
    <2>2. ASSUME NEW h \in Handlers, Home[h] = n, StoreAnnounced(h)
          PROVE  known'[n][u] = known[n][u]
      <3>1. u # request[h]
        BY <2>2 DEF RequestInv, Unannounced, StoreAnnounced
      <3> QED
        BY <2>2, <3>1, StoreAnnouncedWrites DEF WritesOnly
    <2>3. ASSUME NEW w \in Syncers, Home[w] = n, Verified(w)
          PROVE  known'[n][u].status \in Verdict
      BY <2>1, <2>3, VerifiedWrites DEF WritesOnly, Verdict
    <2>4. ASSUME NEW w \in Syncers, Home[w] = n, RecordFailure(w)
          PROVE  known'[n][u].status \in Verdict
      <3>1. run[w].row.status \in Verdict
        BY <2>4 DEF RecordInv, RecordFailure, Verdict
      <3> QED
        BY <2>1, <2>4, <3>1, RecordFailureWrites DEF WritesOnly
    <2>5. ASSUME NEW w \in Syncers, Home[w] = n, NEW c \in run[w].candidates, IngestNew(w, c)
          PROVE  known'[n][u] = known[n][u]
      <3>1. u # Canon[c.url]
        <4>1. u \in Rows(n)
          BY DEF Rows, NoRow, Verdict
        <4>2. Canon[c.url] # Absent /\ Canon[c.url] \notin run[w].seen /\ run[w].phase = "ingest"
          BY <2>5 DEF IngestNew, New
        <4> QED
          BY <2>5, <4>1, <4>2, IngestNewWrites DEF SeenIsCurrent
      <3> QED
        BY <2>5, <3>1, IngestNewWrites DEF WritesOnly
    <2> QED
      BY <2>1, <2>2, <2>3, <2>4, <2>5, WhoWrites
  <1> QED
    BY <1>1, Invariance, PTL DEF GossipKeepsVerdicts, Spec

(* failure_count misses no failure and counts none twice.                  *)
THEOREM EveryFailureCounted == Spec => FailuresCounted
  <1>1. IInv /\ [Next]_vars =>
          [\A w \in Syncers : Solo(Home[w]) /\ RecordFailure(w) =>
             known'[Home[w]][Peer(w)].failures = Count(known[Home[w]][Peer(w)].failures)]_vars
    <2> SUFFICES ASSUME IInv, NEW w \in Syncers, Solo(Home[w]), RecordFailure(w)
                 PROVE  known'[Home[w]][Peer(w)].failures = Count(known[Home[w]][Peer(w)].failures)
      OBVIOUS
    <2>1. known'[Home[w]][Peer(w)].failures = run[w].row.failures
      BY RecordFailureWrites DEF IInv
    <2>2. run[w].row.failures = Count(known[Home[w]][Peer(w)].failures)
      BY DEF IInv, RecordInv, RecordFailure
    <2> QED
      BY <2>1, <2>2
  <1> QED
    BY <1>1, Invariance, PTL DEF FailuresCounted, Spec

(* Gossip adds no second row for an address, however it is spelled.        *)
THEOREM GossipAddsNoTwin == Spec => NoTwins
  <1>1. IInv /\ [Next]_vars =>
          [\A n \in Nodes : Solo(n) =>
             \A u \in Rows(n)' \ Rows(n), v \in Rows(n) :
               Canon[u] = Canon[v] /\ Canon[u] # Absent => u \in Spoken(n)]_vars
    <2> SUFFICES ASSUME IInv, [Next]_vars, NEW n \in Nodes, Solo(n),
                        NEW u \in Rows(n)' \ Rows(n), NEW v \in Rows(n),
                        Canon[u] = Canon[v], Canon[u] # Absent
                 PROVE  u \in Spoken(n)
      OBVIOUS
    <2> USE DEF IInv
    <2>1. u \in Urls /\ v \in Urls /\ known'[n][u] # known[n][u]
      BY DEF Rows
    <2>2. ASSUME NEW h \in Handlers, Home[h] = n, StoreAnnounced(h)
          PROVE  u \in Spoken(n)
      <3>1. u = request[h]
        BY <2>1, <2>2, StoreAnnouncedWrites DEF WritesOnly
      <3> QED
        BY <2>2, <3>1 DEF RequestInv, StoreAnnounced, Spoken
    <2>3. ASSUME NEW w \in Syncers, Home[w] = n, Verified(w) \/ RecordFailure(w)
          PROVE  u \in Spoken(n)
      <3>1. u = Peer(w) /\ run[w].phase # "idle"
        BY <2>1, <2>3, VerifiedWrites, RecordFailureWrites DEF WritesOnly, Verified, RecordFailure
      <3>2. run[w].left \in Seq(Urls) /\ run[w].left # << >>
        BY <3>1 DEF TypeOK, Run
      <3>3. 1 \in DOMAIN run[w].left /\ u = run[w].left[1]
        BY <3>1, <3>2 DEF Peer
      <3> QED
        BY <2>1, <2>3, <3>3 DEF PeersInv, Spoken
    <2>4. ASSUME NEW w \in Syncers, Home[w] = n, NEW c \in run[w].candidates, IngestNew(w, c)
          PROVE  FALSE
      <3>1. u = Canon[c.url] /\ Canon[u] = u
        BY <2>1, <2>4, IngestNewWrites DEF WritesOnly
      <3>2. run[w].phase = "ingest" /\ u \notin run[w].seen
        BY <2>4, <3>1 DEF IngestNew, New
      <3> QED
        BY <2>4, <3>1, <3>2 DEF SeenIsCurrent
    <2> QED
      BY <2>1, <2>2, <2>3, <2>4, WhoWrites
  <1> QED
    BY <1>1, Invariance, PTL DEF NoTwins, Spec

=============================================================================
