------------------------------ MODULE PeerSync ------------------------------
(***************************************************************************)
(* Nodes that replicate their events by pulling from each other            *)
(* (sync_peers in crates/tip-node/src/main.rs, sync_from_peer_with_state   *)
(* and what it calls in crates/tip-core/src/use_cases/mod.rs, sync_events  *)
(* in crates/tip-node/src/http/mod.rs).                                    *)
(*                                                                         *)
(* A syncer is a thread that runs sync_peers again and again for its home  *)
(* node: the periodic task of `tip-node serve`, which holds the node's     *)
(* store mutex for the whole run (Locking), or a `tip-node sync` process,  *)
(* which shares nothing but the database file with the serving one.  A     *)
(* peer is another node, or a feed: a server of someone else's making that *)
(* may answer with any page it likes, whatever it is asked for.            *)
(*                                                                         *)
(*   log[n]        the events of node n                                    *)
(*   cursor[n][m]  peer_sync_state of n: the sequence number up to which   *)
(*                 it has pulled from m, 0 when there is no row            *)
(*   run[w]        the local variables of the run of syncer w:             *)
(*     phase   "idle"; before GET /info ("identify"), GET /sync/events     *)
(*             ("fetch"), the next event of a page ("apply"),              *)
(*             put_peer_sync_state ("persist")                             *)
(*     left    the peers still to do, the current one first                *)
(*     full    from_beginning                                              *)
(*     after   after_sequence                                              *)
(*     next, short   next_after_sequence of the page, and whether the page *)
(*             has fewer events than were asked for                        *)
(*     pulled  the events that the current peer has handed out so far, of  *)
(*             which the program keeps the number                          *)
(*     pass    submit_events_with_reference_retry on the page; between     *)
(*             pages, pass.deferred are the pending_references             *)
(*   faults        how many things have gone wrong so far                  *)
(*                                                                         *)
(* A submission to the store is one step here: EventIngestion looks into   *)
(* it.                                                                     *)
(***************************************************************************)
EXTENDS EventStore, ReferenceRetry

CONSTANTS
  Nodes,       \* nodes that run this program
  Feeds,       \* peers that do not
  Feed,        \* the pages each feed may answer with
  Peers,       \* the configured peers of each node, in the order of their URLs
  Syncers,     \* the threads that synchronise
  Home,        \* the node each of them works for
  Locking,     \* those that hold their node's store mutex while they do
  Resyncing,   \* those that scan from the beginning now and then
  Down,        \* the peers that cannot be reached, or show the wrong key
  Faulty,      \* the nodes whose store may fail to execute a statement
  Replaced,    \* the nodes whose database may be replaced by an empty one
  PageLimit,   \* how many events a page may have
  MaxSequence, \* the largest sequence number, 2^63 - 1 in the program
  MaxFaults    \* how many things may go wrong

(* An answer to GET /sync/events.  A negative next_after_sequence does     *)
(* what 0 does.                                                            *)
Page == [events : Seq(Events), next : 0 .. MaxSequence]

(* (A peer that gives no such answer is in Down, or left to Fail.)         *)
ASSUME PeersAssumption ==
  /\ MaxSequence \in Nat
  /\ Feed \in [Feeds -> SUBSET Page]
  /\ \A m \in Feeds \ Down : Feed[m] # {}
  /\ Peers \in [Nodes -> Seq(Nodes \cup Feeds)]
  /\ Home \in [Syncers -> Nodes]
  /\ Locking \subseteq Syncers
  /\ Nodes \cap Feeds = {}
  /\ PageLimit \in Nat \ {0}
  /\ MaxFaults \in Nat

VARIABLES log, cursor, run, faults

vars == << log, cursor, run, faults >>

Phases == {"idle", "identify", "fetch", "apply", "persist"}

NoRun ==
  [phase |-> "idle", left |-> << >>, full |-> FALSE, after |-> 0, next |-> 0,
   short |-> FALSE, pass |-> NoPass, pulled |-> {}]

Init ==
  /\ log = [n \in Nodes |-> << >>]
  /\ cursor = [n \in Nodes |-> [m \in Nodes \cup Feeds |-> 0]]
  /\ run = [w \in Syncers |-> NoRun]
  /\ faults = 0

-----------------------------------------------------------------------------

Peer(w) == Head(run[w].left)

(* The store mutex of the process that serves m is taken by a run. *)
Locked(m) == \E v \in Locking : Home[v] = m /\ run[v].phase # "idle"

(***************************************************************************)
(* The answer of a node that stores s: its next_after_sequence is the      *)
(* sequence of the last event of the page, or after itself if there is     *)
(* none.                                                                   *)
(***************************************************************************)
Listing(s, after) ==
  LET page == ListAfter(s, after, PageLimit)
  IN [events |-> page, next |-> after + Len(page)]

Replies(m, after) == IF m \in Nodes THEN {Listing(log[m], after)} ELSE Feed[m]

(* The head of the queue, and the run of w with another pass. *)
Incoming(w) == Head(run[w].pass.queue)

WithPass(w, pass) == [run EXCEPT ![w].pass = Continue(pass)]

-----------------------------------------------------------------------------
(* An event that a client posts to node n and that is new to it.  Others   *)
(* change nothing.                                                         *)
Submit(n, e) ==
  /\ ~Locked(n)
  /\ e.id \notin StoredIds(log[n])
  /\ Validation(log[n], e) = "accepted"
  /\ log' = [log EXCEPT ![n] = Put(@, e)]
  /\ UNCHANGED << cursor, run, faults >>

(* sync_peers begins: after periodic_seconds, or on an operator's command. *)
StartSync(w, full) ==
  /\ run[w].phase = "idle"
  /\ Peers[Home[w]] # << >>
  /\ full => w \in Resyncing
  /\ w \in Locking => ~Locked(Home[w])
  /\ run' = [run EXCEPT ![w] =
       [NoRun EXCEPT !.phase = "identify", !.left = Peers[Home[w]], !.full = full]]
  /\ UNCHANGED << log, cursor, faults >>

(***************************************************************************)
(* verify_peer_identity succeeds, and sync_from_peer_with_state looks up   *)
(* where to go on.  The faulty forms go on behind the next event, and go   *)
(* on from the cursor in a full run too.                                   *)
(***************************************************************************)
IdentifySkipping(w) ==
  /\ run[w].phase = "identify"
  /\ Peer(w) \notin Down
  /\ run' = [run EXCEPT ![w] =
       [@ EXCEPT !.phase = "fetch",
                 !.after = IF run[w].full THEN 0 ELSE cursor[Home[w]][Peer(w)] + 1,
                 !.pass = NoPass,
                 !.pulled = {}]]
  /\ UNCHANGED << log, cursor, faults >>

IdentifyIncremental(w) ==
  /\ run[w].phase = "identify"
  /\ Peer(w) \notin Down
  /\ run' = [run EXCEPT ![w] =
       [@ EXCEPT !.phase = "fetch",
                 !.after = cursor[Home[w]][Peer(w)],
                 !.pass = NoPass,
                 !.pulled = {}]]
  /\ UNCHANGED << log, cursor, faults >>

Identify(w) ==
  /\ run[w].phase = "identify"
  /\ Peer(w) \notin Down
  /\ run' = [run EXCEPT ![w] =
       [@ EXCEPT !.phase = "fetch",
                 !.after = IF run[w].full THEN 0 ELSE cursor[Home[w]][Peer(w)],
                 !.pass = NoPass,
                 !.pulled = {}]]
  /\ UNCHANGED << log, cursor, faults >>

(***************************************************************************)
(* GET /sync/events is answered, which takes the peer's store mutex.  With *)
(* an empty page there is nothing to apply: the cursor goes to where the   *)
(* peer says, never back, and the pending references are given up.         *)
(***************************************************************************)
LastPage(r, page) ==
  [r EXCEPT !.phase = "persist",
            !.after = IF page.next > r.after THEN page.next ELSE r.after]

FetchEnd(w) ==
  /\ run[w].phase = "fetch"
  /\ ~Locked(Peer(w))
  /\ \E page \in Replies(Peer(w), run[w].after) :
       /\ page.events = << >>
       /\ run' = [run EXCEPT ![w] = LastPage(run[w], page)]
  /\ UNCHANGED << log, cursor, faults >>

(* The run r takes a page, and goes through these events.                  *)
TakePage(r, page, events) ==
  [r EXCEPT !.phase = "apply",
            !.next = page.next,
            !.short = Len(page.events) < PageLimit,
            !.pass = StartPass("first", events),
            !.pulled = @ \cup Range(page.events)]

(* The pending references of the pages before come first, except in the    *)
(* faulty form.                                                            *)
FetchPageOnly(w) ==
  /\ run[w].phase = "fetch"
  /\ ~Locked(Peer(w))
  /\ \E page \in Replies(Peer(w), run[w].after) :
       /\ page.events # << >>
       /\ run' = [run EXCEPT ![w] = TakePage(run[w], page, page.events)]
  /\ UNCHANGED << log, cursor, faults >>

FetchPage(w) ==
  /\ run[w].phase = "fetch"
  /\ ~Locked(Peer(w))
  /\ \E page \in Replies(Peer(w), run[w].after) :
       /\ page.events # << >>
       /\ run' = [run EXCEPT ![w] =
            TakePage(run[w], page, run[w].pass.deferred \o page.events)]
  /\ UNCHANGED << log, cursor, faults >>

(***************************************************************************)
(* submit_event on the next event of the page is accepted, cannot be       *)
(* decided because its reference is missing, or is rejected.  The last     *)
(* round of the page validates only; what lacks its reference even then is *)
(* still pending when the page is done.                                    *)
(***************************************************************************)
Applying(w) == run[w].phase = "apply" /\ ~PassOver(run[w].pass)

Accept(w) ==
  LET n == Home[w] IN
  /\ Applying(w)
  /\ Validation(log[n], Incoming(w)) = "accepted"
  /\ log' = IF run[w].pass.round = "final"
              THEN log ELSE [log EXCEPT ![n] = Put(@, Incoming(w))]
  /\ run' = WithPass(w, SettleHead(run[w].pass))
  /\ UNCHANGED << cursor, faults >>

PutOff(w) ==
  /\ Applying(w)
  /\ Validation(log[Home[w]], Incoming(w)) = "missing"
  /\ run' = WithPass(w, DeferHead(run[w].pass))
  /\ UNCHANGED << log, cursor, faults >>

Reject(w) ==
  /\ Applying(w)
  /\ Validation(log[Home[w]], Incoming(w)) \in {"invalid", "conflict"}
  /\ run' = WithPass(w, SettleHead(run[w].pass))
  /\ UNCHANGED << log, cursor, faults >>

(* A statement of the submission fails: the event counts as rejected.      *)
StoreFails(w) ==
  /\ Applying(w)
  /\ VerifyEvent(Incoming(w))
  /\ Home[w] \in Faulty
  /\ faults < MaxFaults
  /\ faults' = faults + 1
  /\ run' = WithPass(w, SettleHead(run[w].pass))
  /\ UNCHANGED << log, cursor >>

(***************************************************************************)
(* A page is done: a cursor that did not advance aborts the run, a short   *)
(* page was the last one.  The faulty form goes on whatever the cursor.    *)
(***************************************************************************)
PageDone(w) == run[w].phase = "apply" /\ PassOver(run[w].pass)

EndPageAnyway(w) ==
  /\ PageDone(w)
  /\ run' = [run EXCEPT ![w] =
       [@ EXCEPT !.after = run[w].next,
                 !.phase = IF run[w].short THEN "persist" ELSE "fetch"]]
  /\ UNCHANGED << log, cursor, faults >>

EndPage(w) ==
  /\ PageDone(w)
  /\ run[w].next > run[w].after
  /\ run' = [run EXCEPT ![w] =
       [@ EXCEPT !.after = run[w].next,
                 !.phase = IF run[w].short THEN "persist" ELSE "fetch"]]
  /\ UNCHANGED << log, cursor, faults >>

EndFrozenPage(w) ==
  /\ PageDone(w)
  /\ run[w].next <= run[w].after
  /\ run' = [run EXCEPT ![w] = NoRun]
  /\ UNCHANGED << log, cursor, faults >>

(***************************************************************************)
(* put_peer_sync_state; then sync_peers turns to the next peer, if any.    *)
(* The faulty form does not notice that there is none.                     *)
(***************************************************************************)
PersistOn(w) ==
  /\ run[w].phase = "persist"
  /\ cursor' = [cursor EXCEPT ![Home[w]][Peer(w)] = run[w].after]
  /\ run' = [run EXCEPT ![w] = [@ EXCEPT !.left = Tail(@), !.phase = "identify"]]
  /\ UNCHANGED << log, faults >>

Persist(w) ==
  LET rest == Tail(run[w].left) IN
  /\ run[w].phase = "persist"
  /\ cursor' = [cursor EXCEPT ![Home[w]][Peer(w)] = run[w].after]
  /\ run' = [run EXCEPT ![w] =
       IF rest = << >> THEN NoRun ELSE [@ EXCEPT !.left = rest, !.phase = "identify"]]
  /\ UNCHANGED << log, faults >>

(***************************************************************************)
(* Node m starts over: its process ends, and the next one is given another *)
(* --db.  What the others have recorded of it stays.                       *)
(***************************************************************************)
Replace(m) ==
  /\ m \in Replaced
  /\ \A w \in Syncers : Home[w] = m => run[w].phase = "idle"
  /\ log[m] # << >>
  /\ faults < MaxFaults
  /\ faults' = faults + 1
  /\ log' = [log EXCEPT ![m] = << >>]
  /\ cursor' = [cursor EXCEPT ![m] = [p \in Nodes \cup Feeds |-> 0]]
  /\ UNCHANGED run

-----------------------------------------------------------------------------
(* What ends a run early, peers that are left included. *)

Abort(w) == run' = [run EXCEPT ![w] = NoRun]

(* verify_peer_identity fails. *)
IdentifyFails(w) ==
  /\ run[w].phase = "identify"
  /\ Peer(w) \in Down
  /\ Abort(w)
  /\ UNCHANGED << log, cursor, faults >>

(* A request or a statement outside of a page fails, or the process dies.  *)
Fail(w) ==
  /\ run[w].phase # "idle"
  /\ faults < MaxFaults
  /\ faults' = faults + 1
  /\ Abort(w)
  /\ UNCHANGED << log, cursor >>

(***************************************************************************)
(* GET /sync/events waits for the store mutex of the peer, whose own run   *)
(* waits in turn.  Once the waits close a circle only the timeout of the   *)
(* HTTP client ends them.  (A timeout before that is a Fail.)  Without a   *)
(* timeout, the faulty form, nothing does.                                 *)
(***************************************************************************)
WaitsFor(w) ==
  IF run[w].phase = "fetch"
    THEN {v \in Locking : Home[v] = Peer(w) /\ run[v].phase # "idle"}
    ELSE {}

WaitsInCircle(w) ==
  \E circle \in SUBSET Locking :
    w \in circle /\ \A v \in circle : WaitsFor(v) \cap circle # {}

NoTimeout(w) == FALSE /\ UNCHANGED vars

Timeout(w) ==
  /\ WaitsInCircle(w)
  /\ Abort(w)
  /\ UNCHANGED << log, cursor, faults >>

-----------------------------------------------------------------------------

(* What syncer w does once it runs. *)
Proceed(w) ==
  \/ Identify(w)
  \/ FetchEnd(w)
  \/ FetchPage(w)
  \/ Accept(w)
  \/ PutOff(w)
  \/ Reject(w)
  \/ EndPage(w)
  \/ EndFrozenPage(w)
  \/ Persist(w)
  \/ IdentifyFails(w)
  \/ Timeout(w)

Sync(w) ==
  \/ \E full \in BOOLEAN : StartSync(w, full)
  \/ Proceed(w)
  \/ StoreFails(w)
  \/ Fail(w)

Next ==
  \/ \E n \in Nodes, e \in Events : Submit(n, e)
  \/ \E w \in Syncers : Sync(w)
  \/ \E m \in Nodes : Replace(m)

Spec == Init /\ [][Next]_vars

(***************************************************************************)
(* A run that has begun goes on, a request that waits for a mutex gets it  *)
(* when it keeps being released, and the periodic task keeps starting      *)
(* runs: ordinary ones and, where full_resync_seconds is set, full ones.   *)
(***************************************************************************)
Fairness ==
  /\ \A w \in Syncers : WF_vars(Proceed(w)) /\ SF_vars(FetchPage(w) \/ FetchEnd(w))
  /\ \A w \in Locking, full \in BOOLEAN : SF_vars(StartSync(w, full))

FairSpec == Spec /\ Fairness

-----------------------------------------------------------------------------
(* Properties. *)

(* Logs hold events, cursors are sequence numbers, and a run that is under *)
(* way has a peer.                                                         *)
Run ==
  [phase : Phases, left : Seq(Nodes \cup Feeds), full : BOOLEAN,
   after : Nat, next : Nat, short : BOOLEAN, pass : PassOf(Events),
   pulled : SUBSET Events]

TypeOK ==
  /\ log \in [Nodes -> Seq(Events)]
  /\ cursor \in [Nodes -> [Nodes \cup Feeds -> Nat]]
  /\ run \in [Syncers -> Run]
  /\ \A w \in Syncers : run[w].phase # "idle" => run[w].left # << >>
  /\ faults \in 0 .. MaxFaults

(* The first i events of store s are, by their ids, in store t.            *)
Covered(s, t, i) == i <= Len(s) /\ \A j \in 1 .. i : s[j].id \in StoredIds(t)

(* A node whose store works has everything of another node up to its       *)
(* cursor, at any time, unless that node started over: whatever runs       *)
(* overlapped, were cut short or began anew, no event is skipped for good  *)
(* (sync_from_peer_with_state keeps the cursor of what it has pulled).     *)
CursorCovers ==
  \A n \in Nodes \ Faulty, m \in Nodes \ Replaced :
    Covered(log[m], log[n], cursor[n][m])

(* While a node whose store works pulls from another node, nothing has to  *)
(* be put off: of the page, the events not yet applied are the last ones,  *)
(* in the order of the peer, and everything before them is stored.  This   *)
(* is what CursorCovers rests on.                                          *)
PageInOrder(s, t, r) ==
  LET waiting == r.pass.queue
      applied == r.next - Len(waiting)
  IN
  /\ r.pass.round = "first"
  /\ r.pass.deferred = << >>
  /\ r.next <= Len(s)
  /\ applied \in Nat
  /\ Covered(s, t, applied)
  /\ \A k \in 1 .. Len(waiting) : waiting[k] = s[applied + k]

InOrder(s, t, r) ==
  /\ Covered(s, t, r.after)
  /\ r.phase = "fetch" => r.pass.deferred = << >>
  /\ r.phase = "apply" => PageInOrder(s, t, r)

Pulling(w) == run[w].phase \in {"fetch", "apply", "persist"}

PullsInOrder ==
  \A w \in Syncers :
    Pulling(w) /\ Home[w] \notin Faulty /\ Peer(w) \in Nodes \ Replaced =>
    InOrder(log[Peer(w)], log[Home[w]], run[w])

(* A run that is about to record its cursor, and that had the store to     *)
(* itself, has stored every event the peer handed out that could be        *)
(* stored: the order in which a peer lists an event and its revocation, on *)
(* one page or on several, does not matter (apply_synced_events keeps the  *)
(* pending).                                                               *)
Undisturbed(w) ==
  /\ w \in Locking
  /\ Home[w] \notin Faulty
  /\ \A v \in Syncers : Home[v] = Home[w] => v = w

PullComplete ==
  \A w \in Syncers : run[w].phase = "persist" /\ Undisturbed(w) =>
    LET s == log[Home[w]] IN
    \A e \in run[w].pulled : e.id \in StoredIds(s) \/ Validation(s, e) # "accepted"

(* Two nodes that have pulled all there is from each other show the same   *)
(* active claims and attestations, in whatever order each of them got its  *)
(* events and from whom (active_claims, active_attestations).              *)
ActiveIds(n, subject, kind) ==
  {e.id : e \in ActiveEvents(EventsAbout(log[n], subject), kind)}

CaughtUp(n, m) == cursor[n][m] = Len(log[m])

CaughtUpAgree ==
  \A n, m \in Nodes \ (Faulty \cup Replaced) :
    CaughtUp(n, m) /\ CaughtUp(m, n) =>
      \A subject \in {e.subject : e \in Events}, kind \in {"claim.added", "attestation.issued"} :
        ActiveIds(n, subject, kind) = ActiveIds(m, subject, kind)

(* The stores of the nodes stay sound, whatever feeds offer and however    *)
(* runs overlap with each other and with clients.                          *)
LogsSound == \A n \in Nodes : Sound(log[n])

EL(n) == INSTANCE EventLog WITH log <- log[n]

(* Every node on its own is one log of published events, as long as it     *)
(* keeps its database.                                                     *)
RefinesEventLogs ==
  /\ \A n \in Nodes : EL(n)!Init
  /\ [][\A n \in Nodes \ Replaced : EL(n)!Next \/ UNCHANGED log[n]]_vars

(* Every run comes to its end: no two runs wait for each other's mutex for *)
(* ever, and a peer that hands out a cursor again, or a smaller one, is    *)
(* given up.  A peer whose full pages go on and on with larger cursors is  *)
(* given up only when the sequence numbers end (nothing else bounds the    *)
(* loop of sync_from_peer_after_sequence_with_cursor).                     *)
RunsEnd == \A w \in Syncers : run[w].phase # "idle" ~> run[w].phase = "idle"

(* The last sequence number of a peer's store; of a feed it may be any.    *)
LastSequence(m) == IF m \in Nodes THEN Len(log[m]) ELSE MaxSequence

(* What a run does at one peer: it moves the cursor on to where the page   *)
(* says, turns to a page that ends within the store of the peer, gets      *)
(* further with the page, or is about to record the cursor.                *)
PhasesLeft == [fetch |-> 2, apply |-> 1, persist |-> 0]

GetsOn(r, t, last) ==
  \/ t.after > r.after /\ (t.after = r.next \/ t.phase = "persist")
  \/ /\ t.after = r.after
     /\ \/ /\ PhasesLeft[t.phase] < PhasesLeft[r.phase]
           /\ t.phase = "apply" => t.next <= last
        \/ r.phase = "apply" /\ t.phase = "apply" /\ FurtherOn(t.pass, r.pass)

RunAdvances(r, t, last) ==
  \/ t.phase = "idle"
  \/ Len(t.left) < Len(r.left)
  \/ /\ t.left = r.left
     /\ t.phase # "identify"
     /\ r.phase # "identify" => GetsOn(r, t, last)

(* Every step of a run ends it, turns to a further peer, or gets on at the *)
(* current one, so a run takes no more pages of events from a peer than    *)
(* there are sequence numbers behind the cursor.  At a node these are      *)
(* the events it stores; at a feed that hands out one number after the     *)
(* other nothing but MaxSequence bounds them (sync_from_peer_with_state    *)
(* aborts only when next_after_sequence does not advance).                 *)
RunsAdvance ==
  [][\A w \in Syncers : run[w].phase # "idle" /\ run'[w] # run[w] =>
       RunAdvances(run[w], run'[w], LastSequence(Peer(w)))]_vars

(* periodic_seconds keeps a node synced with its configured peers: what a  *)
(* peer stores and keeps, the node stores in the end, whatever failed in   *)
(* between and whatever cursor is left of an earlier database of the peer  *)
(* (README.md, "periodic_seconds keeps long-running nodes synced").        *)
Replicates ==
  \A w \in Syncers : \A m \in Range(Peers[Home[w]]) \ (Down \cup Feeds) :
    \A e \in Events :
      e \in Range(log[m]) ~>
        (e.id \in StoredIds(log[Home[w]]) \/ e \notin Range(log[m]))
==============================================================================
