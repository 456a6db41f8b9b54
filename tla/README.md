# TLA+ specifications of TIP

TIP is a protocol for signed events (identities, claims, attestations and
revocations of the latter two), with a node that stores events in SQLite and
pulls events from other nodes, keeps a list of the nodes it knows of, and a command
line client that makes and evaluates bundles of evidence. These modules specify the parts in which order,
concurrency or failure matter, TLC checks them on small instances, and TLAPS
proves the safety properties, the refinements and that retries get closer to their end for
every instance.

Paths below are relative to `src/crates/`.

## The system

| Part | State | Operations | Interacts with |
|---|---|---|---|
| Events (`tip-core/src/domain`, `verify_event`) | none | shape, id and signature checks | everything |
| Event table (`tip-node/src/adapters/sqlite_event_store.rs`) | table `events` | `append` (INSERT OR IGNORE), `get`, `query`, `list_after_sequence` | use cases, every process that opens the file |
| Ingestion (`tip-core/src/use_cases`) | locals of one call | `submit_event`, `validate_event_for_submission`, `submit_events_with_reference_retry` | table; called by the HTTP handlers and by synchronisation |
| HTTP interface (`tip-node/src/http`) | store mutex | `POST /events`, `/events/batch`, `/events/validate`, `GET /sync/events`, identity projections, `/peers`, `/peers/announce` | use cases |
| Peer synchronisation (`tip-node/src/main.rs`, use cases, `http_peer_event_client.rs`) | table `peer_sync_state`, locals of a run | `spawn_periodic_sync`, `sync_peers`, `sync_from_peer_with_state`, `apply_synced_events` | other nodes over HTTP; holds the store mutex of its node |
| Known peers and discovery (`main.rs`, `http`, the table adapter) | table `known_peers`, locals of a run or handler | `upsert_known_peer`, `verify_peer_identity`, `announce_peer`, `query_peers`, `ingest_peer_candidates` | other nodes over HTTP; the same store mutex |
| Start, migration, node key (`main.rs`, `sqlite_event_store.rs`, `node_key_file.rs`) | database file, key file | `serve`, `sync`, `migrate`, `ensure_sequence_column`, `load_or_generate` | other processes on the same files |
| Client (`tip-cli/src/main.rs`) | bundle and policy files, a key file | `trust evaluate`, `bundle create/verify/submit`, event creation, queries | node over HTTP, three requests per bundle |

What makes it hard:

- **Several writers.** Inside a process a mutex serialises the handlers. But
  `tip-node sync` may run next to `tip-node serve` on one database file, and
  `submit_event` validates with two SELECTs and then appends, without a
  transaction.
- **Order.** A revocation may arrive before what it revokes, in a batch, on a page
  or across pages; it is put off and tried again.
- **Cursors.** A node remembers per peer how far it has pulled. An event behind
  the cursor is never asked for again, except by a full resync, so that a cursor that
  runs ahead of the store loses events silently.
- **Mutual waiting.** The periodic run holds the store mutex while it waits for a
  peer, which may be waiting for this node.
- **Snapshots put together from pieces.** A bundle is made of three answers of a
  node that goes on storing events, and a list of as many pages as it takes.
- **Check, wait, write.** An announcement looks whether the peer is known, calls the
  announced node back without the mutex, and writes what it then believes to be new.
- **Two processes on one set of files**, that may both make a key or migrate a database,
  and may die between any two system calls.

What correctness means for the parts: the table stays *sound* (ids unique, every
event verified, every revocation preceded by a matching event of the same subject
and issuer); answers are true of the store; a batch loses nothing to its order;
a cursor never passes an event that is not stored; nothing waits for ever; trust
rests on evidence that was active at one moment; a list lacks nothing; what a node
reports of a peer was checked against its pin, and hearsay does not undo it; a node has
one key, and one number for each row.

## Modules

| Module | What it is |
|---|---|
| `TipEvents` | events, shape rules, the check of a revocation against its target |
| `EventStore` | the table as a sequence, and every operation on it as an operator |
| `EventLog` | abstract: one log that grows by events that may be published |
| `EventService` | abstract: requests whose events are each decided once, in one step |
| `ReferenceRetry` | the passes of `submit_events_with_reference_retry`, shared by the next two |
| `EventIngestion` | requests in several processes, one SQL statement per action |
| `PeerSync` | nodes and foreign feeds, one HTTP request, submission or write per action |
| `Evidence` | a client and a node: bundles, trust decisions, lists read page by page |
| `KnownPeers` | the tables of known peers of several nodes, one request or statement per action |
| `NodeStartup` | processes that open the files of one node, one system call or statement per action |
| `MCEventIngestion`, `MCPeerSync`, `MCEvidence`, `MCKnownPeers`, `MCNodeStartup` | constants for TLC |
| `EventStoreLemmas`, `ReferenceRetryLemmas` | facts about the operators |
| `EventIngestionProofs`, `EventAnswersProofs`, `PeerSyncProofs`, `EvidenceProofs`, `KnownPeersProofs`, `NodeStartupProofs` | theorems |

`EventIngestion` and `PeerSync` both extend `EventStore` and `ReferenceRetry`.
`EventIngestion` implements `EventService`, which implements `EventLog`; every node of
`PeerSync` implements `EventLog`. The first is what lets `PeerSync` take the submission
of an event as one step, and the second what lets `Evidence` use `EventLog` itself as
the node that the client talks to. `KnownPeers` and `PeerSync` are two views of the same run
of `sync_peers`: the former leaves out the events, the latter the table of known peers, and
neither reads what the other has. `NodeStartup` ends where they begin, with processes
that serve or synchronise on one database.

### How state corresponds to code

An **event** is a record of id, kind, subject, issuer, one payload field and the
signature. Canonical JSON, SHA-256 and Ed25519 are not modelled: `Genuine` is the
set of events that pass those checks, and `EventsAssumption` says that two genuine events
of one id agree in all that is hashed. They may differ in the signature, which is
not part of the id; that is how two different genuine events can conflict.

The **table** is a sequence, because `append` numbers rows by `MAX(sequence) + 1` and
nothing updates or deletes rows.

**`EventIngestion`.** `log` is the table; `session[p]` what process `p` is doing with its
one request (the mutex allows no second). Actions: `Receive` (`PostEvent`, `PostBatch`,
`ValidateEvent`), `Lookup` (`verify_event` and the SELECT of `event_already_stored`),
`RequireReference` (the SELECT of `require_referenced_event` and the three comparisons),
`AppendEvent` (the INSERT), `StoreFails` (any of the three statements fails),
`Respond`, `Crash`. Between two of them other processes may act. `job[p]` is what an
`EventService` sees of it: what was asked, which events, and the results so far, without the passes
and the line at which the process is. `Shared` says that there is a second process; only then
may the service treat a conflict like an event that is stored (the append is dropped) or give an event
of a batch up whose reference has just come.

**`PeerSync`.** `log[n]` and `cursor[n][m]` are the two tables of node `n`; `run[w]` has
the locals of a run of `sync_peers` by thread `w`. `StartSync`, `Identify`,
`FetchPage`/`FetchEnd`, `Accept`/`PutOff`/`Reject`/`StoreFails` for each event of a page,
`EndPage`/`EndFrozenPage`, `Persist` follow the code; `IdentifyFails`, `Fail` and
`Timeout` leave the run as the `?` operators do. Threads in `Locking` hold the mutex of
their node for the whole run, others (`tip-node sync`) do not. A submission is one step
here, since `EventIngestion` looks into it. Feeds are peers that run other software:
`Feed[f]` is a set of pages, any of which feed `f` may answer a request with, whatever it was asked
for. A page has any number of events, more than asked for included, and any `next_after_sequence` up to
`MaxSequence`, so that cursors jump, stand still and go back, and an empty page can push the recorded cursor on
(`LastPage`). `run[w].pulled` records which events the current peer has handed out; no action
reads it. `Replace` is a node that comes back with an empty database (another `db` in its configuration,
or the file is gone): its sequence numbers start over, and the cursors that others keep are too
high.

**`Evidence`.** `log` is a node, `client` one run of `tip trust evaluate` or of `tip query`, again
and again with the cursor of the last event. `GetEvents`,
`GetClaims`, `GetAttestations` are the requests of `create_bundle`; between them the node
may store events (`NodeStores`). `EvaluateBundle` reads a file instead. `client.at`
records how long the log was at each request; no action reads it. `Query` and `GetPage` are
`GET /events` with `after_created_at` and `after_id`; a page is the `First` events in the order of
`created_at` and id, both constants that have nothing to do with the order in the log.

**`KnownPeers`.** `known[n][u]` is the row of node `n` for URL `u`: status, key, whether
`last_verified_at` is set, source, failures. URLs are spellings; `Canon` is what
`normalize_candidate_url` and `normalize_peer_url` make of them. A handler of
`POST /peers/announce` is between its two uses of the mutex (`Announce`, then `StoreAnnounced` or
`RefuseAnnounced`). A run goes through `Verified`, or `NotVerified` (the SELECT of `upsert_known_peer`)
and `RecordFailure` (its INSERT); `Pulled` (all of `PeerSync`, which waits for the peer's mutex, and ends the run when the waits close a circle); `FetchPeers` or `SkipGossip`,
`ListKnown`, and `IngestNew` or `IgnoreCandidate` for each candidate. The SELECT matters to
`failure_count` alone, so elsewhere `Upsert` is one step. Whether `GET /info` answers, and with which
key, is open in each step within `Answers`. `PeersSpread` is about the first `ListLimit` rows of a
peer's table: what comes behind them in the order of URLs never spreads, since `GET /peers` has no second page.

**`NodeStartup`.** `file`, `schema` and `rows` are the key file and the events table; `run[p]` is the line at
which process `p` is. From `Start` on: `LoadKey`, or `GenerateKey`, `CreateKeyFile` (`create_new`) and
`WriteKeyFile`; `CreateTables`, `ReadColumns`, `Alter`, `Number` (UPDATE), `CreateIndex`; `Synced`, `Bind`.
`Die` may happen anywhere. `AppendRow` is `append`, by whoever has the database open; `Pull` is a
peer that follows the sequence numbers.

## Runs

| Run | Instance | Shows |
|---|---|---|
| `batch` | one process, 11 events one at a time, batches of 2 out of 6 and of 3 out of 5 | `AcceptedIsStored`, `RejectionsStand`, `EveryEventAnswered`, `RequestsEnd`, `RequestsAdvance`, `ImplementsService` |
| `shared` | two processes, 5 events, batches of 2 | `ClearedFits`, `UniqueIds`, `RevocationsResolve`, `ProjectionExact`, `ImplementsService` |
| `feeds` | two nodes that wait for each other, one of them with a feed that answers with any page of a disorderly list of 4, pages of 2; the other with a peer that is down | `PullComplete`, `RunsEnd`, `RunsAdvance` |
| `pair` | two nodes that pull from each other, one of them with two runs, ordinary or full ones, and with a feed that hands out more than it is asked for | `LogsSound`, `CursorCovers`, `PullsInOrder`, `RefinesEventLogs`, `CaughtUpAgree` |
| `chain` | three nodes in a row, full resyncs, a failing store, databases that are replaced, a dead last peer | `Replicates` |
| `node` | a client, a node with 6 events, 98 bundles in files, a limit of 4 | `TrustJustified`, `AnswerExact`, `QuietNodeAnswers`, `EvidenceStands`, `ListsComplete` |
| `peers` | two nodes, a peer with two keys and disorderly gossip, an announcement, 7 URLs, a table of three rows at a limit of 2 | `PinsHold`, `SeenIsCurrent`, `NoTwins`, `GossipKeepsVerdicts`, `FailuresCounted`, `PeersSpread` |
| `start` | three servers, two of them at one address, and a `tip-node sync`, on new or old files | `OneIdentity`, `NothingSkipped`, `EveryRowOffered`, `NumbersStand` |

`batch`, `pair`, `node`, `peers` and `start` also check the type invariant `TypeOK` of their module.

Four runs end in a violation. Each is a place where the code does something else
than the documentation says:

| Run | What it shows |
|---|---|
| `conflict` | Two processes append two signed forms of one event. `INSERT OR IGNORE` drops the second, which is answered "accepted" all the same (`AcceptedIsStored`). |
| `starved` | A peer that cannot be identified ends the run, so peers with a later URL are never reached (`Replicates`). |
| `announced` | A peer is announced that the node is just verifying for the first time: the handler found it unknown, and turns the verified row into a candidate (`VerdictsStand`). |
| `long` | More events than the default limit of a query: a bundle made by the client fails the client's own verification (`CreatedBundlesVerify`). |

### Bounds, and why they are enough

- *Batches of three* hold an event, its revocation and one event that interferes with them,
  in all orders; a second retry round needs a chain of two, which `OfRevocation`
  attempts and the kinds of events do not allow to succeed.
- *Events* are chosen so that every check of `validate_event_references` fails alone once
  (subject, issuer, kind), one id has two genuine events, and one event is forged.
- *Sequence numbers* of feeds end at 4 in `feeds`, where a feed can jump over a page, repeat one, and go on to the
  end of the numbers; at 1 in the other runs, which are about nodes. The program's end is 2^63 - 1, and that is how long a
  peer can keep a run busy: `RunsEnd` and `RunsAdvance` say no more than that.
- *Pages of one or two* events put a revocation and what it revokes on different pages, end
  a list on a full page and on a short one.
- `MaxFaults` bounds failing requests, statements and crashes. One or two faults are enough
  to hit each step of a run once and to let a run start over from each cursor.
- *Limit 4* in `node` lets the list of one subject be complete and be cut off by one event or two;
  *Limit 2* in `long` keeps the counterexample short. The program uses 500.
- *Seven URLs* in `peers` hold a configured peer and its other spelling, a peer with another case of the scheme
  than gossip about it, a node's own peer, an announced one and an invalid one. A limit of 2 on
  `GET /peers` cuts off the third row of a table; counts go up to 2. The program uses 500 rows.
- *Three servers* in `start`: two race for the key file while the third finds what they left; up to two
  old rows and four altogether give a row before, during and after a migration.
- `MaxRows`, `MaxFailures` bound counters that the program does not bound.
- The proofs below do not depend on any of these.

### Fairness

`EventIngestion!FairSpec`: a process that has begun with a request goes on (the handler
runs to its end; no guard waits for another process). It is needed by `RequestsEnd` only.

`PeerSync!Fairness`: weak fairness of what a run does next, since a thread is scheduled; strong
fairness of the two fetches, as a request that waits for a mutex gets it when the mutex keeps
being released; strong fairness of `StartSync` for the periodic threads, as the loop of
`spawn_periodic_sync` never ends and its timers expire over and over. For threads in `Resyncing`
that includes full runs, since `full_resync_seconds` elapses again and again. Nothing is assumed of
manual runs, of `Submit`, of `StoreFails` or of `Fail`.

`KnownPeers!Fairness` is the same for the periodic runs there, with strong fairness of `Pulled` and `FetchPeers`, the requests that
wait for the mutex of a peer. Of a configured peer that runs this program
it adds that `GET /info` answers some time (strong fairness of `Verified`), as `Replicates`
does through `Undisturbed`; nothing is assumed of other peers, of manual runs or of announcements.

`Timeout` is the default timeout of `reqwest::blocking`. It is
enabled only in a circle of waits, where `RunsEnd` needs it: `CirclesStay` shows that nothing else helps. A timeout while a peer is merely slow is a `Fail`.

## Proofs

All theorems are about arbitrary sets of events, processes, nodes, feeds, policies and bundles,
and rest on nothing but the named assumptions on constants: `EventsAssumption` (SHA-256 has no
collisions), `BatchesAssumption`, `PeersAssumption`, `StartupAssumption` (types),
`EvidenceAssumption` (types; ids of different events are ordered) and `KnownPeersAssumption` (types;
normalising a URL twice changes nothing more; an invalid URL does not answer).

**Store** (`EventStoreLemmas`). `AppendSound`: a publishable event keeps a sound store sound.
`SoundProjection`: on a sound store the projections, which compare ids only, show exactly what
issuers have not revoked.

**Ingestion** (`EventIngestionProofs`). `IInv == TypeOK /\ Sound(log) /\ ClearedFits`. Soundness
alone is not inductive, since an append relies on a validation that other processes may have
outdated. `ClearedFits` is what remains of it: an event about to be appended either has its id
taken (then the INSERT changes nothing) or still has its reference, because rows never change
(`ReferenceStays`). From `IInv` follow `TypeCorrect`, `ClearedEventsFit`, `StoreHasUniqueIds`,
`StoredRevocationsResolve`, `ProjectionsExact`, and, step by step, `ImplementsEventLog`.

**Retries** (`ReferenceRetryLemmas`). `WorkLeft` bounds what a pass may still do: it counts, twice, the submissions
that would come if every further round settled one event only. A batch of n events starts with (n+1)(n+2) (`FirstWork`), and
`HeadAdvances` says that each submission takes at least two off, whether it settles its event or puts it off: a
retry that puts off as many events as it began with is followed by the final round, and nothing follows that. `Paced` is what
the descent needs to know of a pass: that the events put off and those still in the queue are no more than the round began
with. So the loop ends, after (n+1)(n+2)/2 submissions at the latest. `HeadOnce` and `ContinueOnce` add that no event is
twice in a pass, so that none is decided twice.

**Answers** (`EventAnswersProofs`). `EventsAnswered` holds for any number of processes: an event without a result
waits in the pass, in its queue or put off (`Booked`), and no pass that still holds an event is the last one
(`ContinueWaits`). `RequestsGetOn`, also for any number, is the descent of the retries for every statement of a request.
`AcceptedEventsStored`, `RejectedEventsStayOut` and `LoneAnswersExact` assume `Alone`, that one process has the database, and the run
`conflict` shows that the first of these three fails without it. The hard one is `RejectedEventsStayOut`: an
event turned down in the last round lacked its reference then, so the round must not store anything
behind its back. `Resigned` is why: a retry that put off as many events as it began with has settled none of them,
so that each of them was looked at in one and the same store, and lacks its reference there; the last round
goes through these events only, and accepts none. Every other rejection is final at once
(`StuckStays`, `ConflictStays`), because rows never change.

`ImplementsTheService` maps the statements of a request to the single decision of `EventService`. Validation is
three statements, and the decision is the last of them that counts: for an event that is accepted the INSERT, for one that is
turned down the SELECT that turned it down, unless the event is put off, which the service does not see at all. What an
earlier statement has found has to hold at the decision: with one process because nothing was stored since (`AllSolo`), with
several because of what cannot change back. A stored id stays stored, and its row stays as it is;
a reference once there stays there (`ClearedFits`); an id found free
and taken since makes the event `Welcome`, and its INSERT a stutter of the log, as in `conflict`. An event of the
final round that is given up may have its reference by now; that is `GiveUp`, for which another process is
needed, as `RejectedEventsStayOut` shows. `ServiceInv` adds to the
invariant that each event without a result is owed one (`AllOwed`), and in one place only (`Once`).
`ServicePublishes` is the step from there to `EventLog`.

**Synchronisation** (`PeerSyncProofs`). `TypeCorrect`, `StoresSound` and `ImplementsEventLogs` as above.
`CursorsCovered` needs `IInv == TypeOK /\ LogsSound /\ CursorCovers /\ PullsInOrder`:
a cursor written at the end of a run is covered because the run applied all events
in the peer's order, and none of them was put off or turned down, because the peer's
store is sound: what an event refers to comes before it there, so it is already in this store
(`NextEventFits`). Then the id of the event gets in, or was in before. The
theorem holds for nodes whose store works, since a failed statement counts as a rejected event
and the cursor passes it, and for peers whose database is not replaced. `PullsComplete` is about all peers, feeds
that answer with arbitrary pages included. Its invariant `AllTracked` says of a run that every event it has been handed out and has gone through is stored, can
never be, or is still pending, and of the pending ones between two pages that they lack their reference, again by
`Resigned`. It stays true because the mutex keeps clients away and no other run works for the node.

`CaughtUpNodesAgree` follows from `CursorsCovered` and `StoresSound`: two stores with the same ids need not have the same rows
(their signatures may differ, and so may the order), but what an issuer has revoked is the same (`SameIdsAgree`), because on
sound stores a revocation and what it revokes match in all that is hashed.
`RunsGetOn` carries the descent of the retries over to runs: at one peer the cursor grows, or it stays and the run turns from the
request to the page, gets on with the page, or is about to record the cursor; and every page ends at a sequence number that the peer
has. A node has as many as events, so a run takes no more pages from it than there are events behind the cursor. Of a feed the last one is
`MaxSequence`, and the theorem promises no earlier end: a feed that repeats full pages with the next number each time keeps the run busy
until the numbers end, and nothing in the program cuts it short. The comparison in `sync_from_peer_after_sequence_with_cursor` that aborts a run is what
the proof rests on. `HierarchiesNeverWait` and `CirclesStay` are about the mutex. The assumption of the
former is a configuration without circles, stated as a well-founded relation on nodes (`PullsFrom`): of the nodes of a circle one
would have no peer below it (`WFMin`). The latter shows that in any other configuration the timeout is the only way
out.

**Evidence** (`EvidenceProofs`). `IInv` says of which prefix of the log each part of a bundle is an
answer. A listed event that is active later was active when it was listed (`ActiveBefore`), and more
evidence never turns an answer to no (`EvaluateMonotone`); hence `JustifiedTrust`, for
any limit. A complete list has unique ids, so that comparing ids compares
events (`ActiveById`); hence `ExactAnswer`. `QuietNodes` and `StandingEvidence` are two
more. `CompleteLists` has an invariant of its own, `Listing`: an event that was there when the list was
begun is on it or comes behind all that is. A page keeps it because the first events of a set precede
all others (`FirstIsFirst`), and a page that is not full leaves nothing out.

**Known peers** (`KnownPeersProofs`). The argument is the mutex: on a node whose only synchronisation is the
periodic task nobody else writes to the table while a run is under way, so that `known_urls`
(`KnownUrlsCurrent`), the count read by the SELECT (`EveryFailureCounted`) and the verdict on the
peer (`PinnedPeers`) are still what they were. `IInv` adds to these what a run about to record a failure
remembers (`RecordInv`), that a run's peers are those that were configured (`PeersInv`), and that a handler
waits for a normalised URL (`RequestInv`). `GossipIsHarmless` and `GossipAddsNoTwin` follow step by step.

**Start** (`NodeStartupProofs`). `OneKeyShown`: a whole key file never changes again, and whoever shows a key has read it
there or written it. `CursorsSafe`, `RowsOffered` and `NumbersKept` share an invariant on the rows: those with
numbers come behind those without, unless the table is numbered; numbers grow with the rows; `UPDATE`
fails as a whole when another process stored rows between the two statements.

Only model-checked: liveness (`RequestsEnd`, `RunsEnd`, `Replicates`, `PeersSpread`). Under fairness it needs `ENABLED`, and
an induction over the numbers that descend, both of which are out of the prover's reach. What is proved of the first two is the
descent itself (`RequestsGetOn`, `RunsGetOn`): every step leads closer to the end, so what is left to the runs `batch` and `feeds`
is that a next step is always possible. Every invariant and every action property of the passing runs is a theorem,
`AcceptedIsStored` and `RejectionsStand` of a lone process.

## Not modelled

- Creating events on the client: one call without state, whose results are members of `Genuine`.
- Reading the configuration, and the seconds of the periodic loop: a run starts at any time.
- Threads of the async runtime: a handler that waits for the mutex blocks its worker thread.
- Names and times of known peers; the filters of `GET /events` by issuer and type, and of `GET /peers` by status.
- A partial key file is there, and keeps processes from starting; that somebody must delete it is left as it is.
  On systems other than Unix `write_secret_file` overwrites an existing file, which `NodeStartup` does not allow.
- Integers wider than the program needs; limits cast from `usize` to `i64`.
- Cryptography and canonical JSON (assumed), test support, the home page, output formats.

## What could come next

The modules leave room for: creating events with a clock of one second, in which a claim that is revoked and
made again within one second is the same event; and the blocked worker threads.
