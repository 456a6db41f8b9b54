----------------------------- MODULE MCPeerSync -----------------------------
(***************************************************************************)
(* Instances of PeerSync for TLC.  Constants are named after the runs that *)
(* use them.                                                               *)
(***************************************************************************)
EXTENDS PeerSync, TLC

CONSTANTS a, b, c, f, g, alice, bob, none

Event(id, kind, subject, issuer, field, signature) ==
  [id |-> id, kind |-> kind, subject |-> subject, issuer |-> issuer,
   field |-> field, signature |-> signature]

Claim         == Event("c", "claim.added", alice, alice, "text", "s1")
ClaimForged   == [Claim EXCEPT !.id = "f"]
Revocation    == Event("r", "claim.revoked", alice, alice, "c", "s1")
WrongSubject  == Event("rs", "claim.revoked", bob, alice, "c", "s1")
OfRevocation  == Event("rr", "claim.revoked", alice, alice, "r", "s1")

NoNodes == {}

(* Two nodes that pull from each other, each holding the mutex the other   *)
(* one needs.  The first also pulls from a feed that may answer with any   *)
(* page of its list, whatever it is asked for: its cursor jumps, stands    *)
(* still and goes back, pages are skipped and come again, and their events *)
(* are in every kind of disorder.  The second also has a peer that is down.*)
FeedsNodes   == {a, b}
FeedsFeeds   == {f, g}
FeedsList    == << OfRevocation, Revocation, ClaimForged, Claim >>
FeedsFeed    == (f :> {Listing(FeedsList, i) : i \in {0, 2, 4}}) @@ (g :> {})
FeedsDown    == {g}
FeedsPeers   == (a :> << b, f >>) @@ (b :> << a, g >>)
FeedsSyncers == {"a1", "b1"}
FeedsHome    == [w \in FeedsSyncers |-> IF w = "a1" THEN a ELSE b]
FeedsFaulty  == {b}
FeedsEvents  == {Claim, ClaimForged, Revocation, OfRevocation}
FeedsGenuine == FeedsEvents \ {ClaimForged}

(* Two nodes that pull from each other, the first also from a disorderly   *)
(* feed, and an operator who runs a synchronisation of the first next to   *)
(* the periodic one.                                                       *)
PairNodes   == {a, b}
PairFeeds   == {f}
PairFeed    == f :> {[events |-> << Revocation, Claim >>, next |-> 1],
                     [events |-> << >>, next |-> 1]}
PairPeers   == (a :> << b, f >>) @@ (b :> << a >>)
PairSyncers == {"a1", "a2", "b1"}
PairHome    == [w \in PairSyncers |-> IF w = "b1" THEN b ELSE a]
PairLocking == {"a1", "b1"}
PairResyncing == {"a1", "a2"}
PairEvents  == {Claim, Revocation, WrongSubject}

(* Three nodes in a row; the store of the first may fail, the others may   *)
(* start over with an empty database, and the second has a further peer    *)
(* that cannot be reached.                                                 *)
ChainNodes   == {a, b, c}
ChainFeeds   == {f}
ChainFeed    == f :> {}
ChainPeers   == (a :> << b >>) @@ (b :> << c, f >>) @@ (c :> << >>)
ChainSyncers == {"a1", "b1"}
ChainHome    == [w \in ChainSyncers |-> IF w = "a1" THEN a ELSE b]
ChainEvents  == {Claim, Revocation}
ChainFaulty  == {a}
ChainReplaced == {b, c}

(* One node with one peer, and a peer before it that cannot be reached.    *)
StarvedNodes   == {a, b}
StarvedPeers   == (a :> << f, b >>) @@ (b :> << >>)
StarvedFeeds   == {f}
StarvedFeed    == f :> {}
StarvedSyncers == {"a1"}
StarvedHome    == [w \in StarvedSyncers |-> a]
==============================================================================
