---------------------------- MODULE MCKnownPeers ----------------------------
(***************************************************************************)
(* Instances of KnownPeers for TLC.                                        *)
(***************************************************************************)
EXTENDS KnownPeers, TLC

CONSTANTS a, b, none

MCKeys == {"ka", "kb", "kc", "kx"}

(* Node b has one peer in another spelling and one that advertises all     *)
(* sorts of things: itself in another spelling, the first peer as others   *)
(* spell it, an invalid URL, and what is announced to b at the same time.  *)
(* Node a pulls from b.                                                    *)
NetNodes == {a, b}
NetUrls == {"http://b", "http://c", "http://c/?", "http://d", "http://e", "HTTP://e", "ftp://x"}
NetCanon == [u \in NetUrls |->
  CASE u = "http://c/?" -> "http://c"
    [] u = "HTTP://e" -> "http://e"
    [] u = "ftp://x" -> none
    [] OTHER -> u]
NetUrlOrder == ("HTTP://e" :> 1) @@ ("ftp://x" :> 2) @@ ("http://b" :> 3) @@ ("http://c" :> 4)
            @@ ("http://c/?" :> 5) @@ ("http://d" :> 6) @@ ("http://e" :> 7)
NetNodeAt == [u \in NetUrls |-> IF u = "http://b" THEN b ELSE none]
NetOwnKey == (a :> "ka") @@ (b :> "kb")
NetAnswers == [u \in NetUrls |->
  CASE u = "http://b" -> {"kb"}
    [] u = "http://c" -> {"kc", "kx", none}
    [] u = "http://d" -> {"kx"}
    [] u = "HTTP://e" -> {"kx"}
    [] OTHER -> {none}]
NetAdvertised == [u \in NetUrls |->
  IF u = "http://c"
    THEN {[url |-> v, key |-> none] : v \in {"http://c/?", "http://e", "ftp://x"}}
    ELSE {}]
NetSyncers == {"a1", "b1"}
NetHandlers == {"h"}
NetHome == ("a1" :> a) @@ ("b1" :> b) @@ ("h" :> b)
NetConfigured == ("a1" :> << "http://b" >>) @@ ("b1" :> << "HTTP://e", "http://c" >>)
NetPin == [w \in NetSyncers |-> [u \in NetUrls |-> IF u = "http://c" THEN "kc" ELSE none]]
NetAdHoc == {}
NetAnnounced == {"http://d"}

(* One node, one peer, which is announced as well. *)
KnownConfigured == "b1" :> << "http://c" >>
KnownNodes == {b}
KnownOwnKey == b :> "kb"
KnownSyncers == {"b1"}
KnownHome == ("b1" :> b) @@ ("h" :> b)
KnownPin == [w \in KnownSyncers |-> NetPin["b1"]]
KnownAnnounced == {"http://c"}
==============================================================================
