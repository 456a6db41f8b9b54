---------------------------- MODULE MCNodeStartup ----------------------------
(***************************************************************************)
(* Three servers, two of them at one address, and a `tip-node sync` on the *)
(* same files, which may be new or left by an earlier version.             *)
(***************************************************************************)
EXTENDS NodeStartup, TLC

CONSTANTS s1, s2, s3, t1, k1, k2, k3

StartServers == {s1, s2, s3}
StartTools   == {t1}
StartKeys    == {k1, k2, k3}
StartAddress == (s1 :> "a") @@ (s2 :> "a") @@ (s3 :> "b")
StartSymmetry == Permutations(StartKeys) \cup Permutations({s1, s2})
==============================================================================
