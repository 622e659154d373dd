-------------------------------- MODULE MCScan --------------------------------
(***************************************************************************)
(* Instances of ScanLifecycle for TLC: two scans that compete for one      *)
(* project, and up to two workers.                                         *)
(***************************************************************************)
EXTENDS ScanLifecycle, TLC

CONSTANTS s1, s2, w1, w2, p1

OneProject == s1 :> p1 @@ s2 :> p1
MixedScans == s1 :> "source" @@ s2 :> "bare"
OneBare == s1 :> "container" @@ s2 :> "bare"

AnyWorker == Permutations({w1, w2})
=============================================================================
