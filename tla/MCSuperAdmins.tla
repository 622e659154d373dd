---------------------------- MODULE MCSuperAdmins ----------------------------
(***************************************************************************)
(* SuperAdmins with three admin requests at once, for TLC.                 *)
(***************************************************************************)
EXTENDS SuperAdmins, TLC

\* Users and requests are interchangeable.
AnyUser == Permutations(Users) \union Permutations(Requests)
=============================================================================
