-------------------------------- MODULE Portal --------------------------------
(***************************************************************************)
(* What the HTTP services have in common: users, teams, and the requests   *)
(* that are under way at the same time, each in a transaction of its own   *)
(* at READ COMMITTED (core/db.py).                                         *)
(***************************************************************************)

CONSTANTS
  Users,
  Teams,
  Requests   \* slots for requests that are under way at the same time

\* A slot with no request.
Idle == [pc |-> "idle"]
===============================================================================
