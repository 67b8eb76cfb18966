---------------------------- MODULE MCHostLease ----------------------------
(* Three processes and a client, which asks again after a timeout: enough *)
(* for a host that serves, a starter that probed it too early, and a third. *)
EXTENDS HostLease

Either == {TRUE, FALSE}
=============================================================================
