----------------------------- MODULE HostLease -----------------------------
(***************************************************************************)
(* Who runs the session host: the start of doeff-sessionhost processes     *)
(* (sessionhost/host.hy: bind-listener, main, serve), the lease they keep  *)
(* in the store (sessionhost/store.hy), and the clients that find a host   *)
(* or start one (agentd_client.py: ensure_agentd).                         *)
(*                                                                         *)
(* A host is a process: it probes the socket path, unlinks a stale socket, *)
(* binds, listens, takes the lease and serves.  Each is a system call or a *)
(* transaction of its own, so several processes interleave between them.   *)
(* Time enters as one bit of the lease: fresh until its TTL has passed.    *)
(***************************************************************************)
EXTENDS Integers, FiniteSets

CONSTANTS
  Host,         \* processes; one that is gone may stand for a later process
  Client,       \* processes that call ensure_agentd, one LazyAgentdClient each
  None,         \* no host
  Supervision,  \* the values of "a supervisor declares this socket" to try
  MaxKills,     \* bound: processes that end without unwinding (SIGKILL, crash)
  MaxTerms,     \* bound: SIGTERMs
  MaxStalls     \* bound: leases that expire under a host that still serves

ASSUME NoneIsNoHost == None \notin Host
ASSUME SupervisionIsBoolean == Supervision \subseteq BOOLEAN

VARIABLES
  supervised,   \* supervisor.json declares the socket
  host,         \* host[h]: where the process is in main, "down" when there is none
  path,         \* the host whose bind made the socket file, None when there is no file
  lease,        \* the row of agent_daemon_lease; owner None when there is none
  client,       \* client[c]: where the client is in ensure_agentd
  kills, terms, stalls,
  unclean       \* hosts that went without the release of their lease being due

leaseVars == <<supervised, host, path, lease, client, kills, terms, stalls, unclean>>
counters == <<kills, terms, stalls>>

HostStage == {"down", "probe", "unlink", "bind", "bound", "listening", "owner", "serving", "stopping"}
ClientStage == {"asks", "probes", "busy", "absent", "waiting", "using"}

NoLease == [owner |-> None, fresh |-> FALSE]
TakenBy(h) == [owner |-> h, fresh |-> TRUE]

\* connect() succeeds on a listening socket, whoever accepts it and when.
Listening(h) == h # None /\ host[h] \in {"listening", "owner", "serving", "stopping"}

\* daemon.status is answered by the accept loop of the host behind the path.
Reachable == path # None /\ host[path] = "serving"

Moves(h, stage) == host' = [host EXCEPT ![h] = stage]
Becomes(c, stage) == client' = [client EXCEPT ![c] = stage]

LeaseInit ==
  /\ supervised \in Supervision
  /\ host = [h \in Host |-> "down"]
  /\ path = None
  /\ lease = NoLease
  /\ client = [c \in Client |-> "asks"]
  /\ kills = 0 /\ terms = 0 /\ stalls = 0
  /\ unclean = {}

-----------------------------------------------------------------------------
(* A host process starts. *)

\* A process that is gone for good: neither the socket file nor the lease is its.
Spare(h) == host[h] = "down" /\ path # h /\ lease.owner # h

StartHost(h) == Spare(h) /\ Moves(h, "probe") /\ unclean' = unclean \ {h}

\* prepare-socket-path: no file, go on; an answered probe, refuse; else unlink.
ProbeSocket(h) ==
  /\ host[h] = "probe"
  /\ Moves(h, IF path = None THEN "bind" ELSE IF Listening(path) THEN "down" ELSE "unlink")
  /\ UNCHANGED <<supervised, path, lease, client, counters, unclean>>

\* os.remove takes whatever file is there by now; without one it raises.
UnlinkSocket_Bug(h) ==   \* mutant: a stale file refuses the start
  /\ host[h] = "unlink"
  /\ Moves(h, "down")
  /\ UNCHANGED <<supervised, path, lease, client, counters, unclean>>
UnlinkSocket(h) ==
  /\ host[h] = "unlink"
  /\ Moves(h, IF path = None THEN "down" ELSE "bind")
  /\ path' = None
  /\ UNCHANGED <<supervised, lease, client, counters, unclean>>

\* bind() fails when the file exists.
BindSocket(h) ==
  /\ host[h] = "bind"
  /\ IF path = None THEN path' = h /\ Moves(h, "bound") ELSE UNCHANGED path /\ Moves(h, "down")
  /\ UNCHANGED <<supervised, lease, client, counters, unclean>>

Listen(h) ==
  /\ host[h] = "bound"
  /\ Moves(h, "listening")
  /\ UNCHANGED <<supervised, path, lease, client, counters, unclean>>

\* db-acquire-lease refuses a lease that has not expired, whoever holds it.
Refuses_Bug(h) == FALSE   \* mutant: no look at the lease
Refuses(h) == lease.fresh

AcquireLease(h) ==
  /\ host[h] = "listening"
  /\ IF Refuses(h) THEN UNCHANGED lease /\ Moves(h, "down")
                   ELSE lease' = TakenBy(h) /\ Moves(h, "owner")
  /\ UNCHANGED <<supervised, path, client, counters, unclean>>

\* Inside the try of main: latches cleared, history pruned, accept loop.
Serve(h) ==
  /\ host[h] = "owner"
  /\ Moves(h, "serving")
  /\ UNCHANGED <<supervised, path, lease, client, counters, unclean>>

-----------------------------------------------------------------------------
(* The lease while a host serves, and its end. *)

\* db-heartbeat-once raises when the row is gone or another's and fresh.
MayBeat_Bug(h) == lease.owner # None   \* mutant: the owner is not compared
MayBeat(h) == lease.owner # None /\ (lease.owner = h \/ ~lease.fresh)

Heartbeat(h) ==
  /\ host[h] = "serving"
  /\ MayBeat(h)
  /\ lease # TakenBy(h)
  /\ lease' = TakenBy(h)
  /\ UNCHANGED <<supervised, host, path, client, counters, unclean>>

\* The TTL passes: a third of it is the heartbeat's period, so that under a host
\* that serves it takes a stall of the store or of the process.
LeaseExpires ==
  /\ lease.fresh
  /\ IF host[lease.owner] \in {"owner", "serving", "stopping"}
       THEN stalls < MaxStalls /\ stalls' = stalls + 1
       ELSE UNCHANGED stalls
  /\ lease' = [lease EXCEPT !.fresh = FALSE]
  /\ UNCHANGED <<supervised, host, path, client, kills, terms, unclean>>

\* SIGTERM: SystemExit in the main thread.  Inside the try it sets the shutdown
\* event, which silences the heartbeat; before it the process just ends, with the
\* lease when the signal came between its acquisition and the try.
Terminate(h) ==
  /\ host[h] # "down" /\ host[h] # "stopping"
  /\ terms < MaxTerms
  /\ terms' = terms + 1
  /\ Moves(h, IF host[h] = "serving" THEN "stopping" ELSE "down")
  /\ unclean' = IF host[h] = "owner" THEN unclean \cup {h} ELSE unclean
  /\ UNCHANGED <<supervised, path, lease, client, kills, stalls>>

\* db-release-lease deletes the row under the owner's own pid only.
Released(h) == IF lease.owner = h THEN NoLease ELSE lease

ReleaseLease(h) ==
  /\ host[h] = "stopping"
  /\ lease' = Released(h)
  /\ Moves(h, "down")
  /\ UNCHANGED <<supervised, path, client, counters, unclean>>

\* SIGKILL or a crash: the socket file and the lease stay behind.
Kill(h) ==
  /\ host[h] # "down"
  /\ kills < MaxKills
  /\ kills' = kills + 1
  /\ Moves(h, "down")
  /\ unclean' = unclean \cup {h}
  /\ UNCHANGED <<supervised, path, lease, client, terms, stalls>>

\* The declared supervisor keeps one host alive (launchd KeepAlive, systemd Restart).
SuperviseHost(h) ==
  /\ supervised
  /\ \A g \in Host : host[g] = "down"
  /\ StartHost(h)
  /\ UNCHANGED <<supervised, path, lease, client, counters>>

-----------------------------------------------------------------------------
(* ensure_agentd. *)

\* The short status probe; a host that is slow to answer counts as no answer.
AskStatus(c) ==
  /\ client[c] = "asks"
  /\ \/ Reachable /\ Becomes(c, "using")
     \/ Becomes(c, "probes")
  /\ UNCHANGED <<supervised, host, path, lease, counters, unclean>>

\* _socket_has_live_listener: absence is a missing file or a refused connection.
ProbeListener(c) ==
  /\ client[c] = "probes"
  /\ Becomes(c, IF Listening(path) THEN "busy" ELSE "absent")
  /\ UNCHANGED <<supervised, host, path, lease, counters, unclean>>

\* _client_from_live_listener: an answer within the long budget, or an error.
AskBusyListener(c) ==
  /\ client[c] = "busy"
  /\ \/ Reachable /\ Becomes(c, "using")
     \/ Becomes(c, "asks")
  /\ UNCHANGED <<supervised, host, path, lease, counters, unclean>>

\* The single-supervisor principle: no spawn beside a declared supervisor.
Delegates_Bug == FALSE   \* mutant: the declaration is ignored
Delegates == supervised

SpawnHost(c) ==
  /\ client[c] = "absent"
  /\ ~Delegates
  /\ \E h \in Host : StartHost(h)
  /\ Becomes(c, "waiting")
  /\ UNCHANGED <<supervised, path, lease, counters>>

\* The kick command makes the supervisor start its host unless one runs; no
\* command declared, a command that fails or times out is an error.
KickSupervisor(c) ==
  /\ client[c] = "absent"
  /\ Delegates
  /\ \/ Becomes(c, "asks") /\ UNCHANGED <<host, unclean>>
     \/ /\ Becomes(c, "waiting")
        /\ IF \E g \in Host : host[g] # "down" THEN UNCHANGED <<host, unclean>>
                                                ELSE \E h \in Host : StartHost(h)
  /\ UNCHANGED <<supervised, path, lease, counters>>

\* _wait_for_agentd_ready polls daemon.status until its deadline.
WaitForReady(c) ==
  /\ client[c] = "waiting"
  /\ \/ Reachable /\ Becomes(c, "using")
     \/ Becomes(c, "asks")
  /\ UNCHANGED <<supervised, host, path, lease, counters, unclean>>

-----------------------------------------------------------------------------
HostStep(h) ==
  \/ ProbeSocket(h) \/ UnlinkSocket(h) \/ BindSocket(h) \/ Listen(h)
  \/ AcquireLease(h) \/ Serve(h) \/ Heartbeat(h) \/ ReleaseLease(h)

ClientStep(c) ==
  \/ AskStatus(c) \/ ProbeListener(c) \/ AskBusyListener(c)
  \/ SpawnHost(c) \/ KickSupervisor(c) \/ WaitForReady(c)

LeaseNext ==
  \/ \E h \in Host : HostStep(h) \/ SuperviseHost(h) \/ Terminate(h) \/ Kill(h)
  \/ LeaseExpires
  \/ \E c \in Client : ClientStep(c)

LeaseSpec == LeaseInit /\ [][LeaseNext]_leaseVars

\* Processes run, time passes, and the supervisor restarts what ended.
LeaseFairSpec ==
  /\ LeaseSpec
  /\ \A h \in Host : WF_leaseVars(HostStep(h))
  /\ WF_leaseVars(\E h \in Host : SuperviseHost(h))
  /\ WF_leaseVars(LeaseExpires)

-----------------------------------------------------------------------------
\* Every variable has its type, and the row of the lease is fresh under an owner only.
LeaseTypeOK ==
  /\ supervised \in BOOLEAN
  /\ host \in [Host -> HostStage]
  /\ path \in Host \cup {None}
  /\ lease \in [owner : Host \cup {None}, fresh : BOOLEAN]
  /\ lease.fresh => lease.owner # None
  /\ client \in [Client -> ClientStage]
  /\ kills \in Nat /\ terms \in Nat /\ stalls \in Nat
  /\ unclean \subseteq Host

\* db-acquire-lease and db-heartbeat-once: unless a lease expired under a host that
\* lived, one host at a time works on the store, also when the sockets of two
\* processes pass the bind together.
SingleServer ==
  stalls = 0 =>
    \A g, h \in Host : {host[g], host[h]} \subseteq {"owner", "serving", "stopping"} => g = h

\* main, issue #565: a host that ends by SIGTERM while it serves leaves no lease that
\* refuses its successor; only processes cut short do.
CleanExitReleases == lease.fresh /\ host[lease.owner] = "down" => lease.owner \in unclean

\* Single-supervisor principle (ensure_agentd, issue #558): while only the supervisor
\* starts hosts, the one that serves is the one behind the socket file.
ServerReachable == supervised => \A h \in Host : host[h] \in {"owner", "serving"} => path = h

\* db-heartbeat-once, db-release-lease: a lease that has not expired leaves its owner
\* by the owner's own release only.
NotStolen ==
  [][lease.fresh /\ lease'.owner # lease.owner => host[lease.owner] = "stopping" /\ lease' = NoLease]_leaseVars

\* prepare-socket-path and the TTL: after the last kill and SIGTERM a supervised host
\* comes back for good, past the stale socket file and the lease that were left.
Recovers == supervised => <>[]Reachable

=============================================================================
