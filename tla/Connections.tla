---------------------------- MODULE Connections -----------------------------
(***************************************************************************)
(* The peers of a node (NetworkService in rinku-node/src/network.rs):      *)
(* connections come and go, handshakes validate a peer, request failures,  *)
(* misbehaviour, limits and mDNS remove it, and the reconnect queue, the   *)
(* peer exchange and the periodic mesh maintenance dial again.             *)
(*                                                                         *)
(* libp2p's swarm is external: it reports every connection that opens or   *)
(* closes (a peer may have several, and one event comes for each), and     *)
(* disconnect_peer_id closes those open at the call later.  What goes      *)
(* wrong in the network and what peers do by themselves is counted in      *)
(* faults and bounded by MaxFaults.                                        *)
(***************************************************************************)
EXTENDS Integers, Sequences, FiniteSets, SequencesExt, Maps

CONSTANTS
  Peer,            \* peers of this network
  Bootstrap,       \* config.bootstrap_peers
  MaxLinks,        \* bound: connections per peer, further ones are not told apart
  MaxFaults,       \* bound: failures and moves of the peers
  MaxScore,        \* bound: score of a peer, in steps of ten
  MinMesh,         \* MIN_MESH_PEERS
  MaxConnections,  \* dos_config.max_connections
  MaxReconnects,   \* MAX_RAPID_RECONNECTS
  FailureLimit,    \* RR_FAILURE_DISCONNECT_THRESHOLD
  BanScore         \* -BAN_SCORE_THRESHOLD, in steps of ten

VARIABLES
  links,     \* open connections of each peer
  doomed,    \* how many of them disconnect_peer_id is closing
  dialing,   \* peers being dialed
  entries,   \* peers: peer -> [validated, failures]
  asked,     \* peers with a handshake in pending_requests
  calls,     \* peers with another request in pending_requests
  score,     \* peer_scores, kept in a file; entries hold a copy
  banned,    \* peers under a ban
  listed,    \* banned_peers, expired bans included
  reconnect, \* reconnect_pending: [peer, retries, labelled]
  lastAddr,  \* peer_last_addr: does the address name the peer
  faults     \* failures and moves of the peers so far

connVars == <<links, doomed, dialing, entries, asked, calls, score, banned, listed, reconnect,
              lastAddr, faults>>

Entry == [validated |-> FALSE, failures |-> 0]

ConnInit ==
  /\ links = [p \in Peer |-> 0] /\ doomed = [p \in Peer |-> 0] /\ dialing = Bootstrap
  /\ entries = <<>> /\ asked = {} /\ calls = {}
  /\ score = [p \in Peer |-> 0] /\ banned = {} /\ listed = {}
  /\ reconnect = <<>> /\ lastAddr = <<>> /\ faults = 0

Connected(p) == links[p] > 0
Validated(p) == p \in DOMAIN entries /\ entries[p].validated
Fault == faults < MaxFaults /\ faults' = faults + 1

(* disconnect_peer_id closes the connections there are now. *)
Disconnect(P) == [p \in Peer |-> IF p \in P THEN links[p] ELSE doomed[p]]

Known(m, p) == IF p \in DOMAIN m THEN m ELSE Insert(m, p, Entry)

-----------------------------------------------------------------------------
(* SwarmEvent::ConnectionEstablished.                                      *)

Admitted(p) == p \notin banned /\ Cardinality(DOMAIN entries) < MaxConnections

Established(p, labelled) ==
  /\ links' = [links EXCEPT ![p] = IF @ < MaxLinks THEN @ + 1 ELSE @]
  /\ IF Admitted(p)
     THEN /\ entries' = Known(entries, p)
          /\ lastAddr' = Insert(lastAddr, p, labelled)
          /\ reconnect' = SelectSeq(reconnect, LAMBDA e : ~(e.labelled /\ e.peer = p))
          /\ asked' = asked \union {p}
          /\ UNCHANGED doomed
     ELSE /\ doomed' = [doomed EXCEPT ![p] = links'[p]]
          /\ UNCHANGED <<entries, lastAddr, reconnect, asked>>
  /\ UNCHANGED <<calls, score, banned, listed>>

DialSucceeds(p) ==
  /\ p \in dialing /\ dialing' = dialing \ {p}
  /\ Established(p, TRUE)
  /\ UNCHANGED faults

DialFails(p) ==
  /\ p \in dialing /\ dialing' = dialing \ {p}
  /\ Fault
  /\ UNCHANGED <<links, doomed, entries, asked, calls, score, banned, listed, reconnect, lastAddr>>

PeerDials(p) ==
  /\ Fault
  /\ Established(p, FALSE)
  /\ UNCHANGED dialing

-----------------------------------------------------------------------------
(* SwarmEvent::ConnectionClosed.  The entry goes even if another           *)
(* connection to the peer is open.                                         *)

Queued(p) == \E i \in 1..Len(reconnect) : reconnect[i].labelled /\ reconnect[i].peer = p

(* Mutant: the entry stays. *)
ForgetKeepingEntry(p) ==
  /\ asked' = asked \ {p} /\ calls' = calls \ {p}
  /\ UNCHANGED <<entries, reconnect>>

Forget(p) ==
  /\ asked' = asked \ {p} /\ calls' = calls \ {p}
  /\ entries' = Without(entries, {p})
  /\ reconnect' = IF Validated(p) /\ p \in DOMAIN lastAddr /\ ~Queued(p)
                  THEN Append(reconnect, [peer |-> p, retries |-> 0, labelled |-> lastAddr[p]])
                  ELSE reconnect

CloseLink(p) ==
  /\ Connected(p)
  /\ links' = [links EXCEPT ![p] = @ - 1]
  /\ doomed' = [doomed EXCEPT ![p] = IF @ > 0 THEN @ - 1 ELSE 0]
  /\ Forget(p)
  /\ UNCHANGED <<dialing, score, banned, listed, lastAddr>>

Closed(p) == doomed[p] > 0 /\ CloseLink(p) /\ UNCHANGED faults
LinkLost(p) == Fault /\ CloseLink(p)

-----------------------------------------------------------------------------
(* Handshakes and misbehaviour.                                            *)

(* process_pex_addresses dials peers it is told of, unless they are        *)
(* connected or on the ban list.                                           *)
Exchange(from, told) == {q \in told \ {from} : ~Connected(q) /\ q \notin listed}

Better(p) == score' = [score EXCEPT ![p] = IF @ < MaxScore THEN @ + 1 ELSE @]

(* A handshake response; the entry may be gone. *)
HandshakeAnswered(p, told) ==
  /\ p \in asked /\ Connected(p)
  /\ asked' = asked \ {p}
  /\ IF p \in DOMAIN entries
     THEN entries' = [entries EXCEPT ![p] = [validated |-> TRUE, failures |-> 0]] /\ Better(p)
     ELSE UNCHANGED <<entries, score>>
  /\ dialing' = dialing \union Exchange(p, told)
  /\ UNCHANGED <<links, doomed, calls, banned, listed, reconnect, lastAddr, faults>>

(* A handshake request makes an entry if there is none, without a look at  *)
(* bans or limits.                                                         *)
HandshakeReceived(p, told) ==
  /\ Connected(p)
  /\ Fault
  /\ entries' = [Known(entries, p) EXCEPT ![p].validated = TRUE]
  /\ Better(p)
  /\ dialing' = dialing \union Exchange(p, told)
  /\ UNCHANGED <<links, doomed, asked, calls, banned, listed, reconnect, lastAddr>>

(* record_misbehavior_sync: a ban follows at the score threshold or when   *)
(* the peer's rate tokens are used up.                                     *)
Misbehaves(p, depleted) ==
  LET low == score[p] - 1 <= -BanScore \/ depleted
  IN IF p \in DOMAIN entries
     THEN /\ score' = [score EXCEPT ![p] = IF @ > -BanScore THEN @ - 1 ELSE @]
          /\ banned' = IF low THEN banned \union {p} ELSE banned
          /\ listed' = IF low THEN listed \union {p} ELSE listed
     ELSE UNCHANGED <<score, banned, listed>>

(* A sync request before the handshake, or a handshake that is refused,    *)
(* which the peer may send at any time.                                    *)
BadRequest(p, depleted) ==
  /\ Connected(p)
  /\ Fault
  /\ Misbehaves(p, depleted)
  /\ UNCHANGED <<links, doomed, dialing, entries, asked, calls, reconnect, lastAddr>>

(* Gossip from a peer without a handshake. *)
UnhandshakedGossip(p, depleted) ==
  /\ Connected(p) /\ ~Validated(p)
  /\ Fault
  /\ Misbehaves(p, depleted)
  /\ doomed' = Disconnect({p})
  /\ UNCHANGED <<links, dialing, entries, asked, calls, reconnect, lastAddr>>

BanExpires(p) ==
  /\ p \in banned /\ banned' = banned \ {p}
  /\ UNCHANGED <<links, doomed, dialing, entries, asked, calls, score, listed, reconnect,
                 lastAddr, faults>>

-----------------------------------------------------------------------------
(* Requests, mDNS and the timers.                                          *)

SendRequest(p) ==
  /\ p \in DOMAIN entries /\ p \notin calls
  /\ Fault
  /\ calls' = calls \union {p}
  /\ UNCHANGED <<links, doomed, dialing, entries, asked, score, banned, listed, reconnect, lastAddr>>

RequestAnswered(p) ==
  /\ p \in calls /\ Connected(p)
  /\ calls' = calls \ {p}
  /\ entries' = IF p \in DOMAIN entries THEN [entries EXCEPT ![p].failures = 0] ELSE entries
  /\ UNCHANGED <<links, doomed, dialing, asked, score, banned, listed, reconnect, lastAddr, faults>>

(* OutboundFailure, record_rr_failure_and_maybe_disconnect. *)
RequestFails(p) ==
  LET failures == IF p \in DOMAIN entries THEN entries[p].failures + 1 ELSE 0
  IN /\ p \in asked \union calls
     /\ Fault
     /\ \/ p \in asked /\ asked' = asked \ {p} /\ UNCHANGED calls
        \/ p \in calls /\ calls' = calls \ {p} /\ UNCHANGED asked
     /\ entries' = IF p \in DOMAIN entries THEN [entries EXCEPT ![p].failures = failures] ELSE entries
     /\ doomed' = Disconnect(IF failures >= FailureLimit THEN {p} ELSE {})
     /\ UNCHANGED <<links, dialing, score, banned, listed, reconnect, lastAddr>>

MdnsDiscovered(p) ==
  /\ Fault
  /\ p \notin DOMAIN entries /\ entries' = Known(entries, p)
  /\ UNCHANGED <<links, doomed, dialing, asked, calls, score, banned, listed, reconnect, lastAddr>>

MdnsExpired(p) ==
  /\ Fault
  /\ p \in DOMAIN entries /\ entries' = Without(entries, {p})
  /\ UNCHANGED <<links, doomed, dialing, asked, calls, score, banned, listed, reconnect, lastAddr>>

(* process_reconnect_queue, for the entry whose time has come. *)
ProcessReconnect ==
  LET e == Head(reconnect)
      there == e.labelled /\ Connected(e.peer)
      again == ~there /\ e.retries + 1 < MaxReconnects
  IN /\ reconnect # <<>>
     /\ dialing' = IF ~there /\ e.labelled THEN dialing \union {e.peer} ELSE dialing
     /\ reconnect' = IF again THEN Append(Tail(reconnect), [e EXCEPT !.retries = @ + 1])
                     ELSE Tail(reconnect)
     /\ UNCHANGED <<links, doomed, entries, asked, calls, score, banned, listed, lastAddr, faults>>

Unhealthy == Cardinality({p \in Peer : Validated(p)}) < MinMesh

(* perform_mesh_maintenance: dials the bootstrap peers, disconnects the    *)
(* peers without a successful request for RR_STALE_THRESHOLD_SECS, and     *)
(* sends the validated ones a handshake.                                   *)
MeshMaintenance(stale, exchange) ==
  /\ stale \subseteq {p \in Peer : Validated(p) /\ Connected(p) /\ entries[p].failures > 0}
  /\ dialing' = IF Unhealthy THEN dialing \union Bootstrap ELSE dialing
  /\ doomed' = Disconnect(stale)
  /\ asked' = IF exchange THEN asked \union {p \in Peer : Validated(p) /\ Connected(p)} ELSE asked
  /\ UNCHANGED <<links, entries, calls, score, banned, listed, reconnect, lastAddr, faults>>

Maintenance == \E stale \in SUBSET Peer, exchange \in BOOLEAN : MeshMaintenance(stale, exchange)

ConnNext ==
  \/ \E p \in Peer :
       \/ DialSucceeds(p) \/ DialFails(p) \/ PeerDials(p) \/ Closed(p) \/ LinkLost(p)
       \/ \E told \in SUBSET Peer : HandshakeAnswered(p, told) \/ HandshakeReceived(p, told)
       \/ \E depleted \in BOOLEAN : BadRequest(p, depleted) \/ UnhandshakedGossip(p, depleted)
       \/ BanExpires(p) \/ SendRequest(p) \/ RequestAnswered(p) \/ RequestFails(p)
       \/ MdnsDiscovered(p) \/ MdnsExpired(p)
  \/ ProcessReconnect \/ Maintenance

ConnSpec == ConnInit /\ [][ConnNext]_connVars

-----------------------------------------------------------------------------
(* A validated peer, one that votes, pushes and synchronisations are sent  *)
(* to, has an open connection: no order of closes, second connections,     *)
(* late handshakes, mDNS events and bans leaves a ghost behind.            *)
ValidatedIsConnected == \A p \in Peer : Validated(p) => Connected(p)

=============================================================================
