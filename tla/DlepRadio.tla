------------------------------ MODULE DlepRadio ------------------------------
(***************************************************************************)
(* The radio side of the DLEP base protocol (ext_base_proto/proto_radio.c)*)
(* its signal handlers, its layer-2 listener callbacks and the ack        *)
(* timeout of its local neighbors.  Each action is one event-loop task.   *)
(***************************************************************************)
EXTENDS DlepCommon

(* _l2_neigh_added_to_session applied to the entry e of MAC m: the entry  *)
(* (created IDLE if missing) gets neigh_addr, a DESTINATION_UP is written *)
(* and it moves to UP_SENT with its ack timer set; changed is kept.       *)
AddedToSession(e, m) ==
    [e EXCEPT !.state = "UP_SENT", !.armed = TRUE, !.neigh = NeighOf(m)]

(* The switch of _l2_neigh_changed on the entry e of MAC m, after         *)
(* dlep_session_add_local_neighbor created it IDLE if it was missing.     *)
ChangedEntry(e, m) ==
    LET f == [e EXCEPT !.neigh = NeighOf(m),
                       !.state = IF @ = "NONE" THEN "IDLE" ELSE @]
    IN  CASE f.state = "UP_SENT"  -> [f EXCEPT !.changed = TRUE]
          [] f.state = "UP_ACKED" -> [f EXCEPT !.changed = FALSE]
          [] OTHER -> [f EXCEPT !.state = "UP_SENT", !.changed = FALSE, !.armed = TRUE]

(* The signal _l2_neigh_changed writes for an entry in state st: an       *)
(* UPDATE when acked, an UP when idle or down, none while UP_SENT.        *)
ChangedSignal(st, m) ==
    MacSignal(IF st = "UP_ACKED" THEN "DESTINATION_UPDATE" ELSE "DESTINATION_UP", m)

(* The MACs a layer-2 event on neighbor n reaches in a TCP session: n     *)
(* itself if send_neighbors, its proxied destinations if send_proxied.    *)
ReachedBy(n) ==
    (IF SendNeighbors THEN {n} ELSE {})
      \cup (IF SendProxied THEN {d \in l2dst : Via[d] = n} ELSE {})

(* The MACs _radio_process_peer_init announces from the layer-2 database. *)
InitAnnounced ==
    (IF SendNeighbors THEN l2neigh ELSE {}) \cup (IF SendProxied THEN l2dst ELSE {})

(* _radio_write_peer_init_ack: the heartbeat TLV carries the session's   *)
(* remote_heartbeat_interval, the one the Peer Init just delivered; no    *)
(* extension is supported and the peer type carries no state.            *)
PeerInitAck(remoteHb) == HeartbeatSignal("PEER_INITIALIZATION_ACK", remoteHb)

-----------------------------------------------------------------------------
(* _cb_init_radio on an accepted TCP session: it waits for a Peer Init    *)
(* and watches remote heartbeats with its own interval meanwhile.         *)
InitRadioSession ==
    /\ radioPhase' = "PEER_INITIALIZATION"
    /\ radioRemoteHb' = RadioHeartbeat
    /\ radioWatchdog' = TRUE

(* _radio_process_peer_discovery on the interface session, which always  *)
(* restricts to PEER_DISCOVERY: a PEER_OFFER datagram is sent back.       *)
RadioProcessPeerDiscovery ==
    /\ radioUp /\ udpToRadio
    /\ udpToRadio' = FALSE
    /\ udpToRouter' = TRUE
    /\ UNCHANGED <<radioVars, routerVars, toRouter, toRadio, ghostVars>>

(* _radio_process_peer_init: the heartbeat TLV becomes the remote         *)
(* interval, heartbeats start, a PEER_INITIALIZATION_ACK echoing that     *)
(* interval is written, then a DESTINATION_UP for every layer-2 entry     *)
(* (in the AVL order of the database) and the session accepts all signals*)
RadioProcessPeerInit ==
    LET s  == Head(toRadio)
        ms == InitAnnounced
    IN
    /\ radioUp /\ toRadio # <<>>
    /\ s.type = "PEER_INITIALIZATION" /\ radioPhase = "PEER_INITIALIZATION"
    /\ radioRemoteHb' = s.hb
    /\ radioWatchdog' = TRUE
    /\ local' = [local EXCEPT !["tcp"] =
                   [m \in MAC |-> IF m \in ms THEN AddedToSession(@[m], m) ELSE @[m]]]
    /\ \E order \in SetToSeqs(ms) :
          toRouter' = toRouter
                        \o <<PeerInitAck(s.hb)>>
                        \o [i \in DOMAIN order |-> MacSignal("DESTINATION_UP", order[i])]
    /\ toRadio' = Tail(toRadio)
    /\ radioPhase' = "ALL_SIGNALS"
    /\ announced' = announced \cup ms
    /\ UNCHANGED <<radioUp, l2neigh, l2dst, routerVars, udpToRadio, udpToRouter, orderViolation>>

(* Variant of Acked that keeps the changed flag.                           *)
AckedKeepChanged(e) == [e EXCEPT !.state = "UP_ACKED", !.armed = FALSE]

(* An UP_SENT entry acknowledged with OKAY: UP_ACKED, timer stopped and  *)
(* changed cleared once its pending UPDATE is written.                    *)
Acked(e) == [e EXCEPT !.state = "UP_ACKED", !.armed = FALSE, !.changed = FALSE]

(* The daemon dies (a NULL dereference): both radio sessions vanish and   *)
(* the router loses the TCP connection and cleans up its session.         *)
RadioCrash ==
    /\ radioUp' = FALSE
    /\ radioPhase' = "NONE"
    /\ radioWatchdog' = FALSE
    /\ local' = [s \in RadioSessions |-> [m \in MAC |-> NoEntry]]
    /\ RouterSessionRemove
    /\ toRouter' = <<>>
    /\ toRadio' = <<>>
    /\ announced' = {}
    /\ UNCHANGED <<radioRemoteHb, l2neigh, l2dst, routerRemoteHb,
                   udpToRadio, udpToRouter, orderViolation>>

(* _radio_process_destination_up_ack: with an OKAY status the local       *)
(* neighbor is looked up without a NULL check; from UP_SENT it becomes    *)
(* UP_ACKED, its timer stops and a pending change is sent as an UPDATE.   *)
RadioProcessDestinationUpAck ==
    LET s == Head(toRadio)
        e == local["tcp"][s.mac]
    IN
    /\ radioUp /\ toRadio # <<>>
    /\ s.type = "DESTINATION_UP_ACK" /\ Accepts(radioPhase, s.type)
    /\ \/ /\ ~s.ok
          /\ toRadio' = Tail(toRadio)
          /\ UNCHANGED <<radioVars, routerVars, toRouter, udpToRadio, udpToRouter, ghostVars>>
       \/ /\ s.ok /\ e.state = "NONE"
          /\ RadioCrash
       \/ /\ s.ok /\ e.state = "UP_SENT"
          /\ local' = [local EXCEPT !["tcp"][s.mac] = Acked(e)]
          /\ toRouter' = IF e.changed
                         THEN Append(toRouter, MacSignal("DESTINATION_UPDATE", s.mac))
                         ELSE toRouter
          /\ toRadio' = Tail(toRadio)
          /\ UNCHANGED <<radioUp, radioPhase, radioRemoteHb, radioWatchdog, l2neigh, l2dst,
                         routerVars, udpToRadio, udpToRouter, ghostVars>>
       \/ /\ s.ok /\ e.state \notin {"NONE", "UP_SENT"}
          /\ toRadio' = Tail(toRadio)
          /\ UNCHANGED <<radioVars, routerVars, toRouter, udpToRadio, udpToRouter, ghostVars>>
-----------------------------------------------------------------------------
(* Layer-2 database events.  The database itself belongs to another       *)
(* plugin; a destination only exists behind a present neighbor.           *)

(* The MACs a removal of neighbor n reaches: n and its destinations, all  *)
(* passed with l2dest NULL by _cb_l2_neigh_removed and _cb_l2_dst_removed,*)
(* so send_neighbors filters both, in a live TCP session only.            *)
RemovalReaches(ms) ==
    IF SendNeighbors /\ radioPhase # "NONE" THEN ms ELSE {}

(* The entries _l2_neigh_removed withdraws: with l2dest NULL only those  *)
(* whose neigh_addr is unspecified.                                       *)
Withdrawn(ms) ==
    {m \in RemovalReaches(ms) : local["tcp"][m].state # "NONE"
                                /\ local["tcp"][m].neigh = NoAddr}

(* The DESTINATION_DOWN signals and new entries of such a withdrawal.     *)
Withdraw(ms) ==
    LET w == Withdrawn(ms) IN
    /\ local' = [local EXCEPT !["tcp"] =
                   [m \in MAC |-> IF m \in w
                                  THEN [@[m] EXCEPT !.state = "DOWN_SENT", !.armed = TRUE]
                                  ELSE @[m]]]
    /\ \E order \in SetToSeqs(w) :
          toRouter' = toRouter \o [i \in DOMAIN order |-> MacSignal("DESTINATION_DOWN", order[i])]

(* _cb_l2_neigh_added via _l2_neigh_added: for every TCP session that     *)
(* sends neighbors, _l2_neigh_added_to_session is applied to the          *)
(* interface session radio_if->interf.session, whose signals go nowhere.  *)
AddedToInterface(m) ==
    IF radioPhase # "NONE" /\ SendNeighbors
    THEN local' = [local EXCEPT !["udp"][m] = AddedToSession(@, m)]
    ELSE UNCHANGED local

L2NeighAdded(n) ==
    /\ radioUp /\ n \notin l2neigh
    /\ l2neigh' = l2neigh \cup {n}
    /\ AddedToInterface(n)
    /\ UNCHANGED <<radioUp, radioPhase, radioRemoteHb, radioWatchdog, l2dst,
                   routerVars, netVars, ghostVars>>

(* _cb_l2_dst_added: the same, with l2dest NULL, so send_neighbors and   *)
(* not send_proxied decides.                                               *)
L2DstAdded(d) ==
    /\ radioUp /\ d \notin l2dst /\ Via[d] \in l2neigh
    /\ l2dst' = l2dst \cup {d}
    /\ AddedToInterface(d)
    /\ UNCHANGED <<radioUp, radioPhase, radioRemoteHb, radioWatchdog, l2neigh,
                   routerVars, netVars, ghostVars>>

(* _cb_l2_neigh_changed: _l2_neigh_changed for the neighbor, then for    *)
(* each of its destinations in AVL order, on every TCP session whatever   *)
(* its restrict_signal.                                                    *)
L2NeighChanged(n) ==
    LET tcp == local["tcp"]
        ms  == IF radioPhase # "NONE" THEN ReachedBy(n) ELSE {}
    IN
    /\ radioUp /\ n \in l2neigh /\ Len(toRouter) + Len(toRadio) < MaxQueue
    /\ local' = [local EXCEPT !["tcp"] =
                   [m \in MAC |-> IF m \in ms THEN ChangedEntry(@[m], m) ELSE @[m]]]
    /\ \E order \in SetToSeqs(ms \ {n}) :
          LET seq  == (IF n \in ms THEN <<n>> ELSE <<>>) \o order
              sent == SelectSeq(seq, LAMBDA m : tcp[m].state # "UP_SENT")
          IN  toRouter' = toRouter \o [i \in DOMAIN sent |-> ChangedSignal(tcp[sent[i]].state, sent[i])]
    /\ announced' = announced \cup {m \in ms : tcp[m].state \notin {"UP_SENT", "UP_ACKED"}}
    /\ UNCHANGED <<radioUp, radioPhase, radioRemoteHb, radioWatchdog, l2neigh, l2dst,
                   routerVars, toRadio, udpToRadio, udpToRouter, orderViolation>>

(* The database removes a neighbor with its destinations: _cb_l2_dst_     *)
(* removed for each destination and _cb_l2_neigh_removed for it.          *)
L2NeighRemoved(n) ==
    LET ms == {n} \cup {d \in l2dst : Via[d] = n} IN
    /\ radioUp /\ n \in l2neigh
    /\ l2neigh' = l2neigh \ {n}
    /\ l2dst' = l2dst \ ms
    /\ Withdraw(ms)
    /\ UNCHANGED <<radioUp, radioPhase, radioRemoteHb, radioWatchdog,
                   routerVars, toRadio, udpToRadio, udpToRouter, ghostVars>>

L2DstRemoved(d) ==
    /\ radioUp /\ d \in l2dst
    /\ l2dst' = l2dst \ {d}
    /\ Withdraw({d})
    /\ UNCHANGED <<radioUp, radioPhase, radioRemoteHb, radioWatchdog, l2neigh,
                   routerVars, toRadio, udpToRadio, udpToRouter, ghostVars>>

-----------------------------------------------------------------------------
(* _cb_destination_timeout: the ack timer of entry m of session s fires   *)
(* and the local neighbor is removed.                                     *)
DestinationTimeout(s, m) ==
    /\ radioUp /\ local[s][m].armed
    /\ local' = [local EXCEPT ![s][m] = NoEntry]
    /\ UNCHANGED <<radioUp, radioPhase, radioRemoteHb, radioWatchdog, l2neigh, l2dst,
                   routerVars, netVars, ghostVars>>

(* The radio's remote heartbeat watchdog expires: the session and its    *)
(* connection are torn down.                                              *)
RadioHeartbeatTimeout ==
    /\ radioUp /\ radioWatchdog
    /\ CloseConnection
    /\ UNCHANGED <<radioUp, radioRemoteHb, l2neigh, l2dst, routerRemoteHb,
                   udpToRadio, udpToRouter, orderViolation>>

=============================================================================
