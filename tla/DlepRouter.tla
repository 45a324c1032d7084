----------------------------- MODULE DlepRouter -----------------------------
(***************************************************************************)
(* The router side of the DLEP base protocol (ext_base_proto/             *)
(* proto_router.c): discovery, the handlers of the signals the radio      *)
(* sends, and the restrict_signal check every received signal passes.     *)
(***************************************************************************)
EXTENDS DlepCommon

(* Variant of InitRouterSession whose Peer Init is generated but never    *)
(* flushed (cb_send_buffer missing).                                      *)
InitRouterSessionUnsent ==
    /\ routerPhase' = "PEER_INITIALIZATION_ACK"
    /\ toRadio' = <<>>
    /\ routerRemoteHb' = RouterHeartbeat
    /\ routerWatchdog' = TRUE

(* _cb_init_router on a new TCP session whose restrict_signal is          *)
(* PEER_INITIALIZATION_ACK: a Peer Init carrying the router's heartbeat   *)
(* interval is sent at once and the remote heartbeat is watched with it.  *)
InitRouterSession ==
    /\ routerPhase' = "PEER_INITIALIZATION_ACK"
    /\ toRadio' = <<HeartbeatSignal("PEER_INITIALIZATION", RouterHeartbeat)>>
    /\ routerRemoteHb' = RouterHeartbeat
    /\ routerWatchdog' = TRUE

(* _cb_create_peer_discovery: the discovery timer of the interface        *)
(* session (restrict_signal PEER_OFFER) sends a PEER_DISCOVERY datagram.  *)
RouterDiscoveryTimer ==
    /\ udpToRadio' = TRUE
    /\ UNCHANGED <<radioVars, routerVars, toRouter, toRadio, udpToRouter, ghostVars>>

(* A UDP datagram is lost.                                                *)
LoseDatagram ==
    \/ /\ udpToRadio
       /\ udpToRadio' = FALSE
       /\ UNCHANGED <<radioVars, routerVars, toRouter, toRadio, udpToRouter, ghostVars>>
    \/ /\ udpToRouter
       /\ udpToRouter' = FALSE
       /\ UNCHANGED <<radioVars, routerVars, toRouter, toRadio, udpToRadio, ghostVars>>

(* dlep_session_process_signal on the router TCP session: a signal that   *)
(* does not match restrict_signal is a protocol error and the session is  *)
(* terminated.                                                            *)
RouterReject ==
    /\ toRouter # <<>>
    /\ ~Accepts(routerPhase, Head(toRouter).type)
    /\ orderViolation' = TRUE
    /\ CloseConnection
    /\ UNCHANGED <<radioUp, radioRemoteHb, l2neigh, l2dst, routerRemoteHb,
                   udpToRadio, udpToRouter>>

(* _router_process_peer_init_ack: the heartbeat TLV becomes the remote    *)
(* interval, both heartbeats start, the session accepts all signals.      *)
RouterProcessPeerInitAck ==
    LET s == Head(toRouter) IN
    /\ toRouter # <<>>
    /\ s.type = "PEER_INITIALIZATION_ACK" /\ routerPhase = "PEER_INITIALIZATION_ACK"
    /\ routerRemoteHb' = s.hb
    /\ routerWatchdog' = TRUE
    /\ routerPhase' = "ALL_SIGNALS"
    /\ toRouter' = Tail(toRouter)
    /\ UNCHANGED <<radioVars, routerL2, toRadio, udpToRadio, udpToRouter, ghostVars>>

(* Variant of DeniedAck without the status TLV, which reads as OKAY.     *)
DeniedAckNoStatus(m) == MacSignal("DESTINATION_UP_ACK", m)

(* The DESTINATION_UP_ACK written when a layer-2 allocation failed: its  *)
(* status TLV is REQUEST_DENIED.                                          *)
DeniedAck(m) == [MacSignal("DESTINATION_UP_ACK", m) EXCEPT !.ok = FALSE]

(* _router_process_destination_up: the layer-2 neighbor of the MAC is     *)
(* added for the session's origin and acked; if oonf_layer2_neigh_add     *)
(* fails the ack carries REQUEST_DENIED.                                   *)
RouterProcessDestinationUp ==
    LET s == Head(toRouter) IN
    /\ toRouter # <<>>
    /\ s.type = "DESTINATION_UP" /\ Accepts(routerPhase, s.type)
    /\ toRouter' = Tail(toRouter)
    /\ \/ /\ routerL2' = routerL2 \cup {s.mac}
          /\ toRadio' = Append(toRadio, MacSignal("DESTINATION_UP_ACK", s.mac))
       \/ /\ AllocMayFail /\ s.mac \notin routerL2
          /\ toRadio' = Append(toRadio, DeniedAck(s.mac))
          /\ UNCHANGED routerL2
    /\ UNCHANGED <<radioVars, routerPhase, routerRemoteHb, routerWatchdog,
                   udpToRadio, udpToRouter, ghostVars>>

(* _router_process_destination_update: the data of a known MAC is mapped  *)
(* into its layer-2 neighbor, an unknown MAC is ignored; no ack.          *)
RouterProcessDestinationUpdate ==
    /\ toRouter # <<>>
    /\ Head(toRouter).type = "DESTINATION_UPDATE"
    /\ Accepts(routerPhase, "DESTINATION_UPDATE")
    /\ toRouter' = Tail(toRouter)
    /\ UNCHANGED <<radioVars, routerVars, toRadio, udpToRadio, udpToRouter, ghostVars>>

(* The router's remote heartbeat watchdog expires: the session and its   *)
(* connection are torn down.                                              *)
RouterHeartbeatTimeout ==
    /\ routerWatchdog
    /\ CloseConnection
    /\ UNCHANGED <<radioUp, radioRemoteHb, l2neigh, l2dst, routerRemoteHb,
                   udpToRadio, udpToRouter, orderViolation>>
=============================================================================
