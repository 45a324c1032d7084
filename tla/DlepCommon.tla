----------------------------- MODULE DlepCommon -----------------------------
(***************************************************************************)
(* Constants, variables and shared operators of the DLEP model: one radio *)
(* (proto_radio.c) and one router (proto_router.c) on one interface,      *)
(* connected by a UDP discovery exchange and at most one TCP session.     *)
(*                                                                         *)
(* A signal is a record; the TLVs the base protocol writes are kept as    *)
(* fields (the MAC TLV, the heartbeat TLV, the status TLV of an ack).     *)
(***************************************************************************)
EXTENDS Naturals, Sequences, FiniteSets, SequencesExt

CONSTANTS
    Neigh,          \* MACs of the radio's direct layer-2 neighbors
    Dest,           \* MACs of proxied destinations (oonf_layer2_destination)
    Via,            \* Via[d]: the layer-2 neighbor destination d sits behind
    SendNeighbors,  \* dlep_session_config.send_neighbors of the radio
    SendProxied,    \* dlep_session_config.send_proxied of the radio
    RadioHeartbeat, \* cfg.heartbeat_interval of the radio
    RouterHeartbeat,\* cfg.heartbeat_interval of the router
    AllocMayFail,   \* whether oonf_layer2_neigh_add on the router may fail
    MaxQueue,       \* bound on signals in flight when a layer-2 change is handled
    NoAddr          \* model value: an unspecified struct netaddr

ASSUME /\ Neigh \cap Dest = {}
       /\ Via \in [Dest -> Neigh]
       /\ {SendNeighbors, SendProxied, AllocMayFail} \subseteq BOOLEAN
       /\ {RadioHeartbeat, RouterHeartbeat} \subseteq Nat \ {0}
       /\ MaxQueue \in Nat \ {0}
       /\ NoAddr \notin Neigh \cup Dest

MAC == Neigh \cup Dest

(* The neighbor whose layer-2 entry carries a MAC (l2neigh->addr).        *)
NeighOf(m) == IF m \in Neigh THEN m ELSE Via[m]

(* enum dlep_neighbor_state; "NONE" marks a MAC without a tree entry.     *)
NeighborStates == {"IDLE", "UP_SENT", "UP_ACKED", "DOWN_SENT", "DOWN_ACKED"}

(* struct dlep_local_neighbor: state, changed flag, whether its           *)
(* _ack_timeout timer is armed, and neigh_addr.                           *)
Entry == [state : NeighborStates \cup {"NONE"}, changed : BOOLEAN,
          armed : BOOLEAN, neigh : Neigh \cup {NoAddr}]

NoEntry == [state |-> "NONE", changed |-> FALSE, armed |-> FALSE, neigh |-> NoAddr]

(* The radio's two sessions: the interface session that answers UDP      *)
(* discovery (radio_if->interf.session) and the TCP session of the router.*)
RadioSessions == {"udp", "tcp"}

(* restrict_signal of a TCP session; "NONE" when there is no session.     *)
RadioPhases  == {"NONE", "PEER_INITIALIZATION", "ALL_SIGNALS"}
RouterPhases == {"NONE", "PEER_INITIALIZATION_ACK", "ALL_SIGNALS"}

SignalTypes == {"PEER_INITIALIZATION", "PEER_INITIALIZATION_ACK",
                "DESTINATION_UP", "DESTINATION_UP_ACK", "DESTINATION_UPDATE",
                "DESTINATION_DOWN"}

Signal == [type : SignalTypes, mac : MAC \cup {NoAddr},
           hb : {0, RadioHeartbeat, RouterHeartbeat}, ok : BOOLEAN]

(* A signal carrying only a MAC TLV (dlep_base_proto_write_mac_only).     *)
MacSignal(t, m) == [type |-> t, mac |-> m, hb |-> 0, ok |-> TRUE]

(* Variant of HeartbeatSignal that writes the interval in other units     *)
(* than the reader expects (a ms/s slip in dlep_writer_add_heartbeat_tlv).*)
HeartbeatSignalScaled(t, h) == [type |-> t, mac |-> NoAddr, hb |-> 1000 * h, ok |-> TRUE]

(* A signal carrying only a heartbeat TLV.                                *)
HeartbeatSignal(t, h) == [type |-> t, mac |-> NoAddr, hb |-> h, ok |-> TRUE]

(* Whether a session whose restrict_signal is phase accepts signal type t *)
(* (the check of dlep_session_process_signal, spec 4.2).                  *)
Accepts(phase, t) == phase = "ALL_SIGNALS" \/ phase = t

VARIABLES
    radioUp,        \* the radio daemon is running (FALSE after a crash)
    radioPhase,     \* restrict_signal of the radio TCP session
    radioRemoteHb,  \* remote_heartbeat_interval of the radio TCP session
    radioWatchdog,  \* remote_heartbeat_timeout of the radio armed
    local,          \* local[s][m]: local_neighbor_tree of radio session s
    l2neigh,        \* neighbors in the radio's layer-2 database
    l2dst,          \* proxied destinations in the radio's layer-2 database
    routerPhase,    \* restrict_signal of the router TCP session
    routerRemoteHb, \* remote_heartbeat_interval of the router TCP session
    routerWatchdog, \* remote_heartbeat_timeout of the router armed
    routerL2,       \* MACs with a layer-2 neighbor of the session's l2_origin
    toRouter,       \* TCP byte stream radio -> router, as signals
    toRadio,        \* TCP byte stream router -> radio, as signals
    udpToRadio,     \* a PEER_DISCOVERY datagram is in flight
    udpToRouter,    \* a PEER_OFFER datagram is in flight
    announced,      \* history: MACs sent in DESTINATION_UP on this connection
    orderViolation  \* history: a session rejected a signal by restrict_signal

radioVars  == <<radioUp, radioPhase, radioRemoteHb, radioWatchdog, local, l2neigh, l2dst>>
routerVars == <<routerPhase, routerRemoteHb, routerWatchdog, routerL2>>
netVars    == <<toRouter, toRadio, udpToRadio, udpToRouter>>
ghostVars  == <<announced, orderViolation>>
vars == <<radioVars, routerVars, netVars, ghostVars>>

-----------------------------------------------------------------------------
(* Session removal, run on both ends when the TCP connection goes away.  *)

(* dlep_session_remove of the radio TCP session with _cb_cleanup_radio:   *)
(* its timers stop and its local neighbors are freed without signals.     *)
RadioSessionRemove ==
    /\ radioPhase' = "NONE"
    /\ radioWatchdog' = FALSE
    /\ local' = [local EXCEPT !["tcp"] = [m \in MAC |-> NoEntry]]

(* Variant of RouterSessionRemove that leaves the origin's layer-2 data   *)
(* behind (oonf_layer2_net_remove skipped).                               *)
RouterSessionRemoveKeepL2 ==
    /\ routerPhase' = "NONE"
    /\ routerWatchdog' = FALSE
    /\ UNCHANGED routerL2

(* _cb_cleanup_router: the layer-2 data of the session's origin is        *)
(* removed and the timers stop.                                           *)
RouterSessionRemove ==
    /\ routerPhase' = "NONE"
    /\ routerWatchdog' = FALSE
    /\ routerL2' = {}

(* The connection is closed: both sessions are removed, the streams are   *)
(* discarded.                                                             *)
CloseConnection ==
    /\ RadioSessionRemove
    /\ RouterSessionRemove
    /\ toRouter' = <<>>
    /\ toRadio' = <<>>
    /\ announced' = {}
=============================================================================
