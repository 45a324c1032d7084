-------------------------------- MODULE Dlep --------------------------------
(***************************************************************************)
(* One DLEP radio and one DLEP router on one interface: UDP discovery,    *)
(* the TCP session handshake, and the destination lifecycle the radio     *)
(* drives from its layer-2 database and the router projects into its own. *)
(***************************************************************************)
EXTENDS DlepRadio, DlepRouter

(* The daemon starts with no session and whatever layer-2 entries the     *)
(* radio's drivers have already reported.                                 *)
Init ==
    /\ radioUp = TRUE
    /\ radioPhase = "NONE"
    /\ radioRemoteHb = 0
    /\ radioWatchdog = FALSE
    /\ local = [s \in RadioSessions |-> [m \in MAC |-> NoEntry]]
    /\ l2neigh \in SUBSET Neigh
    /\ l2dst \in {D \in SUBSET Dest : \A d \in D : Via[d] \in l2neigh}
    /\ routerPhase = "NONE"
    /\ routerRemoteHb = 0
    /\ routerWatchdog = FALSE
    /\ routerL2 = {}
    /\ toRouter = <<>>
    /\ toRadio = <<>>
    /\ udpToRadio = FALSE
    /\ udpToRouter = FALSE
    /\ announced = {}
    /\ orderViolation = FALSE

(* Variant of RouterProcessPeerOffer with the restrict_signal check        *)
(* inverted: the interface session ignores every offer.                   *)
RouterProcessPeerOfferIgnored ==
    /\ udpToRouter
    /\ udpToRouter' = FALSE
    /\ UNCHANGED <<radioVars, routerVars, toRouter, toRadio, udpToRadio, ghostVars>>

(* _router_process_peer_offer on the interface session, followed by       *)
(* dlep_router_add_session: the router opens a TCP session unless it has  *)
(* one (_cb_init_router), and the radio accepts it (_cb_init_radio).      *)
RouterProcessPeerOffer ==
    /\ udpToRouter
    /\ udpToRouter' = FALSE
    /\ \/ /\ routerPhase = "NONE" /\ radioUp
          /\ InitRouterSession
          /\ InitRadioSession
          /\ UNCHANGED <<radioUp, local, l2neigh, l2dst, routerL2, toRouter,
                         udpToRadio, ghostVars>>
       \/ /\ ~(routerPhase = "NONE" /\ radioUp)
          /\ UNCHANGED <<radioVars, routerVars, toRouter, toRadio, udpToRadio, ghostVars>>

RadioNext ==
    \/ RadioProcessPeerDiscovery
    \/ RadioProcessPeerInit
    \/ RadioProcessDestinationUpAck
    \/ \E n \in Neigh : L2NeighAdded(n) \/ L2NeighChanged(n) \/ L2NeighRemoved(n)
    \/ \E d \in Dest : L2DstAdded(d) \/ L2DstRemoved(d)
    \/ \E s \in RadioSessions, m \in MAC : DestinationTimeout(s, m)
    \/ RadioHeartbeatTimeout

RouterNext ==
    \/ RouterDiscoveryTimer
    \/ LoseDatagram
    \/ RouterProcessPeerOffer
    \/ RouterReject
    \/ RouterProcessPeerInitAck
    \/ RouterProcessDestinationUp
    \/ RouterProcessDestinationUpdate
    \/ RouterHeartbeatTimeout

Next == RadioNext \/ RouterNext

(* Every handler runs once its signal is at the head of the stream and    *)
(* every armed timer eventually fires: the event loop serves them all.   *)
(* Layer-2 events, losses and heartbeat expiry are left to chance, but a  *)
(* datagram the periodic discovery timer keeps re-sending is not lost     *)
(* every time: the two UDP handlers are strongly fair.                    *)
Fairness ==
    /\ SF_vars(RadioProcessPeerDiscovery)
    /\ WF_vars(RadioProcessPeerInit)
    /\ WF_vars(RadioProcessDestinationUpAck)
    /\ \A s \in RadioSessions, m \in MAC : WF_vars(DestinationTimeout(s, m))
    /\ WF_vars(RouterDiscoveryTimer)
    /\ SF_vars(RouterProcessPeerOffer)
    /\ WF_vars(RouterReject)
    /\ WF_vars(RouterProcessPeerInitAck)
    /\ WF_vars(RouterProcessDestinationUp)
    /\ WF_vars(RouterProcessDestinationUpdate)

Spec == Init /\ [][Next]_vars /\ Fairness

-----------------------------------------------------------------------------
(* Properties.                                                            *)

TypeOK ==
    /\ radioUp \in BOOLEAN
    /\ radioPhase \in RadioPhases
    /\ radioRemoteHb \in {0, RadioHeartbeat, RouterHeartbeat}
    /\ radioWatchdog \in BOOLEAN
    /\ local \in [RadioSessions -> [MAC -> Entry]]
    /\ l2neigh \subseteq Neigh
    /\ l2dst \subseteq Dest
    /\ routerPhase \in RouterPhases
    /\ routerRemoteHb \in {0, RadioHeartbeat, RouterHeartbeat}
    /\ routerWatchdog \in BOOLEAN
    /\ routerL2 \subseteq MAC
    /\ toRouter \in Seq(Signal)
    /\ toRadio \in Seq(Signal)
    /\ {udpToRadio, udpToRouter, orderViolation} \subseteq BOOLEAN
    /\ announced \subseteq MAC
(* A MAC the radio holds as UP_ACKED in its TCP session has a layer-2     *)
(* neighbor at the router: the radio only acks on an OKAY status          *)
(* (_radio_process_destination_up_ack) and the router only sends OKAY    *)
(* after oonf_layer2_neigh_add succeeded, even across ack timeouts, re-   *)
(* sent UPs and the two streams' interleaving.                            *)
AckedKnownToRouter ==
    \A m \in MAC : local["tcp"][m].state = "UP_ACKED" => m \in routerL2

(* The router's layer-2 table of the session's origin only holds MACs    *)
(* the radio announced on the current connection: _cb_cleanup_router      *)
(* removes everything of a closed session before a new one starts.       *)
RouterViewAnnounced == routerL2 \subseteq announced

(* The changed flag of a local neighbor is only set while its UP is       *)
(* unacknowledged: _radio_process_destination_up_ack sends the pending    *)
(* DESTINATION_UPDATE and clears it, so no data change is left behind.   *)
ChangedOnlyWhileUpSent ==
    \A s \in RadioSessions, m \in MAC :
        local[s][m].changed => local[s][m].state = "UP_SENT"

(* The radio never dereferences a missing local neighbor: a DESTINATION_  *)
(* UP_ACK for a MAC whose entry the ack timeout already removed must not  *)
(* crash the daemon (proto_radio.c, _radio_process_destination_up_ack).   *)
NoCrash == radioUp

(* No session is ever terminated for a signal outside its restrict_signal *)
(* (spec 4.2): the radio only writes destination signals after the       *)
(* PEER_INITIALIZATION_ACK.                                                *)
SignalOrderRespected == ~orderViolation

(* After the handshake the router watches the radio's heartbeat interval  *)
(* (spec 4.5: the PEER_INITIALIZATION_ACK carries the radio's own         *)
(* interval; _radio_write_peer_init_ack writes the remote one).           *)
HeartbeatIntervalExchanged ==
    routerPhase = "ALL_SIGNALS" => routerRemoteHb = RadioHeartbeat

(* A router without a session eventually has one while the radio runs:   *)
(* the discovery timer (_cb_create_peer_discovery, periodic) re-sends    *)
(* PEER_DISCOVERY after every lost datagram, the radio answers each with *)
(* a PEER_OFFER, and an offer in discovery mode opens the TCP session.   *)
DiscoveryEstablishesSession ==
    (routerPhase = "NONE" /\ radioUp) ~> (routerPhase # "NONE" \/ ~radioUp)

(* A router that sent PEER_INITIALIZATION eventually leaves that phase,   *)
(* completing the handshake or dropping the session.                      *)
HandshakeCompletes ==
    routerPhase = "PEER_INITIALIZATION_ACK" ~> routerPhase # "PEER_INITIALIZATION_ACK"

(* The router's view of the session follows the radio's layer-2         *)
(* database: a neighbor present while the session is up eventually       *)
(* reaches the router (spec 4.6: the added callback drives the           *)
(* destination state machine of each session), and a MAC that left the  *)
(* radio's database eventually leaves the router's (spec 4.5: removal    *)
(* sends DESTINATION_DOWN), unless it changes back or the session ends.  *)
RouterViewFollowsRadio ==
    /\ \A n \in Neigh :
           (n \in l2neigh /\ radioPhase = "ALL_SIGNALS")
               ~> (n \in routerL2 \/ n \notin l2neigh \/ radioPhase # "ALL_SIGNALS")
    /\ \A m \in MAC :
           (m \in routerL2 /\ m \notin l2neigh \cup l2dst)
               ~> (m \notin routerL2 \/ m \in l2neigh \cup l2dst)

=============================================================================
