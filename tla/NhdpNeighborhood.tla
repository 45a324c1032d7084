-------------------------- MODULE NhdpNeighborhood --------------------------
(***************************************************************************)
(* The per-domain data NHDP keeps for its links and neighbors            *)
(* (nhdp_domain.c), composed with the domain registry                     *)
(* (NhdpDomain): the data of a domain is read through its index, and the  *)
(* start values come from the handlers the registry assigned.             *)
(*                                                                         *)
(* The NHDP database and reader (nhdp_db.c, nhdp_reader.c) and the metric *)
(* and MPR plugins are not in this snapshot; what this module assumes of  *)
(* them is marked "core": a HELLO received over a link creates the link   *)
(* and its neighbor if new, runs the domain TLV processors on them and    *)
(* ends with nhdp_domain_neighbor_changed; a lost link is removed (and    *)
(* its neighbor with its last link) followed by                          *)
(* nhdp_domain_neighborhood_changed; a metric plugin commits an incoming  *)
(* link metric and reports a neighborhood change when the commit changed  *)
(* it.  TLV contents are abstracted to what they decode to (the byte      *)
(* layout is NhdpTlv's).  A domain's data slot is keyed by its extension  *)
(* type, which owns the index it was given.  A plugin's update_mpr is not *)
(* in this snapshot: it may set its domain's neigh_is_mpr flags at will.  *)
(* The flooding flags and willingness, the INCOMING_NEIGH value of a link *)
(* metric TLV (always overwritten by the recalculation that follows) and *)
(* neighbor_metric_changed are left out: no property here reads them.    *)
(***************************************************************************)
EXTENDS Naturals, Sequences, SequencesExt, FiniteSets

CONSTANTS
    Exts, MaxDomains, Metrics, Mprs, MetricOrder, MprOrder,
    NoMetric, EveryoneMpr, AnyName, NoName, EmptyName, Flooding,
    Neighbors,       \* originator addresses of neighbors
    Links,           \* (local interface, neighbor address) links
    LinkNeigh,       \* LinkNeigh[l]: the neighbor link l belongs to
    MetricMax,       \* RFC7181_METRIC_MAX
    MetricInfinite,  \* RFC7181_METRIC_INFINITE
    MetricInputs,    \* metric values a plugin commits or a TLV decodes to
    PluginMprStart,  \* mpr_start of the plugins' MPR handlers
    PluginMprsStart, \* mprs_start of the plugins' MPR handlers
    Willingness,     \* willingness values a HELLO may carry
    NoLink,          \* a NULL best_link
    NoTlv            \* an absent TLV

RFC7181_WILLINGNESS_NEVER == 0

ASSUME /\ LinkNeigh \in [Links -> Neighbors]
       /\ MetricInputs \subseteq 1..MetricInfinite /\ MetricMax < MetricInfinite
       /\ {PluginMprStart, PluginMprsStart} \subseteq BOOLEAN /\ NoLink \notin Links
       /\ RFC7181_WILLINGNESS_NEVER \in Willingness /\ Willingness \subseteq 0..15

VARIABLES
    domains, metric, mpr, cfgMpr,   \* the registry (NhdpDomain)
    nlinks,      \* nlinks[n]: neigh->_links in list order; <<>> when no neighbor
    linkdata,    \* linkdata[l][e]: metric of link l in the domain of ext e
    neighdata,   \* neighdata[n][e]: metric, best_link, willingness and MPR flags
    nodeIsMpr    \* _node_is_selected_as_mpr

ND == INSTANCE NhdpDomain

regVars == <<domains, metric, mpr, cfgMpr>>
nbVars  == <<nlinks, linkdata, neighdata, nodeIsMpr>>
vars == <<regVars, nbVars>>

Doms == ToSet(domains)
Present(n) == nlinks[n] # <<>>
LinkUp(l) == \E i \in DOMAIN nlinks[LinkNeigh[l]] : nlinks[LinkNeigh[l]][i] = l

-----------------------------------------------------------------------------
(* The slots nhdp_domain_init_* leave to domains not in the list: the     *)
(* loop over NHDP_MAXIMUM_DOMAINS sets RFC7181_METRIC_MAX, the rest is    *)
(* the zeroed allocation.                                                  *)
DefaultMetric == [in |-> MetricMax, out |-> MetricMax]
DefaultNeigh == [in |-> MetricMax, out |-> MetricMax, best |-> NoLink, localMpr |-> FALSE,
                 will |-> RFC7181_WILLINGNESS_NEVER, neighMpr |-> FALSE]
NoLinkData == [e \in Exts |-> DefaultMetric]

(* The link start values of a metric handler: _no_metric's, or the       *)
(* defaults nhdp_domain_metric_add fills into a plugin's zero fields.     *)
LinkStart(h) == [in |-> MetricMax, out |-> IF h = NoMetric THEN MetricMax ELSE MetricInfinite]

(* mprs_start and mpr_start of an MPR handler (_everyone_mprs: true).     *)
MprsStart(h) == IF h = EveryoneMpr THEN TRUE ELSE PluginMprsStart
MprStart(h) == IF h = EveryoneMpr THEN TRUE ELSE PluginMprStart

(* nhdp_domain_init_link.                                                  *)
InitLink == [e \in Exts |-> IF e \in Doms THEN LinkStart(metric.of[e]) ELSE DefaultMetric]

(* nhdp_domain_init_neighbor: per domain of the list the link start      *)
(* metrics, no best link, willingness NEVER and the MPR handler's start  *)
(* flags.                                                                  *)
InitNeighbor ==
    [e \in Exts |->
        IF e \in Doms
        THEN [in |-> LinkStart(metric.of[e]).in, out |-> LinkStart(metric.of[e]).out, best |-> NoLink,
              will |-> RFC7181_WILLINGNESS_NEVER,
              localMpr |-> MprsStart(mpr.of[e]), neighMpr |-> MprStart(mpr.of[e])]
        ELSE DefaultNeigh]

-----------------------------------------------------------------------------
(* TLV contents as the processors see them: the domains whose MPR bit is *)
(* set (an absent TLV clears them all, as one with no bit set), the       *)
(* routing willingness per domain (an absent TLV gives NEVER), and the    *)
(* INCOMING_LINK metric of a link metric TLV.                             *)
MprTlvs  == SUBSET Doms
WillTlvs == [Doms -> Willingness]
LinkTlvs == {NoTlv} \cup MetricInputs

(* nhdp_domain_process_mpr_tlv on a neighbor's data nd: every domain's    *)
(* flag is cleared, then read from the TLV.                               *)
ProcessMprTlv(nd, t) ==
    [e \in Exts |-> IF e \in Doms THEN [nd[e] EXCEPT !.localMpr = e \in t] ELSE nd[e]]

(* nhdp_domain_store_willingness: the willingness nhdp_domain_process_    *)
(* willingness_tlv left in each domain's _tmp_willingness is stored.     *)
StoreWillingness(nd, t) ==
    [e \in Exts |-> IF e \in Doms THEN [nd[e] EXCEPT !.will = t[e]] ELSE nd[e]]

(* nhdp_domain_process_metric_linktlv for one domain: INCOMING_LINK sets *)
(* the link's outgoing metric (NoTlv: no TLV, or one without that flag).  *)
(* INCOMING_NEIGH sets the neighbor's, which the recalculation of the     *)
(* change handler that follows every HELLO overwrites.                    *)
LinkTlvLink(m, t) == IF t # NoTlv THEN [m EXCEPT !.out = t] ELSE m

-----------------------------------------------------------------------------
(* Variant of RecalcNeighbor that does not reset best_link to NULL.       *)
RecalcNeighborNoReset(e, ls, ld, nd) ==
    LET step(acc, l) ==
            [in   |-> IF ld[l][e].in < acc.in THEN ld[l][e].in ELSE acc.in,
             out  |-> IF ld[l][e].out < acc.out THEN ld[l][e].out ELSE acc.out,
             best |-> IF ld[l][e].out < acc.out THEN l ELSE acc.best]
        r == FoldLeft(step, [in |-> MetricInfinite, out |-> MetricInfinite, best |-> nd.best], ls)
    IN  [nd EXCEPT !.in = r.in, !.out = r.out, !.best = r.best]

(* _recalculate_neighbor_metric for domain e on the neighbor data nd      *)
(* whose links are ls: both metrics and best_link are reset, then the     *)
(* links are scanned in list order and a strictly smaller metric wins.   *)
RecalcNeighbor(e, ls, ld, nd) ==
    LET step(acc, l) ==
            [in   |-> IF ld[l][e].in < acc.in THEN ld[l][e].in ELSE acc.in,
             out  |-> IF ld[l][e].out < acc.out THEN ld[l][e].out ELSE acc.out,
             best |-> IF ld[l][e].out < acc.out THEN l ELSE acc.best]
        r == FoldLeft(step, [in |-> MetricInfinite, out |-> MetricInfinite, best |-> NoLink], ls)
    IN  [nd EXCEPT !.in = r.in, !.out = r.out, !.best = r.best]

(* The closing loop of both change handlers: _node_is_selected_as_mpr is  *)
(* reset, then set if any neighbor selected this node in any domain.      *)
SelectedAsMpr(nl, nd) ==
    \E n \in Neighbors, e \in Doms : nl[n] # <<>> /\ nd[n][e].localMpr

(* _cb_update_everyone_mpr, the update_mpr of _everyone_mprs: in every   *)
(* domain on it, each current neighbor is an MPR iff it is willing.      *)
UpdateEveryoneMpr(nl, nd) ==
    [n \in Neighbors |->
        [e \in Exts |-> IF e \in Doms /\ mpr.of[e] = EveryoneMpr /\ nl[n] # <<>>
                       THEN [nd[n][e] EXCEPT !.neighMpr = nd[n][e].will > RFC7181_WILLINGNESS_NEVER]
                       ELSE nd[n][e]]]

(* nhdp_domain_neighbor_changed (ns the neighbor) and nhdp_domain_        *)
(* neighborhood_changed (ns every neighbor), applied to the links nl,     *)
(* link data ld and neighbor data nd the caller left: the neighbors' metrics *)
(* are recalculated in every domain of the list and the domain's          *)
(* update_mpr runs (_cb_update_everyone_mpr, or a plugin's that may set    *)
(* neigh_is_mpr of its domain's neighbors at will), the listeners run (no  *)
(* state of this module), and the MPR selector check.                     *)
Changed(ns, nl, ld, nd) ==
    LET nd1 == [n \in Neighbors |->
                  [e \in Exts |-> IF n \in ns /\ e \in Doms
                                 THEN RecalcNeighbor(e, nl[n], ld, nd[n][e])
                                 ELSE nd[n][e]]]
        nd2 == IF \E e \in Doms : mpr.of[e] = EveryoneMpr
               THEN UpdateEveryoneMpr(nl, nd1) ELSE nd1
        plugDoms == {e \in Doms : mpr.of[e] # EveryoneMpr}
    IN  /\ \E sel \in [plugDoms -> [Neighbors -> BOOLEAN]] :
             neighdata' = [n \in Neighbors |->
                            [e \in Exts |-> IF e \in plugDoms /\ nl[n] # <<>>
                                           THEN [nd2[n][e] EXCEPT !.neighMpr = sel[e][n]]
                                           ELSE nd2[n][e]]]
        /\ nodeIsMpr' = SelectedAsMpr(nl, nd1)
        /\ nlinks' = nl
        /\ linkdata' = ld

(* nhdp_domain_set_incoming_metric: the incoming metric of link l in      *)
(* every domain of the list that uses metric handler h.                   *)
SetIncomingMetric(h, ld, l, v) ==
    [ld EXCEPT ![l] = [e \in Exts |-> IF e \in Doms /\ metric.of[e] = h
                                      THEN [@[e] EXCEPT !.in = v] ELSE @[e]]]

-----------------------------------------------------------------------------
Init ==
    /\ ND!Init
    /\ nlinks = [n \in Neighbors |-> <<>>]
    /\ linkdata = [l \in Links |-> NoLinkData]
    /\ neighdata = [n \in Neighbors |-> [e \in Exts |-> DefaultNeigh]]
    /\ nodeIsMpr = FALSE

(* The link list of the neighbor after a HELLO over l (core): a link     *)
(* not yet known is appended.                                             *)
HelloLinks(l) == IF LinkUp(l) THEN nlinks ELSE [nlinks EXCEPT ![LinkNeigh[l]] = Append(@, l)]

(* A HELLO over link l (core): the link, and its neighbor, are created   *)
(* and initialised if new; the MPR TLV, the willingness TLV (stored) and  *)
(* the link metric TLV of every domain of the list are processed; then   *)
(* nhdp_domain_neighbor_changed.                                          *)
ReceiveHello(l, mt, wt, lt) ==
    LET n   == LinkNeigh[l]
        up  == LinkUp(l)
        nl  == HelloLinks(l)
        nd0 == StoreWillingness(ProcessMprTlv(IF Present(n) THEN neighdata[n] ELSE InitNeighbor, mt), wt)
        ld0 == IF up THEN linkdata[l] ELSE InitLink
        ld1 == [e \in Exts |-> IF e \in Doms THEN LinkTlvLink(ld0[e], lt[e]) ELSE ld0[e]]
    IN  /\ Changed({n}, nl, [linkdata EXCEPT ![l] = ld1], [neighdata EXCEPT ![n] = nd0])
        /\ UNCHANGED regVars

(* A link times out (core): it leaves its neighbor's list, the neighbor   *)
(* goes with its last link, and the neighborhood change is reported.      *)
LinkLost(l) ==
    LET n  == LinkNeigh[l]
        nl == [nlinks EXCEPT ![n] = SelectSeq(@, LAMBDA x : x # l)]
    IN  /\ LinkUp(l)
        /\ Changed({m \in Neighbors : nl[m] # <<>>}, nl,
                   [linkdata EXCEPT ![l] = NoLinkData],
                   IF nl[n] = <<>> THEN [neighdata EXCEPT ![n] = [e \in Exts |-> DefaultNeigh]]
                   ELSE neighdata)
        /\ UNCHANGED regVars

(* An enabled metric plugin commits the incoming metric v of link l       *)
(* (core) and, since it changed, reports a neighborhood change.           *)
MetricCommit(h, l, v) ==
    /\ metric.on[h] /\ LinkUp(l)
    /\ \E e \in Doms : metric.of[e] = h /\ linkdata[l][e].in # v
    /\ Changed({m \in Neighbors : Present(m)}, nlinks,
               SetIncomingMetric(h, linkdata, l, v), neighdata)
    /\ UNCHANGED regVars

(* The registry changes on its own (plugins, configuration): no           *)
(* neighbor data is touched.                                              *)
RegistryStep == ND!Next /\ UNCHANGED nbVars

Next ==
    \/ RegistryStep
    \/ \E l \in Links, mt \in MprTlvs, wt \in WillTlvs, lt \in [Doms -> LinkTlvs] :
         ReceiveHello(l, mt, wt, lt)
    \/ \E l \in Links : LinkLost(l)
    \/ \E h \in Metrics, l \in Links, v \in MetricInputs : MetricCommit(h, l, v)

Spec == Init /\ [][Next]_vars

-----------------------------------------------------------------------------
MetricVals == MetricInputs \cup {MetricMax, MetricInfinite}
Metric == [in : MetricVals, out : MetricVals]

TypeOK ==
    /\ ND!TypeOK
    /\ nlinks \in [Neighbors -> Seq(Links)] /\ \A n \in Neighbors : IsInjective(nlinks[n])
    /\ linkdata \in [Links -> [Exts -> Metric]]
    /\ neighdata \in [Neighbors -> [Exts -> [in : MetricVals, out : MetricVals,
                                             best : Links \cup {NoLink}, will : Willingness,
                                             localMpr : BOOLEAN, neighMpr : BOOLEAN]]]
    /\ nodeIsMpr \in BOOLEAN

(* The registry's counts and enable state stay right beside the data.     *)
RefcountsMatchUsers == ND!RefcountsMatchUsers
EnabledIffUsed == ND!EnabledIffUsed

(* Every neighbor's metric in each domain is the best of its links', and *)
(* its best_link is one of its current links with that outgoing metric   *)
(* (or NULL): after HELLOs that overwrite the neighbor metric from a TLV,*)
(* metric commits, links lost (the best one included) and domains or     *)
(* metric handlers that change under the data.                           *)
NeighborMetricIsBest ==
    \A n \in Neighbors, e \in Doms : Present(n) =>
        LET ls == ToSet(nlinks[n])
            nd == neighdata[n][e]
        IN  /\ nd.in  = Min({MetricInfinite} \cup {linkdata[l][e].in : l \in ls})
            /\ nd.out = Min({MetricInfinite} \cup {linkdata[l][e].out : l \in ls})
            /\ nd.best \in ls \cup {NoLink}
            /\ nd.best # NoLink => linkdata[nd.best][e].out = nd.out
=============================================================================
