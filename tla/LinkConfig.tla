----------------------------- MODULE LinkConfig -----------------------------
(***************************************************************************)
(* The link_config plugin (link_config.c): per-interface configuration    *)
(* of layer-2 neighbor data, written into the layer-2 database under two  *)
(* origins of its own.  A value set by the current configuration carries  *)
(* _l2_origin_current while the delta handler runs and _l2_origin_old     *)
(* afterwards; at the next change, whatever the new configuration does    *)
(* not set again is still "old" and is removed.                            *)
(*                                                                         *)
(* One interface is modelled.  A target is a neighbor MAC or Net, the      *)
(* interface-wide defaults (l2net->neighdata).  The layer-2 database        *)
(* (oonf_layer2.c) is not in this snapshot: a datum is a value and an      *)
(* origin, and another origin (Foreign, e.g. a DLEP session) writes and    *)
(* removes only its own data (spec: "must not mutate entries tagged by    *)
(* other origins").                                                        *)
(***************************************************************************)
EXTENDS Naturals, FiniteSets

CONSTANTS
    Neighs,        \* neighbor MACs a configuration may name
    Keys,          \* enum oonf_layer2_neighbor_index values link_config sets
    NetLoopKeys,   \* the indices below OONF_LAYER2_NET_COUNT
    Vals,          \* values a configuration may give
    Net,           \* the interface-wide target
    NoVal,         \* no value (oonf_layer2_has_value false)
    Current,       \* _l2_origin_current
    Old,           \* _l2_origin_old
    Foreign,       \* an origin of another subsystem
    NoOrigin       \* origin 0

ASSUME /\ NetLoopKeys \subseteq Keys
       /\ Net \notin Neighs /\ NoVal \notin Vals

Targets == Neighs \cup {Net}
Origins == {Current, Old, Foreign, NoOrigin}

(* A datum of the layer-2 database: an empty one has origin 0.            *)
Datum == {[val |-> NoVal, origin |-> NoOrigin]}
         \cup [val : Vals, origin : Origins \ {NoOrigin}]

Empty == [val |-> NoVal, origin |-> NoOrigin]

(* A configuration of the interface section: the value it gives each     *)
(* target and key, NoVal when none (a missing section gives none at all). *)
Configs == [Targets \X Keys -> Vals \cup {NoVal}]

VARIABLES
    l2,        \* l2[t, k]: the layer-2 datum of target t at index k
    conf,      \* the configuration the handler last applied
    blocked,   \* history: pairs the last change could not set, held by Foreign
    loaded     \* the subsystem is initialised and not yet cleaned up

vars == <<l2, conf, blocked, loaded>>

-----------------------------------------------------------------------------
(* Variant of SetL2Value without the origin check.                         *)
SetL2ValueAnyOrigin(d, v) == [val |-> v, origin |-> Current]

(* _set_l2value: a datum holding a value of another origin is refused    *)
(* (-1); otherwise the value is set under _l2_origin_current.             *)
SetL2Value(d, v) ==
    IF d.val # NoVal /\ d.origin \notin {NoOrigin, Current, Old} THEN d
    ELSE [val |-> v, origin |-> Current]

(* _parse_strarray for every key of the section: each configured value    *)
(* goes to its target through _set_l2value.                                *)
ParseConfig(db, c) ==
    [p \in Targets \X Keys |-> IF c[p] = NoVal THEN db[p] ELSE SetL2Value(db[p], c[p])]

(* oonf_layer2_net_cleanup(l2net, _l2_origin_old): every datum of the     *)
(* origin is removed, the net's and its neighbors'.                        *)
Cleanup(db, o) == [p \in Targets \X Keys |-> IF db[p].origin = o THEN Empty ELSE db[p]]

(* Variant of Relabel that moves every datum to the old origin, empty or  *)
(* not, without comparing its origin first.                                *)
RelabelAll(db) ==
    [p \in Targets \X Keys |->
        IF p[1] = Net /\ p[2] \notin NetLoopKeys THEN db[p]
        ELSE [db[p] EXCEPT !.origin = Old]]

(* The two relabelling loops of _cb_config_changed: every neighbor datum, *)
(* and the net datum of each index below OONF_LAYER2_NET_COUNT, of origin *)
(* _l2_origin_current moves to _l2_origin_old.                             *)
Relabel(db) ==
    [p \in Targets \X Keys |->
        IF db[p].origin = Current /\ (p[1] # Net \/ p[2] \in NetLoopKeys)
        THEN [db[p] EXCEPT !.origin = Old]
        ELSE db[p]]

-----------------------------------------------------------------------------
(* _init has registered the two origins; no configuration applied yet.  *)
Init ==
    /\ l2 = [p \in Targets \X Keys |-> Empty]
    /\ conf = [p \in Targets \X Keys |-> NoVal]
    /\ blocked = {}
    /\ loaded = TRUE

(* The pairs a configuration gives a value but _set_l2value refuses.       *)
Refused(c) == {p \in Targets \X Keys : c[p] # NoVal /\ SetL2Value(l2[p], c[p]) = l2[p]
                                       /\ l2[p].origin = Foreign}

(* Variant of ConfigChanged that never removes the old values.            *)
ConfigChangedNoCleanup(c) ==
    /\ loaded
    /\ l2' = Relabel(ParseConfig(l2, c))
    /\ conf' = c
    /\ blocked' = Refused(c)
    /\ UNCHANGED loaded

(* _cb_config_changed: the new section's values are parsed in, the values *)
(* still of the old origin are cleaned up, and the current ones are        *)
(* relabelled old.  The change events (oonf_layer2_neigh_commit and        *)
(* oonf_layer2_net_commit) do not change the database and are left out.   *)
ConfigChanged(c) ==
    /\ loaded
    /\ l2' = Relabel(Cleanup(ParseConfig(l2, c), Old))
    /\ conf' = c
    /\ blocked' = Refused(c)
    /\ UNCHANGED loaded

(* Another origin sets a datum that is empty or its own.                   *)
ForeignSet(p, v) ==
    /\ l2[p].origin \in {NoOrigin, Foreign}
    /\ l2' = [l2 EXCEPT ![p] = [val |-> v, origin |-> Foreign]]
    /\ UNCHANGED <<conf, blocked, loaded>>

(* Another origin removes its datum.                                       *)
ForeignRemove(p) ==
    /\ l2[p].origin = Foreign
    /\ l2' = [l2 EXCEPT ![p] = Empty]
    /\ UNCHANGED <<conf, blocked, loaded>>

(* Variant of PluginCleanup that only cleans _l2_origin_current.          *)
PluginCleanupCurrentOnly ==
    /\ loaded
    /\ loaded' = FALSE
    /\ l2' = Cleanup(l2, Current)
    /\ UNCHANGED <<conf, blocked>>

(* _cleanup, when the subsystem is unloaded: oonf_layer2_cleanup_origin   *)
(* removes every datum of _l2_origin_current, then of _l2_origin_old.     *)
(* The delta handler is no longer called afterwards.                       *)
PluginCleanup ==
    /\ loaded
    /\ loaded' = FALSE
    /\ l2' = Cleanup(Cleanup(l2, Current), Old)
    /\ UNCHANGED <<conf, blocked>>

Next ==
    \/ \E c \in Configs : ConfigChanged(c)
    \/ PluginCleanup
    \/ \E p \in Targets \X Keys, v \in Vals : ForeignSet(p, v)
    \/ \E p \in Targets \X Keys : ForeignRemove(p)

Spec == Init /\ [][Next]_vars

-----------------------------------------------------------------------------
TypeOK ==
    /\ l2 \in [Targets \X Keys -> Datum]
    /\ conf \in Configs
    /\ blocked \subseteq Targets \X Keys
    /\ loaded \in BOOLEAN

(* The plugin's data is exactly the configuration in force: every datum   *)
(* of link_config's origins holds the value the last configuration gives, *)
(* and every value that configuration gives is in the database under      *)
(* _l2_origin_old, unless another origin held the datum, across any       *)
(* sequence of configuration changes and foreign writes, for as long as   *)
(* the subsystem is loaded.                                                *)
ConfigInForce ==
    loaded =>
    \A p \in Targets \X Keys :
        /\ l2[p].origin \in {Current, Old} => l2[p].val = conf[p]
        /\ conf[p] # NoVal /\ p \notin blocked => l2[p] = [val |-> conf[p], origin |-> Old]

(* Once _cleanup has run, no datum of the layer-2 database carries either *)
(* of link_config's origins, whatever configuration changes and foreign   *)
(* writes came before, and none appears later.  Between two delta handler *)
(* runs every value the plugin set carries _l2_origin_old, so this rests  *)
(* on the second oonf_layer2_cleanup_origin call of _cleanup.              *)
NoDataAfterCleanup ==
    ~loaded => \A p \in Targets \X Keys : l2[p].origin \notin {Current, Old}

(* The refinement mapping: a datum of either link_config origin is owned *)
(* by the configuration, one of another origin by another subsystem.      *)
OwnerOf(o) == IF o = Current THEN Old ELSE o

(* After _cleanup no configuration is in force.                          *)
Active == IF loaded THEN conf ELSE [p \in Targets \X Keys |-> NoVal]

Abstract == INSTANCE LinkConfigAbstract
    WITH Pairs <- Targets \X Keys, Config <- Old, Other <- Foreign, Nobody <- NoOrigin,
         active <- Active,
         view <- [p \in Targets \X Keys |-> [val |-> l2[p].val, owner |-> OwnerOf(l2[p].origin)]]

(* link_config implements its abstract promise: each configuration change *)
(* (_cb_config_changed: parse through _set_l2value, cleanup of the old    *)
(* origin, relabelling) is one step that sets exactly the configured data *)
(* and clears the data it set before and no longer gives, never taking   *)
(* over or clearing a datum of another origin; and nothing else ever      *)
(* changes link_config's data.  Unloading is one more apply, of the empty *)
(* configuration.                                                          *)
ImplementsAbstract == Abstract!Spec
=============================================================================
