----------------------------- MODULE NhdpDomain -----------------------------
(***************************************************************************)
(* The registry of NHDP routing domains (nhdp_domain.c): metric and MPR    *)
(* handlers registered by plugins (two AVL trees keyed by name), the       *)
(* domains created by configuration (_domain_list, at most                 *)
(* NHDP_MAXIMUM_DOMAINS), the flooding domain, and the reference counts    *)
(* that decide when a handler is enabled and disabled.                     *)
(*                                                                         *)
(* A handler is a model value and stands for its name as well.  Both       *)
(* sides keep a table                                                      *)
(*   reg  : the handlers in the AVL tree                                   *)
(*   ref  : handler->_refcount                                             *)
(*   on   : whether handler->enable() was called last (not disable())      *)
(*   of   : domain->metric / domain->mpr, per slot                         *)
(*   name : domain->metric_name / domain->mpr_name, per slot               *)
(* where a slot is a domain's extension type or Flooding.                  *)
(***************************************************************************)
EXTENDS Naturals, Sequences, FiniteSets, SequencesExt

CONSTANTS
    Exts,          \* extension types a domain may be configured with
    MaxDomains,    \* NHDP_MAXIMUM_DOMAINS
    Metrics,       \* metric handlers of plugins
    Mprs,          \* MPR handlers of plugins
    MetricOrder,   \* Metrics in strcasecmp order of their names
    MprOrder,      \* Mprs in strcasecmp order of their names
    NoMetric,      \* _no_metric, "Hopcount metric"
    EveryoneMpr,   \* _everyone_mprs, "Everyone MPR"
    AnyName,       \* CFG_DOMAIN_ANY_METRIC_MPR
    NoName,        \* CFG_DOMAIN_NO_METRIC_MPR
    EmptyName,     \* "": the name of a zeroed domain
    Flooding       \* the slot of _flooding_domain

ASSUME /\ MaxDomains \in Nat \ {0}
       /\ MetricOrder \in Seq(Metrics) /\ ToSet(MetricOrder) = Metrics
       /\ MprOrder \in Seq(Mprs) /\ ToSet(MprOrder) = Mprs

Slots == Exts \cup {Flooding}

MetricHandlers == Metrics \cup {NoMetric}
MprHandlers    == Mprs \cup {EveryoneMpr}

(* Names a configuration may give: a plugin's handler, the wildcard, or   *)
(* none; the stored names also include the defaults' and the empty one.   *)
MetricCfgNames == Metrics \cup {AnyName, NoName}
MprCfgNames    == Mprs \cup {AnyName, NoName}
Names == MetricHandlers \cup MprHandlers \cup {AnyName, NoName, EmptyName}

VARIABLES
    domains,   \* _domain_list: extension types in index order
    metric,    \* the metric table
    mpr,       \* the MPR table
    cfgMpr     \* history: the MPR name each slot was last configured with

vars == <<domains, metric, mpr, cfgMpr>>

(* The slots whose handler pointers are live.                             *)
InUse == ToSet(domains) \cup {Flooding}

(* The first registered handler in the tree's order (avl_first_element).  *)
FirstIn(reg, order) == order[SelectInSeq(order, LAMBDA h : h \in reg)]

-----------------------------------------------------------------------------
(* _remove_metric: the domain falls back to _no_metric; the old handler   *)
(* is disabled when its count reaches zero.                                *)
RemoveMetric(T, d) ==
    LET h    == T.of[d]
        ref1 == [T.ref EXCEPT ![h] = @ - 1]
    IN  [T EXCEPT !.ref  = [ref1 EXCEPT ![NoMetric] = @ + 1],
                  !.on   = IF ref1[h] = 0 /\ h \in Metrics THEN [@ EXCEPT ![h] = FALSE] ELSE @,
                  !.name = [@ EXCEPT ![d] = NoName],
                  !.of   = [@ EXCEPT ![d] = NoMetric]]

(* Variant of ApplyMetric that forgets to release the old handler's count. *)
ApplyMetricNoRelease(T, d, cfgName) ==
    IF T.name[d] = cfgName THEN T
    ELSE LET T1 == IF T.of[d] # NoMetric THEN RemoveMetric(T, d) ELSE T
             n  == IF cfgName = AnyName /\ T1.reg # {} THEN FirstIn(T1.reg, MetricOrder)
                   ELSE cfgName
             h  == IF n \in T1.reg THEN n ELSE NoMetric
         IN  [T1 EXCEPT !.name = [@ EXCEPT ![d] = h],
                        !.of   = [@ EXCEPT ![d] = h],
                        !.on   = IF T1.ref[h] = 0 /\ h \in Metrics THEN [@ EXCEPT ![h] = TRUE] ELSE @,
                        !.ref  = [T1.ref EXCEPT ![h] = @ + 1]]

(* _apply_metric: nothing when the stored name equals the configured one; *)
(* otherwise the old handler is removed, the wildcard resolves to the     *)
(* first registered metric, an unknown name to _no_metric, and the new    *)
(* handler is enabled when it had no user.                                 *)
ApplyMetric(T, d, cfgName) ==
    IF T.name[d] = cfgName THEN T
    ELSE LET T1   == IF T.of[d] # NoMetric THEN RemoveMetric(T, d) ELSE T
             n    == IF cfgName = AnyName /\ T1.reg # {} THEN FirstIn(T1.reg, MetricOrder)
                     ELSE cfgName
             h    == IF n \in T1.reg THEN n ELSE NoMetric
             ref1 == [T1.ref EXCEPT ![T1.of[d]] = @ - 1]
         IN  [T1 EXCEPT !.name = [@ EXCEPT ![d] = h],
                        !.of   = [@ EXCEPT ![d] = h],
                        !.on   = IF ref1[h] = 0 /\ h \in Metrics THEN [@ EXCEPT ![h] = TRUE] ELSE @,
                        !.ref  = [ref1 EXCEPT ![h] = @ + 1]]

(* Variant of RemoveMpr that never calls disable().                       *)
RemoveMprNoDisable(T, d) ==
    [T EXCEPT !.ref  = [[@ EXCEPT ![T.of[d]] = @ - 1] EXCEPT ![EveryoneMpr] = @ + 1],
              !.name = [@ EXCEPT ![d] = NoName],
              !.of   = [@ EXCEPT ![d] = EveryoneMpr]]

(* _remove_mpr: the domain falls back to _everyone_mprs.                   *)
RemoveMpr(T, d) ==
    LET h    == T.of[d]
        ref1 == [T.ref EXCEPT ![h] = @ - 1]
    IN  [T EXCEPT !.ref  = [ref1 EXCEPT ![EveryoneMpr] = @ + 1],
                  !.on   = IF ref1[h] = 0 /\ h \in Mprs THEN [@ EXCEPT ![h] = FALSE] ELSE @,
                  !.name = [@ EXCEPT ![d] = NoName],
                  !.of   = [@ EXCEPT ![d] = EveryoneMpr]]

(* _apply_mpr, the MPR counterpart of _apply_metric (local_willingness,   *)
(* set first, is not modelled).                                            *)
ApplyMpr(T, d, cfgName) ==
    IF T.name[d] = cfgName THEN T
    ELSE LET T1   == IF T.of[d] # EveryoneMpr THEN RemoveMpr(T, d) ELSE T
             n    == IF cfgName = AnyName /\ T1.reg # {} THEN FirstIn(T1.reg, MprOrder)
                     ELSE cfgName
             h    == IF n \in T1.reg THEN n ELSE EveryoneMpr
             ref1 == [T1.ref EXCEPT ![T1.of[d]] = @ - 1]
         IN  [T1 EXCEPT !.name = [@ EXCEPT ![d] = h],
                        !.of   = [@ EXCEPT ![d] = h],
                        !.on   = IF ref1[h] = 0 /\ h \in Mprs THEN [@ EXCEPT ![h] = TRUE] ELSE @,
                        !.ref  = [ref1 EXCEPT ![h] = @ + 1]]

-----------------------------------------------------------------------------
(* A zeroed table: nothing registered, every slot on the default handler, *)
(* whose count holds the flooding domain's reference (nhdp_domain_init).  *)
InitTable(default) ==
    [reg  |-> {},
     ref  |-> [h \in MetricHandlers \cup MprHandlers |-> IF h = default THEN 1 ELSE 0],
     on   |-> [h \in MetricHandlers \cup MprHandlers |-> FALSE],
     of   |-> [s \in Slots |-> default],
     name |-> [s \in Slots |-> EmptyName]]

Init ==
    /\ domains = <<>>
    /\ metric = InitTable(NoMetric)
    /\ mpr = InitTable(EveryoneMpr)
    /\ cfgMpr = [s \in Slots |-> EmptyName]

(* nhdp_domain_metric_add: the handler enters the tree unless its name is *)
(* taken; no domain is re-applied.                                         *)
MetricAdd(h) ==
    /\ h \notin metric.reg
    /\ metric' = [metric EXCEPT !.reg = @ \cup {h}]
    /\ UNCHANGED <<domains, mpr, cfgMpr>>

(* nhdp_domain_metric_remove: the first domain using the handler falls    *)
(* back to _no_metric (the loop breaks there), then the handler leaves    *)
(* the tree.                                                               *)
MetricRemove(h) ==
    LET i  == SelectInSeq(domains, LAMBDA e : metric.of[e] = h)
        T1 == IF i = 0 THEN metric ELSE RemoveMetric(metric, domains[i])
    IN  /\ h \in metric.reg
        /\ metric' = [T1 EXCEPT !.reg = @ \ {h}]
        /\ UNCHANGED <<domains, mpr, cfgMpr>>

(* nhdp_domain_mpr_add: the handler enters the tree, then every domain on *)
(* _everyone_mprs, and the flooding domain, is re-applied with its stored *)
(* mpr_name.                                                               *)
MprAdd(h) ==
    LET step(T, e) == IF T.of[e] = EveryoneMpr THEN ApplyMpr(T, e, T.name[e]) ELSE T
        T1 == FoldLeft(step, [mpr EXCEPT !.reg = @ \cup {h}], domains)
    IN  /\ h \notin mpr.reg
        /\ mpr' = IF T1.of[Flooding] = EveryoneMpr
                  THEN ApplyMpr(T1, Flooding, T1.name[Flooding]) ELSE T1
        /\ UNCHANGED <<domains, metric, cfgMpr>>

(* nhdp_domain_mpr_remove: the first domain of the list using the handler *)
(* falls back to _everyone_mprs (the flooding domain is not looked at),   *)
(* then the handler leaves the tree.                                       *)
MprRemove(h) ==
    LET i  == SelectInSeq(domains, LAMBDA e : mpr.of[e] = h)
        T1 == IF i = 0 THEN mpr ELSE RemoveMpr(mpr, domains[i])
    IN  /\ h \in mpr.reg
        /\ mpr' = [T1 EXCEPT !.reg = @ \ {h}]
        /\ UNCHANGED <<domains, metric, cfgMpr>>

(* A new domain from nhdp_domain_add: index _domain_counter, on the       *)
(* default handler, whose count it takes.                                  *)
NewSlot(T, e, default) ==
    [T EXCEPT !.of   = [@ EXCEPT ![e] = default],
              !.name = [@ EXCEPT ![e] = EmptyName],
              !.ref  = [@ EXCEPT ![default] = @ + 1]]

(* Variant of DomainConfigure whose domain limit is off by one.           *)
DomainConfigureOffByOne(e, mn, pn) ==
    LET new == e \notin ToSet(domains)
        M0  == IF new THEN NewSlot(metric, e, NoMetric) ELSE metric
        P0  == IF new THEN NewSlot(mpr, e, EveryoneMpr) ELSE mpr
    IN  /\ ~new \/ Len(domains) <= MaxDomains
        /\ domains' = IF new THEN Append(domains, e) ELSE domains
        /\ metric' = ApplyMetric(M0, e, mn)
        /\ mpr' = ApplyMpr(P0, e, pn)
        /\ cfgMpr' = [cfgMpr EXCEPT ![e] = pn]

(* nhdp_domain_configure: nhdp_domain_add (an existing domain is reused,  *)
(* a new one refused at NHDP_MAXIMUM_DOMAINS, which changes nothing),     *)
(* then _apply_metric and _apply_mpr.                                      *)
DomainConfigure(e, mn, pn) ==
    LET new == e \notin ToSet(domains)
        M0  == IF new THEN NewSlot(metric, e, NoMetric) ELSE metric
        P0  == IF new THEN NewSlot(mpr, e, EveryoneMpr) ELSE mpr
    IN  /\ ~new \/ Len(domains) < MaxDomains
        /\ domains' = IF new THEN Append(domains, e) ELSE domains
        /\ metric' = ApplyMetric(M0, e, mn)
        /\ mpr' = ApplyMpr(P0, e, pn)
        /\ cfgMpr' = [cfgMpr EXCEPT ![e] = pn]

(* nhdp_domain_set_flooding_mpr.                                           *)
SetFloodingMpr(pn) ==
    /\ mpr' = ApplyMpr(mpr, Flooding, pn)
    /\ cfgMpr' = [cfgMpr EXCEPT ![Flooding] = pn]
    /\ UNCHANGED <<domains, metric>>

Next ==
    \/ \E h \in Metrics : MetricAdd(h) \/ MetricRemove(h)
    \/ \E h \in Mprs : MprAdd(h) \/ MprRemove(h)
    \/ \E e \in Exts, mn \in MetricCfgNames, pn \in MprCfgNames : DomainConfigure(e, mn, pn)
    \/ \E pn \in MprCfgNames : SetFloodingMpr(pn)

Spec == Init /\ [][Next]_vars

-----------------------------------------------------------------------------
Table(H) == [reg : SUBSET H, ref : [MetricHandlers \cup MprHandlers -> Nat],
             on : [MetricHandlers \cup MprHandlers -> BOOLEAN],
             of : [Slots -> H \cup {NoMetric, EveryoneMpr}], name : [Slots -> Names]]

TypeOK ==
    /\ domains \in Seq(Exts) /\ Len(domains) <= MaxDomains
    /\ metric \in Table(Metrics)
    /\ mpr \in Table(Mprs)
    /\ cfgMpr \in [Slots -> MprCfgNames \cup {EmptyName}]

(* Users of a handler in a table: the live slots that point to it.        *)
Users(T, h) == {s \in InUse : T.of[s] = h}

(* Every handler's _refcount equals the number of live domains, flooding  *)
(* included, that point to it, after any sequence of registrations,       *)
(* removals and (wildcard) reconfigurations.                               *)
RefcountsMatchUsers ==
    /\ \A h \in MetricHandlers : metric.ref[h] = Cardinality(Users(metric, h))
    /\ \A h \in MprHandlers : mpr.ref[h] = Cardinality(Users(mpr, h))

(* A plugin handler has been enabled, and not disabled since, exactly     *)
(* while some domain uses it: enable() and disable() are called on the    *)
(* 0 -> 1 and 1 -> 0 transitions of the count.                             *)
EnabledIffUsed ==
    /\ \A h \in Metrics : metric.on[h] <=> Users(metric, h) # {}
    /\ \A h \in Mprs : mpr.on[h] <=> Users(mpr, h) # {}

(* No live domain, flooding included, points to a metric or MPR handler  *)
(* that has been removed: nhdp_domain_metric_remove and nhdp_domain_mpr_  *)
(* remove must reset every user of the handler they take out of the tree. *)
NoDanglingHandler ==
    \A s \in InUse : /\ metric.of[s] \in metric.reg \cup {NoMetric}
                    /\ mpr.of[s] \in mpr.reg \cup {EveryoneMpr}

(* A domain configured with the name of a registered MPR handler uses it, *)
(* whichever was first, the configuration or the plugin: nhdp_domain_     *)
(* mpr_add re-applies the domains still on _everyone_mprs.                 *)
ConfiguredMprInUse ==
    \A s \in InUse : cfgMpr[s] \in mpr.reg => mpr.of[s] = cfgMpr[s]
=============================================================================
