# TLA+ models of olsrd2

These are TLA+ models of the parts of this repository that run as state machines:
- the Dynamic Link Exchange Protocol (DLEP) base protocol between a radio and a router (`src/src-plugins/generic/dlep/ext_base_proto/`);
- the NHDP domain registry, its HELLO TLVs and the per-domain link and neighbor data (`src/src-plugins/nhdp/nhdp/nhdp_domain.c`);
- the link_config plugin (`src/src-plugins/generic/link_config/link_config.c`);
- the remotecontrol plugin's `log` and `config` telnet commands (`src/lib/remotecontrol/src/remotecontrol.c`).

## Inventory of the system

| Part | Source | State | Operations | Status |
|---|---|---|---|---|
| DLEP radio role | `proto_radio.c` | the TCP session's `restrict_signal`, `remote_heartbeat_interval`, watchdog, `local_neighbor_tree`; the interface (UDP) session's tree | discovery answer, Peer Init, Destination Up Ack, layer-2 added/changed/removed callbacks, ack timeout | partly (`DlepRadio`): Peer Update, Destination Up/Down/Update, Down Ack and Link Characteristics handlers are never reached (see Not modelled) |
| DLEP router role | `proto_router.c` | the TCP session's `restrict_signal`, remote heartbeat, watchdog; the layer-2 neighbors of the session's `l2_origin` | discovery timer, Peer Offer, Peer Init Ack, Destination Up, Destination Update, cleanup | partly (`DlepRouter`, `Dlep`): Destination Down, Peer Update and Link Characteristics handlers are left out (see Not modelled) |
| Destination table | `dlep_session.h` (`struct dlep_local_neighbor`) | state, `changed`, `_ack_timeout`, `neigh_addr` | created by the callbacks, removed by the timeout | modelled (`DlepCommon`) |
| Session parser, buffer, TLV codec, extension registry | `dlep_session.h` (declarations only) | - | - | not modelled: the `.c` files are not in this snapshot |
| NHDP domains | `nhdp_domain.c` | registered metrics and MPR handlers, domains, refcounts, enable state | add/remove metric or MPR, domain configure, flooding MPR | partly (`NhdpDomain`, with `NhdpTlv` and `NhdpNeighborhood`) |
| NHDP TLVs | `nhdp_domain.c` | - (pure encode/decode) | MPRTYPES, willingness and MPR TLV writers and readers | partly (`NhdpTlv`): the empty-domain and failed-length cases are left out |
| NHDP per-domain link and neighbor data | `nhdp_domain.c` | link metrics, neighbor metrics, `best_link`, routing willingness, `local_is_mpr`, `neigh_is_mpr`, `_node_is_selected_as_mpr` | init_link/neighbor, MPR, willingness and link-metric TLV processing, `store_willingness`, metric recalculation, both change handlers with `update_mpr` (`_cb_update_everyone_mpr`), `set_incoming_metric` | partly (`NhdpNeighborhood`): flooding willingness and flags and the 2-hop data are left out |
| link_config | `link_config.c` | layer-2 values per origin (current/old) | config change relabels and cleans up origins; `_cleanup` removes both | partly (`LinkConfig`, refines `LinkConfigAbstract`): validation, change events and reloading are left out |
| remotecontrol | `remotecontrol.c` | per-console sessions and log masks, streaming consoles, raw and working configuration | `log`, `log show/add/remove`, stop, plugin disable, `config set/remove/commit/rollback` | partly (`RemoteControl`): `route`, `resources` and the file/output-only `config` subcommands are left out |
| `cfg_cmd.h`, `os_clock.h` | headers | - | - | not modelled: no state-changing code |

### How the DLEP parts interact

The router's interface session sends `PEER_DISCOVERY` datagrams from a timer.
The radio answers with `PEER_OFFER`.
The router then opens a TCP session (`_cb_init_router`).
That session writes a `PEER_INITIALIZATION` with the router's heartbeat interval and waits in `restrict_signal = PEER_INITIALIZATION_ACK`.
The radio accepts the connection (`_cb_init_radio`) and waits in `PEER_INITIALIZATION`.
When the Peer Init arrives, the radio answers with a `PEER_INITIALIZATION_ACK`.
In the same handler it writes a `DESTINATION_UP` for every layer-2 entry and moves to `ALL_SIGNALS`.
After that, the radio's layer-2 callbacks drive one sub-state machine per destination: `IDLE`, `UP_SENT`, `UP_ACKED`, `DOWN_SENT`, `DOWN_ACKED`.
The router projects each `DESTINATION_UP` into its own layer-2 database, tagged with the session's origin, and acks it.
If allocation fails, the ack carries `REQUEST_DENIED`.
A signal outside a session's `restrict_signal` terminates the session (spec 4.2).
When a session ends, `_cb_cleanup_router` removes everything of its origin.

### How the other parts relate

The layer-2 database is shared.
The DLEP router writes neighbor data under its session's origin.
link_config writes configured values under two origins of its own.
Neither may change the other's entries; `LinkConfig` models the DLEP side as the foreign origin.
link_config's configuration arrives from the configuration core: a telnet console edits the raw database with `config set`/`config remove` and commits it, and when the main loop applies the commit, `_cb_config_changed` runs (`RemoteLinkConfig`).
NHDP reads the layer-2 data through its metric plugins, which register with the domain registry (`nhdp_domain_metric_add`) and commit link metrics with `nhdp_domain_set_incoming_metric`.
The domains, in registry order, decide the layout of the willingness and MPR TLVs of every HELLO (`NhdpTlv`), and which data slots of every link and neighbor are live (`NhdpNeighborhood`).

## Modules

* `DlepCommon`: constants, all variables, the signal record, the local-neighbor
  record, and session removal on both ends. A signal is a record of the TLVs the
  base protocol reads: the MAC, the heartbeat interval, and whether the status is OKAY.
  The TCP streams are FIFO sequences in each direction. UDP holds at most one
  datagram per direction, which may be lost.
* `DlepRadio`: one action per radio handler and callback. Each action is a whole
  event-loop task, including the signals it writes. The trailing
  `next_restrict_signal = ALL_SIGNALS` of `_radio_process_peer_init` is part of
  its action.
* `DlepRouter`: one action per router handler, the discovery timer, datagram
  loss, the restrict_signal rejection and the heartbeat watchdog.
* `Dlep`: the composition. It holds Init, the Peer Offer handling (the router
  connects and the radio accepts in one step), Next, the fairness and the
  properties.
* `MCDlep`: fixes `Via` for the model values.

Correspondence with the code:
- `local[s][m]` is the `local_neighbor_tree` entry of MAC `m` in session `s`.
  Session `"tcp"` is the router's session. Session `"udp"` is `radio_if->interf.session`.
- `armed` is the `_ack_timeout` timer.
- `routerL2` is the set of MACs with an `oonf_layer2_neigh` of the session's origin.
- `radioUp` becomes FALSE when the radio daemon crashes.
- `announced` and `orderViolation` are history variables for the properties.

* `NhdpDomain`: the domain registry. The metric side and the MPR side are each one table (`reg`, `ref`, `on`, `of`, `name`).
  Its fields are the AVL tree, `_refcount`, whether `enable()` was called last, `domain->metric`/`mpr` and `domain->metric_name`/`mpr_name`.
  A slot is a domain's extension type, or `Flooding` for `_flooding_domain`.
  `ApplyMetric`, `RemoveMetric`, `ApplyMpr` and `RemoveMpr` are the static helpers, as operators from table to table.
  The actions (`MetricAdd`, `MetricRemove`, `MprAdd`, `MprRemove`, `DomainConfigure`, `SetFloodingMpr`) are the public functions, each composed of the helpers it calls, in order.
  `cfgMpr` is a history variable: the MPR name each slot was last configured with.
  `MCNhdpDomain` gives the AVL order of the handler names as sequences.
* `NhdpTlv`: the MPRTYPES, willingness and MPR TLV encoders and decoders as operators, on byte sequences with `Bitwise`.
  The HELLO writer is not in this snapshot; a sender with a single domain may leave the MPRTYPES TLV out, and the reader then takes its own first domain for position 0 (the NULL branch of `nhdp_domain_process_mprtypes_tlv`).
  The encoders are folds over the domain list (`FoldLeft`).
  A failed encode (index past the buffer) is a TLV that is not sent.
  A two-step state machine checks them: `SendHello` encodes a sender's configuration, and `ReceiveHello` decodes it with the receiver's domain list.
  `Init` enumerates every sender configuration, so the invariants are checked over all inputs of the bounds.
* `LinkConfig`: the layer-2 data of one interface (`l2[target, key]`, a value and an origin), the configuration in force (`conf`), a history of the values another origin kept the plugin from setting (`blocked`), and whether the subsystem is loaded (`loaded`).
  `Init` is the state after `_init` has registered both origins.
  `ConfigChanged` is all of `_cb_config_changed`: `ParseConfig` (`_parse_strarray` through `_set_l2value`), `Cleanup` of the old origin, then `Relabel` (both loops).
  `PluginCleanup` is `_cleanup`: every datum of the current origin, then of the old one, is removed, and the delta handler does not run again.
  `ForeignSet` and `ForeignRemove` are another subsystem (a DLEP session, nl80211) writing its own data.
* `LinkConfigAbstract`: what link_config promises, without its origins: a datum is owned by the configuration, by another subsystem or by nobody, and applying a configuration sets what it gives and clears what it owned before, in one step.
  `LinkConfig!ImplementsAbstract` checks the refinement: `conf` is the active configuration while the subsystem is loaded and the empty one after `_cleanup` (`Active`), so the cleanup is an abstract apply of nothing; both link_config origins map to the configuration owner (`OwnerOf`).
* `RemoteControl`: the telnet side of remotecontrol.
  `sessions` is `_remote_sessions`, `mask[c]` the session's copy of the logging mask, `streaming` the consoles whose stop handler is `_stop_logging`.
  `rawdb` and `workdb` are the raw and the working configuration, `triggered` a commit not yet applied.
  `UpdateLogfilter` is the loop of `_update_logfilter` as a fold over the command's words.
  A failing `calloc` of the session is a disjunct of the command (`NoSession`).
  Connect, disconnect and the applying of a commit come from the telnet server and the configuration core, which are not in this snapshot; they are marked `spec_modelled`.
* `RemoteLinkConfig`: the composition of `RemoteControl` and `LinkConfig`.
  The working database is `LinkConfig`'s `conf`, so applying a commit is `LinkConfig!ConfigChanged(rawdb)` in the same step.
  Another origin writes the layer-2 data between console commands, and link_config may be cleaned up; a commit applied after that changes the working database and no layer-2 datum.
* `NhdpNeighborhood`: the registry (`NhdpDomain`, instantiated with the same variables) composed with the per-domain data of links and neighbors.
  `nlinks[n]` is `neigh->_links` in list order, `linkdata[l][e]` and `neighdata[n][e]` the data slot of the domain of extension type `e`, `nodeIsMpr` is `_node_is_selected_as_mpr`.
  `RecalcNeighbor` is `_recalculate_neighbor_metric` as a fold over the link list; `Changed` is the body shared by `nhdp_domain_neighbor_changed` and `nhdp_domain_neighborhood_changed`, ending with the MPR-selector check (`SelectedAsMpr`).
  The callers are in the NHDP core and the metric plugins, which are not in this snapshot; they are modelled from the spec and marked `spec_modelled`:
  a HELLO creates the link (and neighbor) if new (`HelloLinks`), runs the MPR TLV processor, stores the routing willingness (`StoreWillingness`), runs the link-metric TLV processor and then `nhdp_domain_neighbor_changed`;
  a lost link leaves the list (its neighbor goes with its last link) and `nhdp_domain_neighborhood_changed` follows;
  a metric plugin commits a changed incoming metric and reports a neighborhood change.
  A registry step (`RegistryStep`) changes no data, as in the code, so a domain added under existing neighbors finds their slots at the defaults, and a domain switched to another MPR handler keeps the `neigh_is_mpr` flags of the old one.
  In `Changed`, every domain's `update_mpr` runs after the recalculation: `UpdateEveryoneMpr` is `_cb_update_everyone_mpr` (every neighbor of every domain on Everyone MPR is an MPR iff its willingness is above `NEVER`); a plugin's `update_mpr` is not in this snapshot, so it sets its domains' `neigh_is_mpr` flags nondeterministically.
  A HELLO's TLVs are given by what the processors leave: the set of domains whose MPR bit is set (an absent TLV clears every flag, as one with no bit set does), the willingness per domain (`NEVER` when absent), and the `INCOMING_LINK` metric (`NoTlv` for no TLV, or one without that flag).

The order of an AVL walk over MACs is not fixed by the model. Any order is allowed (`SetToSeqs`).
A NULL dereference is undefined behaviour. It is modelled as a crash of the radio daemon:
both of its sessions vanish and the router sees the connection drop.

## Runs

Twelve runs: four pass, eight find a property violated by what the code does (each a finding in `PROJECT.json`).

| Run | Module / cfg | Expect | What it shows |
|---|---|---|---|
| dlep | `MCDlep` / `MCDlep.cfg` | pass | `AckedKnownToRouter`: every MAC the radio holds as acked has a layer-2 neighbor at the router, across ack timeouts, denied acks, re-sent UPs and crashes. `RouterViewAnnounced`: the router never keeps layer-2 data of an older connection. `ChangedOnlyWhileUpSent`: no data change is left pending after an ack. `HandshakeCompletes`: every router handshake ends. `DiscoveryEstablishesSession`: a router without a session eventually gets one while the radio runs, although any datagram may be lost. |
| late_ack | `MCDlep` / `MCDlepCrash.cfg` | violation | `NoCrash`: an OKAY ack arrives after the ack timeout freed the entry, and the radio dereferences NULL (`proto_radio.c:395`). |
| handshake_order | `MCDlep` / `MCDlepOrder.cfg` | violation | `SignalOrderRespected`: a layer-2 change during the handshake writes a `DESTINATION_UP` ahead of the Peer Init Ack, and the router terminates (`proto_radio.c:624`). |
| heartbeat_echo | `MCDlep` / `MCDlepHeartbeat.cfg` | violation | `HeartbeatIntervalExchanged`: the Peer Init Ack echoes the router's interval (`proto_radio.c:537`). |
| neighbor_view | `MCDlep` / `MCDlepNeighborView.cfg` | violation | `RouterViewFollowsRadio` (liveness): a neighbor added during a session is written to the UDP interface session instead of the TCP session (`proto_radio.c:602`), so it never reaches the router. |
| nhdp_tlv | `NhdpTlv` / `MCNhdpTlv.cfg` | pass | `WillingnessRoundTrip`, `MprRoundTrip`: with the same domain list on both ends, every domain's willingness and MPR flag, and the flooding ones, survive the nibble and bit packing, with or without the MPRTYPES TLV. |
| nhdp_tlv_order | `NhdpTlv` / `MCNhdpTlvOrder.cfg` | violation | `WillingnessRoundTrip`: a receiver with the same domains in another order swaps their willingness, because `nhdp_domain_process_mprtypes_tlv` ignores the TLV and uses the local list (`nhdp_domain.c:575`). |
| nhdp_neighborhood | `MCNhdpNeighborhood` / `MCNhdpNeighborhood.cfg` | pass | `RefcountsMatchUsers`, `EnabledIffUsed`: every handler's `_refcount` equals its live users, flooding included, and a plugin handler is enabled exactly while used. `NeighborMetricIsBest`: each present neighbor's metrics in each domain are the best of its current links', and `best_link` is a current link with that outgoing metric, or NULL. `TypeOK` includes the domain limit: the second extension type's configure is refused once one domain exists. All of them hold across HELLOs, metric commits and lost links interleaved with registrations, removals and reconfigurations. |
| dangling_handler | `MCNhdpDomain` / `MCNhdpDomainDangling.cfg` | violation | `NoDanglingHandler`: `nhdp_domain_metric_remove` resets only the first domain using the metric (`break`, `nhdp_domain.c:238`). The second domain keeps the removed handler. |
| mpr_upgrade | `MCNhdpDomain` / `MCNhdpDomainUpgrade.cfg` | violation | `ConfiguredMprInUse`: a domain configured with an MPR name before the plugin registers stays on Everyone MPR. `nhdp_domain_mpr_add` re-applies the resolved name, which always matches (`nhdp_domain.c:263`). |
| remote_link_config | `MCRemoteLinkConfig` / `MCRemoteLinkConfig.cfg` | pass | `ConfigInForce`: link_config's data is exactly the configuration last committed over telnet, except where another origin held a datum, while link_config is loaded. `NoDataAfterCleanup`: after `_cleanup`, no datum carries either link_config origin, whatever was committed before or after; between two delta-handler runs every value the plugin set is already old, so this rests on the second `oonf_layer2_cleanup_origin` call. `ImplementsAbstract`: link_config refines `LinkConfigAbstract`. `LiveConsoleState`: a streaming console has a session, and a session a live console, across allocation failures, the plugin's disable and consoles closing. |
| log_filter | `MCRemoteLinkConfig` / `MCRemoteLinkConfigFilter.cfg` | violation | `FilterChangesOneWay`: `log add <sev> <src1> <src2>` sets src1 and clears src2, because `_update_logfilter` sets `value = false` after the first word (`remotecontrol.c:367`). |

Each property of a passing run has a mutant in `PROJECT.json`: a plausible bug in a mapped definition under which TLC finds the property violated.
They are an ack without its status TLV, a cleanup that keeps the origin's layer-2 data, an ack that keeps the changed flag, a Peer Init that is never flushed, a Peer Offer that is ignored, a heartbeat in other units;
a willingness decoder without the nibble shift, an encoder one byte too low, an MPR bit without the flooding offset;
an `_apply_metric` that does not release the old count, a `_remove_mpr` that never disables, an `nhdp_domain_add` whose limit check is off by one, a `_recalculate_neighbor_metric` that does not reset `best_link`;
a config change without the cleanup, a `_cleanup` of the current origin only, a `_set_l2value` without its origin check, a `_update_logfilter` that writes before it checks the word, and a `log` that does not check the session for NULL.

### Bounds

DLEP: one neighbor and one proxied destination behind it.
That is enough for both filters (`send_neighbors`, `send_proxied`) to matter, and for a destination's lifetime to be tied to its neighbor's.
Each MAC's state machine is independent of the others except through the shared streams, so more MACs only multiply the states.
`MaxQueue = 3` bounds the signals in flight when a layer-2 change is handled: an UP, its ack and a second change fit together.
Both heartbeat intervals are 1 in the passing run; heartbeat_echo sets them to 1 and 2.
The passing run allows allocation failures (`AllocMayFail`); the violation runs turn them off, so that each counterexample shows only its own bug.

NhdpTlv uses extension types {0,1,2}, up to 3 domains and willingness {0,6,15}: both nibbles of a byte, the byte after the flooding byte, and the maximum value.

NhdpDomain's violation runs use three extension types with `NHDP_MAXIMUM_DOMAINS = 2` (the limit is reached and a third configure refused), one metric and up to two MPR handlers (the wildcard has a first element to pick and a second to lose to).

NhdpNeighborhood uses two extension types with `NHDP_MAXIMUM_DOMAINS = 1` (the limit is reached and the other type's configure refused), one metric plugin and one MPR plugin, one neighbor with two links, metric values 1, `RFC7181_METRIC_MAX` (3, the start of incoming metrics) and `RFC7181_METRIC_INFINITE` (4, a plugin's outgoing start), and willingness `NEVER` (0) and 7.
Two links make `best_link` a choice and let the best one be lost while another stays; the three values order them strictly, with ties; the two willingness values make `_cb_update_everyone_mpr` both set and clear.
The domain can move between no metric and the plugin, and between Everyone MPR and the plugin, under the data, which is what the properties are about.
The two links are interchangeable, and so are the two extension types, so the cfg declares both symmetric.
`cfgMpr` is a history variable that no action and no invariant of this run reads, so the cfg's `VIEW` leaves it out of the state fingerprint: states that differ only in it have the same futures. The run reaches about 25,000 distinct states in under a minute.
More neighbors only repeat the per-neighbor recalculation, which the properties check per neighbor.
With two domains the run grows past the time a run may take, so the larger registry instance is left to the violation runs.

LinkConfig, inside RemoteLinkConfig, uses one neighbor and the net-wide target, one key and two values: a value can change, be dropped by a later configuration, and be held by another origin at either target.
RemoteControl uses one console: consoles share nothing but the raw database, which any one console edits in every way, and every property is about one console's session.
Two log sources of one severity and commands of up to two words are what the "log add" defect needs.

### Fairness

All DLEP handlers and timers run in one event loop (spec 5).
So a signal at the head of a stream is eventually processed (weak fairness on every handler), an armed ack timer eventually fires, and the discovery timer keeps firing.
The two UDP handlers (`RadioProcessPeerDiscovery`, `RouterProcessPeerOffer`) are strongly fair: the periodic discovery timer re-sends a lost `PEER_DISCOVERY`, so a datagram is not lost every time; weak fairness would let loss disable them forever, and `DiscoveryEstablishesSession` would fail on that alone.
There is no fairness on layer-2 events (they come from the drivers), on UDP loss, or on the heartbeat watchdogs (they fire only when heartbeats stop, which the model never forces).
Deadlock is checked: the discovery timer is always enabled.

NhdpNeighborhood, NhdpDomain, LinkConfig and RemoteControl state only safety properties. Their actions are HELLOs, plugin, configuration and console events, which nothing forces to happen, so no fairness is assumed.
The one liveness property NHDP would justify, that a neighbor's `neigh_is_mpr` on Everyone MPR eventually follows its willingness, rests on weak fairness of "a HELLO over an up link, or its loss" (neighbors send HELLOs periodically, and a silent link expires). Checking it needs the run without symmetry, and with that fairness TLC's liveness check over the HELLO inputs takes over half an hour on this instance. A safety form of it (every change leaves the flags equal to the willingness) only restates the assignment of `_cb_update_everyone_mpr`, and with one neighbor the "every neighbor, not only the one that changed" case cannot arise, so the project states no property about `neigh_is_mpr` or `_node_is_selected_as_mpr`: in the model both are recomputed by every change handler, and whether the NHDP database calls a handler after every change is in `nhdp_db.c`, which is not in this snapshot.
NhdpTlv ends in a state where `ReceiveHello` can repeat. That step changes nothing, so it is not a deadlock.

## Not modelled, and why

- The parser, buffer, TLV codec and extension negotiation are not modelled, because `dlep_session.c`, `dlep_reader.c`, `dlep_writer.c` and `dlep_extension.c` are not in this snapshot.
  The dispatcher's restrict check (`Accepts`, `RouterReject`) and session removal on transport loss follow the spec. They are marked `spec_modelled`.
- Some handlers are out of `Next`: the radio's Destination Down Ack, Peer Update and Link Characteristics Request handlers, and the router's Destination Down handler.
  This router and radio pair never sends those signals.
  `DESTINATION_DOWN` is written only by `Withdraw`, whose set is always empty (`proto_radio.c:696`); the neighbor_view run's liveness property covers that half as well.
- NHDP per-neighbor data: the flooding willingness and flooding MPR flags (`local_is_flooding_mpr`, `neigh_is_flooding_mpr`, the flooding branch of `_cb_update_everyone_mpr`), `neighbor_metric_changed`, the 2-hop data and its TLV are left out of `NhdpNeighborhood`: the code that reads them is not in this snapshot.
  The change handlers never update the flooding MPR set (the TODO at `nhdp_domain.c:479`), and `_cb_update_everyone_mpr` updates `neigh_is_flooding_mpr` only when some routing domain is on Everyone MPR; what the flooding code expects of it is not in this snapshot, so nothing states it.
  The `INCOMING_NEIGH` value of a link-metric TLV is written into the neighbor's metric and then overwritten by the recalculation of `nhdp_domain_neighbor_changed`, so the model leaves it out; `NeighborMetricIsBest` holds because of that.
  `local_willingness` is not modelled in the registry. The listeners and class events are not modelled either.
- NHDP: the willingness encoder returns `-1` from a `size_t` function when a domain does not fit (`nhdp_domain.c:806`).
  How that huge length is used depends on callers that are not in this snapshot.
  With no domain, the encoder returns length 0, so the flooding willingness is not sent.
  This case is outside `SenderConfigs`, because reading `single_value[0]` of an empty TLV is undefined.
- NHDP: `nhdp_domain_mpr_remove` also leaves the flooding domain on a removed handler (`nhdp_domain.c:284`).
  `NoDanglingHandler` catches it: with MPR handlers in the cfg, TLC finds it in three steps.
  The dangling_handler run registers no MPR handler, so that its trace shows the metric path.
- link_config: the change events are not modelled. `oonf_layer2_neigh_commit(l2neigh)` after the loop (`link_config.c:323`) is called on the loop cursor past the end, which is undefined.
  Whatever it does, at most one neighbor's change is committed. The events do not change the database the properties are about.
  Validation and string parsing are assumed to succeed, because the configuration has been validated first: `_cb_validate_linkdata` is called by the configuration core (`cfg_schema_validate` on `config commit`, and whatever the core does when it applies), which is not in this snapshot, so what a rejected value does to a pending commit cannot be stated.
  Loading the plugin again after `_cleanup` is up to the plugin loader, which is not in this snapshot; the model cleans up once.
  The net-wide loop bound `OONF_LAYER2_NET_COUNT` is a constant (`NetLoopKeys`). The headers that define it are not here.
- remotecontrol: `route` (one kernel call after string parsing), `resources`, and `config get/format/load/save/schema` (output or file I/O) are left out, as are the ACL and re-enabling the plugin after a disable (up to the plugin loader, not in this snapshot).
  Defects recorded without a run, because the code they depend on is not in this snapshot:
  `_start_logging` never passes its handler to `olsr_log_addhandler`, so a `log` stream receives nothing and `_stop_logging` removes a handler that was never added (`remotecontrol.c:435`);
  `_get_remotecontrol_session` does not check `olsr_log_allocate_mask` for NULL before copying the global mask into it (`remotecontrol.c:684`);
  `_cb_plugin_disable` leaves the sessions in a list that a later enable re-initialises (`remotecontrol.c:218`);
  the `route` command stores the `metric` argument into `table` (`remotecontrol.c:607`);
  the `config` subcommands call `cfg_cmd_handle_*` with the instance and the raw database, while `cfg_cmd.h` declares them as `(db, state, arg, log)`.
- The heartbeat emission and the durations of timers are not modelled. Only the order in which timers fire matters to the properties.

## Plan for the rest of the system

The run budget (12 runs) is full.
A new component needs a passing run, so one of the violation runs would have to give way, or a run would have to check a composition, as `nhdp_neighborhood` and `remote_link_config` do.

1. DLEP: an abstract destination specification (the router's view follows the radio's layer-2 database) that `Dlep` refines. Because of the findings above, this refinement is expected to fail as it stands.
2. NHDP: `local_willingness` through `_apply_mpr` into the willingness TLV, which would join `NhdpDomain` and `NhdpTlv`; the liveness form of the Everyone MPR update with two neighbors, should a faster liveness check make it fit.
3. link_config: the change events, once the layer-2 database is in the snapshot.
