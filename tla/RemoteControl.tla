---------------------------- MODULE RemoteControl ----------------------------
(***************************************************************************)
(* The remotecontrol plugin (src/lib/remotecontrol/src/remotecontrol.c):   *)
(* telnet commands "log" and "config", the per-console session list       *)
(* _remote_sessions with each session's copy of the logging mask, and the *)
(* plugin's disable callback.                                              *)
(*                                                                         *)
(* The telnet server, the logging core and the configuration core are not *)
(* in this snapshot; what this module assumes of them is marked "core" in *)
(* the comments: a console connects and disconnects (its stop handler,    *)
(* then its cleanup handlers run), a continuous output is stopped by the  *)
(* telnet server calling the stop handler, and a triggered commit is      *)
(* applied later by the main loop, which copies the raw database into the *)
(* working one.                                                           *)
(*                                                                         *)
(* A mask is the set of (source, severity) pairs a console logs; one      *)
(* command word is a source name, a severity name or a word that is       *)
(* neither (UnknownWord).                                                  *)
(***************************************************************************)
EXTENDS Naturals, Sequences, SequencesExt, FiniteSets

CONSTANTS
    Consoles,      \* struct olsr_telnet_data of the connected consoles
    LogSources,    \* enum log_source
    Severities,    \* enum log_severity
    BaseMask,      \* log_global_mask: the pairs the daemon's own handlers log
    UnknownWord,   \* a word that names no source and no severity
    MaxWords,      \* the most source words of one "log add/remove" command
    Entries,       \* keys of the configuration database
    EntryVals,     \* values a "config set" may give
    NoValue,       \* an entry without value
    AllocMayFail   \* calloc may return NULL

ASSUME /\ BaseMask \subseteq LogSources \X Severities
       /\ UnknownWord \notin LogSources \cup Severities
       /\ NoValue \notin EntryVals
       /\ AllocMayFail \in BOOLEAN

Pairs == LogSources \X Severities
ConfigDbs == [Entries -> EntryVals \cup {NoValue}]

VARIABLES
    connected,   \* consoles the telnet server holds (core)
    enabled,     \* the plugin's commands are registered
    sessions,    \* consoles with an entry in _remote_sessions
    mask,        \* mask[c]: the session's log_handler_mask_entry array
    streaming,   \* consoles whose stop_handler is _stop_logging
    rawdb,       \* olsr_cfg_get_rawdb(): the database "config set" edits
    workdb,      \* the database last applied (core)
    triggered    \* olsr_cfg_trigger_commit() was called, not yet applied

logVars == <<connected, enabled, sessions, mask, streaming>>
cfgVars == <<rawdb, workdb, triggered>>
vars == <<logVars, cfgVars>>

-----------------------------------------------------------------------------
(* A telnet command of this plugin runs: the console is connected and     *)
(* _cb_plugin_enable registered the commands.                              *)
Command(c) == enabled /\ c \in connected

(* _get_remotecontrol_session: the console's session, or a new one at    *)
(* the tail of the list with a copy of log_global_mask.  When calloc      *)
(* fails it returns NULL and the handler returns INTERNAL_ERROR.          *)
GotSession(c) ==
    /\ sessions' = sessions \cup {c}
    /\ mask' = IF c \in sessions THEN mask ELSE [mask EXCEPT ![c] = BaseMask]

NoSession(c) == AllocMayFail /\ c \notin sessions

(* Set or clear one pair of a mask.                                        *)
SetPair(m, pair, value) == IF value THEN m \cup {pair} ELSE m \ {pair}

(* Variant of UpdateLogfilter that writes the mask before it checks the  *)
(* word: an unknown word writes the pair past the end of the array.       *)
UpdateLogfilterUnchecked(m, value, sev, words) ==
    LET Step(acc, w) ==
            IF acc.stop THEN acc
            ELSE [m |-> SetPair(acc.m, <<w, sev>>, acc.value), value |-> FALSE,
                  stop |-> w = UnknownWord]
    IN  FoldLeft(Step, [m |-> m, value |-> value, stop |-> FALSE], words).m

(* _update_logfilter's loop over the source words: each known source     *)
(* gets value, and value is then set to false; an unknown word ends the  *)
(* loop with an error, the sources before it already changed.             *)
UpdateLogfilter(m, value, sev, words) ==
    LET Step(acc, w) ==
            IF acc.stop THEN acc
            ELSE IF w = UnknownWord THEN [acc EXCEPT !.stop = TRUE]
            ELSE [m |-> SetPair(acc.m, <<w, sev>>, acc.value), value |-> FALSE, stop |-> FALSE]
    IN  FoldLeft(Step, [m |-> m, value |-> value, stop |-> FALSE], words).m

(* Variant of LogStream without the NULL check of the session.            *)
LogStreamNoCheck(c) ==
    /\ Command(c)
    /\ c \notin streaming
    /\ streaming' = streaming \cup {c}
    /\ \/ GotSession(c)
       \/ NoSession(c) /\ UNCHANGED <<sessions, mask>>
    /\ UNCHANGED <<connected, enabled, cfgVars>>

(* "log" without parameter (_cb_handle_log, _start_logging): with a       *)
(* session and no continuous output running, a log handler over the      *)
(* session's mask is allocated and becomes the console's stop data.      *)
(* The handler is never passed to olsr_log_addhandler, so the logging    *)
(* core does not know it.  A failing calloc of the session changes       *)
(* nothing; one of the handler leaves the new session only (as LogShow). *)
LogStream(c) ==
    /\ Command(c)
    /\ c \notin streaming
    /\ GotSession(c)
    /\ streaming' = streaming \cup {c}
    /\ UNCHANGED <<connected, enabled, cfgVars>>

(* "log show", "log" with an unknown subcommand, and "log" while a        *)
(* continuous output runs: only the session lookup changes state.         *)
LogShow(c) ==
    /\ Command(c)
    /\ c \notin sessions
    /\ GotSession(c)
    /\ UNCHANGED <<connected, enabled, streaming, cfgVars>>

(* "log add <sev> <src>..." (value TRUE) and "log remove ..." (FALSE):    *)
(* an unknown severity word ends the command before any change.           *)
LogFilter(c, value, sev, words) ==
    /\ Command(c)
    /\ sessions' = sessions \cup {c}
    /\ LET m == IF c \in sessions THEN mask[c] ELSE BaseMask
       IN  mask' = [mask EXCEPT ![c] = IF sev \in Severities
                                       THEN UpdateLogfilter(m, value, sev, words)
                                       ELSE m]
    /\ UNCHANGED <<connected, enabled, streaming, cfgVars>>

(* _stop_logging, called by the telnet server (core) when it ends the     *)
(* continuous output: olsr_log_removehandler, free, stop_handler = NULL.  *)
StopLogging(c) ==
    /\ c \in streaming
    /\ streaming' = streaming \ {c}
    /\ UNCHANGED <<connected, enabled, sessions, mask, cfgVars>>

(* _cb_plugin_disable: the commands are removed and olsr_telnet_stop     *)
(* ends the continuous output of every console in _remote_sessions; the  *)
(* sessions themselves stay in the list until their console closes.     *)
PluginDisable ==
    /\ enabled
    /\ enabled' = FALSE
    /\ streaming' = streaming \ sessions
    /\ UNCHANGED <<connected, sessions, mask, cfgVars>>

(* A console connects (core).                                             *)
Connect(c) ==
    /\ c \notin connected
    /\ connected' = connected \cup {c}
    /\ UNCHANGED <<enabled, sessions, mask, streaming, cfgVars>>

(* A console closes (core): its stop handler runs, then its cleanup      *)
(* handlers, _cb_handle_session_cleanup among them, which removes the    *)
(* session from the list and frees its mask.                              *)
Disconnect(c) ==
    /\ c \in connected
    /\ connected' = connected \ {c}
    /\ streaming' = streaming \ {c}
    /\ sessions' = sessions \ {c}
    /\ mask' = [mask EXCEPT ![c] = {}]
    /\ UNCHANGED <<enabled, cfgVars>>

-----------------------------------------------------------------------------
(* _cb_handle_config: "config set" and "config remove" edit the raw       *)
(* database through cfg_cmd_handle_set / cfg_cmd_handle_remove.           *)
ConfigSet(c, e, v) ==
    /\ Command(c)
    /\ rawdb' = [rawdb EXCEPT ![e] = v]
    /\ UNCHANGED <<logVars, workdb, triggered>>

ConfigRemove(c, e) ==
    /\ Command(c)
    /\ rawdb[e] # NoValue
    /\ rawdb' = [rawdb EXCEPT ![e] = NoValue]
    /\ UNCHANGED <<logVars, workdb, triggered>>

(* "config commit": cfg_schema_validate accepts the raw database (every   *)
(* value the model sets is valid) and the commit is triggered.           *)
ConfigCommit(c) ==
    /\ Command(c)
    /\ triggered' = TRUE
    /\ UNCHANGED <<logVars, rawdb, workdb>>

(* "config rollback": olsr_cfg_rollback copies the working database back *)
(* into the raw one (core).                                               *)
ConfigRollback(c) ==
    /\ Command(c)
    /\ rawdb' = workdb
    /\ UNCHANGED <<logVars, workdb, triggered>>

(* The main loop applies a triggered commit (core): the raw database     *)
(* becomes the working one and the delta handlers run.                    *)
ConfigApply ==
    /\ triggered
    /\ triggered' = FALSE
    /\ workdb' = rawdb
    /\ UNCHANGED <<logVars, rawdb>>

-----------------------------------------------------------------------------
(* The plugin is loaded and enabled (_cb_plugin_load, _cb_plugin_enable:  *)
(* the session list is empty and the commands are registered).            *)
Init ==
    /\ connected = {}
    /\ enabled = TRUE
    /\ sessions = {}
    /\ mask = [c \in Consoles |-> {}]
    /\ streaming = {}
    /\ rawdb = [e \in Entries |-> NoValue]
    /\ workdb = rawdb
    /\ triggered = FALSE

(* The words of one "log add/remove" command.                             *)
Words == UNION {[1..n -> LogSources \cup {UnknownWord}] : n \in 1..MaxWords}

LogNext ==
    \E c \in Consoles :
        \/ LogStream(c)
        \/ LogShow(c)
        \/ \E value \in BOOLEAN, sev \in Severities \cup {UnknownWord}, w \in Words :
               LogFilter(c, value, sev, w)
        \/ StopLogging(c)
        \/ Connect(c)
        \/ Disconnect(c)

ConfigNext ==
    \E c \in Consoles :
        \/ \E e \in Entries, v \in EntryVals : ConfigSet(c, e, v)
        \/ \E e \in Entries : ConfigRemove(c, e)
        \/ ConfigCommit(c)
        \/ ConfigRollback(c)

Next == LogNext \/ ConfigNext \/ ConfigApply \/ PluginDisable

Spec == Init /\ [][Next]_vars

-----------------------------------------------------------------------------
TypeOK ==
    /\ connected \subseteq Consoles
    /\ enabled \in BOOLEAN
    /\ sessions \subseteq Consoles
    /\ mask \in [Consoles -> SUBSET Pairs]
    /\ streaming \subseteq Consoles
    /\ rawdb \in ConfigDbs /\ workdb \in ConfigDbs
    /\ triggered \in BOOLEAN

(* The state kept per console belongs to a live console, and a console   *)
(* that streams has a session: _start_logging is only reached with the   *)
(* session _get_remotecontrol_session returned, and its handler's bitmask *)
(* is that session's mask.  Holds across OOM in                           *)
(* _get_remotecontrol_session (the NULL check in _cb_handle_log), the     *)
(* plugin's disable and consoles closing.                                 *)
LiveConsoleState ==
    streaming \subseteq sessions /\ sessions \subseteq connected

(* A "log add" or "log remove" changes the console's mask one way only:  *)
(* add sets every source it names at the severity, remove clears them    *)
(* (the command's help text); no single command both sets and clears     *)
(* pairs.                                                                 *)
FilterChangesOneWay ==
    [][\A c \in sessions \cap sessions' :
           mask[c] \subseteq mask'[c] \/ mask'[c] \subseteq mask[c]]_vars
=============================================================================
