-------------------------- MODULE RemoteLinkConfig --------------------------
(***************************************************************************)
(* remotecontrol and link_config together: a telnet console edits the raw *)
(* configuration database ("config set", "config remove", "config         *)
(* rollback") and commits it, and the commit, when the main loop applies  *)
(* it, runs link_config's delta handler _cb_config_changed on the new     *)
(* configuration while another origin writes the same layer-2 data.  The  *)
(* consoles' log sessions run beside it.                                  *)
(***************************************************************************)
CONSTANTS
    Neighs, Keys, NetLoopKeys, Vals, Net, NoVal,
    Current, Old, Foreign, NoOrigin,
    Consoles, LogSources, Severities, BaseMask, UnknownWord, MaxWords,
    AllocMayFail

VARIABLES
    l2, conf, blocked, loaded,
    connected, enabled, sessions, mask, streaming, rawdb, triggered

LC == INSTANCE LinkConfig

(* The working database the configuration core applies is link_config's *)
(* configuration in force; its entries are the (target, key) pairs.      *)
RC == INSTANCE RemoteControl
    WITH Entries <- LC!Targets \X Keys, EntryVals <- Vals, NoValue <- NoVal,
         workdb <- conf

lcVars == <<l2, blocked, loaded>>
rcVars == <<connected, enabled, sessions, mask, streaming, rawdb, triggered>>
vars == <<lcVars, conf, rcVars>>

Init == LC!Init /\ RC!Init

(* A console command or the plugin's disable leaves the layer-2 data     *)
(* alone; the applied commit is link_config's configuration change, or    *)
(* changes no layer-2 datum once link_config is cleaned up and its delta  *)
(* handler gone; link_config's _cleanup and the other origin's writes     *)
(* happen while the consoles do not act.                                  *)
Next ==
    \/ (RC!LogNext \/ RC!ConfigNext \/ RC!PluginDisable) /\ UNCHANGED lcVars
    \/ RC!ConfigApply /\ LC!ConfigChanged(rawdb)
    \/ RC!ConfigApply /\ ~loaded /\ UNCHANGED lcVars
    \/ LC!PluginCleanup /\ UNCHANGED rcVars
    \/ (\/ \E p \in LC!Targets \X Keys, v \in Vals : LC!ForeignSet(p, v)
        \/ \E p \in LC!Targets \X Keys : LC!ForeignRemove(p))
       /\ UNCHANGED rcVars

Spec == Init /\ [][Next]_vars

-----------------------------------------------------------------------------
TypeOK == LC!TypeOK /\ RC!TypeOK

(* link_config's data is the configuration last committed over telnet,  *)
(* except where another origin held a datum (LinkConfig!ConfigInForce).   *)
ConfigInForce == LC!ConfigInForce

(* After link_config's _cleanup no datum carries its origins, whatever   *)
(* was committed over telnet before or after (LinkConfig!NoDataAfterCleanup). *)
NoDataAfterCleanup == LC!NoDataAfterCleanup

(* link_config implements LinkConfigAbstract when its configurations     *)
(* come from telnet commits (LinkConfig!ImplementsAbstract).              *)
ImplementsAbstract == LC!ImplementsAbstract

(* Every streaming console has a session and every session a live        *)
(* console (RemoteControl!LiveConsoleState).                              *)
LiveConsoleState == RC!LiveConsoleState

(* One "log add" or "log remove" changes a console's mask one way only   *)
(* (RemoteControl!FilterChangesOneWay).                                   *)
FilterChangesOneWay == RC!FilterChangesOneWay
=============================================================================
