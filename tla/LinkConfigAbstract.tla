------------------------- MODULE LinkConfigAbstract -------------------------
(***************************************************************************)
(* What the link_config plugin promises the layer-2 database, without the  *)
(* two origins and the parse / cleanup / relabel pipeline it uses to keep  *)
(* it: each datum is owned by the configuration, by another subsystem, or  *)
(* by nobody.  Applying a configuration sets every datum the configuration *)
(* gives and clears every datum it owned and no longer gives, in one step, *)
(* and never touches a datum another subsystem owns.  Between two applies  *)
(* only the other subsystem changes the database.                          *)
(***************************************************************************)
CONSTANTS
    Pairs,     \* (target, key) pairs of the database
    Vals,      \* values
    NoVal,     \* no value
    Config,    \* owner: the configuration
    Other,     \* owner: another subsystem
    Nobody     \* owner of an empty datum

VARIABLES
    active,    \* the configuration last applied: a value or NoVal per pair
    view       \* view[p]: the datum, a value and its owner

Empty == [val |-> NoVal, owner |-> Nobody]

(* Apply configuration c to one datum.                                     *)
Applied(d, v) ==
    IF d.owner = Other THEN d
    ELSE IF v = NoVal THEN Empty
    ELSE [val |-> v, owner |-> Config]

Init ==
    /\ active = [p \in Pairs |-> NoVal]
    /\ view = [p \in Pairs |-> Empty]

(* A new configuration takes effect (its values are given as active').   *)
Apply ==
    /\ active' \in [Pairs -> Vals \cup {NoVal}]
    /\ view' = [p \in Pairs |-> Applied(view[p], active'[p])]

(* Another subsystem sets a datum nobody or itself owns.                   *)
OtherSet(p, v) ==
    /\ view[p].owner \in {Nobody, Other}
    /\ view' = [view EXCEPT ![p] = [val |-> v, owner |-> Other]]
    /\ UNCHANGED active

(* Another subsystem clears its own datum.                                 *)
OtherRemove(p) ==
    /\ view[p].owner = Other
    /\ view' = [view EXCEPT ![p] = Empty]
    /\ UNCHANGED active

Next ==
    \/ Apply
    \/ \E p \in Pairs, v \in Vals : OtherSet(p, v)
    \/ \E p \in Pairs : OtherRemove(p)

Spec == Init /\ [][Next]_<<active, view>>
=============================================================================
