---------------------------- MODULE LatestRender ----------------------------
(***************************************************************************)
(* What connected rendering promises, without sockets, messages or maps.   *)
(*                                                                         *)
(* Each target shows one render at a time and waits for at most one.  The  *)
(* only connected render a target may start to show is the one it waits    *)
(* for; a render that was stopped, superseded or lost with its connection  *)
(* can never reach the document again.                                     *)
(***************************************************************************)
EXTENDS Naturals

CONSTANT Targets          \* the page and the shards that render connected

NoRender == 0             \* content that did not come over the connection

VARIABLES
    last,                 \* the most recent render started, for any target
    current,              \* current[t]: the render t waits for, or NoRender
    shown                 \* shown[t]: the render whose content t shows

vars == <<last, current, shown>>

TypeOK ==
    /\ last \in Nat
    /\ current \in [Targets -> Nat]
    /\ shown \in [Targets -> Nat]

Init ==
    /\ last = NoRender
    /\ current = [t \in Targets |-> NoRender]
    /\ shown = [t \in Targets |-> NoRender]

(* A new render of t supersedes the one it waited for. *)
Start(t) ==
    /\ last' = last + 1
    /\ current' = [current EXCEPT ![t] = last + 1]
    /\ UNCHANGED shown

(* The renders of the targets in S are given up. *)
Stop(S) ==
    /\ current' = [t \in Targets |-> IF t \in S THEN NoRender ELSE current[t]]
    /\ UNCHANGED <<last, shown>>

(* Output of the render t waits for replaces the content of t. *)
Show(t) ==
    /\ current[t] # NoRender
    /\ shown' = [shown EXCEPT ![t] = current[t]]
    /\ UNCHANGED <<last, current>>

(* Content from somewhere else: an HTTP response, or a navigation. *)
Replace(t) ==
    /\ shown' = [shown EXCEPT ![t] = NoRender]
    /\ UNCHANGED <<last, current>>

Next ==
    \/ \E t \in Targets : Start(t) \/ Show(t) \/ Replace(t)
    \/ \E S \in SUBSET Targets : Stop(S)

Spec == Init /\ [][Next]_vars
=============================================================================
