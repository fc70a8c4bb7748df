-------------------------- MODULE AdmissionControl --------------------------
(***************************************************************************)
(* What the session registry promises its clients, with no worker, no      *)
(* clock and no clean-up in sight: a session identifier is admitted once,  *)
(* only while the host has room for it, and once it has been retired it    *)
(* never holds a place again.                                              *)
(***************************************************************************)
EXTENDS Naturals, FiniteSets

CONSTANTS
    Ids,            (* every identifier that may ever be issued            *)
    MaxSessions,    (* places on the host                                  *)
    MaxLocalStt     (* places for sessions that run the local recogniser   *)

VARIABLES
    used,           (* identifiers issued so far                           *)
    live,           (* identifiers that hold a place                       *)
    local           (* those of them that run the local recogniser         *)

vars == <<used, live, local>>

Init ==
    /\ used = {}
    /\ live = {}
    /\ local = {}

(* A new identifier takes a place of its kind, if one is free.             *)
Admit(id, isLocal) ==
    /\ id \notin used
    /\ Cardinality(live) < MaxSessions
    /\ isLocal => Cardinality(local) < MaxLocalStt
    /\ used' = used \cup {id}
    /\ live' = live \cup {id}
    /\ local' = IF isLocal THEN local \cup {id} ELSE local

(* Any number of sessions give up their places at once: the expiry sweep   *)
(* closes several sessions without a pause.                                *)
Retire(ids) ==
    /\ live' = live \ ids
    /\ local' = local \ ids
    /\ used' = used

Next ==
    \/ \E id \in Ids, isLocal \in BOOLEAN : Admit(id, isLocal)
    \/ \E ids \in SUBSET live : Retire(ids)

Spec == Init /\ [][Next]_vars
=============================================================================
