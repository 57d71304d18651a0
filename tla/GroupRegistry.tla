---------------------------- MODULE GroupRegistry ----------------------------
(***************************************************************************)
(* Which groups a durable publish reaches (messaging.py): a process writes  *)
(* the groups it consumes into wreath.message_groups when it starts and     *)
(* removes them when it drains; every publisher works from a snapshot of    *)
(* that table, refreshed on a timer.  What happens to a copy once it is     *)
(* inserted is MessageBus.                                                  *)
(***************************************************************************)
CONSTANTS Procs, Groups,
          Subs,      \* the groups a process consumes
          Name,      \* the bus name of a process; replicas share one
          NoName

VARIABLES registry,  \* wreath.message_groups: who registered a group last
          snapshot,  \* _remote_groups of each process
          life       \* where the process is between start and the end of stop

vars == <<registry, snapshot, life>>

Init == /\ registry = [g \in Groups |-> NoName]
        /\ snapshot = [p \in Procs |-> {}]
        /\ life = [p \in Procs |-> "down"]

(* start: one statement per group; a failure is counted and ends the batch. *)
RegisterGroups(p) ==
    /\ life[p] = "down"
    /\ \E S \in SUBSET Subs[p] :
          registry' = [g \in Groups |-> IF g \in S THEN Name[p] ELSE registry[g]]
    /\ life' = [life EXCEPT ![p] = "learning"]
    /\ UNCHANGED snapshot

Registered == {g \in Groups : registry[g] # NoName}

(* _refresh_groups, in start: when it fails the process starts without.     *)
Learn(p) ==
    /\ life[p] = "learning"
    /\ \E S \in {Registered, {}} : snapshot' = [snapshot EXCEPT ![p] = S]
    /\ life' = [life EXCEPT ![p] = "running"]
    /\ UNCHANGED registry

(* _group_refresher, on its timer.                                          *)
Refresh(p) ==
    /\ life[p] = "running" /\ snapshot[p] # Registered
    /\ snapshot' = [snapshot EXCEPT ![p] = Registered]
    /\ UNCHANGED <<registry, life>>

(* prune_groups: seen_at is written by a registration and nothing else.     *)
Prune(g) ==
    /\ registry[g] # NoName
    /\ registry' = [registry EXCEPT ![g] = NoName]
    /\ UNCHANGED <<snapshot, life>>

(* The supervisor sets its event, and then drains.                          *)
StopBegins(p) ==
    /\ life[p] = "running"
    /\ life' = [life EXCEPT ![p] = "stopping"]
    /\ UNCHANGED <<registry, snapshot>>

(* _deregister_groups: WHERE channel, group and bus = this bus's name.      *)
Deregister(p) ==
    /\ life[p] = "stopping"
    /\ \E S \in SUBSET Subs[p] :
          registry' = [g \in Groups |-> IF g \in S /\ registry[g] = Name[p]
                                        THEN NoName ELSE registry[g]]
    /\ life' = [life EXCEPT ![p] = "down"]
    /\ UNCHANGED snapshot

(* Killed: the registration stays.                                          *)
Crash(p) ==
    /\ life[p] # "down"
    /\ life' = [life EXCEPT ![p] = "down"]
    /\ UNCHANGED <<registry, snapshot>>

Next == \/ \E g \in Groups : Prune(g)
        \/ \E p \in Procs : \/ RegisterGroups(p) \/ Learn(p) \/ Refresh(p)
                            \/ StopBegins(p) \/ Deregister(p) \/ Crash(p)

Spec == Init /\ [][Next]_vars

-----------------------------------------------------------------------------
(* Properties.                                                              *)

(* Deregistration removes "a consumer that no longer exists"                *)
(* (_deregister_groups): a draining process takes a group out of the        *)
(* registry only when no other running process consumes it.                 *)
OnlyTheAbsentAreRemoved ==
    [][\A p \in Procs : Deregister(p) =>
          \A g \in Groups : registry[g] # NoName /\ registry'[g] = NoName =>
              \A q \in Procs \ {p} : g \in Subs[q] => life[q] # "running"]_vars
=============================================================================
