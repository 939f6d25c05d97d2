----------------------------- MODULE CsiVolume -----------------------------
(***************************************************************************)
(* What a CSI driver promises of the volumes that it provisions and mounts *)
(* (the life cycle in the CSI definition), whatever the driver does in     *)
(* between: a claim gets one volume of its own, which stays its volume; a  *)
(* pod runs only while the volume of its claim is mounted for it; a volume *)
(* is deleted only when it is mounted nowhere.                             *)
(***************************************************************************)
CONSTANTS
    Claims,     \* claims for volumes
    Ids,        \* volume ids
    Targets,    \* target paths of pods
    ClaimOf,    \* the claim of the pod at each target
    None

VARIABLES
    volume,     \* the volume of each claim, None before it has one
    deleted,    \* claims whose volume has been deleted
    place,      \* what is mounted at each target
    running     \* targets whose pods use what is mounted

vars == <<volume, deleted, place, running>>

Init ==
    /\ volume = [n \in Claims |-> None]
    /\ deleted = {}
    /\ place = [t \in Targets |-> None]
    /\ running = {}

\* Claim n gets volume i, which is no other claim's.
Provision(n, i) ==
    /\ volume[n] = None
    /\ \A m \in Claims : volume[m] # i
    /\ volume' = [volume EXCEPT ![n] = i]
    /\ UNCHANGED <<deleted, place, running>>

Delete(n) ==
    /\ volume[n] # None
    /\ \A t \in Targets : ClaimOf[t] = n => place[t] = None
    /\ deleted' = deleted \cup {n}
    /\ UNCHANGED <<volume, place, running>>

\* The answer to the mount may start the pod at once.
Mount(t) ==
    /\ volume[ClaimOf[t]] # None /\ ClaimOf[t] \notin deleted
    /\ place' = [place EXCEPT ![t] = volume[ClaimOf[t]]]
    /\ running' \in {running, running \cup {t}}
    /\ UNCHANGED <<volume, deleted>>

\* The pod at t starts, on what is mounted there, or stops.
Start(t) ==
    /\ place[t] # None
    /\ running' = running \cup {t}
    /\ UNCHANGED <<volume, deleted, place>>

Stop(t) == running' = running \ {t} /\ UNCHANGED <<volume, deleted, place>>

Unmount(t) ==
    /\ t \notin running
    /\ place' = [place EXCEPT ![t] = None]
    /\ UNCHANGED <<volume, deleted, running>>

\* A node goes down with its pods and mounts.
Reboot(down) ==
    /\ place' = [t \in Targets |-> IF t \in down THEN None ELSE place[t]]
    /\ running' = running \ down
    /\ UNCHANGED <<volume, deleted>>

Next ==
    \/ \E n \in Claims : Delete(n) \/ \E i \in Ids : Provision(n, i)
    \/ \E t \in Targets : Mount(t) \/ Start(t) \/ Stop(t) \/ Unmount(t)
    \/ \E down \in SUBSET Targets : Reboot(down)

Spec == Init /\ [][Next]_vars
=============================================================================
