------------------------------ MODULE PodMount ------------------------------
(***************************************************************************)
(* What kubelet may count on at the target paths of pods (NodePublishVolume *)
(* and NodeUnpublishVolume of the CSI definition), whatever the driver, its *)
(* helpers and their files do in between: a volume is answered as published *)
(* only while it is mounted for a pod that is wanted, it is never taken     *)
(* from such a pod, and once it is answered as unpublished nothing is       *)
(* mounted there again.                                                     *)
(***************************************************************************)
CONSTANT Targets   \* target paths; each is used for one pod and never again

VARIABLES
    wanted,    \* targets whose pods are not deleted
    mounted,   \* targets with a file system on them
    answer     \* per target the last answer that still counts, or "none"

vars == <<wanted, mounted, answer>>

Init ==
    /\ wanted = Targets
    /\ mounted = {}
    /\ answer = [t \in Targets |-> "none"]

Mount(t) ==
    /\ answer[t] # "unpublished"
    /\ mounted' = mounted \cup {t}
    /\ UNCHANGED <<wanted, answer>>

Published(t) ==
    /\ t \in wanted \cap mounted
    /\ answer' = [answer EXCEPT ![t] = "published"]
    /\ UNCHANGED <<wanted, mounted>>

Deleted(t) ==
    /\ wanted' = wanted \ {t}
    /\ UNCHANGED <<mounted, answer>>

\* The mount goes if there is one, and kubelet may be told.
Unmount(t) ==
    /\ t \notin wanted /\ answer[t] # "published"
    /\ mounted' = mounted \ {t}
    /\ answer' \in {answer, [answer EXCEPT ![t] = "unpublished"]}
    /\ UNCHANGED wanted

\* kubelet asks again, or has no record any more.
Forget(forgotten) ==
    /\ answer' = [t \in Targets |-> IF t \in forgotten THEN "none" ELSE answer[t]]
    /\ UNCHANGED <<wanted, mounted>>

Next ==
    \/ \E forgotten \in SUBSET Targets : Forget(forgotten)
    \/ \E t \in Targets : Mount(t) \/ Published(t) \/ Deleted(t) \/ Unmount(t)

Spec == Init /\ [][Next]_vars
=============================================================================
