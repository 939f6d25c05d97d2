-------------------------------- MODULE Cfs --------------------------------
(***************************************************************************)
(* The CFS driver: the controller server and the node servers, which meet  *)
(* in the volume context that CreateVolume returns and NodePublishVolume   *)
(* reads, with the order that Kubernetes gives to their calls.             *)
(***************************************************************************)
EXTENDS CfsController, CfsNode

vars == <<cloudVars, nodeVars>>

Init == CloudInit /\ NodeInit

\* The volume context of claim n: the parameters of its class, and what
\* CreateVolume added.
VolumeContext(n) ==
    [host |-> pv[n].host, fsid |-> pv[n].fsid, path |-> class[n].path, vers |-> class[n].vers]

\* A claim is in use while a pod wants it or a kubelet has not unpublished it.
InUse(n) ==
    \E t \in Targets : ClaimOf[t] = n /\ (kubelet[t].pod \/ kubelet[t].state # "unmounted")

\* Pods wait for the claim to be bound.
Publish(c, t) ==
    /\ pv[ClaimOf[t]].state = "bound"
    /\ NodePublishVolume(c, t, VolumeContext(ClaimOf[t]))
    /\ UNCHANGED cloudVars

\* A claim in use is not released.
Release(c, n) ==
    /\ ~InUse(n)
    /\ DeleteVolume(c, n)
    /\ UNCHANGED nodeVars

CloudNext ==
    /\ \/ \E c \in Rpcs : Controller(c) \/ \E n \in Claims : CreateVolume(c, n)
       \/ \E f \in FileSystems : Cloud(f)
       \/ \E n \in Claims : ProvisionerGivesUp(n)
       \/ ControllerRestart
    /\ UNCHANGED nodeVars

NodeNext ==
    /\ \/ \E c \in NodeRpcs : Node(c) \/ \E t \in Targets : NodeUnpublishVolume(c, t)
       \/ \E t \in Targets : PodDeleted(t) \/ KubeletGivesUp(t)
       \/ \E n \in {NodeOf[t] : t \in Targets} : NodePluginRestart(n) \/ NodeReboot(n)
    /\ UNCHANGED cloudVars

Next ==
    \/ CloudNext
    \/ NodeNext
    \/ \E c \in Rpcs, n \in Claims : Release(c, n)
    \/ \E c \in NodeRpcs, t \in Targets : Publish(c, t)

Spec == Init /\ [][Next]_vars

-----------------------------------------------------------------------------
(* Properties.                                                              *)

\* The state of both halves of the driver, of the cloud and of the kubelets
\* has its type.
TypeOK == CloudTypeOK /\ NodeTypeOK

Running(t) == kubelet[t].pod /\ kubelet[t].state = "published"

\* The driver is an implementation of the CSI life cycle: targets where a
\* call met an abandoned publish still running are left out, and stand empty.
Csi == INSTANCE CsiVolume WITH
    Ids     <- FileSystems,
    volume  <- [n \in Claims |-> pv[n].id],
    deleted <- {n \in Claims : pv[n].id # None /\ fs[pv[n].id].state \in {"deleting", "gone"}},
    place   <- [t \in Targets |-> IF t \in overlap \/ mnt[t] = <<>> THEN None ELSE mnt[t][1].fs],
    running <- {t \in Targets \ overlap : Running(t)}

\* Whatever calls fail, are abandoned, retried or cut off by a restart, each
\* claim gets one file system of its own, pods run on mounts of the file
\* system of their claim, and CreateVolume, DeleteVolume, NodePublishVolume
\* and NodeUnpublishVolume never let a file system be deleted that is still
\* mounted somewhere.
ImplementsCsiVolume == Csi!Spec

\* A pod whose publish was answered with success sees, through the topmost
\* mount at its target, the directory that the path of its storage class
\* names, under both versions of NFS, read-only if it asked for that: the
\* prefix of version 3 and the export of the server cancel out, also where
\* abandoned calls have mounted over each other.
MountedAsAsked ==
    \A t \in Targets : Running(t) =>
        /\ mnt[t] # <<>>
        /\ LET path == class[ClaimOf[t]].path
           IN  mnt[t][1].dir = IF path = <<>> THEN <<"/">> ELSE path
        /\ mnt[t][1].ro = (t \in ReadOnly)

\* When the provisioner has been told that the volume is deleted, no file
\* system made for the claim lives on, whatever creates failed, lost their
\* answers or came late before: the ClientToken keeps retries from making
\* file systems that nobody knows.
DeletedIsGone ==
    \A n \in Claims : pv[n].state = "deleted" =>
        \A f \in FileSystems : fs[f].claim = n => fs[f].state \in {"deleting", "gone"}
=============================================================================
