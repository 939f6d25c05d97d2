------------------------------ MODULE CbsNode ------------------------------
(***************************************************************************)
(* The node plugin of CBS (driver/cbs/node.go, devicemapper.go,            *)
(* cbs_utils.go) and its guard against requests that are already in        *)
(* progress (driver/util/idempotent.go), for one volume on one node.       *)
(*                                                                         *)
(* Volumes do not share anything on a node, so one is enough; several pods *)
(* of the node may use it.  The kubelet serialises its calls for a volume, *)
(* but it gives up on a call that takes too long, and the handlers do not  *)
(* look at their context: an abandoned call runs on beside later ones.     *)
(***************************************************************************)
EXTENDS Naturals, FiniteSets

CONSTANTS
    Volumes,     \* what the volume may be
    Pods,        \* the pods that use the volume: one target path each
    NoPod,       \* a call that is not for a pod
    Calls,       \* slots for calls in flight
    MaxSize,     \* bound on the size of the disks
    Faults       \* what may go wrong: "timeout" (the kubelet gives up on a call),
                 \* "mount", "lvm", "resize" (such a command fails), "crash" (of
                 \* the plugin), "reboot" (of the node)

ASSUME ConstantsAssumption ==
    /\ Volumes \subseteq [kind : {"fs", "block", "lvm"}, oldLayout : BOOLEAN]
    /\ NoPod \notin Pods
    /\ IsFiniteSet(Calls)
    /\ MaxSize \in Nat \ {0}
    /\ Faults \subseteq {"timeout", "mount", "lvm", "resize", "crash", "reboot"}

VARIABLES
    volume,     \* what the requests of the kubelet say of the volume
    gaveUp,     \* history: the kubelet has given up on a call
    kube,       \* what the kubelet knows of the staging path
    pod,        \* what it knows of each pod's target path
    call,       \* the calls in flight
    inflight,   \* Idempotent: the stage requests in progress, by their origin
    disk,       \* what is on the disk: nothing, a file system, data of pods
    staging,    \* the staging path: absent, there, or a mount point
    bound,      \* number of mounts on each pod's target path
    hollow,     \* targets bound to a staging path on which nothing is mounted
    lvm,        \* how far the logical volume has been made
    active,     \* the volume group is active
    size,       \* sizes: of the disk in the cloud, as the node sees it, of the
                \* logical volume, of the file system, as the kubelet knows it
    legacy      \* mounts left by the in-tree plugin

vars == <<volume, gaveUp, kube, pod, call, inflight, disk, staging, bound, hollow,
          lvm, active, size, legacy>>

\* The variables that no step of a call changes, by what the step is about.
request == <<volume, gaveUp>>
kubelet == <<volume, gaveUp, kube, pod>>
device == <<disk, lvm, active, size>>
paths == <<staging, bound, hollow, legacy>>

\* One disk with a file system, one raw disk, or a logical volume of many disks.
Kind == volume.kind

\* The staging path is .../csi/pv/<pv>/globalmount, as before Kubernetes 1.24.
OldLayout == volume.oldLayout

StageSteps == {"insert", "mkdir", "source", "lvs", "activate", "pvcreate", "vgcreate",
               "lvcreate", "probe", "format", "mount", "resize"}
UnstageSteps == {"tmpPath", "refCount", "umount", "deactivate"}
PublishSteps == {"check", "target", "bind"}
UnpublishSteps == {"intree", "oldStaging", "oldRemove", "loop"}
ExpandSteps == {"capacity", "pvresize", "lvextend", "resizefs"}

CallRecord ==
    [op    : {"none", "stage", "unstage", "publish", "unpublish", "expand"},
     pod   : Pods \cup {NoPod},
     pc    : StageSteps \cup UnstageSteps \cup PublishSteps \cup UnpublishSteps
                \cup ExpandSteps \cup {"reply"},
     req   : 0..MaxSize,           \* the capacity that is asked for
     resp  : {"none", "ok", "err"},
     late  : BOOLEAN]              \* the kubelet does not wait for it any more

NoCall == [op |-> "none", pod |-> NoPod, pc |-> "reply", req |-> 0,
           resp |-> "none", late |-> FALSE]

(***************************************************************************)
(* Types; the stage requests in progress are those of the kubelet and of   *)
(* NodePublishVolume.                                                      *)
(***************************************************************************)
TypeOK ==
    /\ volume \in Volumes
    /\ gaveUp \in BOOLEAN
    /\ kube \in {"none", "maybe", "staged"}
    /\ pod \in [Pods -> {"none", "maybe", "published"}]
    /\ call \in [Calls -> CallRecord]
    /\ inflight \subseteq {"stage", "publish"}
    /\ disk \in {"blank", "formatted", "data"}
    /\ staging \in {"absent", "empty", "mounted"}
    /\ bound \in [Pods -> 0..Cardinality(Calls)]
    /\ hollow \subseteq Pods
    /\ lvm \in {"none", "pv", "vg", "lv"}
    /\ active \in BOOLEAN
    /\ size \in [cloud : 1..MaxSize, node : 1..MaxSize, lv : 0..MaxSize, fs : 0..MaxSize,
                kube : 1..MaxSize]
    /\ legacy \subseteq {"target", "staging"}

Init ==
    /\ volume \in Volumes
    /\ gaveUp = FALSE
    /\ kube = "none"
    /\ pod = [p \in Pods |-> "none"]
    /\ call = [c \in Calls |-> NoCall]
    /\ inflight = {}
    /\ disk = "blank"
    /\ staging = "absent"
    /\ bound = [p \in Pods |-> 0]
    /\ hollow = {}
    /\ lvm = "none"
    /\ active = FALSE
    /\ size = [cloud |-> 1, node |-> 1, lv |-> 0, fs |-> 0, kube |-> 1]
    /\ legacy = IF Kind = "fs" THEN {"target", "staging"} ELSE {}

-----------------------------------------------------------------------------
(* The kubelet.                                                             *)

\* One call for the volume at a time; several pods may be unpublished at once.
MayCall(op, p) ==
    \A c \in Calls : call[c].op # "none" /\ ~ call[c].late =>
        op = "unpublish" /\ call[c].op = "unpublish" /\ call[c].pod # p

StartCall(c, op, p, pc, req) ==
    /\ call[c].op = "none"
    /\ MayCall(op, p)
    /\ call' = [call EXCEPT ![c] = [NoCall EXCEPT !.op = op, !.pod = p, !.pc = pc,
                                                  !.req = req]]
    /\ UNCHANGED <<inflight, device, paths>>

NodeStageVolume(c) ==
    /\ kube \in {"none", "maybe"}
    /\ StartCall(c, "stage", NoPod, "insert", 0)
    /\ kube' = "maybe"
    /\ UNCHANGED <<request, pod>>

NodeUnstageVolume(c) ==
    /\ kube \in {"maybe", "staged"}
    /\ \A p \in Pods : pod[p] = "none"
    /\ StartCall(c, "unstage", NoPod, IF Kind = "lvm" THEN "refCount" ELSE "tmpPath", 0)
    /\ kube' = "maybe"
    /\ UNCHANGED <<request, pod>>

NodePublishVolume(c, p) ==
    /\ kube = "staged"
    /\ StartCall(c, "publish", p, IF Kind = "block" THEN "target" ELSE "check", 0)
    /\ pod' = [pod EXCEPT ![p] = "maybe"]
    /\ UNCHANGED <<request, kube>>

NodeUnpublishVolume(c, p) ==
    /\ pod[p] # "none"
    /\ StartCall(c, "unpublish", p, IF Kind = "block" THEN "loop" ELSE "intree", 0)
    /\ pod' = [pod EXCEPT ![p] = "maybe"]
    /\ UNCHANGED <<request, kube>>

\* The device of the target path is found (findmnt); a block volume is skipped.
NodeExpandVolume(c, p) ==
    /\ pod[p] = "published" /\ bound[p] > 0 /\ p \notin hollow
    /\ Kind # "block"
    /\ size.kube < size.cloud
    /\ StartCall(c, "expand", p, "capacity", size.cloud)
    /\ UNCHANGED kubelet

\* What a success tells the kubelet, unless it has stopped waiting.
Reply(c) ==
    /\ call[c].op # "none" /\ call[c].pc = "reply"
    /\ LET told(op) == call[c].op = op /\ call[c].resp = "ok" /\ ~ call[c].late
       IN /\ kube' = IF told("stage") THEN "staged"
                     ELSE IF told("unstage") THEN "none" ELSE kube
          /\ pod' = IF told("publish") THEN [pod EXCEPT ![call[c].pod] = "published"]
                    ELSE IF told("unpublish") THEN [pod EXCEPT ![call[c].pod] = "none"]
                    ELSE pod
          /\ disk' = IF told("publish") /\ call[c].pod \notin hollow THEN "data" ELSE disk
          /\ size' = IF told("expand") THEN [size EXCEPT !.kube = call[c].req] ELSE size
    /\ call' = [call EXCEPT ![c] = NoCall]
    /\ UNCHANGED <<request, inflight, lvm, active, paths>>

Abandon(c) ==
    /\ "timeout" \in Faults
    /\ call[c].op # "none" /\ ~ call[c].late
    /\ call' = [call EXCEPT ![c].late = TRUE]
    /\ gaveUp' = TRUE
    /\ UNCHANGED <<volume, kube, pod, inflight, device, paths>>

-----------------------------------------------------------------------------
(* Steps of a call.                                                         *)

At(c, s) == call[c].op # "none" /\ call[c].pc = s

Goto(c, s) == call' = [call EXCEPT ![c].pc = s]

Answer(c, resp) == call' = [call EXCEPT ![c].pc = "reply", ![c].resp = resp]

\* Mutant: requests in progress are recorded and not looked at.
MutInsert(c) ==
    /\ inflight' = inflight \cup {call[c].op}
    /\ Goto(c, "mkdir")

\* Idempotent.Insert: a request with the same text that is still in progress
\* refuses the new one.  The request of NodePublishVolume has another text than
\* the kubelet's.
Insert(c) ==
    \/ /\ call[c].op \in inflight
       /\ Answer(c, "err") /\ UNCHANGED inflight
    \/ /\ call[c].op \notin inflight
       /\ inflight' = inflight \cup {call[c].op}
       /\ Goto(c, "mkdir")

\* NodeStageVolume returns, and with it the deferred Delete.  Inside of
\* NodePublishVolume a success goes on with the target path.
StageReturns(c, resp) ==
    /\ inflight' = inflight \ {call[c].op}
    /\ IF call[c].op = "publish" /\ resp = "ok" THEN Goto(c, "target") ELSE Answer(c, resp)

\* A command of kind f fails.
StageFails(c, f) == f \in Faults /\ StageReturns(c, "err")

\* The device node of a logical volume is there only while its group is active.
HasDevice == Kind = "lvm" => lvm = "lv" /\ active

InUse == staging = "mounted" \/ \E p \in Pods : bound[p] > 0 /\ p \notin hollow

-----------------------------------------------------------------------------
(* NodeStageVolume.                                                         *)

StageInsert(c) ==
    /\ At(c, "insert")
    /\ Insert(c)
    /\ UNCHANGED <<kubelet, device, paths>>

createMountPoint(c) ==
    /\ At(c, "mkdir")
    /\ staging' = IF staging = "absent" THEN "empty" ELSE staging
    /\ Goto(c, "source")
    /\ UNCHANGED <<kubelet, inflight, device, bound, hollow, legacy>>

\* Where the device comes from, and for one disk whether it is mounted already.
StageSource(c) ==
    /\ At(c, "source")
    /\ \/ Kind # "lvm" /\ staging = "mounted" /\ StageReturns(c, "ok")
       \/ /\ Kind # "lvm" /\ staging # "mounted"
          /\ Goto(c, IF Kind = "block" THEN "mount" ELSE "probe") /\ UNCHANGED inflight
       \/ Kind = "lvm" /\ Goto(c, "lvs") /\ UNCHANGED inflight
       \/ StageFails(c, "mount")              \* the device is not found
    /\ UNCHANGED <<kubelet, device, paths>>

checkLvm(c) ==
    /\ At(c, "lvs")
    /\ Goto(c, IF lvm = "lv" THEN "activate" ELSE "pvcreate")
    /\ UNCHANGED <<kubelet, inflight, device, paths>>

\* lvmVgchange(true).
LvmActivate(c) ==
    /\ At(c, "activate")
    /\ \/ active' = TRUE /\ Goto(c, "probe") /\ UNCHANGED inflight
       \/ StageFails(c, "lvm") /\ UNCHANGED active
    /\ UNCHANGED <<kubelet, disk, lvm, size, paths>>

\* pvcreate on the disks in turn; it refuses a disk that is in a volume group.
LvmPvcreate(c) ==
    /\ At(c, "pvcreate")
    /\ \/ lvm \in {"none", "pv"} /\ lvm' = "pv" /\ Goto(c, "vgcreate") /\ UNCHANGED inflight
       \/ lvm \in {"vg", "lv"} /\ StageReturns(c, "err") /\ UNCHANGED lvm
       \/ StageFails(c, "lvm") /\ UNCHANGED lvm
    /\ UNCHANGED <<kubelet, disk, active, size, paths>>

LvmVgcreate(c) ==
    /\ At(c, "vgcreate")
    /\ \/ /\ lvm = "pv"
          /\ lvm' = "vg" /\ active' = TRUE
          /\ Goto(c, "lvcreate") /\ UNCHANGED inflight
       \/ /\ lvm # "pv" \/ "lvm" \in Faults
          /\ StageReturns(c, "err") /\ UNCHANGED <<lvm, active>>
    /\ UNCHANGED <<kubelet, disk, size, paths>>

LvmLvcreate(c) ==
    /\ At(c, "lvcreate")
    /\ \/ /\ lvm = "vg"
          /\ lvm' = "lv" /\ active' = TRUE
          /\ size' = [size EXCEPT !.lv = size.node]
          /\ Goto(c, "probe") /\ UNCHANGED inflight
       \/ /\ lvm # "vg" \/ "lvm" \in Faults
          /\ StageReturns(c, "err") /\ UNCHANGED <<lvm, active, size>>
    /\ UNCHANGED <<kubelet, disk, paths>>

\* FormatAndMount: what is on the device ...
Probe(c) ==
    /\ At(c, "probe")
    /\ \/ /\ HasDevice
          /\ Goto(c, IF disk = "blank" THEN "format" ELSE "mount")
          /\ UNCHANGED inflight
       \/ ~ HasDevice /\ StageReturns(c, "err")
    /\ UNCHANGED <<kubelet, device, paths>>

\* ... mkfs if it was blank, which refuses a device that is mounted ...
Format(c) ==
    /\ At(c, "format")
    /\ \/ /\ HasDevice /\ ~ InUse
          /\ disk' = "formatted"
          /\ size' = [size EXCEPT !.fs = IF Kind = "lvm" THEN size.lv ELSE size.node]
          /\ Goto(c, "mount") /\ UNCHANGED inflight
       \/ /\ ~ HasDevice \/ InUse \/ "mount" \in Faults
          /\ StageReturns(c, "err") /\ UNCHANGED <<disk, size>>
    /\ UNCHANGED <<kubelet, lvm, active, paths>>

\* ... and mount, which refuses to mount a device twice on one path.
Mount(c) ==
    /\ At(c, "mount")
    /\ \/ /\ HasDevice /\ staging = "empty"
          /\ staging' = "mounted"
          /\ \/ Kind = "block" /\ StageReturns(c, "ok")
             \/ Kind # "block" /\ Goto(c, "resize") /\ UNCHANGED inflight
       \/ /\ ~ HasDevice \/ staging # "empty" \/ "mount" \in Faults
          /\ StageReturns(c, "err") /\ UNCHANGED staging
    /\ UNCHANGED <<kubelet, device, bound, hollow, legacy>>

\* The file system grows to the size of its device.
GrownFs == [size EXCEPT !.fs = IF Kind = "lvm" THEN size.lv ELSE size.node]

StageResize(c) ==
    /\ At(c, "resize")
    /\ \/ size' = GrownFs /\ StageReturns(c, "ok")
       \/ StageFails(c, "resize") /\ UNCHANGED size
    /\ UNCHANGED <<kubelet, disk, lvm, active, paths>>

-----------------------------------------------------------------------------
(* NodeUnstageVolume.                                                       *)

\* <staging path>/<disk id> is where a block volume is mounted; the file is
\* removed as well.
UnstageTmpPath(c) ==
    /\ At(c, "tmpPath")
    /\ \/ /\ Kind = "block" /\ staging = "mounted"
          /\ \/ staging' = "absent" /\ Answer(c, "ok")
             \/ "mount" \in Faults /\ staging' \in {"empty", "mounted"} /\ Answer(c, "err")
       \/ ~ (Kind = "block" /\ staging = "mounted") /\ Goto(c, "refCount") /\ UNCHANGED staging
    /\ UNCHANGED <<kubelet, inflight, device, bound, hollow, legacy>>

\* GetDeviceNameFromMount: a path that is not mounted has no references; a
\* block volume is not mounted on the staging path itself.
UnstageRefCount(c) ==
    /\ At(c, "refCount")
    /\ \/ (Kind = "block" \/ staging # "mounted") /\ Answer(c, "ok")
       \/ (Kind # "block" /\ staging = "mounted") /\ Goto(c, "umount")
    /\ UNCHANGED <<kubelet, inflight, device, paths>>

\* Mutant: a failed unmount is logged only.
MutUnstageUmount(c) ==
    /\ At(c, "umount")
    /\ staging' \in {"empty", staging}
    /\ IF Kind = "lvm" THEN Goto(c, "deactivate") ELSE Answer(c, "ok")
    /\ UNCHANGED <<kubelet, inflight, device, bound, hollow, legacy>>

UnstageUmount(c) ==
    /\ At(c, "umount")
    /\ \/ /\ staging = "mounted"
          /\ staging' = "empty"
          /\ IF Kind = "lvm" THEN Goto(c, "deactivate") ELSE Answer(c, "ok")
       \/ /\ staging # "mounted" \/ "mount" \in Faults
          /\ Answer(c, "err") /\ UNCHANGED staging
    /\ UNCHANGED <<kubelet, inflight, device, bound, hollow, legacy>>

\* lvmVgchange(false); a volume that is mounted somewhere stays active.
LvmDeactivate(c) ==
    /\ At(c, "deactivate")
    /\ \/ ~ InUse /\ active' = FALSE /\ Answer(c, "ok")
       \/ (InUse \/ "lvm" \in Faults) /\ Answer(c, "err") /\ UNCHANGED active
    /\ UNCHANGED <<kubelet, inflight, disk, lvm, size, paths>>

-----------------------------------------------------------------------------
(* NodePublishVolume.                                                       *)

\* Mutant: the staging path is taken to be mounted.
MutCheckStaging(c) ==
    /\ At(c, "check")
    /\ Goto(c, "target")
    /\ UNCHANGED <<kubelet, inflight, device, paths>>

\* A staging path that is not mounted is staged again.
checkStagingTargetPath(c) ==
    /\ At(c, "check")
    /\ \/ staging = "mounted" /\ Goto(c, "target") /\ UNCHANGED staging
       \/ /\ staging # "mounted"
          /\ staging' = "empty"
          /\ Goto(c, "insert")
       \/ "mount" \in Faults /\ Answer(c, "err") /\ UNCHANGED staging
    /\ UNCHANGED <<kubelet, inflight, device, bound, hollow, legacy>>

\* Mutant: the target is not tested for a mount.
MutPublishTarget(c) ==
    /\ At(c, "target")
    /\ Goto(c, "bind")
    /\ UNCHANGED <<kubelet, inflight, device, paths>>

PublishTarget(c) ==
    /\ At(c, "target")
    /\ \/ bound[call[c].pod] > 0 /\ Answer(c, "ok")
       \/ bound[call[c].pod] = 0 /\ Goto(c, "bind")
    /\ UNCHANGED <<kubelet, inflight, device, paths>>

\* Without a mount below it the staging path is an empty directory.
PublishBind(c) ==
    /\ At(c, "bind")
    /\ \/ /\ staging # "absent"
          /\ bound' = [bound EXCEPT ![call[c].pod] = @ + 1]
          /\ hollow' = IF staging = "empty" THEN hollow \cup {call[c].pod}
                       ELSE hollow \ {call[c].pod}
          /\ Answer(c, "ok")
       \/ /\ staging = "absent" \/ "mount" \in Faults
          /\ Answer(c, "err") /\ UNCHANGED <<bound, hollow>>
    /\ UNCHANGED <<kubelet, inflight, device, staging, legacy>>

-----------------------------------------------------------------------------
(* NodeUnpublishVolume.                                                     *)

\* cleanIntreeTargetPath, then cleanIntreeStagingPath.
cleanIntreePath(c) ==
    /\ At(c, "intree")
    /\ \/ legacy' = {} /\ Goto(c, "oldStaging")
       \/ "mount" \in Faults /\ legacy' \in {legacy, legacy \ {"target"}} /\ Answer(c, "err")
    /\ UNCHANGED <<kubelet, inflight, device, staging, bound, hollow>>

\* CleanupMountPoint of .../csi/pv/<pv>/globalmount, if there is such a path: in
\* the old layout it is the staging path of this very volume.  It is unmounted ...
cleanOldStagingPath(c) ==
    /\ At(c, "oldStaging")
    /\ \/ /\ ~ OldLayout \/ staging = "absent"
          /\ Goto(c, "loop") /\ UNCHANGED staging
       \/ /\ OldLayout /\ staging # "absent"
          /\ staging' = "empty"
          /\ Goto(c, "oldRemove")
       \/ /\ OldLayout /\ staging # "absent" /\ "mount" \in Faults
          /\ Answer(c, "err") /\ UNCHANGED staging
    /\ UNCHANGED <<kubelet, inflight, device, bound, hollow, legacy>>

\* ... and the directory is removed.
OldStagingRemove(c) ==
    /\ At(c, "oldRemove")
    /\ \/ staging = "empty" /\ staging' = "absent" /\ Goto(c, "loop")
       \/ staging # "empty" /\ Answer(c, "err") /\ UNCHANGED staging
    /\ UNCHANGED <<kubelet, inflight, device, bound, hollow, legacy>>

\* One turn of the loop that unmounts until nothing is mounted.
UnpublishLoop(c) ==
    /\ At(c, "loop")
    /\ LET p == call[c].pod
       IN \/ bound[p] = 0 /\ Answer(c, "ok") /\ UNCHANGED <<bound, hollow>>
          \/ /\ bound[p] > 0
             /\ bound' = [bound EXCEPT ![p] = @ - 1]
             /\ hollow' = IF bound[p] = 1 THEN hollow \ {p} ELSE hollow
             /\ UNCHANGED call
          \/ /\ bound[p] > 0 /\ "mount" \in Faults
             /\ Answer(c, "err") /\ UNCHANGED <<bound, hollow>>
    /\ UNCHANGED <<kubelet, inflight, device, staging, legacy>>

-----------------------------------------------------------------------------
(* NodeExpandVolume.                                                        *)

\* Mutant: the size that the kernel knows is not compared.
MutExpandCapacity(c) ==
    /\ At(c, "capacity")
    /\ Goto(c, IF Kind = "lvm" THEN "pvresize" ELSE "resizefs")
    /\ UNCHANGED <<kubelet, inflight, device, paths>>

\* checkVolumePathCapacity of every disk, as the kernel of the node sees it.
ExpandCapacity(c) ==
    /\ At(c, "capacity")
    /\ \/ size.node < call[c].req /\ Answer(c, "err")
       \/ /\ size.node >= call[c].req
          /\ Goto(c, IF Kind = "lvm" THEN "pvresize" ELSE "resizefs")
    /\ UNCHANGED <<kubelet, inflight, device, paths>>

\* lvmExpand: pvresize of every disk ...
LvmPvresize(c) ==
    /\ At(c, "pvresize")
    /\ \/ Goto(c, "lvextend")
       \/ "lvm" \in Faults /\ Answer(c, "err")
    /\ UNCHANGED <<kubelet, inflight, device, paths>>

\* ... and lvextend by all free space.  With none, the command fails and says
\* in its output that the size "matches existing size"; the code looks for
\* these words in the error, which is only the exit status.
LvmExtend(c) ==
    /\ At(c, "lvextend")
    /\ \/ /\ size.lv < size.node
          /\ size' = [size EXCEPT !.lv = size.node]
          /\ Goto(c, "resizefs")
       \/ /\ size.lv = size.node \/ "lvm" \in Faults
          /\ Answer(c, "err") /\ UNCHANGED size
    /\ UNCHANGED <<kubelet, inflight, disk, lvm, active, paths>>

ExpandResize(c) ==
    /\ At(c, "resizefs")
    /\ \/ bound[call[c].pod] > 0 /\ size' = GrownFs /\ Answer(c, "ok")
       \/ /\ bound[call[c].pod] = 0 \/ "resize" \in Faults
          /\ Answer(c, "err") /\ UNCHANGED size
    /\ UNCHANGED <<kubelet, inflight, disk, lvm, active, paths>>

-----------------------------------------------------------------------------
(* The world around.                                                        *)

\* ControllerExpandVolume has expanded the disk; the node notices later.
DiskGrows ==
    /\ size.cloud < MaxSize
    /\ size' = [size EXCEPT !.cloud = @ + 1]
    /\ UNCHANGED <<kubelet, call, inflight, disk, lvm, active, paths>>

NodeNotices ==
    /\ size.node < size.cloud
    /\ size' = [size EXCEPT !.node = size.cloud]
    /\ UNCHANGED <<kubelet, call, inflight, disk, lvm, active, paths>>

Crash ==
    /\ "crash" \in Faults
    /\ call' = [c \in Calls |-> NoCall]
    /\ inflight' = {}
    /\ UNCHANGED <<kubelet, device, paths>>

\* Mounts are gone, directories are not; volume groups may be activated at boot.
\* A block volume is always staged again, a file system may be published at once.
Reboot ==
    /\ "reboot" \in Faults
    /\ call' = [c \in Calls |-> NoCall]
    /\ inflight' = {}
    /\ kube' = IF kube = "staged" /\ Kind = "block" THEN "maybe" ELSE kube
    /\ pod' = [p \in Pods |-> IF pod[p] = "none" THEN "none" ELSE "maybe"]
    /\ staging' = IF staging = "mounted" THEN "empty" ELSE staging
    /\ bound' = [p \in Pods |-> 0]
    /\ hollow' = {}
    /\ legacy' = {}
    /\ active' \in BOOLEAN
    /\ active' => lvm \in {"vg", "lv"}
    /\ UNCHANGED <<request, disk, lvm, size>>

-----------------------------------------------------------------------------
Request(c) ==
    \/ NodeStageVolume(c) \/ NodeUnstageVolume(c)
    \/ \E p \in Pods : \/ NodePublishVolume(c, p) \/ NodeUnpublishVolume(c, p)
                       \/ NodeExpandVolume(c, p)

Step(c) ==
    \/ StageInsert(c) \/ createMountPoint(c) \/ StageSource(c)
    \/ checkLvm(c) \/ LvmActivate(c) \/ LvmPvcreate(c) \/ LvmVgcreate(c) \/ LvmLvcreate(c)
    \/ Probe(c) \/ Format(c) \/ Mount(c) \/ StageResize(c)
    \/ UnstageTmpPath(c) \/ UnstageRefCount(c) \/ UnstageUmount(c) \/ LvmDeactivate(c)
    \/ checkStagingTargetPath(c) \/ PublishTarget(c) \/ PublishBind(c)
    \/ cleanIntreePath(c) \/ cleanOldStagingPath(c) \/ OldStagingRemove(c) \/ UnpublishLoop(c)
    \/ ExpandCapacity(c) \/ LvmPvresize(c) \/ LvmExtend(c) \/ ExpandResize(c)
    \/ Reply(c)

Next ==
    \/ \E c \in Calls : Request(c) \/ Step(c) \/ Abandon(c)
    \/ DiskGrows
    \/ NodeNotices
    \/ Crash
    \/ Reboot

Spec == Init /\ [][Next]_vars

-----------------------------------------------------------------------------
(* Properties.                                                              *)

(***************************************************************************)
(* NodeStageVolume formats a blank disk once: mkfs never runs on a disk    *)
(* that pods have written to, although the look at the disk and mkfs are   *)
(* far apart and abandoned calls run beside their retries.                 *)
(***************************************************************************)
NoDataLoss == [][disk = "data" => disk' = "data"]_vars

(***************************************************************************)
(* A pod whose NodePublishVolume was acknowledged has the volume on its    *)
(* target path, not an empty directory and not nothing, as long as the     *)
(* kubelet has waited for its calls.                                       *)
(***************************************************************************)
PublishedIsReal ==
    ~ gaveUp => \A p \in Pods : pod[p] = "published" => bound[p] > 0 /\ p \notin hollow

(***************************************************************************)
(* After an acknowledged NodeUnstageVolume the volume is mounted nowhere   *)
(* on the node, so that the disk can be detached, as long as the kubelet   *)
(* has waited for its calls.                                               *)
(***************************************************************************)
UnstagedIsUnmounted == ~ gaveUp /\ kube = "none" => ~ InUse

(***************************************************************************)
(* NodeExpandVolume replies with success only when the file system has the *)
(* requested size, although the node learns of the new disk size late.     *)
(***************************************************************************)
ExpandedFs ==
    \A c \in Calls : call[c].op = "expand" /\ call[c].resp = "ok" => size.fs >= call[c].req
=============================================================================
