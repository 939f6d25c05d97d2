# TLA+ models of the Tencent Cloud CSI drivers

This directory holds TLA+ models of the CSI drivers in this repository (CBS
block storage, CFS and CFS Turbo file systems, CHDFS and COS), the TLC runs that
check them and TLAPS proofs about all of them. `PROJECT.json` lists the components,
the runs, the source lines behind every definition, the hazards that the
properties are for, and the findings.

## 1. Inventory

| Component | State | Operations | What makes it hard |
|---|---|---|---|
| CBS controller (`driver/cbs/controller.go`) | none of its own; the disks of the cloud | publish, unpublish, expand, delete | one goroutine per disk; look, request, poll until a deadline; the cloud finishes late; calls overlap; no lock |
| CBS provisioning (same file) | the disks of the cloud, keyed by ClientToken | CreateVolume | parameters, topology, quota; lost answers and retries; several disks per volume |
| CBS snapshots (`controller.go`, `cbs_utils.go`, `util/k8scache.go`) | a map in memory, configmaps | CreateSnapshot, DeleteSnapshot, load at the start | three copies of the truth; a failure between any two of them |
| CBS node (`driver/cbs/node.go`, `devicemapper.go`, `util/idempotent.go`) | mounts, LVM, the set of running stage calls | stage, unstage, publish, unpublish, expand | mkfs behind a time-of-check; abandoned calls; reboots; an old mount layout |
| CBS tags (`driver/cbs/tags`) | a file with the tags copied last | a loop that copies the cluster's tags to disks | workers with an unlocked counter; disks made meanwhile; partial rounds |
| CFS Turbo node (`driver/cfsturbo/node.go`, `config.go`, `util/idlocker.go`) | a reference file and a mount per file system, locks | stage, unstage, publish, unpublish | reference counting in files; torn writes; look-ups without the lock; abandoned calls |
| CHDFS node (`driver/chdfs`) | a config file per mount point, FUSE processes | publish, unpublish | a process that outlives the call that started it; shared config files |
| COS node and launcher (`driver/cosfs`, `cmd/cosfs/launcher`) | files per pod, a global of the process, FUSE processes | publish, unpublish over a socket | three processes that restart independently; files of one pod shared by its volumes |
| CFS controller and node (`driver/cfs`) | file systems of the cloud, NFS mounts | create, delete, publish, unpublish | creation polled until a deadline; lost answers and a ClientToken; look, then mount or unmount, without a lock, beside abandoned calls |
| CFS Turbo controller (`driver/cfsturbo/controller.go`) | a temporary mount, directories | create, delete | calls share a temporary mount that each may take from the others; ids joined and split at dashes |
| CFS Turbo client installer (`driver/cfsturbo/install_cfs_client.go`) | – | a loop of shell commands | chroot of the whole process beside the node calls |
| Credentials (`driver/cloud`, `util/secret_util.go`) | keys with an expiry | refresh | nothing: the refresh has no caller |
| Generated SDK, metrics, metadata client, commands | – | – | generated code and plain I/O |

The external parts are the cloud APIs, kubelet and the CSI sidecars, the kernel's
mounts, and the programs `chdfs-fuse`, `cosfs`, `goosefs-lite`, `mkfs` and LVM.
They are modelled from how the code uses them and are marked external in the map.
Controller and node parts of one driver interact only through the cloud and the
Kubernetes objects; that is why each is a module of its own. `Cfs` composes the two
parts of CFS through these objects; `CfsturboDriver` joins the two of CFS Turbo.

## 2. Modules

Each component module has an `MC` module that extends it with the values of its
constants; the `.cfg` files pick among them. Every component has a `Proofs` module with
its theorems (section 5); snapshots and tags share one, `CbsSnapshotTagsProofs`. Definitions that begin with `Mut`
are plausible slips of the code (a missing guard, a swapped order); each is what
one property is there to catch, and no specification uses them.

**CbsController.** `disk` is the cloud's view of every disk, `call` the running
RPCs, `worker` the goroutines of `attachVolume`, `detachVolume` and `expandVolume`.
Every goroutine is split where the code talks to the cloud: `...Describe` (the
first look and its early returns, in `...Verdict`), `...Request`, `...Poll`,
`...Timeout`. `Join` is `wg.Wait()` with the collection of the errors. The cloud
ends what it accepted at any later time, or never; it may end an attachment, a
detachment or a resize without effect. `Restart` is the end of the
process: calls are gone, requests at the cloud are not. `alone` is a history
variable: it says that no other publish, unpublish or delete of the volume has
overlapped the call. So is `unmet`: the disks whose resize the cloud ended without
effect while the call that had asked for it was polling.

**CbsProvision.** `CreateVolume` reads the parameters (`ValidParameters`,
`ValidCharge`), picks a zone (`pickAvailabilityZone`, `ConvertZone`), asks for the
quota (`getDiskTypeForDefaultStorageClass`, `verifyDiskTypeIsSupported`,
`validateDiskTypeAndSize`), orders the disks under a ClientToken and polls them.
Sizes are in GB by integer division, as in the code. `given` is a history of the
answers, with their disks, the zone of `AccessibleTopology` and the topology of their
call. A call may be repeated with another topology.

**CbsSnapshot.** `snap` is the cloud, `cache` the map in memory, `meta` the
configmaps. `orphans` is a history variable: snapshots that the driver lost in the
windows between the cloud's acceptance and the configmap.

**CbsNode.** One volume on one node, chosen in `Init`: a file system in the present
or the old mount layout, a raw block device or an LVM volume. Every step of
a handler that touches the system is an action: the insertion into `Idempotent`,
the mount point, the look at the disk, `mkfs`, the mount, the resize, the LVM
commands. `size` has the size of the disk, what the node sees of it, the logical
volume and the file system. Calls may be abandoned by kubelet ("timeout") and go on; the history variable
`gaveUp` says that this has happened.

**CbsTags.** `sync` is the goroutine of `Driver.Run`, `worker` the workers.
`*errNum++` is two steps, as it is not atomic. The file may be absent or torn.

**CfsturboNode.** `config` are the reference files, `mounted` the global mounts,
`locks` the `VolumeLocks`. `WriteCfsturboConfig` is a truncation and a write.
`LoadCfsturboConfigs` lists the directory and reads file by file. The kubelet waits for
one call per volume (`awaited`); a call that it gave up (`GiveUp`) runs on beside the next
ones, as no handler looks at its context, and its answer is lost. `lost` (mounts
gone by a reboot), `dirty` (a crash or a failed config operation), `hollow` (a target bound
to an empty directory) and `overlap` are history variables; the last has the volumes for
which a call was started while one that the kubelet had given up was still running.

**CfsturboController.** A volume is a directory (`dirs`) of a file system that exists
already. `tmp` has, per volume name, the stack of mounts at `/tmp/<name>`, `work` the
calls and `volume` what the provisioner knows. `mountCfsTurbo` is `MountCheck` and
`MountTemp`; `MakeDirectory` and `RemoveDirectory` reach the file system only if
something is mounted at that moment, and otherwise a directory of the container
(`Reached`). Volume ids are sequences of tokens; `VolumeId` joins one and
`getCfsTurboOptionsFromVolumeId` splits it, at the first dashes, as the code does.
`mixed` is a history variable: a delete started while an abandoned create was running.

**CfsturboDriver.** A process of the driver: `role` is the deployment it belongs to,
which decides whose calls reach it. The two servers share no state.

**CfsController, CfsNode, Cfs** (and `CfsBase`, the constants that both halves name:
claims, storage classes and file systems).
`fs` are the file systems of the cloud with their mount targets, `rpc` the controller's calls, `pv`
what the provisioner knows; every request to the cloud is a step, and one tick of the
polling loop is `PollFileSystem` and `PollMountTarget`. On the nodes `mnt` has the stack of
mounts per target; a publish is `PublishCheck` (dial, look, make the directory) and
`PublishMount`, an unpublish `UnpublishCheck` and `UnpublishUnmount`. The path and the
version are computed as in the code (`Version`, `SourcePath`); `Exported` is what the
server makes of them. `Cfs` adds the order that Kubernetes gives: pods use bound claims
only, and a claim in use is not released. `overlap` is a history variable: the targets
where a call started while a publish was running that its kubelet had given up.

**CsiVolume.** The abstract specification of what a driver that provisions and mounts
promises: a claim gets one volume of its own, pods run on a mount of the volume of
their claim, a volume is deleted only when it is mounted nowhere. It names no call,
answer, retry or fault. `Cfs` implements it (`ImplementsCsiVolume`) under the mapping
`Csi`: the volume of a claim is the id the provisioner got, it counts as deleted when the
cloud has accepted the deletion, the place of a target is its topmost mount, and a pod
runs when its kubelet was told that the target is published.

**ChdfsNode.** `proc` are the chdfs-fuse processes, which the handler starts and
does not wait for; `file` are the config files; `mnt` has, per target, the stack of
mounts. A dead process leaves a broken mount point. Which volume each target wants
is a claim, chosen in `Init`. Which faults a behaviour may have is chosen there too
(`faults`), as all at once are too many for TLC. `late` is a history variable: the targets
at which a call went on that kubelet gave up, or a chdfs-fuse process that its call gave
up. So is `crossed`: the targets one of whose publishes, from its start until its
chdfs-fuse reads the config file, overlapped one of another volume with the same file.

**CosfsNode.** `call` are the handlers of the driver, `job` the requests in the
launcher; `passwd`, `site` and `lite` are the files of a pod and `viper` the global
of the process. Driver, launcher and kubelet restart independently, each once, which
`restarted` remembers. `Mounter` is the choice of `cosfs` when the volume names none.

**PodMount.** The abstract specification of what kubelet may count on at the target
paths of pods: a volume is answered as published only while it is mounted for a pod
that is wanted, no mount is taken from such a pod, and once it is answered as
unpublished nothing is mounted there again. It knows no process, file, request or
fault. `CosfsNode` and `ChdfsNode` implement it (`ImplementsPodMount`; the one of CHDFS is
in `ChdfsNodeProofs`) under the mapping `Pod`: wanted are the pods that are not deleted,
mounted the targets with a mount, also a broken one, and the answer is `Told`. That is
kubelet's last answer, except that an "unpublished" does not count where the code does
not keep it: after a restart of kubelet or of the driver (COS), and at targets in `late`
(CHDFS).

What the modules abstract: names, ids and payloads are model values, logging and
metrics are left out, and a time-out may happen at any time that the code allows
(no clocks). Where a name is computed and the computation matters (the config file
of CHDFS), it is modelled as it is computed.

## 3. Runs

"Faults" are constants of a module; a run without a fault shows what holds without it.

| Run | Bounds | Checks | States |
|---|---|---|---|
| cbs_concurrent | a volume of 2 disks, an id that names none, 2 nodes and one that is no CVM, 2 calls, sizes to 2 | `TypeOK`, `PublishedWhenAlone`, `UnpublishedWhenAlone`, `DeletedIsGone` | 1.49 M |
| cbs_liveness | 1 disk, 2 nodes, 2 calls, sizes to 3 | `ExpandedToSize`, `CallsAreAnswered` | 122 k |
| snap_faults | 2 names, 3 snapshots, 2 calls, all faults | `TypeOK`, `DeletedMeansGone`, `AnswersOwnSnapshot`, `LiveIsTracked` | 931 k |
| prov_faults | 1 claim of 10 classes, 3 topologies, 2 quotas, 2 disks, 2 calls, all faults | `TypeOK`, `OneVolumePerClaim`, `GivenIsUsable`, `PlacedWhereAsked`, `MadeAsOffered`, `CallsAreAnswered` | 321 k |
| tags_faults | 2 keys, 1 value, 3 disks, 2 workers, 2 changes, all faults | `TagsTypeOK`, `RecordedRoundIsComplete`, `RoundsEnd` | 252 k |
| turbo_faults | node: 2 volumes of one file system, 2 calls for one and 1 for the other; controller: 1 volume of 3 classes, 3 calls; all faults | `DriverTypeOK`, `StagedIsMounted`, `NoHollowTarget`, `NoLeakedMount`, `CreatedHasDirectory`, `DeletedHasNoDirectory` | 1.3 M |
| cfs_faults | 1 claim of 5 classes, 2 file systems, pods on 2 nodes, 2 calls at the controller and 2 at the nodes, all faults | `TypeOK`, `MountedAsAsked`, `DeletedIsGone`, `ImplementsCsiVolume` | 237 k |
| node_faults | a volume of every kind and layout, 2 pods, 2 calls, sizes to 2, all faults | `TypeOK`, `PublishedIsReal`, `UnstagedIsUnmounted`, `ExpandedFs`, `NoDataLoss` | 2.5 M |
| chdfs_faults | 2 volumes of one directory with other arguments, which share a config file, or 2 refused volumes; 2 calls, 2 processes; io errors and restarts with two of slow processes, processes that end and abandoned calls | `TypeOK`, `AnswersAreTrue`, `MountedAsAsked` | 2.7 M |
| cos_faults | 2 cosfs volumes of a pod, or one of goosefs-lite and a refused one; 2 calls, 2 requests, all faults | `TypeOK`, `OwnSecret`, `ImplementsPodMount` | 1.1 M |

Why the bounds suffice: the calls interact pairwise through one disk, mount or
file, so two calls of each kind give every order of their steps. Two disks per
volume are the least for a partial failure, two volumes per file system the least
for sharing, and three sizes the least for an older and a newer expansion to different
ones. On the CFS Turbo node two calls for one volume are the least for an abandoned one and the
next, and the call of the other volume is what they may harm. A walk over the config file of
another file system, and in CHDFS slow processes, processes that end and abandoned
calls all in one behaviour, were too many states; they are covered by the proofs alone, which
have any number of keys and every set of faults. Two names and
three snapshots allow a duplicate beside a foreign snapshot. The second file system of
CFS is there for a create that would not be idempotent. Three calls of the CFS Turbo
controller allow one to mount while a second works below no mount and a third was
abandoned. Slots for calls are
used again, so behaviours are not limited to two calls in all. Constants whose
members the modules treat alike are symmetry sets, in runs without temporal formulas
or with step properties only (`NoDataLoss`, `ImplementsCsiVolume`,
`ImplementsPodMount`).

Deadlock is checked except in the runs of COS, CFS and CFS Turbo: a deleted pod's UID
or a deleted claim's name never comes back, and when all are gone nothing is left to do.

Some properties are conditional because the code gives no more:
`PublishedWhenAlone` and `UnpublishedWhenAlone` when no other publish, unpublish or
delete of the volume overlapped; `ExpandedToSize` for disks that are not `unmet`, as the
polling loop never looks at the size; `PlacedWhereAsked`, in its last part, when the class
names the zone or the disks were ordered with the topology of the answering call;
`StagedIsMounted`, `NoHollowTarget` and `NoLeakedMount` of CfsturboNode for volumes that are
not in `overlap` (the abandoned calls of the other volumes are covered, and a volume's own
that end before its next call); `MountedAsAsked` of ChdfsNode for targets that are not
`crossed`; `PublishedIsReal` and `UnstagedIsUnmounted` of
CbsNode while kubelet has not given up on a call; what `AnswersAreTrue` of ChdfsNode says
of unpublished volumes, for targets that are not `late`; what `ImplementsPodMount` of
CosfsNode says of them, while neither the driver nor kubelet restarted (a launcher's
request goes on after its caller is gone); `DeletedHasNoDirectory` for volumes that are not `mixed`.
`ImplementsCsiVolume` takes targets in `overlap` for empty ones without a pod: without
that the refinement fails, as an abandoned publish may mount after the unpublish and the
file system be deleted under it. Abandoned calls that end before the next call of
their target are covered.

### Runs that show a disagreement

Each checks one statement of the code, its comments or the CSI definition, and TLC
finds a behaviour of the code that contradicts it. The lines are in `PROJECT.json`.

| Run | What happens |
|---|---|
| cbs_unpublish_race | an unpublish for one node detaches the disk from another node |
| cos_secret | of two goosefs-lite volumes of a pod, one is mounted with the other's secret |

### Behaviours of the code that the models contain and no run reports

These were met while modelling. The actions are in the modules, and the properties
above hold in their presence or are worded to leave them out.

- CBS controller: a publish that overlaps another succeeds while the disk is attached
  to the other node (`controller.go:670`: the polling loop does not compare the
  instance); a volume id without a disk is published (`:585`). An expansion that the
  cloud ends without effect is answered with OK and the size that was asked for (`:925`:
  any state but EXPANDING is success, and `DiskSize` is not looked at). Deleting an id
  without a disk describes all disks, and succeeds only if there are none (`:536`).
- CBS snapshots: after a restart all entries of the cache share the record of the
  configmap that was read last (`:1114`: one `cbsSnapshot` is decoded into again and
  again), so a snapshot of another name is not found and made again; a failed query after the creation makes the retry create a second
  snapshot (`:1014`).
- CBS provisioning: a claim of 2.5 GB gets 2 GB (`:283`), and an answer that says 2.5 GB
  (`:455`). A call that is repeated with another topology gets the disk of the first call, by
  its ClientToken, and answers with the zone of its own topology (`:459`), where the disk is not.
- CBS tags: a disk made during a round keeps the tags of its creation
  (`tags.go:53`), and a change that is taken back before the next round leaves disks
  of a failed round behind (`tags.go:45`).
- CFS Turbo node: a config file that is removed during the walk makes the walk use a
  nil file info (`config.go:132`). Calls that the kubelet gave up run on: an unstage that
  hangs in its look-up (`node.go:216`) unmounts after the volume was staged again; a publish that
  hangs after its look at the global mount (`:309`) binds after unpublish and unstage, to
  an empty directory; a stage that hangs in mount (`:190`) mounts after an unstage that found the
  volume in no config (`:221`). The root directories `/a/b` and `/a-b` of one file
  system have one name (`:128`), so a second volume gets the mount of the first.
- CFS: an abandoned publish can mount over another's mount, and the single unmount of
  unpublish then leaves one behind (`cfs/node.go:113`, `:185`); a mount target without
  an IpAddress gives a volume that no pod can mount (`cfs/controller.go:176`); a class
  of version 3 without FSID is only warned about (`cfs/node.go:101`).
- CFS Turbo controller: an abandoned create can put the directory of a deleted volume
  back (`cfsturbo/controller.go:83`); a volume whose host has a dash in its name is
  never deleted, as the id is split at the wrong dash (`:194`).
- CBS node with LVM: staging a mounted logical volume again fails (`node.go:179`), the
  volume group stays active when unstage is repeated after a failed clean-up (`node.go:229`), a repeated
  expansion fails on "matches existing size" (`devicemapper.go:253`).
- CHDFS: a chdfs-fuse that was given up may mount after a successful unpublish
  (`mount.go:77`). The name of a config file is made of the url and the sub-directory
  (`config.go:207`), and not of `additional_args` that are written to it, so of two volumes of one directory
  that are published at the same time one may be mounted with the arguments of the other;
  `/a/b` and `/a-b` of one file system share a file as well.
- COS: a password file left empty by a failed write is taken for written
  (`config.go:61`); goosefs-lite properties of one volume stay in `viper` for the
  next (`config.go:174`); unpublish of a target that is gone fails each time
  (`launcher.go:186`).

One place is modelled more strictly than it is: `NodeExpandVolume` of CbsNode asks for a
mounted target, in place of `findmnt --target` (`cbs/node.go:481`), which for a path that is
not mounted names the device of the mount above it instead of failing. The kubelet expands only what it
has published, so only a call that it gave up gets there; the check of the capacity and the
resize then work on the device of that other mount.

## 4. Fairness

Three specifications have fairness. In CbsController and CbsProvision it is weak
fairness of the handlers and goroutines: the Go scheduler runs every runnable
goroutine, and the deadlines of `context.WithTimeout` end the polling loops. The
cloud has none: no run assumes that it ever finishes a request, so `CallsAreAnswered`
says that calls end by themselves. In CbsTags it is weak fairness of the loop of
`Driver.Run`, which never ends, and of the workers, so that `RoundsEnd` says that no
worker waits for ever for a disk or for another worker. `UnpublishLeavesOtherNodes`
runs under the fairness of CbsController, which only rules out that calls stop halfway.

## 5. Proofs

Every safety invariant that a passing run checks is a theorem for every value of the
constants; so are the step property `NoDataLoss` and the refinements
`ImplementsCsiVolume` (CFS) and `ImplementsPodMount` (COS, and CHDFS). Sets of calls, volumes, disks, pods and so on may
have any size, faults may happen in any number and order.

| Module | Theorems (property) |
|---|---|
| CbsControllerProofs | `TypeCorrect`, `PublishIsSafe` (`PublishedWhenAlone`), `UnpublishIsSafe` (`UnpublishedWhenAlone`), `ExpandIsSafe` (`ExpandedToSize`), `DeleteIsSafe` (`DeletedIsGone`) |
| CbsProvisionProofs | `TypeCorrect`, `OneVolume` (`OneVolumePerClaim`), `GivenUsable` (`GivenIsUsable`), `InAskedZone` (`PlacedWhereAsked`), `AsOffered` (`MadeAsOffered`) |
| CbsSnapshotTagsProofs | `TypeCorrect`, `DeleteIsFinal` (`DeletedMeansGone`), `CreateAnswersItsName` (`AnswersOwnSnapshot`), `NoneIsForgotten` (`LiveIsTracked`); `TagsTypeCorrect` (`TagsTypeOK`), `RoundIsComplete` (`RecordedRoundIsComplete`) |
| CbsNodeProofs | `TypeCorrect`, `PublishedHolds` (`PublishedIsReal`), `UnstagedHolds` (`UnstagedIsUnmounted`), `ExpandedHolds` (`ExpandedFs`), `DataIsKept` (`NoDataLoss`) |
| CfsProofs | `TypeCorrect`, `PodsSeeTheirDirectory` (`MountedAsAsked`), `NothingLeftBehind` (`DeletedIsGone`), `Refinement` (`ImplementsCsiVolume`) |
| CfsturboProofs | `TypeCorrect` (`DriverTypeOK`), `StagedStaysMounted` (`StagedIsMounted`), `NoEmptyTarget` (`NoHollowTarget`), `LastOneUnmounts` (`NoLeakedMount`), `ReportedIsMade` (`CreatedHasDirectory`), `ReportedIsGone` (`DeletedHasNoDirectory`) |
| ChdfsNodeProofs | `TypeCorrect`, `AnswersHold` (`AnswersAreTrue`), `ByName` (`MountedByName`), `OwnVolume` (`MountedAsAsked`), `Refinement` (`ImplementsPodMount`) |
| CosfsNodeProofs | `TypeCorrect`, `AnswersHold`, `MountedOnce`, `SecretOfPod` (`SecretInv`), `OwnSecretHolds` (`OwnSecret`), `Refinement` (`ImplementsPodMount`) |

None of the properties is inductive. Each module has an inductive invariant `Inv`
(`TagsInv` for the tags, `NodeInv` and `ControllerInv` in CFS Turbo), a conjunction of named parts, which TLC
has checked on the bounds of the module's run. Every action has a lemma that it preserves
`Inv`; what several actions share (a call goes on and the rest stays, a call returns,
all calls are lost in a restart) is a lemma that they cite. What each invariant adds, and
why the property needs it:

**CBS controller.**

- `TypeInv`: `TypeOK`, and which combinations of state, node, size and wanted size
  a disk can have (`DiskInv`) and a call's goroutines can be in (`CallInv`);
- `AloneInv`: two rivals of one volume are never both alone. That makes what a lone
  goroutine has seen stay true: nobody else can attach or detach its disk;
- `PublishInv`: in a lone publish, once the request was accepted the disk is on its
  way to this node or there, so that the polling loop, which does not compare the
  node, cannot see a foreign attachment; finished goroutines have their disks there;
- `UnpublishInv`: the same for the way off the node;
- `ExpandInv`: while a goroutine polls, its disk has the size or is on its way to it, and
  when it is done the disk has at least the size, unless the cloud ended the resize
  without effect (`unmet`); sizes never shrink;
- `DeleteInv`: the disks of a finished deletion do not exist; deletion is final.

`PublishedWhenAlone` without `alone` is false (the cloud attaches the disk to the node
of an overlapping publish, and the polling loop takes that for its own), so the
assumption is needed.

**CBS provisioning.** `CallOK` says what a call knows at each step (its zone is the
converted choice among its topology, its type and size were offered), `DiskOK` that a
disk was ordered with just that, `OrderInv` and `HasVolume` that the disks in the
hands of a call, and of an answer, are all that the ClientToken has ordered. `GivenInv` has
for every answer that its zone is the choice of its own call; two calls with one topology,
or under a class that names the zone, choose the same. The first
zone that a topology names and the first or last offer of a quota are minima and maxima
of indices, which exist as `<` is well-founded on the naturals (`Min` and `Max` are CHOOSE).

**CBS snapshots.** `ToldInv`: what the orchestrator knows and the cloud still has is in
the configmaps, which `DeleteSnapshot` relies on when it takes a missing entry for
a deleted snapshot. `CacheInv` allows for the records that share a wrong snapshot after a restart:
an entry is the record of its key or of a snapshot that needs no entry. `TrackedInv`
has the windows in which a call alone knows of a snapshot.

**CBS node.**

- `LegalInv`: which steps a call can be at, by its operation and the kind of the volume;
- `InflightInv`: at most one call of each origin is between Insert and Delete of
  `Idempotent`;
- `DiskInv`: a call about to run `mkfs` has found the disk blank and it still is blank.
  For this the disk of a volume that is mounted, staged or being published is never blank, so
  that only one call, of the kubelet's NodeStageVolume, can be there. `NoDataLoss` follows;
- `SizeInv`: the file system is no larger than its device and that no larger than the
  disk; an expansion past its check has a device that is large enough;
- `CalmInv`: while the kubelet has not given up on a call, calls are alone or
  unpublish different pods, and what each has seen of the staging path and its target is so;
- `BoundInv`: mounts on a target, with the calls about to add one, are no more than
  there are calls, as a call only gets there after it has seen none. This bounds `bound` in `TypeOK`.

**CBS tags.** `CountInv` bounds the counter and the stale copies of it that workers are
about to write back by the number of disks that are done; `ReachedInv`: a disk that is
done has its tags, or the counter is not zero. A lost update leaves the counter too
small, but never at zero.

**CFS.** `FsInv` (the ClientToken: a claim has one file system), `RpcInv` (a call works
on it), `PvInv`; `MountInv` (all mounts at a target are the one that was asked for, and
a running pod has one), `AloneInv` (at targets not in `overlap`: at most one mount and one
call that may add one), `ReleaseInv` (a released claim is used nowhere). `Refinement`
shows that initial states map to initial states and that every action is a step of
`CsiVolume` or none, one lemma per action.

**CFS Turbo.** Node: `LocksOK` (one call per key between acquire and release), `AloneOK`
(one call per volume, unless the volume is in `overlap`), `WriteOK`
and `KeyOK` (what is in a config file, and about to be written to it, also when a write was
torn or calls overlapped, and that a mount has a volume that accounts for it), `KnowsOK` (what a
call has seen of mount and list is still so: the look-ups
without the lock are safe because volumes that are staged are in the list), `VolumeOK`. What
`WriteOK` and `KnowsOK` say of a call with the lock holds for abandoned calls as well; that
is why they cannot harm the other volumes of their file system. Controller:
`WorkOK` (a call past its mount reaches the directory, or the directory is in the
right state already), `NameOK`. That an id comes apart into the parts it was joined from
is a lemma about sequences with separators (`SplitAt` and those around it).

**CHDFS.** `FileOK`, `ProcOK`, `LayersOK`: a config file, the process that reads it and
what it mounts are of a volume with that file's name. `AloneAt`, for targets not in
`late`: one call, process and layer, and a process that has not mounted yet has its call
waiting. `ByName` is all that holds of targets in `crossed`. For the others `CrossInv` says that the
config file, from the time it is written until chdfs-fuse reads it, has the volume of the
target: who else could write it is configuring a volume with that file, and that puts both targets in
`crossed` (`OverlapsSeen`). `OwnVolume` follows without any hypothesis on the names. `Refinement` has
one lemma per action; a step changes what `PodMount` knows of one target at most
(`ChangesAt`), except the restart of kubelet, which is a `Forget`. TLC has checked
`ImplementsPodMount` on the bounds of `chdfs_faults` too; it is not in the run, as that
would then take minutes more.

**COS.**

- `WaitInv`: a call that waits has exactly one request in the launcher, for its target;
  when the pod is deleted kubelet waits for an unpublish only; and a request to unmount, also one whose
  caller is gone, is for a pod that is deleted (`JobOK`). The last makes the launcher's
  `umountHandler` a step of `PodMount` although it looks at nothing but the path;
- `MountInv`: a mount point is a directory, and what kubelet was told is published is
  mounted, also when old requests mount on top of it;
- `AloneInv`, while nobody but the launcher restarted: one call and one request per
  target, and what they have seen of the mount is still so. `MountedOnce` follows, and that
  nothing is mounted after an unpublish;
- `PasswdInv`: a password file is absent, empty or has the secret of every volume with
  that name for it (names are made from the content), whoever wrote it last; `SiteInv`:
  `core-site.xml` of a pod is of a goosefs-lite volume of this pod;
- `SecretInv`: what that means for mounts. It is all that holds for every claim;
  `OwnSecret` follows under `GoosefsApart`, and `cos_secret` shows that it fails without.

`Refinement` takes the actions one by one: steps of files and requests change nothing
in `PodMount`, a mount is a `Mount` by `AloneInv`, an unmount needs `JobOK`, and a restart
of kubelet or the driver is a `Forget`.

The proofs assume what the modules assume of their constants. What is more than a type:

- CfsturboController, `IdAssumption`: no slash in the parts of an id, no dash in an
  fsid, and no second export of the file system under what stands before a dash of its host.
- CfsController, `CloudAssumption`: the path of a class does not name an FSID, as
  the class is written first.
- CbsController: volumes do not share disks.
- `OwnSecretHolds` of COS has the hypothesis `GoosefsApart`: no pod has two goosefs-lite
  volumes with different secrets. The instance of `cos_faults` satisfies it; that of
  `cos_secret` does not. Secrets differ from the markers "none" and "empty" that the
  model has for files without one.
- Disks, the volumes of a CFS Turbo node, and the calls of the CBS node are finitely many.

Only model-checked: `CallsAreAnswered` (CbsController and CbsProvision) and `RoundsEnd`, as
liveness under fairness is outside of the prover's reach. The two runs that show a
disagreement are counterexamples and have nothing to prove.

## 6. What is not modelled

- The CFS Turbo client installer: shell commands without state of its own. It calls
  `syscall.Chroot` for the whole process while node calls are served
  (`install_cfs_client.go:46`); what a mount means in that window depends on the host.
- Credentials: `NormCredential` of `driver/cloud` has no caller, and `GetSercet` reads
  the environment and never reports a new token, so `updateCfsClent` changes nothing.
- In CFS: `deleteMountTargetsForHPFileSystem` (no caller), `NodeGetVolumeStats` (reads).
- RAID volumes of the CBS node (`mdadm`): the state is in the kernel and in files
  that the code never reads; unstage takes them for LVM (a TODO in the code).
- `ListSnapshots`, node metrics, identity and capability answers: they read only.
- The goosefs-lite wrapper script may report a failure and mount later. The model
  has failing mounts without that delay.
- Go maps that are used by two goroutines at once (`viper`): the run-time check
  that ends the process is a restart in the model.
- Generated SDK, metrics, flag parsing.

## 7. Plan

1. Done: models of the CBS controller, snapshots, provisioning, CBS node, tags, CFS and
   its refinement of the CSI life cycle, CFS Turbo, CHDFS and COS and their refinement of
   `PodMount`; the proofs of section 5.
2. Further abstract specifications: a volume that is attached to at most one node,
   which `CbsController` implements while calls are alone; a reference-counted mount,
   which `CfsturboNode` implements.
3. Composition: attach and detach of `CbsController` with stage and unstage of
   `CbsNode` on two nodes (a disk is not detached while it is mounted).
