---------------------------- MODULE CfsturboNode ----------------------------
(***************************************************************************)
(* The node plugin of CFS Turbo (driver/cfsturbo/node.go, config.go).      *)
(*                                                                         *)
(* Volumes of one file system share one global mount per node.  Which      *)
(* volumes use it is kept in a file per file system, the "config"; the     *)
(* volume that leaves last unmounts.  A lock per file system                *)
(* (driver/util/idlocker.go) guards the mount and its config, but not the  *)
(* look-ups in all configs that NodeUnstageVolume starts with, nor the     *)
(* checks of NodePublishVolume.                                            *)
(*                                                                         *)
(* The kubelet waits for one call per volume at a time, but a call that it *)
(* gave up goes on: the handlers look at no deadline.  Calls interleave at *)
(* every file or mount operation.  A config is written by truncating the   *)
(* file and then filling it.                                               *)
(***************************************************************************)
EXTENDS Naturals, FiniteSets

CONSTANTS
    Volumes,    \* volume ids of persistent volumes that this node uses
    Keys,       \* "fsidWithRootDir" names: lock, config file, global mount
    KeyOf,      \* the name that NodeStageVolume makes of a volume's parameters
    SourceOf,   \* what the volume's parameters name: host, fsid and rootdir
    NoSource,   \* nothing is mounted
    NoKey,      \* GetFSIDWithRootDirByVolumeId found no config
    Calls,      \* slots for the calls that run at a time
    VolumeOf,   \* the volume that the calls in a slot are for
    Faults      \* what may go wrong: "mount" (a mount, unmount or
                \* connection fails), "config" (a config operation fails), "giveup"
                \* (the kubelet gives up a call), "crash" (the plugin dies),
                \* "reboot" (the node does)

Sources == {SourceOf[v] : v \in Volumes}

ASSUME ConstantsAssumption ==
    /\ KeyOf \in [Volumes -> Keys]
    /\ NoSource \notin Sources
    /\ NoKey \notin Keys
    /\ VolumeOf \in [Calls -> Volumes]
    /\ Faults \subseteq {"mount", "config", "giveup", "crash", "reboot"}

ASSUME FiniteAssumption == IsFiniteSet(Volumes)

VARIABLES
    kube,      \* what the kubelet knows of each volume
    call,      \* the running calls
    locks,     \* VolumeLocks
    mounted,   \* the source mounted on the global path of each key
    config,    \* the config file of each key
    bound,     \* number of bind mounts on the volume's target path
    hollow,    \* history: targets bound to a global path without a mount
    lost,      \* history: volumes whose mounts a reboot of the node took away,
               \* and which the kubelet has not had staged or published again
    overlap,   \* history: volumes for which a call was started while one that
               \* the kubelet had given up was still running
    dirty      \* history: the process died, or a config operation failed

vars == <<kube, call, locks, mounted, config, bound, hollow, lost, overlap, dirty>>

KubeStates == {"none", "maybeStaged", "staged", "maybePublished", "published"}

StageSteps == {"acquire", "check", "mount", "add", "truncate", "write"}
UnstageSteps ==
    {"list", "load", "delete", "umount", "remove"}
PublishSteps == {"global", "target", "bind"}
UnpublishSteps == {"loop", "unbind"}

CallRecord ==
    [op   : {"none", "stage", "unstage", "publish", "unpublish"},
     awaited : BOOLEAN,              \* the kubelet waits for it
     pc   : StageSteps \cup UnstageSteps \cup PublishSteps \cup UnpublishSteps \cup {"idle"},
     key  : Keys \cup {NoKey},       \* the key that the call has found
     todo : SUBSET Keys,             \* config files that the walk has still to read
     new  : SUBSET Volumes,          \* the list that is being written
     then : {"add", "delete", "return"}]   \* where it goes on after writing

ConfigRecord == [file : {"missing", "torn", "list"}, vols : SUBSET Volumes]

NoCall == [op |-> "none", awaited |-> FALSE, pc |-> "idle", key |-> NoKey, todo |-> {},
           new |-> {}, then |-> "return"]
Missing == [file |-> "missing", vols |-> {}]
Torn == [file |-> "torn", vols |-> {}]
List(s) == [file |-> "list", vols |-> s]

(***************************************************************************)
(* Types; a target has at most one bind mount, unless calls for its volume *)
(* overlapped.                                                             *)
(***************************************************************************)
TypeOK ==
    /\ kube \in [Volumes -> KubeStates]
    /\ call \in [Calls -> CallRecord]
    /\ locks \subseteq Keys
    /\ mounted \in [Keys -> Sources \cup {NoSource}]
    /\ config \in [Keys -> ConfigRecord]
    /\ bound \in [Volumes -> Nat]
    /\ \A v \in Volumes : v \notin overlap => bound[v] <= 1
    /\ hollow \subseteq Volumes
    /\ lost \subseteq Volumes
    /\ overlap \subseteq Volumes
    /\ dirty \in BOOLEAN

Init ==
    /\ kube = [v \in Volumes |-> "none"]
    /\ call = [c \in Calls |-> NoCall]
    /\ locks = {}
    /\ mounted = [k \in Keys |-> NoSource]
    /\ config = [k \in Keys |-> Missing]
    /\ bound = [v \in Volumes |-> 0]
    /\ hollow = {}
    /\ lost = {}
    /\ overlap = {}
    /\ dirty = FALSE

-----------------------------------------------------------------------------
(* The kubelet starts calls and learns their results.                       *)

Waits(v) == \E c \in Calls : VolumeOf[c] = v /\ call[c].awaited
Runs(v) == \E c \in Calls : VolumeOf[c] = v /\ call[c].op # "none"

\* A call that is under way, or has failed, leaves the kubelet uncertain.
StartCall(c, op, from, uncertain, pc) ==
    LET v == VolumeOf[c]
    IN  /\ call[c].op = "none"
        /\ ~ Waits(v)
        /\ kube[v] \in from
        /\ kube' = [kube EXCEPT ![v] = uncertain]
        /\ call' = [call EXCEPT ![c] = [NoCall EXCEPT !.op = op, !.awaited = TRUE, !.pc = pc]]
        /\ overlap' = IF Runs(v) THEN overlap \cup {v} ELSE overlap
        /\ UNCHANGED <<locks, mounted, config, bound, hollow, lost, dirty>>

NodeStageVolume(c) ==
    StartCall(c, "stage", {"none", "maybeStaged"}, "maybeStaged", "acquire")

NodeUnstageVolume(c) ==
    StartCall(c, "unstage", {"maybeStaged", "staged"}, "maybeStaged", "list")

NodePublishVolume(c) ==
    StartCall(c, "publish", {"staged", "maybePublished", "published"},
              "maybePublished", "global")

NodeUnpublishVolume(c) ==
    StartCall(c, "unpublish", {"maybePublished", "published"},
              "maybePublished", "loop")

\* The kubelet has waited long enough, or starts anew.
GiveUp(c) ==
    /\ "giveup" \in Faults
    /\ call[c].awaited
    /\ call' = [call EXCEPT ![c].awaited = FALSE]
    /\ UNCHANGED <<kube, locks, mounted, config, bound, hollow, lost, overlap, dirty>>

\* What a success tells the kubelet.
Acknowledged(op) ==
    CASE op = "stage" -> "staged"
      [] op = "unstage" -> "none"
      [] op = "publish" -> "published"
      [] op = "unpublish" -> "staged"

At(c, s) == call[c].op # "none" /\ call[c].pc = s

Goto(c, s) == call' = [call EXCEPT ![c].pc = s] /\ UNCHANGED <<kube, locks, lost>>

\* The call returns; the deferred Release gives back the lock, if it is held.
Release(c, held) == locks' = IF held THEN locks \ {call[c].key} ELSE locks

\* An answer that nobody waits for is lost.
Succeed(c, held) ==
    LET v == VolumeOf[c]
    IN  /\ IF call[c].awaited
           THEN /\ kube' = [kube EXCEPT ![v] = Acknowledged(call[c].op)]
                /\ lost' = IF call[c].op = "unpublish" THEN lost ELSE lost \ {v}
           ELSE UNCHANGED <<kube, lost>>
        /\ call' = [call EXCEPT ![c] = NoCall]
        /\ Release(c, held)

Fail(c, held) ==
    /\ call' = [call EXCEPT ![c] = NoCall]
    /\ Release(c, held)
    /\ UNCHANGED <<kube, lost>>

\* NodeStageVolume is done: NodePublishVolume, which may have called it, goes on.
StageDone(c) ==
    \/ call[c].op = "stage" /\ Succeed(c, TRUE)
    \/ /\ call[c].op = "publish"
       /\ call' = [call EXCEPT ![c].pc = "target"]
       /\ Release(c, TRUE)
       /\ UNCHANGED <<kube, lost>>

\* Mutant: the lock is not looked at.
MutTryAcquire(c, k, s) ==
    /\ locks' = locks \cup {k}
    /\ call' = [call EXCEPT ![c].pc = s, ![c].key = k]
    /\ UNCHANGED <<kube, lost>>

\* TryAcquire: the call takes the lock of key k, or is aborted.
TryAcquire(c, k, s) ==
    \/ /\ k \notin locks
       /\ locks' = locks \cup {k}
       /\ call' = [call EXCEPT ![c].pc = s, ![c].key = k]
       /\ UNCHANGED <<kube, lost>>
    \/ k \in locks /\ Fail(c, FALSE)

-----------------------------------------------------------------------------
(* NodeStageVolume.                                                         *)

StageAcquire(c) ==
    /\ At(c, "acquire")
    /\ TryAcquire(c, KeyOf[VolumeOf[c]], "check")
    /\ UNCHANGED <<mounted, config, bound, hollow, overlap, dirty>>

\* The server is dialled, then IsLikelyNotMountPoint(mountPath): a global path that is mounted is shared.
StageCheck(c) ==
    /\ At(c, "check")
    /\ \/ mounted[call[c].key] # NoSource /\ Goto(c, "add")
       \/ mounted[call[c].key] = NoSource /\ Goto(c, "mount")
       \/ "mount" \in Faults /\ Fail(c, TRUE)     \* DialTimeout, MkdirAll
    /\ UNCHANGED <<mounted, config, bound, hollow, overlap, dirty>>

StageMount(c) ==
    /\ At(c, "mount")
    /\ \/ mounted' = [mounted EXCEPT ![call[c].key] = SourceOf[VolumeOf[c]]] /\ Goto(c, "add")
       \/ "mount" \in Faults /\ Fail(c, TRUE) /\ UNCHANGED mounted
    /\ UNCHANGED <<config, bound, hollow, overlap, dirty>>

\* WriteCfsturboConfig of list s, after which the call goes on at t.
Write(c, s, t) ==
    /\ call' = [call EXCEPT ![c].pc = "truncate", ![c].new = s, ![c].then = t]
    /\ UNCHANGED <<kube, locks, lost, dirty>>

\* An operation on a config fails, and the call with it.
ConfigFails(c) ==
    /\ Fail(c, TRUE)
    /\ dirty' = TRUE

\* Mutant: without a config there is no list to add the volume to.
MutStageAdd(c) ==
    /\ At(c, "add")
    /\ LET v == VolumeOf[c]
           cfg == config[call[c].key]
       IN \/ cfg.file = "missing" /\ StageDone(c) /\ UNCHANGED dirty
          \/ cfg.file = "torn" /\ ConfigFails(c)
          \/ cfg.file = "list" /\ v \in cfg.vols /\ StageDone(c) /\ UNCHANGED dirty
          \/ cfg.file = "list" /\ v \notin cfg.vols /\ Write(c, cfg.vols \cup {v}, "return")
    /\ UNCHANGED <<mounted, config, bound, hollow, overlap>>

\* AddVolumeIdToCfsturboConfig: a missing config is first created empty.
StageAdd(c) ==
    /\ At(c, "add")
    /\ LET v == VolumeOf[c]
           cfg == config[call[c].key]
       IN \/ cfg.file = "missing" /\ Write(c, {}, "add")
          \/ cfg.file = "torn" /\ ConfigFails(c)
          \/ cfg.file = "list" /\ v \in cfg.vols /\ StageDone(c) /\ UNCHANGED dirty
          \/ cfg.file = "list" /\ v \notin cfg.vols /\ Write(c, cfg.vols \cup {v}, "return")
    /\ UNCHANGED <<mounted, config, bound, hollow, overlap>>

\* ioutil.WriteFile opens the file with O_TRUNC ...
Truncate(c) ==
    /\ At(c, "truncate")
    /\ \/ /\ config' = [config EXCEPT ![call[c].key] = Torn]
          /\ Goto(c, "write")
          /\ UNCHANGED dirty
       \/ "config" \in Faults /\ ConfigFails(c) /\ UNCHANGED config
    /\ UNCHANGED <<mounted, bound, hollow, overlap>>

\* ... and writes the list.
Fill(c) ==
    /\ At(c, "write")
    /\ \/ /\ config' = [config EXCEPT ![call[c].key] = List(call[c].new)]
          /\ \/ call[c].then # "return" /\ Goto(c, call[c].then)
             \/ /\ call[c].then = "return"
                /\ IF call[c].op = "unstage" THEN Succeed(c, TRUE) ELSE StageDone(c)
          /\ UNCHANGED dirty
       \/ "config" \in Faults /\ ConfigFails(c) /\ UNCHANGED config
    /\ UNCHANGED <<mounted, bound, hollow, overlap>>

-----------------------------------------------------------------------------
(* NodeUnstageVolume.                                                       *)

\* LoadCfsturboConfigs: the names of all config files, then each file in turn,
\* all without a lock.
UnstageList(c) ==
    /\ At(c, "list")
    /\ call' = [call EXCEPT ![c].pc = "load",
                            ![c].todo = {k \in Keys : config[k].file # "missing"}]
    /\ UNCHANGED <<kube, locks, mounted, config, bound, hollow, lost, overlap, dirty>>

\* A file in the middle of being written fails the call.
UnstageLoad(c, k) ==
    /\ At(c, "load")
    /\ k \in call[c].todo
    /\ \/ /\ config[k].file = "list"
          /\ call' = [call EXCEPT ![c].todo = @ \ {k},
                                  ![c].key = IF VolumeOf[c] \in config[k].vols THEN k ELSE @]
          /\ UNCHANGED <<kube, locks, lost>>
       \/ config[k].file = "torn" /\ Fail(c, FALSE)
       \/ config[k].file = "missing" /\ Fail(c, FALSE)
    /\ UNCHANGED <<mounted, config, bound, hollow, overlap, dirty>>

\* A volume in no config was not staged: there is nothing to do.
UnstageLookup(c) ==
    /\ At(c, "load")
    /\ call[c].todo = {}
    /\ \/ call[c].key = NoKey /\ Succeed(c, FALSE)
       \/ call[c].key # NoKey /\ TryAcquire(c, call[c].key, "delete")
    /\ UNCHANGED <<mounted, config, bound, hollow, overlap, dirty>>

\* DeleteVolumeIdFromCfsturboConfig: the last volume has to unmount first and
\* leaves the list as it is.
UnstageDelete(c) ==
    /\ At(c, "delete")
    /\ LET v == VolumeOf[c]
           cfg == config[call[c].key]
           needUmount == cfg.vols = {v}
       IN \/ cfg.file = "torn" /\ ConfigFails(c)
          \/ cfg.file # "torn" /\ needUmount /\ Goto(c, "umount") /\ UNCHANGED dirty
          \/ /\ cfg.file # "torn" /\ ~ needUmount
             /\ IF cfg.file = "missing" THEN Write(c, {}, "delete")
                ELSE IF Cardinality(cfg.vols) = 1 THEN Succeed(c, TRUE) /\ UNCHANGED dirty
                ELSE Write(c, cfg.vols \ {v}, "return")
    /\ UNCHANGED <<mounted, config, bound, hollow, overlap>>

\* CleanupMountPoint: a path that is not mounted is fine; it unmounts and then
\* removes the directory, either of which may fail.
UnstageUmount(c) ==
    /\ At(c, "umount")
    /\ \/ /\ mounted' = [mounted EXCEPT ![call[c].key] = NoSource]
          /\ Goto(c, "remove") \/ ("mount" \in Faults /\ Fail(c, TRUE))
       \/ "mount" \in Faults /\ Fail(c, TRUE) /\ UNCHANGED mounted
    /\ UNCHANGED <<config, bound, hollow, overlap, dirty>>

\* DeleteCfsturboConfig.
UnstageRemove(c) ==
    /\ At(c, "remove")
    /\ \/ /\ config' = [config EXCEPT ![call[c].key] = Missing]
          /\ Succeed(c, TRUE)
          /\ UNCHANGED dirty
       \/ "config" \in Faults /\ ConfigFails(c) /\ UNCHANGED config
    /\ UNCHANGED <<mounted, bound, hollow, overlap>>

-----------------------------------------------------------------------------
(* NodePublishVolume and NodeUnpublishVolume.                               *)

\* Mutant: the volume is taken to be staged.
MutCheckGlobal(c) ==
    /\ At(c, "global")
    /\ Goto(c, "target")
    /\ UNCHANGED <<mounted, config, bound, hollow, overlap, dirty>>

\* CheckGlobalMountPath stages the volume again if nothing is mounted.
CheckGlobalMountPath(c) ==
    /\ At(c, "global")
    /\ \/ mounted[KeyOf[VolumeOf[c]]] # NoSource /\ Goto(c, "target")
       \/ mounted[KeyOf[VolumeOf[c]]] = NoSource /\ Goto(c, "acquire")
       \/ "mount" \in Faults /\ Fail(c, FALSE)
    /\ UNCHANGED <<mounted, config, bound, hollow, overlap, dirty>>

PublishTarget(c) ==
    /\ At(c, "target")
    /\ \/ bound[VolumeOf[c]] > 0 /\ Succeed(c, FALSE)
       \/ bound[VolumeOf[c]] = 0 /\ Goto(c, "bind")
    /\ UNCHANGED <<mounted, config, bound, hollow, overlap, dirty>>

\* Without a mount below it, the global path is an empty directory.
PublishBind(c) ==
    /\ At(c, "bind")
    /\ \/ /\ LET v == VolumeOf[c]
             IN  /\ bound' = [bound EXCEPT ![v] = @ + 1]
                 /\ hollow' = IF mounted[KeyOf[v]] = NoSource THEN hollow \cup {v} ELSE hollow
          /\ Succeed(c, FALSE)
       \/ "mount" \in Faults /\ Fail(c, FALSE) /\ UNCHANGED <<bound, hollow>>
    /\ UNCHANGED <<mounted, config, overlap, dirty>>

\* The loop unmounts until nothing is mounted: the check of a turn ...
UnpublishCheck(c) ==
    /\ At(c, "loop")
    /\ \/ /\ bound[VolumeOf[c]] = 0
          /\ hollow' = hollow \ {VolumeOf[c]}
          /\ Succeed(c, FALSE)
       \/ bound[VolumeOf[c]] > 0 /\ Goto(c, "unbind") /\ UNCHANGED hollow
    /\ UNCHANGED <<mounted, config, bound, dirty, overlap>>

\* ... and its umount, which fails if another call was faster.
UnpublishUmount(c) ==
    /\ At(c, "unbind")
    /\ LET v == VolumeOf[c]
       IN \/ bound[v] > 0 /\ bound' = [bound EXCEPT ![v] = @ - 1] /\ Goto(c, "loop")
          \/ (bound[v] = 0 \/ "mount" \in Faults) /\ Fail(c, FALSE) /\ UNCHANGED bound
    /\ UNCHANGED <<mounted, config, hollow, overlap, dirty>>

-----------------------------------------------------------------------------
\* The plugin process dies: the calls and the locks are gone, the mounts and
\* the files stay as they are.
Dies ==
    /\ call' = [c \in Calls |-> NoCall]
    /\ locks' = {}
    /\ dirty' = TRUE
    /\ UNCHANGED <<kube, mounted, config, bound, hollow, lost, overlap>>

Crash == "crash" \in Faults /\ Dies

\* The node restarts: its mounts are gone, the config files are not.  The
\* kubelet stages and publishes again what its pods still use, or tears it
\* down; a volume that it takes for published is not staged first, which is
\* what CheckGlobalMountPath is there for.
Reboot ==
    /\ "reboot" \in Faults
    /\ kube' = [v \in Volumes |->
          CASE kube[v] = "staged" -> "maybeStaged"
            [] kube[v] = "published" -> "maybePublished"
            [] OTHER -> kube[v]]
    /\ call' = [c \in Calls |-> NoCall]
    /\ locks' = {}
    /\ mounted' = [k \in Keys |-> NoSource]
    /\ bound' = [v \in Volumes |-> 0]
    /\ hollow' = {}
    /\ lost' = Volumes
    /\ dirty' = TRUE
    /\ UNCHANGED <<config, overlap>>

\* filepath.Walk hands a file that has gone since the directory was read to a
\* callback that uses its nil FileInfo.
WalkPanics(c, k) ==
    /\ At(c, "load")
    /\ k \in call[c].todo
    /\ config[k].file = "missing"
    /\ Dies

-----------------------------------------------------------------------------
Step(c) ==
    \/ StageAcquire(c) \/ StageCheck(c) \/ StageMount(c) \/ StageAdd(c)
    \/ Truncate(c) \/ Fill(c)
    \/ UnstageList(c) \/ UnstageLookup(c) \/ UnstageDelete(c)
    \/ UnstageUmount(c) \/ UnstageRemove(c)
    \/ CheckGlobalMountPath(c) \/ PublishTarget(c) \/ PublishBind(c)
    \/ UnpublishCheck(c) \/ UnpublishUmount(c)
    \/ \E k \in Keys : UnstageLoad(c, k) \/ WalkPanics(c, k)

Request(c) ==
    \/ NodeStageVolume(c) \/ NodeUnstageVolume(c)
    \/ NodePublishVolume(c) \/ NodeUnpublishVolume(c)

Next ==
    \/ \E c \in Calls : Request(c) \/ Step(c) \/ GiveUp(c)
    \/ Crash
    \/ Reboot

Spec == Init /\ [][Next]_vars

-----------------------------------------------------------------------------
(* Properties.                                                              *)

\* The kubelet takes the volume for staged.
InUse(v) == kube[v] \in {"staged", "maybePublished", "published"}

\* What may be mounted under a key: one source, unless the key makes two root
\* directories one name, as it does of /a/b and /a-b.
SourcesOf(k) == {SourceOf[v] : v \in {w \in Volumes : KeyOf[w] = k}}

(***************************************************************************)
(* From the acknowledged NodeStageVolume to the next NodeUnstageVolume of  *)
(* a volume, a file system of its name is mounted on its global path: no   *)
(* unstage, failure or retry of another volume and no abandoned call of    *)
(* another volume takes it away, and after a reboot of the node a          *)
(* successful NodePublishVolume has it back.  Not so for a volume one of   *)
(* whose calls was abandoned and still running when the next one started.  *)
(***************************************************************************)
StagedIsMounted ==
    \A v \in Volumes :
        InUse(v) /\ v \notin lost \cup overlap => mounted[KeyOf[v]] \in SourcesOf(KeyOf[v])

(***************************************************************************)
(* A pod never gets an empty directory for its file system: no target is   *)
(* bound to a global path on which nothing is mounted, although            *)
(* NodePublishVolume checks the path without the lock and the node may     *)
(* have rebooted since the volume was staged.  Only an abandoned call that *)
(* the next one of its volume overtakes can do that.                       *)
(***************************************************************************)
NoHollowTarget == hollow \subseteq overlap

(***************************************************************************)
(* Unless the process died or a config operation failed, a global mount    *)
(* goes when the last of its volumes goes, if the calls of none of them    *)
(* overlapped.                                                             *)
(***************************************************************************)
NoLeakedMount ==
    ~ dirty =>
        \A k \in Keys :
            (\A v \in Volumes : KeyOf[v] = k => kube[v] = "none" /\ v \notin overlap) =>
                mounted[k] = NoSource
=============================================================================
