------------------------------- MODULE CbsTags -------------------------------
(***************************************************************************)
(* The tag loop of the CBS controller (driver/cbs/tags, started by         *)
(* Driver.Run): it copies the tags of the cluster to the disks that the    *)
(* driver has made, and keeps in a file which tags it has copied so that   *)
(* it can tell what changed.  CreateVolume tags a new disk on its own,     *)
(* with what the cluster's tags are while it runs.                         *)
(*                                                                         *)
(* Tags are functions from keys to values; NoTag stands for a missing key. *)
(***************************************************************************)
EXTENDS Naturals, FiniteSets, FiniteSetsExt

CONSTANTS
    Keys, Values, NoTag,
    Disks,
    MaxWorkers,   \* maxWorkerNum
    MaxChanges,   \* bound on the changes of the cluster's tags
    TagsFaults    \* "api" (a request to the cloud fails), "file" (the config cannot
                  \* be written), "create" (disks are made meanwhile), "restart" (the
                  \* container starts anew)

ASSUME TagsAssumption ==
    /\ NoTag \notin Values
    /\ IsFiniteSet(Disks)
    /\ MaxWorkers \in Nat \ {0}
    /\ MaxChanges \in Nat
    /\ TagsFaults \subseteq {"api", "file", "create", "restart"}

Tags == [Keys -> Values \cup {NoTag}]
NoTags == [k \in Keys |-> NoTag]
Workers == 1 .. MaxWorkers

VARIABLES
    cluster,   \* the tags of the cluster
    changes,   \* how often they were changed
    disk,      \* every disk: whether it has a PersistentVolume, and its tags
    config,    \* the file ConfigPath: absent, torn, or JSON that holds tags
    sync,      \* the goroutine that runs UpdateDisksTags
    worker     \* the workers of updateDisksTags

tagsVars == <<cluster, changes, disk, config, sync, worker>>

DiskStates == {"none", "made", "listed"}

NoConfig == [file |-> "absent", tags |-> NoTags]

Sleeping ==
    [pc |-> "sleep", tags |-> NoTags, replace |-> {}, delete |-> {},
     round |-> {}, queue |-> {}, pending |-> {}, errNum |-> 0]

NoWork == [pc |-> "none"]

(***************************************************************************)
(* Types.  The counter of a round stays below the number of its disks.     *)
(***************************************************************************)
TagsTypeOK ==
    /\ cluster \in Tags
    /\ changes \in 0 .. MaxChanges
    /\ disk \in [Disks -> [state : DiskStates, tags : Tags]]
    /\ config \in [file : {"absent", "json", "torn"}, tags : Tags]
    /\ sync \in [pc : {"sleep", "config", "disks", "wait", "record"}, tags : Tags,
                 replace : SUBSET Keys, delete : SUBSET Keys, round : SUBSET Disks,
                 queue : SUBSET Disks, pending : SUBSET Disks, errNum : 0 .. Cardinality(Disks)]
    /\ \A w \in Workers :
          \/ worker[w].pc \in {"none", "idle"}
          \/ worker[w].pc \in {"modify", "read", "write"} /\ worker[w].disk \in sync.pending

TagsInit ==
    /\ cluster = NoTags
    /\ changes = 0
    /\ disk \in [Disks -> [state : {"none", "listed"}, tags : {NoTags}]]
    /\ config = NoConfig
    /\ sync = Sleeping
    /\ worker = [w \in Workers |-> NoWork]

Listed == {d \in Disks : disk[d].state = "listed"}

-----------------------------------------------------------------------------
(* Around the loop.                                                         *)

\* Somebody sets, changes or removes a tag of the cluster.
ClusterChanges(k, v) ==
    /\ changes < MaxChanges
    /\ cluster[k] # v
    /\ cluster' = [cluster EXCEPT ![k] = v]
    /\ changes' = changes + 1
    /\ UNCHANGED <<disk, config, sync, worker>>

\* CreateVolume reads the tags and makes the disk with them; without an answer
\* it makes the disk without them.
CreateVolume(d) ==
    /\ "create" \in TagsFaults
    /\ disk[d].state = "none"
    /\ \E t \in {cluster} \cup (IF "api" \in TagsFaults THEN {NoTags} ELSE {}) :
          disk' = [disk EXCEPT ![d] = [state |-> "made", tags |-> t]]
    /\ UNCHANGED <<cluster, changes, config, sync, worker>>

\* The provisioner makes the PersistentVolume.
VolumeListed(d) ==
    /\ disk[d].state = "made"
    /\ disk' = [disk EXCEPT ![d].state = "listed"]
    /\ UNCHANGED <<cluster, changes, config, sync, worker>>

\* The file is not on a volume, so a new container starts without it.
TagsRestart ==
    /\ "restart" \in TagsFaults
    /\ config' = NoConfig
    /\ sync' = Sleeping
    /\ worker' = [w \in Workers |-> NoWork]
    /\ UNCHANGED <<cluster, changes, disk>>

-----------------------------------------------------------------------------
(* UpdateDisksTags.                                                         *)

Return == sync' = Sleeping /\ worker' = [w \in Workers |-> NoWork]

Fails == "api" \in TagsFaults /\ Return

GetClusterTags ==
    /\ sync.pc = "sleep"
    /\ \/ sync' = [sync EXCEPT !.pc = "config", !.tags = cluster] /\ UNCHANGED worker
       \/ Fails
    /\ UNCHANGED <<cluster, changes, disk, config>>

CompareTags(new, old) ==
    [replace |-> {k \in Keys : new[k] # NoTag /\ old[k] # new[k]},
     delete  |-> {k \in Keys : new[k] = NoTag /\ old[k] # NoTag}]

\* UpdateConfigTags: ioutil.WriteFile fails before or after it truncated the file.
Write(tags) ==
    \/ config' = [file |-> "json", tags |-> tags]
    \/ "file" \in TagsFaults /\ config' = [file |-> "torn", tags |-> NoTags]
    \/ "file" \in TagsFaults /\ UNCHANGED config

\* GetConfigTags makes an empty file if there is none, and fails on a torn one.
GetConfigTags ==
    /\ sync.pc = "config"
    /\ \/ config.file = "absent" /\ Write(NoTags)
       \/ config.file # "absent" /\ UNCHANGED config
    /\ LET need == CompareTags(sync.tags, config.tags)
       IN  \/ /\ config'.file # "json" \/ need.replace \cup need.delete = {}
              /\ Return
           \/ /\ config'.file = "json"
              /\ need.replace \cup need.delete # {}
              /\ sync' = [sync EXCEPT !.pc = "disks", !.replace = need.replace, !.delete = need.delete]
              /\ UNCHANGED worker
    /\ UNCHANGED <<cluster, changes, disk>>

\* GetDisks and GetOwnerUin, then the workers start and the disks are queued.
updateDisksTags ==
    /\ sync.pc = "disks"
    /\ \/ /\ sync' = [sync EXCEPT !.pc = "wait", !.round = Listed, !.queue = Listed,
                                  !.pending = Listed]
          /\ worker' = [w \in Workers |-> IF w <= Min({MaxWorkers, Cardinality(Listed)})
                                          THEN [pc |-> "idle"] ELSE NoWork]
       \/ Fails
    /\ UNCHANGED <<cluster, changes, disk, config>>

\* diskId := <-ch; the disks were queued in the random order of a Go map.
Take(w) ==
    /\ worker[w].pc = "idle"
    /\ \E d \in sync.queue :
          /\ sync' = [sync EXCEPT !.queue = @ \ {d}]
          /\ worker' = [worker EXCEPT ![w] = [pc |-> "modify", disk |-> d]]
    /\ UNCHANGED <<cluster, changes, disk, config>>

\* wg.Done
Done(w) == sync' = [sync EXCEPT !.pending = @ \ {worker[w].disk}]

\* Mutant: wg.Done comes before the failure is counted.
MutModifyCbsTags(w) ==
    /\ worker[w].pc = "modify"
    /\ Done(w)
    /\ \/ /\ disk' = [disk EXCEPT ![worker[w].disk].tags =
                        [k \in Keys |-> IF k \in sync.replace \cup sync.delete
                                        THEN sync.tags[k] ELSE @[k]]]
          /\ worker' = [worker EXCEPT ![w] = [pc |-> "idle"]]
       \/ /\ "api" \in TagsFaults
          /\ worker' = [worker EXCEPT ![w].pc = "read"]
          /\ UNCHANGED disk
    /\ UNCHANGED <<cluster, changes, config>>

ModifyCbsTags(w) ==
    /\ worker[w].pc = "modify"
    /\ \/ /\ disk' = [disk EXCEPT ![worker[w].disk].tags =
                        [k \in Keys |-> IF k \in sync.replace \cup sync.delete
                                        THEN sync.tags[k] ELSE @[k]]]
          /\ Done(w)
          /\ worker' = [worker EXCEPT ![w] = [pc |-> "idle"]]
       \/ /\ "api" \in TagsFaults
          /\ worker' = [worker EXCEPT ![w].pc = "read"]
          /\ UNCHANGED <<disk, sync>>
    /\ UNCHANGED <<cluster, changes, config>>

\* *errNum++ of several workers without a lock: the counter is read ...
ReadErrNum(w) ==
    /\ worker[w].pc = "read"
    /\ worker' = [worker EXCEPT ![w] = [pc |-> "write", disk |-> @.disk, seen |-> sync.errNum]]
    /\ UNCHANGED <<cluster, changes, disk, config, sync>>

\* Mutant: a worker that counts a failure forgets wg.Done.
MutWriteErrNum(w) ==
    /\ worker[w].pc = "write"
    /\ sync' = [sync EXCEPT !.errNum = worker[w].seen + 1]
    /\ worker' = [worker EXCEPT ![w] = [pc |-> "idle"]]
    /\ UNCHANGED <<cluster, changes, disk, config>>

\* ... and written back one higher, which may undo the count of another.
WriteErrNum(w) ==
    /\ worker[w].pc = "write"
    /\ sync' = [sync EXCEPT !.errNum = worker[w].seen + 1, !.pending = @ \ {worker[w].disk}]
    /\ worker' = [worker EXCEPT ![w] = [pc |-> "idle"]]
    /\ UNCHANGED <<cluster, changes, disk, config>>

\* wg.Wait
WaitForWorkers ==
    /\ sync.pc = "wait"
    /\ sync.pending = {}
    /\ \/ sync.errNum # 0 /\ Return
       \/ /\ sync.errNum = 0
          /\ sync' = [sync EXCEPT !.pc = "record"]
          /\ worker' = [w \in Workers |-> NoWork]
    /\ UNCHANGED <<cluster, changes, disk, config>>

UpdateConfigTags ==
    /\ sync.pc = "record"
    /\ Write(sync.tags)
    /\ Return
    /\ UNCHANGED <<cluster, changes, disk>>

-----------------------------------------------------------------------------
Loop == GetClusterTags \/ GetConfigTags \/ updateDisksTags \/ WaitForWorkers \/ UpdateConfigTags

Work(w) == Take(w) \/ ModifyCbsTags(w) \/ ReadErrNum(w) \/ WriteErrNum(w)

TagsNext ==
    \/ \E k \in Keys, v \in Values \cup {NoTag} : ClusterChanges(k, v)
    \/ \E d \in Disks : CreateVolume(d) \/ VolumeListed(d)
    \/ TagsRestart
    \/ Loop
    \/ \E w \in Workers : Work(w)

TagsSpec == TagsInit /\ [][TagsNext]_tagsVars

\* The loop never ends and its goroutines are scheduled.
TagsFairSpec == TagsSpec /\ WF_tagsVars(Loop) /\ \A w \in Workers : WF_tagsVars(Work(w))

-----------------------------------------------------------------------------
(* Properties.                                                              *)

(***************************************************************************)
(* The file records only rounds that reached every disk they started with: *)
(* a failure that one worker has seen is never lost, although the workers  *)
(* count failures without a lock.                                          *)
(***************************************************************************)
RecordedRoundIsComplete ==
    sync.pc = "record" =>
        \A d \in sync.round, k \in sync.replace \cup sync.delete : disk[d].tags[k] = sync.tags[k]

(***************************************************************************)
(* Every round of UpdateDisksTags ends, whichever of its requests fail:    *)
(* wg.Wait returns, as there are workers enough to empty the channel and   *)
(* each of them does its wg.Done, so that the loop lives as long as the    *)
(* controller.                                                             *)
(***************************************************************************)
RoundsEnd == sync.pc # "sleep" ~> sync.pc = "sleep"
=============================================================================
