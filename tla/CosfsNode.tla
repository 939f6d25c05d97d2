------------------------------ MODULE CosfsNode ------------------------------
(***************************************************************************)
(* The COS node server (driver/cosfs) and the launcher it talks to over a  *)
(* socket (cmd/cosfs/launcher).  NodePublishVolume lets the launcher make  *)
(* the target directory, writes credentials and options to files in a      *)
(* directory of the pod, and lets the launcher run cosfs or goosefs-lite,  *)
(* which read the files; after a successful mount the launcher removes the *)
(* directory.  Driver, launcher and kubelet start anew independently.      *)
(***************************************************************************)
EXTENDS Naturals, Sequences

CONSTANTS
    Pods, Targets, Volumes,
    PodOf,        \* the pod of a target path (getPodUidFromTargetPath)
    Claims,       \* which volumes may be the ones to publish at the targets
    Options,      \* per volume: mounter, bucket, secret and goosefs_lite properties
    Keys,         \* the properties that goosefs_lite may name
    Calls, Jobs,  \* slots for the calls of the driver and the requests of the launcher
    None,
    Faults        \* "crash" (a file system process ends), "io" (a file cannot be
                  \* written, a command fails), "driver" and "launcher" (start anew),
                  \* "kubelet" (starts anew and forgets what it did), each once

ASSUME ConstantsAssumption ==
    /\ PodOf \in [Targets -> Pods]
    /\ Claims \subseteq [Targets -> Volumes]
    /\ DOMAIN Options = Volumes
    /\ \A v \in Volumes : Options[v].mounter \in {"", "cosfs", "goosefs-lite", "unsupported"}
    /\ \A v \in Volumes : v # "empty" /\ Options[v].secret \notin {"none", "empty"}
    /\ None \notin Volumes \cup Targets \cup Calls \cup Jobs
    /\ Faults \subseteq {"crash", "io", "driver", "launcher", "kubelet"}

VARIABLES
    dir,      \* the target directories that exist
    mnt,      \* per target the file systems on it, the visible one first
    passwd,   \* per pod the cosfs password files: "none", "empty" or the secret
    site,     \* per pod core-site.xml: None, "empty" or the volume it is for
    lite,     \* per pod goosefs-lite.properties: None or the properties in it
    viper,    \* the properties in the memory of the driver
    call,     \* the running calls of the driver
    job,      \* the running requests of the launcher
    kubelet,  \* per target: pod wanted, volume, call in flight, last answer
    restarted \* who has started anew: the driver, the launcher, kubelet

files == <<passwd, site, lite, viper>>
vars == <<dir, mnt, passwd, site, lite, viper, call, job, kubelet, restarted>>

\* parseCosfsOptions: cosfs is the default.
Mounter(v) == IF Options[v].mounter = "" THEN "cosfs" ELSE Options[v].mounter

\* Mutant: the name does not depend on the content.
MutPasswdName(v) == <<Options[v].bucket>>

\* The name of a password file: the bucket and the SHA-256 of its content.
PasswdName(v) == <<Options[v].bucket, Options[v].secret>>

PasswdNames == {PasswdName(v) : v \in Volumes}
Secrets == {Options[v].secret : v \in Volumes}

Unset == [k \in Keys |-> None]
NoPasswd == [f \in PasswdNames |-> "none"]
Idle == [pc |-> "idle", target |-> None]
NoJob == [pc |-> "done", target |-> None, for |-> None]

\* The volume that is published at target t.
VolumeOf(t) == kubelet[t].volume

Mounted(t) == mnt[t] # <<>>

\* "transport endpoint is not connected"
Dead(t) == Mounted(t) /\ ~Head(mnt[t]).up

(***************************************************************************)
(* Types.  A call waits for a request of its own, and a mount point is a   *)
(* directory.                                                              *)
(***************************************************************************)
TypeOK ==
    /\ dir \subseteq Targets
    /\ \A t \in Targets : Mounted(t) => t \in dir
    /\ passwd \in [Pods -> [PasswdNames -> Secrets \cup {"none", "empty"}]]
    /\ \A p \in Pods : site[p] \in Volumes \cup {"empty", None}
    /\ \A c \in Calls :
          /\ call[c].pc \in {"idle", "stat", "open", "write", "viper", "save", "launch", "wait"}
          /\ call[c].pc = "wait" => \E j \in Jobs : job[j].for = c
    /\ \A j \in Jobs :
          /\ job[j].pc \in {"done", "create", "mount", "clean", "check", "umount"}
          /\ job[j].for # None => call[job[j].for] = [pc |-> "wait", target |-> job[j].target]
    /\ \A t \in Targets : kubelet[t].call # None => call[kubelet[t].call].target = t
    /\ restarted \subseteq Faults

Init ==
    /\ dir = {}
    /\ mnt = [t \in Targets |-> <<>>]
    /\ passwd = [p \in Pods |-> NoPasswd]
    /\ site = [p \in Pods |-> None]
    /\ lite = [p \in Pods |-> None]
    /\ viper = Unset
    /\ call = [c \in Calls |-> Idle]
    /\ job = [j \in Jobs |-> NoJob]
    /\ \E claim \in Claims :
          kubelet = [t \in Targets |-> [pod |-> TRUE, volume |-> claim[t], call |-> None,
                                         answer |-> "none", tried |-> FALSE]]
    /\ restarted = {}

-----------------------------------------------------------------------------
(* Calls, and requests to the launcher.                                     *)

Goto(c, pc) == call' = [call EXCEPT ![c].pc = pc] /\ UNCHANGED kubelet

\* An answer that nobody waits for is lost.
Reply(c, answer) ==
    LET t == call[c].target
    IN  /\ call' = [call EXCEPT ![c] = Idle]
        /\ kubelet' = IF kubelet[t].call = c
                      THEN [kubelet EXCEPT ![t].call = None, ![t].answer = answer] ELSE kubelet

\* launcherClient.Post
Post(c, j, t, pc) ==
    /\ job[j].pc = "done"
    /\ job' = [job EXCEPT ![j] = [pc |-> pc, target |-> t, for |-> c]]

\* The launcher answers; a driver that started anew does not wait any more.
Respond(j, answer) ==
    /\ job' = [job EXCEPT ![j] = NoJob]
    /\ \/ job[j].for # None /\ Reply(job[j].for, answer)
       \/ job[j].for = None /\ UNCHANGED <<call, kubelet>>

\* The answer upon which the driver goes on to write the files of the volume.
Created(j) ==
    /\ job' = [job EXCEPT ![j] = NoJob]
    /\ \/ job[j].for # None /\ Goto(job[j].for, "stat")
       \/ job[j].for = None /\ UNCHANGED <<call, kubelet>>

Request(c, t, tried) ==
    /\ call[c].pc = "idle"
    /\ kubelet[t].call = None
    /\ call' = [call EXCEPT ![c] = [pc |-> "wait", target |-> t]]
    /\ kubelet' = [kubelet EXCEPT ![t].call = c, ![t].answer = "none", ![t].tried = tried]

-----------------------------------------------------------------------------
(* NodePublishVolume.                                                       *)

\* validateCosfsOptions refuses other mounters, which changes nothing.
NodePublishVolume(c, j, t) ==
    /\ kubelet[t].pod /\ kubelet[t].answer # "published"
    /\ Mounter(VolumeOf(t)) \in {"cosfs", "goosefs-lite"}
    /\ Request(c, t, TRUE)
    /\ Post(c, j, t, "create")
    /\ UNCHANGED <<dir, mnt, files, restarted>>

createHandler(j) ==
    LET t == job[j].target
    IN  /\ job[j].pc = "create"
        /\ \/ /\ dir' = dir \cup {t}
              /\ \/ Dead(t) /\ Respond(j, "none")
                 \/ Mounted(t) /\ ~Dead(t) /\ Respond(j, "published")
                 \/ ~Mounted(t) /\ Created(j)
           \/ "io" \in Faults /\ Respond(j, "none") /\ UNCHANGED dir
        /\ UNCHANGED <<mnt, files, restarted>>

\* The steps from here to the mount request are the driver's.
Driver(c, mounter, pc) == call[c].pc = pc /\ Mounter(VolumeOf(call[c].target)) = mounter

\* Another call has the same file open, perhaps a new one of the same name: the
\* launcher may have removed it in between.
SameFile(v, w) ==
    /\ Mounter(v) = Mounter(w)
    /\ Mounter(v) = "cosfs" => PasswdName(v) = PasswdName(w)

OpenedAnew(c) ==
    \E d \in Calls \ {c} :
        /\ call[d].pc = "write"
        /\ PodOf[call[d].target] = PodOf[call[c].target]
        /\ SameFile(VolumeOf(call[d].target), VolumeOf(call[c].target))

\* os.Stat(passwdFilename): an existing file is used as it is.
StatPasswd(c) ==
    LET t == call[c].target
    IN  /\ Driver(c, "cosfs", "stat")
        /\ \/ passwd[PodOf[t]][PasswdName(VolumeOf(t))] = "none" /\ Goto(c, "open")
           \/ passwd[PodOf[t]][PasswdName(VolumeOf(t))] # "none" /\ Goto(c, "launch")
        /\ UNCHANGED <<dir, mnt, files, job, restarted>>

\* WriteFile: the directory and an empty file ...
OpenPasswd(c) ==
    LET t == call[c].target
    IN  /\ Driver(c, "cosfs", "open")
        /\ \/ passwd' = [passwd EXCEPT ![PodOf[t]][PasswdName(VolumeOf(t))] = "empty"] /\ Goto(c, "write")
           \/ "io" \in Faults /\ Reply(c, "none") /\ UNCHANGED passwd
        /\ UNCHANGED <<dir, mnt, site, lite, viper, job, restarted>>

\* ... and its content, which goes nowhere if the launcher has removed the file.
WritePasswd(c) ==
    LET t == call[c].target
    IN  /\ Driver(c, "cosfs", "write")
        /\ \/ /\ passwd' = [passwd EXCEPT ![PodOf[t]][PasswdName(VolumeOf(t))] =
                               IF @ = "none" THEN "none" ELSE Options[VolumeOf(t)].secret]
              /\ Goto(c, "launch")
           \/ OpenedAnew(c) /\ Goto(c, "launch") /\ UNCHANGED passwd
           \/ "io" \in Faults /\ Reply(c, "none") /\ UNCHANGED passwd
        /\ UNCHANGED <<dir, mnt, site, lite, viper, job, restarted>>

\* createCoreSiteXml up to os.OpenFile(O_TRUNC).
OpenCoreSite(c) ==
    /\ Driver(c, "goosefs-lite", "stat")
    /\ \/ site' = [site EXCEPT ![PodOf[call[c].target]] = "empty"] /\ Goto(c, "write")
       \/ "io" \in Faults /\ Reply(c, "none") /\ UNCHANGED site
    /\ UNCHANGED <<dir, mnt, passwd, lite, viper, job, restarted>>

WriteCoreSite(c) ==
    LET t == call[c].target
    IN  /\ Driver(c, "goosefs-lite", "write")
        /\ \/ /\ site' = [site EXCEPT ![PodOf[t]] = IF @ = None THEN None ELSE VolumeOf(t)]
              /\ Goto(c, "viper")
           \/ OpenedAnew(c) /\ Goto(c, "viper") /\ UNCHANGED site
           \/ "io" \in Faults /\ Reply(c, "none") /\ UNCHANGED site
        /\ UNCHANGED <<dir, mnt, passwd, lite, viper, job, restarted>>

\* viper.Set for every property of the volume.
SetProperties(c) ==
    LET own == Options[VolumeOf(call[c].target)].properties
    IN  /\ Driver(c, "goosefs-lite", "viper")
        /\ viper' = [k \in Keys |-> IF own[k] = None THEN viper[k] ELSE own[k]]
        /\ Goto(c, "save")
        /\ UNCHANGED <<dir, mnt, passwd, site, lite, job, restarted>>

\* viper.WriteConfigAs
WriteProperties(c) ==
    /\ Driver(c, "goosefs-lite", "save")
    /\ \/ lite' = [lite EXCEPT ![PodOf[call[c].target]] = viper] /\ Goto(c, "launch")
       \/ "io" \in Faults /\ Reply(c, "none") /\ UNCHANGED lite
    /\ UNCHANGED <<dir, mnt, passwd, site, viper, job, restarted>>

\* createCosfsMountCmd or createGoosefsLiteMountCmd, and mount
Launch(c, j) ==
    /\ call[c].pc = "launch"
    /\ Post(c, j, call[c].target, "mount")
    /\ Goto(c, "wait")
    /\ UNCHANGED <<dir, mnt, files, restarted>>

-----------------------------------------------------------------------------
(* mountHandler and the file systems.                                       *)

\* cosfs needs the password, goosefs-lite both files; neither mounts on a broken
\* mount point, and goosefs-lite not on one of its own.
Usable(t) ==
    /\ t \in dir /\ ~Dead(t)
    /\ IF Mounter(VolumeOf(t)) = "cosfs"
       THEN passwd[PodOf[t]][PasswdName(VolumeOf(t))] \in Secrets
       ELSE site[PodOf[t]] \in Volumes /\ lite[PodOf[t]] # None /\ ~Mounted(t)

\* What the file system found in the files.
Layer(t) ==
    IF Mounter(VolumeOf(t)) = "cosfs"
    THEN [secret |-> passwd[PodOf[t]][PasswdName(VolumeOf(t))], properties |-> Unset, up |-> TRUE]
    ELSE [secret |-> Options[site[PodOf[t]]].secret, properties |-> lite[PodOf[t]], up |-> TRUE]

\* execCmd
MountCommand(j) ==
    LET t == job[j].target
    IN  /\ job[j].pc = "mount"
        /\ \/ /\ Usable(t)
              /\ mnt' = [mnt EXCEPT ![t] = <<Layer(t)>> \o @]
              /\ job' = [job EXCEPT ![j].pc = "clean"]
              /\ UNCHANGED <<call, kubelet>>
           \/ /\ ~Usable(t) \/ "io" \in Faults
              /\ Respond(j, "none") /\ UNCHANGED mnt
        /\ UNCHANGED <<dir, files, restarted>>

\* os.RemoveAll of the directory of the pod, other volumes' files included.
RemoveConfig(j) ==
    LET t == job[j].target
        p == PodOf[t]
    IN  /\ job[j].pc = "clean"
        /\ \/ /\ Mounter(VolumeOf(t)) = "cosfs"
              /\ passwd' = [passwd EXCEPT ![p] = NoPasswd] /\ UNCHANGED <<site, lite>>
           \/ /\ Mounter(VolumeOf(t)) = "goosefs-lite"
              /\ site' = [site EXCEPT ![p] = None] /\ lite' = [lite EXCEPT ![p] = None]
              /\ UNCHANGED passwd
           \/ "io" \in Faults /\ UNCHANGED <<passwd, site, lite>>
        /\ Respond(j, "published")
        /\ UNCHANGED <<dir, mnt, viper, restarted>>

FuseCrash(t) ==
    /\ "crash" \in Faults
    /\ Mounted(t) /\ ~Dead(t)
    /\ mnt' = [mnt EXCEPT ![t][1].up = FALSE]
    /\ UNCHANGED <<dir, files, call, job, kubelet, restarted>>

-----------------------------------------------------------------------------
(* NodeUnpublishVolume and umountHandler.                                   *)

NodeUnpublishVolume(c, j, t) ==
    /\ ~kubelet[t].pod /\ kubelet[t].tried
    /\ kubelet[t].answer # "unpublished"
    /\ Request(c, t, TRUE)
    /\ Post(c, j, t, "check")
    /\ UNCHANGED <<dir, mnt, files, restarted>>

\* Mutant: a broken mount point is taken for none.
MutUmountCheck(j) ==
    LET t == job[j].target
    IN  /\ job[j].pc = "check"
        /\ \/ (~Mounted(t) \/ Dead(t)) /\ Respond(j, "unpublished")
           \/ /\ Mounted(t) /\ ~Dead(t)
              /\ job' = [job EXCEPT ![j].pc = "umount"] /\ UNCHANGED <<call, kubelet>>
        /\ UNCHANGED <<dir, mnt, files, restarted>>

\* A missing directory is an error, a broken mount point is one to unmount.
UmountCheck(j) ==
    LET t == job[j].target
    IN  /\ job[j].pc = "check"
        /\ \/ t \notin dir /\ Respond(j, "none")
           \/ t \in dir /\ ~Mounted(t) /\ Respond(j, "unpublished")
           \/ /\ Mounted(t)
              /\ job' = [job EXCEPT ![j].pc = "umount"] /\ UNCHANGED <<call, kubelet>>
        /\ UNCHANGED <<dir, mnt, files, restarted>>

\* Mutant: umount is followed by the removal of the directory, mounted or not.
MutUmountCommand(j) ==
    LET t == job[j].target
    IN  /\ job[j].pc = "umount"
        /\ mnt' = IF Mounted(t) THEN [mnt EXCEPT ![t] = Tail(@)] ELSE mnt
        /\ dir' = dir \ {t}
        /\ Respond(j, "unpublished")
        /\ UNCHANGED <<files, restarted>>

\* umount -l takes the visible layer.
UmountCommand(j) ==
    LET t == job[j].target
    IN  /\ job[j].pc = "umount"
        /\ \/ Mounted(t) /\ mnt' = [mnt EXCEPT ![t] = Tail(@)] /\ Respond(j, "unpublished")
           \/ (~Mounted(t) \/ "io" \in Faults) /\ Respond(j, "none") /\ UNCHANGED mnt
        /\ UNCHANGED <<dir, files, restarted>>

-----------------------------------------------------------------------------
(* kubelet and restarts.                                                     *)

\* The pod is deleted; its directory has the pod's UID and is never wanted again.
PodDeleted(t) ==
    /\ kubelet[t].pod /\ kubelet[t].call = None
    /\ kubelet' = [kubelet EXCEPT ![t].pod = FALSE]
    /\ UNCHANGED <<dir, mnt, files, call, job, restarted>>

\* After NodeUnpublishVolume kubelet removes the directory.
RemoveDir(t) ==
    /\ kubelet[t].answer = "unpublished"
    /\ t \in dir /\ ~Mounted(t)
    /\ dir' = dir \ {t}
    /\ UNCHANGED <<mnt, files, call, job, kubelet, restarted>>

\* kubelet starts anew and repeats what it has no record of; the driver goes on.
KubeletRestart ==
    /\ "kubelet" \in Faults \ restarted
    /\ restarted' = restarted \cup {"kubelet"}
    /\ kubelet' = [t \in Targets |-> [kubelet[t] EXCEPT !.call = None, !.answer = "none"]]
    /\ UNCHANGED <<dir, mnt, files, call, job>>

\* The files are on the host, the properties of viper are not; requests go on in
\* the launcher.
DriverRestart ==
    /\ "driver" \in Faults \ restarted
    /\ restarted' = restarted \cup {"driver"}
    /\ viper' = Unset
    /\ call' = [c \in Calls |-> Idle]
    /\ job' = [j \in Jobs |-> [job[j] EXCEPT !.for = None]]
    /\ kubelet' = [t \in Targets |-> [kubelet[t] EXCEPT !.call = None]]
    /\ UNCHANGED <<dir, mnt, passwd, site, lite>>

\* The file systems run in the container of the launcher; calls that wait fail.
LauncherRestart ==
    /\ "launcher" \in Faults \ restarted
    /\ restarted' = restarted \cup {"launcher"}
    /\ mnt' = [t \in Targets |-> [i \in DOMAIN mnt[t] |-> [mnt[t][i] EXCEPT !.up = FALSE]]]
    /\ job' = [j \in Jobs |-> NoJob]
    /\ call' = [c \in Calls |-> IF call[c].pc = "wait" THEN Idle ELSE call[c]]
    /\ kubelet' = [t \in Targets |->
                     IF kubelet[t].call # None /\ call[kubelet[t].call].pc = "wait"
                     THEN [kubelet[t] EXCEPT !.call = None, !.answer = "none"] ELSE kubelet[t]]
    /\ UNCHANGED <<dir, files>>

-----------------------------------------------------------------------------
Step(c) ==
    \/ StatPasswd(c) \/ OpenPasswd(c) \/ WritePasswd(c)
    \/ OpenCoreSite(c) \/ WriteCoreSite(c) \/ SetProperties(c) \/ WriteProperties(c)
    \/ \E j \in Jobs : Launch(c, j)

Serve(j) ==
    \/ createHandler(j) \/ MountCommand(j) \/ RemoveConfig(j) \/ UmountCheck(j) \/ UmountCommand(j)

Publish(t) == \E c \in Calls, j \in Jobs : NodePublishVolume(c, j, t)
Unpublish(t) == \E c \in Calls, j \in Jobs : NodeUnpublishVolume(c, j, t)

Next ==
    \/ \E t \in Targets :
          \/ Publish(t) \/ Unpublish(t)
          \/ PodDeleted(t) \/ RemoveDir(t) \/ FuseCrash(t)
    \/ \E c \in Calls : Step(c)
    \/ \E j \in Jobs : Serve(j)
    \/ KubeletRestart \/ DriverRestart \/ LauncherRestart

Spec == Init /\ [][Next]_vars

-----------------------------------------------------------------------------
(* Properties.                                                              *)

\* The answer that counts: when kubelet or the driver started anew, a request that was
\* left behind in the launcher may mount after an unpublish.
Told(t) ==
    IF kubelet[t].answer = "unpublished" /\ ~(restarted \subseteq {"launcher"}) THEN "none"
    ELSE kubelet[t].answer

Pod == INSTANCE PodMount WITH
    wanted  <- {t \in Targets : kubelet[t].pod},
    mounted <- {t \in Targets : Mounted(t)},
    answer  <- [t \in Targets |-> Told(t)]

(***************************************************************************)
(* Driver and launcher together do what kubelet counts on, whoever starts  *)
(* anew in between: NodePublishVolume is answered with success for what is *)
(* mounted, umountHandler takes no mount from a pod that is not deleted,   *)
(* not even for a request that was left behind, and after a successful     *)
(* NodeUnpublishVolume nothing is or gets mounted at the target, also when *)
(* its file system process had died, unless kubelet or the driver started  *)
(* anew.                                                                   *)
(***************************************************************************)
ImplementsPodMount == Pod!Spec

(***************************************************************************)
(* A volume is mounted with the secret of its own PersistentVolume         *)
(* ("Extract the tmp credential info ... and store to a unique tmp file"), *)
(* although other volumes write to and remove the same directory.          *)
(***************************************************************************)
OwnSecret ==
    \A t \in Targets : \A i \in DOMAIN mnt[t] : mnt[t][i].secret = Options[VolumeOf(t)].secret
=============================================================================
