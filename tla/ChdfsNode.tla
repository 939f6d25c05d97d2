------------------------------ MODULE ChdfsNode ------------------------------
(***************************************************************************)
(* The CHDFS node server (driver/chdfs): NodePublishVolume writes a config *)
(* file, starts a chdfs-fuse process in a goroutine and looks every second *)
(* for 40 seconds whether the target became a mount point;                 *)
(* NodeUnpublishVolume unmounts it.  The two processes share nothing but   *)
(* the file and the mount point.                                           *)
(***************************************************************************)
EXTENDS Naturals, Sequences

CONSTANTS
    Targets,     \* target paths, each of one pod and one volume
    Volumes,
    Claims,      \* which volumes may be the ones to publish at the targets
    Options,     \* the volume context of every volume
    Calls,       \* slots for the calls that run at a time
    Procs,       \* slots for the chdfs-fuse processes that live at a time
    None,
    Faults       \* the sets of faults that a behaviour may have: "slow" (chdfs-fuse
                 \* needs more than 40 s), "crash" (it ends by itself), "io" (writing
                 \* a file or unmounting fails), "abandon" (kubelet gives up a call
                 \* that goes on), "restart" (of the driver)

\* mountPoint and subDir are the parts of the url and of the arguments that
\* reach the name of the config file; a subDir is a sequence of characters.
ASSUME ConstantsAssumption ==
    /\ Claims \subseteq [Targets -> Volumes]
    /\ DOMAIN Options = Volumes
    /\ \A v \in Volumes : /\ Options[v].url \in BOOLEAN
                          /\ Options[v].args \in {"valid", "invalid"}
                          /\ \A i \in DOMAIN Options[v].subDir : Options[v].subDir[i] \in STRING
    /\ None \notin Volumes \cup Targets \cup Calls \cup Procs
    /\ "empty" \notin Volumes
    /\ Faults \subseteq SUBSET {"slow", "crash", "io", "abandon", "restart"}

VARIABLES
    dir,     \* the target directories that exist
    mnt,     \* per target the file systems on it, the visible one first
    file,    \* the config files: the volume that was written to it, or "empty"
    proc,    \* the chdfs-fuse processes
    call,    \* the running calls
    kubelet, \* per target: whether the pod is wanted, the volume, the call in
             \* flight, the last answer
    late,    \* history: targets at which a call went on that kubelet gave up, or
             \* a chdfs-fuse process that its call gave up
    crossed, \* history: targets one of whose publishes overlapped, between its
             \* start and its chdfs-fuse reading the config file, with one of
             \* another volume that has the same config file
    faults   \* the faults that may happen, which never change

vars == <<dir, mnt, file, proc, call, kubelet, late, crossed, faults>>

\* strings.ReplaceAll(MountSubDir, "/", "-")
ConfigName(v) ==
    LET sub == Options[v].subDir
    IN  IF sub \in {<<>>, <<"/">>} THEN <<Options[v].mountPoint>>
        ELSE <<Options[v].mountPoint>> \o [i \in DOMAIN sub |-> IF sub[i] = "/" THEN "-" ELSE sub[i]]

Files == {ConfigName(v) : v \in Volumes}

Idle == [pc |-> "idle", target |-> None]
Exited == [pc |-> "exited", target |-> None, reads |-> None, volume |-> None]

\* The volume that is published at target t.
VolumeOf(t) == kubelet[t].volume

Mounted(t) == mnt[t] # <<>>

\* "transport endpoint is not connected": the process of the visible layer died.
Dead(t) == Mounted(t) /\ Head(mnt[t]).by = None

\* What the last call was answered; an error tells kubelet nothing.
Answers == {"none", "published", "unpublished"}

(***************************************************************************)
(* Types.  A live layer belongs to a process that serves this target, and  *)
(* no process serves two layers.                                           *)
(***************************************************************************)
TypeOK ==
    /\ dir \subseteq Targets
    /\ \A t \in Targets :
          /\ Mounted(t) => t \in dir
          /\ \A i, j \in DOMAIN mnt[t] :
                /\ mnt[t][i].volume \in Volumes
                /\ mnt[t][i].by # None =>
                      /\ proc[mnt[t][i].by].pc = "serves" /\ proc[mnt[t][i].by].target = t
                      /\ mnt[t][j].by = mnt[t][i].by => i = j
    /\ file \in [Files -> Volumes \cup {"empty", None}]
    /\ proc \in [Procs -> [pc : {"exited", "starts", "mounts", "serves"}, target : Targets \cup {None},
                           reads : Files \cup {None}, volume : Volumes \cup {None}]]
    /\ call \in [Calls -> [pc : {"idle", "create", "config", "write", "exec", "poll", "check", "umount"},
                           target : Targets \cup {None}]]
    /\ kubelet \in [Targets -> [pod : BOOLEAN, volume : Volumes, call : Calls \cup {None},
                                answer : Answers]]
    /\ late \subseteq Targets
    /\ crossed \subseteq Targets
    /\ faults \in Faults

Init ==
    /\ dir = {}
    /\ mnt = [t \in Targets |-> <<>>]
    /\ file = [f \in Files |-> None]
    /\ proc = [p \in Procs |-> Exited]
    /\ call = [c \in Calls |-> Idle]
    /\ late = {}
    /\ crossed = {}
    /\ faults \in Faults
    /\ \E claim \in Claims :
          kubelet = [t \in Targets |-> [pod |-> TRUE, volume |-> claim[t], call |-> None,
                                         answer |-> "none"]]

-----------------------------------------------------------------------------
(* kubelet: one call at a time for a target, again until it succeeds.       *)

Request(c, t, pc) ==
    /\ call[c].pc = "idle"
    /\ kubelet[t].call = None
    /\ call' = [call EXCEPT ![c] = [pc |-> pc, target |-> t]]
    /\ kubelet' = [kubelet EXCEPT ![t].call = c, ![t].answer = "none"]

\* An answer that nobody waits for is lost.
Reply(c, answer) ==
    LET t == call[c].target
    IN  /\ call' = [call EXCEPT ![c] = Idle]
        /\ kubelet' = IF kubelet[t].call = c
                      THEN [kubelet EXCEPT ![t].call = None, ![t].answer = answer] ELSE kubelet

Goto(c, pc) == call' = [call EXCEPT ![c].pc = pc] /\ UNCHANGED kubelet

\* The pod is deleted; its directory has the pod's UID and is never wanted again.
PodDeleted(t) ==
    /\ kubelet[t].pod /\ kubelet[t].call = None
    /\ kubelet' = [kubelet EXCEPT ![t].pod = FALSE]
    /\ UNCHANGED <<dir, mnt, file, proc, call, late, crossed, faults>>

\* kubelet starts anew: it forgets the call, the handler does not notice.
Abandon(t) ==
    /\ "abandon" \in faults
    /\ kubelet[t].call # None
    /\ kubelet' = [kubelet EXCEPT ![t].call = None]
    /\ late' = late \cup {t}
    /\ UNCHANGED <<dir, mnt, file, proc, call, crossed, faults>>

\* After NodeUnpublishVolume kubelet removes the directory.
RemoveDir(t) ==
    /\ kubelet[t].answer = "unpublished"
    /\ t \in dir /\ ~Mounted(t)
    /\ dir' = dir \ {t}
    /\ UNCHANGED <<mnt, file, proc, call, kubelet, late, crossed, faults>>

-----------------------------------------------------------------------------
(* NodePublishVolume.                                                       *)

\* A publish of target t has not come to where chdfs-fuse has read its config.
Configuring(t) ==
    \/ \E c \in Calls : call[c].target = t /\ call[c].pc \in {"create", "config", "write", "exec"}
    \/ \E p \in Procs : proc[p].target = t /\ proc[p].pc = "starts"

\* The targets of other volumes whose publishes are using the config file of t.
\* The name is made of the url and the sub-directory, and not of the other
\* arguments that are written to the file.
Rivals(t) ==
    {u \in Targets : /\ Configuring(u)
                     /\ VolumeOf(u) # VolumeOf(t)
                     /\ ConfigName(VolumeOf(u)) = ConfigName(VolumeOf(t))}

\* A request without a url is refused, which changes nothing.
NodePublishVolume(c, t) ==
    /\ kubelet[t].pod /\ kubelet[t].answer # "published"
    /\ Options[VolumeOf(t)].url
    /\ Request(c, t, "create")
    /\ crossed' = IF Rivals(t) = {} THEN crossed ELSE crossed \cup Rivals(t) \cup {t}
    /\ UNCHANGED <<dir, mnt, file, proc, late, faults>>

createMountPoint(c) ==
    LET t == call[c].target
    IN  /\ call[c].pc = "create"
        /\ \/ /\ dir' = dir \cup {t}
              /\ \/ Dead(t) /\ Reply(c, "none")
                 \/ Mounted(t) /\ ~Dead(t) /\ Reply(c, "published")
                 \/ ~Mounted(t) /\ Goto(c, "config")
           \/ "io" \in faults /\ Reply(c, "none") /\ UNCHANGED dir
        /\ UNCHANGED <<mnt, file, proc, late, crossed, faults>>

\* NewChdfsConfig fails if one of the additional arguments has no value, a value
\* that does not parse or a name it does not know.
NewChdfsConfig(v) == Options[v].args = "valid"

\* Mutant: a config file that is there is used as it is.
MutPrepareConfig(c) ==
    LET v == VolumeOf(call[c].target)
    IN  /\ call[c].pc = "config"
        /\ \/ /\ ~NewChdfsConfig(v) \/ "io" \in faults
              /\ Reply(c, "none") /\ UNCHANGED file
           \/ /\ NewChdfsConfig(v)
              /\ \/ file[ConfigName(v)] # None /\ Goto(c, "exec") /\ UNCHANGED file
                 \/ /\ file[ConfigName(v)] = None
                    /\ file' = [file EXCEPT ![ConfigName(v)] = "empty"]
                    /\ Goto(c, "write")
        /\ UNCHANGED <<dir, mnt, proc, late, crossed, faults>>

\* prepareConfig up to os.OpenFile(O_TRUNC) in WriteFile.
prepareConfig(c) ==
    LET v == VolumeOf(call[c].target)
    IN  /\ call[c].pc = "config"
        /\ \/ /\ ~NewChdfsConfig(v) \/ "io" \in faults
              /\ Reply(c, "none") /\ UNCHANGED file
           \/ /\ NewChdfsConfig(v)
              /\ file' = [file EXCEPT ![ConfigName(v)] = "empty"]
              /\ Goto(c, "write")
        /\ UNCHANGED <<dir, mnt, proc, late, crossed, faults>>

WriteFile(c) ==
    LET v == VolumeOf(call[c].target)
    IN  /\ call[c].pc = "write"
        /\ \/ file' = [file EXCEPT ![ConfigName(v)] = v] /\ Goto(c, "exec")
           \/ "io" \in faults /\ UNCHANGED file /\ Reply(c, "none")
        /\ UNCHANGED <<dir, mnt, proc, late, crossed, faults>>

\* go execCmd(cmd)
execCmd(c, p) ==
    LET t == call[c].target
    IN  /\ call[c].pc = "exec"
        /\ proc[p].pc = "exited"
        /\ proc' = [proc EXCEPT ![p] = [pc |-> "starts", target |-> t,
                                        reads |-> ConfigName(VolumeOf(t)), volume |-> None]]
        /\ Goto(c, "poll")
        /\ UNCHANGED <<dir, mnt, file, late, crossed, faults>>

\* A tick that sees no mount point changes nothing.
Poll(c) ==
    LET t == call[c].target
    IN  /\ call[c].pc = "poll"
        /\ \/ (Dead(t) \/ t \notin dir) /\ Reply(c, "none")
           \/ Mounted(t) /\ ~Dead(t) /\ Reply(c, "published")
        /\ UNCHANGED <<dir, mnt, file, proc, late, crossed, faults>>

\* chdfs-fuse is given up on; unless it may be slow, it has ended or mounted by now.
Deadline(c) ==
    /\ call[c].pc = "poll"
    /\ \/ "slow" \in faults
       \/ /\ ~Mounted(call[c].target)
          /\ \A p \in Procs : proc[p].target = call[c].target => proc[p].pc = "exited"

\* The deadline passes: what is still running goes on beside later calls.
GiveUp(c, answer) ==
    LET t == call[c].target
    IN  /\ Deadline(c)
        /\ Reply(c, answer)
        /\ late' = IF \E p \in Procs : proc[p].target = t THEN late \cup {t} ELSE late
        /\ UNCHANGED <<dir, mnt, file, proc, crossed, faults>>

MountTimeout(c) == GiveUp(c, "none")

-----------------------------------------------------------------------------
(* chdfs-fuse.                                                              *)

ReadConfig(p) ==
    /\ proc[p].pc = "starts"
    /\ LET read == file[proc[p].reads]
       IN  proc' = IF read \in Volumes
                   THEN [proc EXCEPT ![p].pc = "mounts", ![p].volume = read]
                   ELSE [proc EXCEPT ![p] = Exited]
    /\ UNCHANGED <<dir, mnt, file, call, kubelet, late, crossed, faults>>

FuseMount(p) ==
    LET t == proc[p].target
    IN  /\ proc[p].pc = "mounts"
        /\ \/ /\ t \in dir /\ ~Dead(t)
              /\ mnt' = [mnt EXCEPT ![t] = <<[volume |-> proc[p].volume, by |-> p]>> \o @]
              /\ proc' = [proc EXCEPT ![p].pc = "serves"]
           \/ /\ t \notin dir \/ Dead(t)
              /\ proc' = [proc EXCEPT ![p] = Exited] /\ UNCHANGED mnt
        /\ UNCHANGED <<dir, file, call, kubelet, late, crossed, faults>>

\* The layers of a process that ended.
Orphaned(layers, P) ==
    [i \in DOMAIN layers |-> IF layers[i].by \in P THEN [layers[i] EXCEPT !.by = None] ELSE layers[i]]

FuseCrash(p) ==
    /\ "crash" \in faults
    /\ proc[p].pc # "exited"
    /\ mnt' = [t \in Targets |-> Orphaned(mnt[t], {p})]
    /\ proc' = [proc EXCEPT ![p] = Exited]
    /\ UNCHANGED <<dir, file, call, kubelet, late, crossed, faults>>

\* The processes and /etc/chdfs live in the container of the driver.
Restart ==
    /\ "restart" \in faults
    /\ mnt' = [t \in Targets |-> Orphaned(mnt[t], Procs)]
    /\ proc' = [p \in Procs |-> Exited]
    /\ file' = [f \in Files |-> None]
    /\ call' = [c \in Calls |-> Idle]
    /\ kubelet' = [t \in Targets |-> [kubelet[t] EXCEPT !.call = None]]
    /\ UNCHANGED <<dir, late, crossed, faults>>

-----------------------------------------------------------------------------
(* NodeUnpublishVolume.                                                     *)

NodeUnpublishVolume(c, t) ==
    /\ ~kubelet[t].pod
    /\ kubelet[t].answer # "unpublished"
    /\ Request(c, t, "check")
    /\ UNCHANGED <<dir, mnt, file, proc, late, crossed, faults>>

\* Mutant: the error of the lookup is taken for "not a mount point".
MutUnpublishCheck(c) ==
    LET t == call[c].target
    IN  /\ call[c].pc = "check"
        /\ \/ (~Mounted(t) \/ Dead(t)) /\ Reply(c, "unpublished")
           \/ Mounted(t) /\ ~Dead(t) /\ Goto(c, "umount")
        /\ UNCHANGED <<dir, mnt, file, proc, late, crossed, faults>>

\* A directory that is missing or no mount point is done with; a mount point
\* whose process died is one.
UnpublishCheck(c) ==
    LET t == call[c].target
    IN  /\ call[c].pc = "check"
        /\ \/ ~Mounted(t) /\ Reply(c, "unpublished")
           \/ Mounted(t) /\ Goto(c, "umount")
        /\ UNCHANGED <<dir, mnt, file, proc, late, crossed, faults>>

\* Mutant: the directory is removed as if one Unmount freed it.
MutUnpublishRemove(c) ==
    LET t == call[c].target
    IN  /\ call[c].pc = "umount"
        /\ Mounted(t)
        /\ mnt' = [mnt EXCEPT ![t] = Tail(@)]
        /\ proc' = [p \in Procs |-> IF p = Head(mnt[t]).by THEN Exited ELSE proc[p]]
        /\ dir' = dir \ {t}
        /\ Reply(c, "unpublished")
        /\ UNCHANGED <<file, late, crossed, faults>>

\* Unmount takes the visible layer, and the process that serves it ends.
UnpublishUmount(c) ==
    LET t == call[c].target
    IN  /\ call[c].pc = "umount"
        /\ \/ /\ Mounted(t)
              /\ mnt' = [mnt EXCEPT ![t] = Tail(@)]
              /\ proc' = [p \in Procs |-> IF p = Head(mnt[t]).by THEN Exited ELSE proc[p]]
              /\ Reply(c, "unpublished")
           \/ /\ ~Mounted(t) \/ "io" \in faults
              /\ Reply(c, "none") /\ UNCHANGED <<mnt, proc>>
        /\ UNCHANGED <<dir, file, late, crossed, faults>>

-----------------------------------------------------------------------------
Step(c) ==
    \/ createMountPoint(c) \/ prepareConfig(c) \/ WriteFile(c) \/ Poll(c) \/ MountTimeout(c)
    \/ \E p \in Procs : execCmd(c, p)
    \/ UnpublishCheck(c) \/ UnpublishUmount(c)

Fuse(p) == ReadConfig(p) \/ FuseMount(p)

Next ==
    \/ \E t \in Targets : PodDeleted(t) \/ Abandon(t) \/ RemoveDir(t)
    \/ \E c \in Calls, t \in Targets : NodePublishVolume(c, t) \/ NodeUnpublishVolume(c, t)
    \/ \E c \in Calls : Step(c)
    \/ \E p \in Procs : Fuse(p) \/ FuseCrash(p)
    \/ Restart

Spec == Init /\ [][Next]_vars

-----------------------------------------------------------------------------
(* Properties.                                                              *)

(***************************************************************************)
(* What kubelet was told is so.  A volume that was answered as published   *)
(* ("Successfully mounted volume") stays mounted until its                 *)
(* NodeUnpublishVolume, whatever fails in between; after a successful      *)
(* NodeUnpublishVolume ("Successfully unmounted volume", "already          *)
(* unmounted") nothing is mounted at the target, unless something was      *)
(* given up there and went on.                                             *)
(***************************************************************************)
AnswersAreTrue ==
    \A t \in Targets :
        /\ kubelet[t].answer = "published" => Mounted(t)
        /\ kubelet[t].answer = "unpublished" /\ t \notin late => ~Mounted(t)

(***************************************************************************)
(* What is mounted at a target was configured for the volume of this       *)
(* target, although chdfs-fuse reads the file some time after              *)
(* prepareConfig wrote it and volumes of the same directory with other     *)
(* arguments have the same file, unless a publish of such a volume and one *)
(* of this target overlapped: then prepareConfig of the one may replace    *)
(* the file before chdfs-fuse of the other reads it.                       *)
(***************************************************************************)
MountedAsAsked ==
    \A t \in Targets \ crossed : \A i \in DOMAIN mnt[t] : mnt[t][i].volume = VolumeOf(t)
=============================================================================
