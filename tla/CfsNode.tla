------------------------------ MODULE CfsNode ------------------------------
(***************************************************************************)
(* The node servers of CFS (driver/cfs/node.go) and the kubelets that call *)
(* them.  NodePublishVolume mounts the NFS export of a file system at a    *)
(* target; NodeUnpublishVolume takes one mount away.  The handlers hold no *)
(* lock: between the look at a target and the mount or the unmount, any    *)
(* other step may come.  A handler goes on when its kubelet has given up.  *)
(***************************************************************************)
EXTENDS CfsBase

CONSTANTS
    Targets,       \* the target paths, one for each pod
    ClaimOf,       \* the claim that the pod of a target uses
    NodeOf,        \* the node where it runs
    ReadOnly,      \* the targets that are published read-only
    NodeRpcs,      \* slots for calls in flight
    NodeFaults     \* "check" (the host does not answer, or stat or mkdir fails), "mount",
                   \* "unmount" (the command fails), "giveup" (the kubelet's deadline
                   \* passes), "restart" (a plugin dies), "reboot" (a node does)

ASSUME NodeAssumption ==
    /\ ClaimOf \in [Targets -> Claims]
    /\ DOMAIN NodeOf = Targets
    /\ ReadOnly \subseteq Targets
    /\ None \notin NodeRpcs \cup Targets
    /\ NodeFaults \subseteq {"check", "mount", "unmount", "giveup", "restart", "reboot"}

VARIABLES
    mnt,       \* what is mounted at each target, the last mount first
    ncall,     \* the calls in flight
    kubelet,   \* what the kubelet knows of each target
    overlap    \* history: targets where a call started while a publish that the
               \* kubelet had given up was still running

nodeVars == <<mnt, ncall, kubelet, overlap>>

\* The directories that a class can ask for: its path, the root if it has none.
Dirs == {k.path : k \in Classes} \cup {<<"/">>}

Layer == [fs : FileSystems, dir : Dirs, ro : BOOLEAN]

NoOptions == [host |-> None, fsid |-> None, path |-> <<>>, vers |-> ""]

Options ==
    [host : FileSystems \cup {None}, fsid : FileSystems \cup {None},
     path : Dirs \cup {<<>>}, vers : {k.vers : k \in Classes} \cup {""}]

NcallRecord ==
    [target : Targets \cup {None},
     pc     : {"idle", "check", "mount", "look", "unmount"},
     opt    : Options]

KubeletRecord ==
    [pod   : BOOLEAN,                                  \* the pod is wanted
     state : {"unmounted", "uncertain", "published"},
     waits : NodeRpcs \cup {None}]

IdleNcall == [target |-> None, pc |-> "idle", opt |-> NoOptions]
NewTarget == [pod |-> TRUE, state |-> "unmounted", waits |-> None]

NodeTypeOK ==
    /\ mnt \in [Targets -> Seq(Layer)]
    /\ ncall \in [NodeRpcs -> NcallRecord]
    /\ kubelet \in [Targets -> KubeletRecord]
    /\ overlap \subseteq Targets

NodeInit ==
    /\ mnt = [t \in Targets |-> <<>>]
    /\ ncall = [c \in NodeRpcs |-> IdleNcall]
    /\ kubelet = [t \in Targets |-> NewTarget]
    /\ overlap = {}

-----------------------------------------------------------------------------
(* Calls.                                                                   *)

Publishing(t) == \E c \in NodeRpcs : ncall[c].target = t /\ ncall[c].pc \in {"check", "mount"}

CallNode(c, t, pc, opt) ==
    /\ ncall[c] = IdleNcall
    /\ kubelet[t].waits = None
    /\ ncall' = [ncall EXCEPT ![c] = [target |-> t, pc |-> pc, opt |-> opt]]
    /\ kubelet' = [kubelet EXCEPT ![t].waits = c, ![t].state = "uncertain"]
    /\ overlap' = IF Publishing(t) THEN overlap \cup {t} ELSE overlap
    /\ UNCHANGED mnt

\* The call ends; its kubelet, if it still waits, learns that the target is in state s.
NodeReturn(c, s) ==
    LET t == ncall[c].target
    IN  /\ ncall' = [ncall EXCEPT ![c] = IdleNcall]
        /\ kubelet' = IF kubelet[t].waits = c
                      THEN [kubelet EXCEPT ![t].waits = None, ![t].state = s] ELSE kubelet
        /\ UNCHANGED overlap

NodeFails(c) == NodeReturn(c, "uncertain")

NodeStep(c, pc) == ncall' = [ncall EXCEPT ![c].pc = pc] /\ UNCHANGED <<kubelet, overlap>>

-----------------------------------------------------------------------------
(* NodePublishVolume.                                                       *)

\* A volume context without host, or with a path that does not start with a
\* separator, is refused, which changes nothing.
NodePublishVolume(c, t, opt) ==
    LET path == IF opt.path = <<>> THEN <<"/">> ELSE opt.path
    IN  /\ kubelet[t].pod /\ kubelet[t].state # "published"
        /\ opt.host # None
        /\ Head(path) = "/"
        /\ CallNode(c, t, "check", [opt EXCEPT !.path = path])

\* The host is dialled, and the target is looked at or made.
PublishCheck(c) ==
    /\ ncall[c].pc = "check"
    /\ \/ mnt[ncall[c].target] # <<>> /\ NodeReturn(c, "published")
       \/ mnt[ncall[c].target] = <<>> /\ NodeStep(c, "mount")
       \/ "check" \in NodeFaults /\ NodeFails(c)
    /\ UNCHANGED mnt

Version(opt) ==
    IF opt.vers # "" THEN opt.vers ELSE IF opt.fsid = None THEN "4" ELSE "3"

\* Mutant: the FSID goes before the path whatever the version is.
MutSourcePath(opt) ==
    IF opt.fsid # None THEN <<"/", opt.fsid>> \o opt.path ELSE opt.path

SourcePath(opt) ==
    IF Version(opt) = "3" /\ opt.fsid # None THEN <<"/", opt.fsid>> \o opt.path ELSE opt.path

\* The server of file system f exports it under its FSID to version 3, and at
\* the root to version 4: the directory that a path names there, if any.
Exported(f, vers, path) ==
    IF vers = "3"
    THEN IF Len(path) > 2 /\ path[2] = f THEN {SubSeq(path, 3, Len(path))} ELSE {}
    ELSE {path}

\* Mutant: the flag of the request is not added to the mount options.
MutMountFlags(t) == FALSE

MountFlags(t) == t \in ReadOnly

PublishMount(c) ==
    LET t == ncall[c].target
        opt == ncall[c].opt
        dirs == Exported(opt.host, Version(opt), SourcePath(opt))
    IN  /\ ncall[c].pc = "mount"
        /\ \/ \E d \in dirs :
                /\ mnt' = [mnt EXCEPT ![t] = <<[fs |-> opt.host, dir |-> d,
                                                ro |-> MountFlags(t)]>> \o @]
                /\ NodeReturn(c, "published")
           \/ /\ dirs = {} \/ "mount" \in NodeFaults
              /\ NodeFails(c) /\ UNCHANGED mnt

-----------------------------------------------------------------------------
(* NodeUnpublishVolume.                                                     *)

NodeUnpublishVolume(c, t) ==
    /\ ~kubelet[t].pod
    /\ kubelet[t].state # "unmounted"
    /\ CallNode(c, t, "look", NoOptions)

\* Nothing there, or nothing mounted there, is taken for unpublished.
UnpublishCheck(c) ==
    /\ ncall[c].pc = "look"
    /\ \/ mnt[ncall[c].target] = <<>> /\ NodeReturn(c, "unmounted")
       \/ mnt[ncall[c].target] # <<>> /\ NodeStep(c, "unmount")
       \/ "check" \in NodeFaults /\ NodeFails(c)
    /\ UNCHANGED mnt

\* Mutant: an unmount that fails is logged and nothing more.
MutUnpublishUnmount(c) ==
    LET t == ncall[c].target
    IN  /\ ncall[c].pc = "unmount"
        /\ mnt' = [mnt EXCEPT ![t] = IF @ # <<>> THEN Tail(@) ELSE @] \/ UNCHANGED mnt
        /\ NodeReturn(c, "unmounted")

\* The last mount is taken away; the unmount of nothing is an error.
UnpublishUnmount(c) ==
    LET t == ncall[c].target
    IN  /\ ncall[c].pc = "unmount"
        /\ \/ /\ mnt[t] # <<>>
              /\ mnt' = [mnt EXCEPT ![t] = Tail(@)]
              /\ NodeReturn(c, "unmounted")
           \/ /\ mnt[t] = <<>> \/ "unmount" \in NodeFaults
              /\ NodeFails(c) /\ UNCHANGED mnt

-----------------------------------------------------------------------------
(* The kubelets, the plugins and the nodes.                                 *)

\* A pod that is deleted never comes back: its successor has a target of its own.
PodDeleted(t) ==
    /\ kubelet[t].pod
    /\ kubelet' = [kubelet EXCEPT ![t].pod = FALSE]
    /\ UNCHANGED <<mnt, ncall, overlap>>

KubeletGivesUp(t) ==
    /\ "giveup" \in NodeFaults
    /\ kubelet[t].waits # None
    /\ kubelet' = [kubelet EXCEPT ![t].waits = None]
    /\ UNCHANGED <<mnt, ncall, overlap>>

On(n) == {t \in Targets : NodeOf[t] = n}

CallsEnd(n) == ncall' = [c \in NodeRpcs |-> IF ncall[c].target \in On(n) THEN IdleNcall ELSE ncall[c]]

\* The mounts of the host outlive the plugin.
NodePluginRestart(n) ==
    /\ "restart" \in NodeFaults
    /\ CallsEnd(n)
    /\ kubelet' = [t \in Targets |-> IF t \in On(n) THEN [kubelet[t] EXCEPT !.waits = None] ELSE kubelet[t]]
    /\ UNCHANGED <<mnt, overlap>>

\* The pods that are still wanted are set up again.
NodeReboot(n) ==
    /\ "reboot" \in NodeFaults
    /\ CallsEnd(n)
    /\ mnt' = [t \in Targets |-> IF t \in On(n) THEN <<>> ELSE mnt[t]]
    /\ kubelet' = [t \in Targets |->
                     IF t \in On(n) THEN [kubelet[t] EXCEPT !.waits = None, !.state = "unmounted"]
                                    ELSE kubelet[t]]
    /\ overlap' = overlap \ On(n)

Node(c) == PublishCheck(c) \/ PublishMount(c) \/ UnpublishCheck(c) \/ UnpublishUnmount(c)
=============================================================================
