--------------------------- MODULE CfsController ---------------------------
(***************************************************************************)
(* The controller server of CFS (driver/cfs/controller.go): CreateVolume   *)
(* orders a file system under a ClientToken and polls until it and its     *)
(* mount target are there; DeleteVolume looks for the file system and      *)
(* deletes it.                                                             *)
(*                                                                         *)
(* A handler ignores the context of its request: it goes on when the       *)
(* provisioner has given up on it, beside the next call for the same       *)
(* claim.  Every request to the cloud is a step.                           *)
(***************************************************************************)
EXTENDS CfsBase

CONSTANTS
    Rpcs,          \* slots for calls in flight
    CloudFaults    \* "query" (a Describe request fails), "lost" (another request
                   \* fails or its answer is lost), "giveup" (the provisioner's
                   \* deadline passes), "restart" (the process dies)

ASSUME CloudAssumption ==
    /\ None \notin Claims \cup FileSystems \cup Rpcs
    /\ Classes \subseteq [vpc : BOOLEAN, subnet : BOOLEAN, path : Seq(STRING), vers : STRING]
    \* A class is written before the FSIDs are given: its path names none.
    /\ \A k \in Classes : \A i \in DOMAIN k.path : k.path[i] \notin FileSystems
    /\ CloudFaults \subseteq {"query", "lost", "giveup", "restart"}

VARIABLES
    class,    \* the storage class of each claim
    fs,       \* the cloud: the file systems
    rpc,      \* the calls in flight
    pv        \* what the provisioner knows of each claim

cloudVars == <<class, fs, rpc, pv>>

FsRecord ==
    [claim : Claims \cup {None},
     state : {"absent", "creating", "available", "listed", "deleting", "gone"},
     ip    : BOOLEAN,    \* the mount target that is listed has an IpAddress
     fsid  : BOOLEAN]    \* and an FSID

RpcRecord ==
    [claim : Claims \cup {None},
     pc    : {"idle", "create", "poll", "target", "find", "delete"},
     id    : FileSystems \cup {None}]

\* The address and the FSID of a file system are its own: its id stands for both.
PvRecord ==
    [state : {"unbound", "bound", "released", "deleted"},
     id    : FileSystems \cup {None},
     host  : FileSystems \cup {None},
     fsid  : FileSystems \cup {None},
     waits : Rpcs \cup {None}]      \* the call that the provisioner waits for

Absent == [claim |-> None, state |-> "absent", ip |-> FALSE, fsid |-> FALSE]
IdleRpc == [claim |-> None, pc |-> "idle", id |-> None]
Unbound == [state |-> "unbound", id |-> None, host |-> None, fsid |-> None, waits |-> None]

CloudTypeOK ==
    /\ class \in [Claims -> Classes]
    /\ fs \in [FileSystems -> FsRecord]
    /\ rpc \in [Rpcs -> RpcRecord]
    /\ pv \in [Claims -> PvRecord]

CloudInit ==
    /\ class \in [Claims -> Classes]
    /\ fs = [f \in FileSystems |-> Absent]
    /\ rpc = [c \in Rpcs |-> IdleRpc]
    /\ pv = [n \in Claims |-> Unbound]

-----------------------------------------------------------------------------
(* Calls.                                                                   *)

CallRpc(c, n, pc, id, state) ==
    /\ rpc[c] = IdleRpc
    /\ pv[n].waits = None
    /\ rpc' = [rpc EXCEPT ![c] = [claim |-> n, pc |-> pc, id |-> id]]
    /\ pv' = [pv EXCEPT ![n].waits = c, ![n].state = state]
    /\ UNCHANGED <<class, fs>>

Step(c, pc) == rpc' = [rpc EXCEPT ![c].pc = pc] /\ UNCHANGED pv

Return(c) == rpc' = [rpc EXCEPT ![c] = IdleRpc]

\* An error, or an answer that the provisioner does not wait for any more.
Fails(c) ==
    /\ Return(c)
    /\ pv' = IF pv[rpc[c].claim].waits = c
             THEN [pv EXCEPT ![rpc[c].claim].waits = None] ELSE pv

\* Success, which the provisioner records as p if it still waits.
Succeeds(c, p) ==
    /\ Return(c)
    /\ pv' = IF pv[rpc[c].claim].waits = c THEN [pv EXCEPT ![rpc[c].claim] = p] ELSE pv

-----------------------------------------------------------------------------
(* CreateVolume.                                                            *)

\* A class without vpcID or subnetID is refused, which changes nothing.
CreateVolume(c, n) ==
    /\ pv[n].state = "unbound"
    /\ class[n].vpc /\ class[n].subnet
    /\ CallRpc(c, n, "create", None, "unbound")

\* Mutant: no ClientToken.
MutFileSystemFor(n) == {f \in FileSystems : fs[f] = Absent}

\* The cloud gives a ClientToken that it has seen the file system made for it.
FileSystemFor(n) ==
    LET made == {f \in FileSystems : fs[f].claim = n}
    IN  IF made # {} THEN made ELSE {f \in FileSystems : fs[f] = Absent}

CreateCfsFileSystem(c) ==
    LET n == rpc[c].claim
    IN  /\ rpc[c].pc = "create"
        /\ \/ \E f \in FileSystemFor(n) :
                /\ fs' = IF fs[f] = Absent
                         THEN [fs EXCEPT ![f].claim = n, ![f].state = "creating"] ELSE fs
                /\ \/ /\ rpc' = [rpc EXCEPT ![c].pc = "poll", ![c].id = f]
                      /\ UNCHANGED pv
                   \/ "lost" \in CloudFaults /\ Fails(c)
           \/ "lost" \in CloudFaults /\ Fails(c) /\ UNCHANGED fs
        /\ UNCHANGED class

\* One tick of the loop: a file system that is not available, or a query that
\* fails, leaves the call where it is.
PollFileSystem(c) ==
    /\ rpc[c].pc = "poll"
    /\ fs[rpc[c].id].state \in {"available", "listed"}
    /\ Step(c, "target")
    /\ UNCHANGED <<class, fs>>

\* The volume context that a success carries.
Bound(f) ==
    [state |-> "bound", id |-> f, waits |-> None,
     host |-> IF fs[f].ip THEN f ELSE None, fsid |-> IF fs[f].fsid THEN f ELSE None]

\* The tick goes on to the mount target; without one it ends.
PollMountTarget(c) ==
    /\ rpc[c].pc = "target"
    /\ \/ fs[rpc[c].id].state = "listed" /\ Succeeds(c, Bound(rpc[c].id))
       \/ /\ fs[rpc[c].id].state # "listed" \/ "query" \in CloudFaults
          /\ Step(c, "poll")
    /\ UNCHANGED <<class, fs>>

\* 100 seconds have passed.
CreateDeadline(c) ==
    /\ rpc[c].pc = "poll"
    /\ Fails(c)
    /\ UNCHANGED <<class, fs>>

-----------------------------------------------------------------------------
(* DeleteVolume.                                                            *)

DeleteVolume(c, n) ==
    /\ pv[n].state \in {"bound", "released"}
    /\ CallRpc(c, n, "find", pv[n].id, "released")

Deleted(c) == [pv[rpc[c].claim] EXCEPT !.state = "deleted", !.waits = None]

\* A file system that is not found is taken for deleted.
FindFileSystem(c) ==
    /\ rpc[c].pc = "find"
    /\ \/ fs[rpc[c].id].state = "gone" /\ Succeeds(c, Deleted(c))
       \/ fs[rpc[c].id].state # "gone" /\ Step(c, "delete")
       \/ "query" \in CloudFaults /\ Fails(c)
    /\ UNCHANGED <<class, fs>>

\* The cloud refuses to delete what it is deleting.
DeleteCfsFileSystem(c) ==
    LET f == rpc[c].id
    IN  /\ rpc[c].pc = "delete"
        /\ \/ /\ fs[f].state \notin {"deleting", "gone"}
              /\ fs' = [fs EXCEPT ![f].state = "deleting"]
              /\ Succeeds(c, Deleted(c)) \/ ("lost" \in CloudFaults /\ Fails(c))
           \/ /\ fs[f].state \in {"deleting", "gone"} \/ "lost" \in CloudFaults
              /\ Fails(c) /\ UNCHANGED fs
        /\ UNCHANGED class

-----------------------------------------------------------------------------
(* The cloud, the provisioner and the process.                              *)

CloudCreates(f) ==
    /\ fs[f].state = "creating"
    /\ fs' = [fs EXCEPT ![f].state = "available"]
    /\ UNCHANGED <<class, rpc, pv>>

CloudListsTarget(f) ==
    /\ fs[f].state = "available"
    /\ \E ip, fsid \in BOOLEAN :
          fs' = [fs EXCEPT ![f].state = "listed", ![f].ip = ip, ![f].fsid = fsid]
    /\ UNCHANGED <<class, rpc, pv>>

CloudDeletes(f) ==
    /\ fs[f].state = "deleting"
    /\ fs' = [fs EXCEPT ![f].state = "gone"]
    /\ UNCHANGED <<class, rpc, pv>>

ProvisionerGivesUp(n) ==
    /\ "giveup" \in CloudFaults
    /\ pv[n].waits # None
    /\ pv' = [pv EXCEPT ![n].waits = None]
    /\ UNCHANGED <<class, fs, rpc>>

ControllerRestart ==
    /\ "restart" \in CloudFaults
    /\ rpc' = [c \in Rpcs |-> IdleRpc]
    /\ pv' = [n \in Claims |-> [pv[n] EXCEPT !.waits = None]]
    /\ UNCHANGED <<class, fs>>

Controller(c) ==
    \/ CreateCfsFileSystem(c) \/ PollFileSystem(c) \/ PollMountTarget(c) \/ CreateDeadline(c)
    \/ FindFileSystem(c) \/ DeleteCfsFileSystem(c)

Cloud(f) == CloudCreates(f) \/ CloudListsTarget(f) \/ CloudDeletes(f)
=============================================================================
