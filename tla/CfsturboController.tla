------------------------- MODULE CfsturboController -------------------------
(***************************************************************************)
(* The controller server of CFS Turbo (driver/cfsturbo/controller.go).     *)
(* A volume is a directory of a file system that exists.  To make or       *)
(* remove it, a call mounts the file system at /tmp/<name>, works there    *)
(* and unmounts.  Calls for one volume share that path without a lock, as  *)
(* a handler goes on when the provisioner has given up on it and calls     *)
(* again; a call that fails in the middle leaves the mount behind.         *)
(*                                                                         *)
(* Strings whose parts matter are sequences of tokens.                     *)
(***************************************************************************)
EXTENDS Naturals, Sequences

CONSTANTS
    PvNames,            \* the names in CreateVolume
    TurboClasses,       \* the fsid and host that a storage class may give
    Exports,            \* the pairs of fsid and host where a file system is
    ClusterId,          \* the environment variable CLUSTER_ID
    Workers,            \* slots for calls in flight
    NoWorker,
    ControllerFaults    \* "check", "mount", "dir", "unmount" (an operation fails),
                        \* "giveup" (the provisioner's deadline passes), "restart"

ASSUME ControllerAssumption ==
    /\ NoWorker \notin Workers
    /\ PvNames \subseteq Seq(STRING)
    /\ TurboClasses \cup Exports \subseteq [fsid : Seq(STRING), host : Seq(STRING)]
    /\ ControllerFaults \subseteq {"check", "mount", "dir", "unmount", "giveup", "restart"}

\* An id can be taken apart: the parts have no slash and an fsid has no dash.
\* A file system is not also at what stands before a dash of its host.
ASSUME IdAssumption ==
    /\ ClusterId # "/"
    /\ \A n \in PvNames : \A i \in DOMAIN n : n[i] # "/"
    /\ \A c \in TurboClasses :
          /\ \A i \in DOMAIN c.fsid : c.fsid[i] # "-"
          /\ \A i \in DOMAIN c.host : c.host[i] # "/"
    /\ \A c \in TurboClasses, e \in Exports : e.fsid = c.fsid =>
          \A i \in DOMAIN c.host : c.host[i] = "-" => e.host # SubSeq(c.host, 1, i - 1)

VARIABLES
    params,     \* the storage class of each name, NoOptions before it is claimed
    dirs,       \* the directories, each a file system and a name
    tmp,        \* what is mounted at /tmp/<name>, the last mount first
    work,       \* the calls in flight
    volume,     \* what the provisioner knows of each name
    mixed       \* history: names whose delete started while a create was running

controllerVars == <<params, dirs, tmp, work, volume, mixed>>

NoOptions == [fsid |-> <<>>, host |-> <<>>]
NoWork == [op |-> "none", pc |-> "idle", claim |-> <<>>, name |-> <<>>, opt |-> NoOptions]
NoVolume == [state |-> "unbound", id |-> <<>>, waits |-> NoWorker]

ControllerTypeOK ==
    /\ params \in [PvNames -> TurboClasses \cup {NoOptions}]
    /\ dirs \subseteq Exports \X PvNames
    /\ tmp \in [PvNames -> Seq(Exports)]
    /\ \A w \in Workers :
          /\ work[w].op \in {"none", "create", "delete"}
          /\ work[w].pc \in {"idle", "check", "mount", "dir", "unmount"}
          /\ work[w] # NoWork => work[w].claim \in PvNames /\ work[w].name \in PvNames
    /\ \A n \in PvNames :
          /\ volume[n].state \in {"unbound", "bound", "released", "deleted"}
          /\ volume[n].waits \in Workers \cup {NoWorker}
    /\ mixed \subseteq PvNames

ControllerInit ==
    /\ params = [n \in PvNames |-> NoOptions]
    /\ dirs = {}
    /\ tmp = [n \in PvNames |-> <<>>]
    /\ work = [w \in Workers |-> NoWork]
    /\ volume = [n \in PvNames |-> NoVolume]
    /\ mixed = {}

-----------------------------------------------------------------------------
(* Volume ids.                                                              *)

\* The part of s before the first x, and the part after it.
Before(s, x) ==
    SubSeq(s, 1, CHOOSE i \in 0..Len(s) :
                    /\ i < Len(s) => s[i + 1] = x
                    /\ \A j \in 1..i : s[j] # x)
After(s, x) == SubSeq(s, Len(Before(s, x)) + 2, Len(s))

VolumeId(n) ==
    params[n].fsid \o <<"-">> \o params[n].host \o <<"-", "/", ClusterId, "/">> \o n

\* Mutant: the fields after the second are not joined again.
MutFromVolumeId(id) ==
    [fsid |-> Before(id, "-"), host |-> Before(After(id, "-"), "-"),
     name |-> Before(After(After(Before(After(After(id, "-"), "-"), "-"), "/"), "/"), "/")]

\* The fields between dashes: fsid, host, and the rest as the path, whose
\* second name is the volume's.
getCfsTurboOptionsFromVolumeId(id) ==
    LET path == After(After(id, "-"), "-")
    IN  [fsid |-> Before(id, "-"), host |-> Before(After(id, "-"), "-"),
         name |-> Before(After(After(path, "/"), "/"), "/")]

-----------------------------------------------------------------------------
(* Calls.                                                                   *)

StartWork(w, op, n, name, opt, state) ==
    /\ work[w] = NoWork
    /\ volume[n].waits = NoWorker
    /\ work' = [work EXCEPT ![w] = [op |-> op, pc |-> "check", claim |-> n, name |-> name,
                                    opt |-> opt]]
    /\ volume' = [volume EXCEPT ![n].waits = w, ![n].state = state]
    /\ UNCHANGED <<params, dirs, tmp>>

WorkOn(w, pc) == work' = [work EXCEPT ![w].pc = pc] /\ UNCHANGED volume

\* The call ends; the provisioner, if it still waits, takes v for the volume.
WorkEnds(w, v) ==
    LET n == work[w].claim
    IN  /\ work' = [work EXCEPT ![w] = NoWork]
        /\ volume' = IF volume[n].waits = w
                     THEN [volume EXCEPT ![n] = [v EXCEPT !.waits = NoWorker]] ELSE volume

WorkFails(w) == WorkEnds(w, volume[work[w].claim])

Created(n) == [volume[n] EXCEPT !.state = "bound", !.id = VolumeId(n)]
Removed(n) == [volume[n] EXCEPT !.state = "deleted"]

\* A user makes a claim of some storage class.
NewClaim(n) ==
    /\ params[n] = NoOptions
    /\ \E opt \in TurboClasses : params' = [params EXCEPT ![n] = opt]
    /\ UNCHANGED <<dirs, tmp, work, volume, mixed>>

\* A class without fsid or host, or an empty CLUSTER_ID, is refused.
CreateVolume(w, n) ==
    /\ volume[n].state = "unbound"
    /\ params[n].fsid # <<>> /\ params[n].host # <<>> /\ ClusterId # ""
    /\ StartWork(w, "create", n, n, params[n], "unbound")
    /\ UNCHANGED mixed

Creating(n) == \E w \in Workers : work[w].op = "create" /\ work[w].claim = n

\* An id without one of its parts is refused.
DeleteVolume(w, n) ==
    LET id == getCfsTurboOptionsFromVolumeId(volume[n].id)
    IN  /\ volume[n].state \in {"bound", "released"}
        /\ id.fsid # <<>> /\ id.host # <<>> /\ id.name # <<>>
        /\ StartWork(w, "delete", n, id.name, [fsid |-> id.fsid, host |-> id.host], "released")
        /\ mixed' = IF Creating(n) THEN mixed \cup {n} ELSE mixed

-----------------------------------------------------------------------------
(* mountCfsTurbo.                                                           *)

\* A path that is mounted is taken as it is.
MountCheck(w) ==
    /\ work[w].pc = "check"
    /\ \/ tmp[work[w].name] # <<>> /\ WorkOn(w, "dir")
       \/ tmp[work[w].name] = <<>> /\ WorkOn(w, "mount")
       \/ "check" \in ControllerFaults /\ WorkFails(w)
    /\ UNCHANGED <<params, dirs, tmp, mixed>>

\* Mutant: a mount that fails is logged and nothing more.
MutMountTemp(w) ==
    /\ work[w].pc = "mount"
    /\ \/ /\ work[w].opt \in Exports
          /\ tmp' = [tmp EXCEPT ![work[w].name] = <<work[w].opt>> \o @]
       \/ UNCHANGED tmp
    /\ WorkOn(w, "dir")
    /\ UNCHANGED <<params, dirs, mixed>>

MountTemp(w) ==
    /\ work[w].pc = "mount"
    /\ \/ /\ work[w].opt \in Exports
          /\ tmp' = [tmp EXCEPT ![work[w].name] = <<work[w].opt>> \o @]
          /\ WorkOn(w, "dir")
       \/ /\ work[w].opt \notin Exports \/ "mount" \in ControllerFaults
          /\ WorkFails(w) /\ UNCHANGED tmp
    /\ UNCHANGED <<params, dirs, mixed>>

-----------------------------------------------------------------------------
(* The directory, and the end of both calls.                                *)

\* What the path names: without a mount, a directory of the container.
Reached(w) ==
    IF tmp[work[w].name] = <<>> THEN {} ELSE {<<Head(tmp[work[w].name]), work[w].name>>}

MakeDirectory(w) ==
    /\ work[w].op = "create" /\ work[w].pc = "dir"
    /\ \/ dirs' = dirs \cup Reached(w) /\ WorkOn(w, "unmount")
       \/ "dir" \in ControllerFaults /\ WorkFails(w) /\ UNCHANGED dirs
    /\ UNCHANGED <<params, tmp, mixed>>

\* Mutant: the error of RemoveAll is dropped.
MutRemoveDirectory(w) ==
    /\ work[w].op = "delete" /\ work[w].pc = "dir"
    /\ dirs' = dirs \ Reached(w) \/ UNCHANGED dirs
    /\ WorkOn(w, "unmount")
    /\ UNCHANGED <<params, tmp, mixed>>

RemoveDirectory(w) ==
    /\ work[w].op = "delete" /\ work[w].pc = "dir"
    /\ \/ dirs' = dirs \ Reached(w) /\ WorkOn(w, "unmount")
       \/ "dir" \in ControllerFaults /\ WorkFails(w) /\ UNCHANGED dirs
    /\ UNCHANGED <<params, tmp, mixed>>

\* The unmount of nothing is an error.
UnmountTemp(w) ==
    LET n == work[w].claim
    IN  /\ work[w].pc = "unmount"
        /\ \/ /\ tmp[work[w].name] # <<>>
              /\ tmp' = [tmp EXCEPT ![work[w].name] = Tail(@)]
              /\ WorkEnds(w, IF work[w].op = "create" THEN Created(n) ELSE Removed(n))
           \/ /\ tmp[work[w].name] = <<>> \/ "unmount" \in ControllerFaults
              /\ WorkFails(w) /\ UNCHANGED tmp
        /\ UNCHANGED <<params, dirs, mixed>>

-----------------------------------------------------------------------------
ProvisionerGivesUp(n) ==
    /\ "giveup" \in ControllerFaults
    /\ volume[n].waits # NoWorker
    /\ volume' = [volume EXCEPT ![n].waits = NoWorker]
    /\ UNCHANGED <<params, dirs, tmp, work, mixed>>

\* The mounts under /tmp are in the container, and go with it.
ControllerRestart ==
    /\ "restart" \in ControllerFaults
    /\ work' = [w \in Workers |-> NoWork]
    /\ tmp' = [n \in PvNames |-> <<>>]
    /\ volume' = [n \in PvNames |-> [volume[n] EXCEPT !.waits = NoWorker]]
    /\ UNCHANGED <<params, dirs, mixed>>

ControllerNext ==
    \/ \E w \in Workers :
          \/ MountCheck(w) \/ MountTemp(w)
          \/ MakeDirectory(w) \/ RemoveDirectory(w) \/ UnmountTemp(w)
          \/ \E n \in PvNames : CreateVolume(w, n) \/ DeleteVolume(w, n)
    \/ \E n \in PvNames : NewClaim(n) \/ ProvisionerGivesUp(n)
    \/ ControllerRestart

-----------------------------------------------------------------------------
(* Properties.                                                              *)

(***************************************************************************)
(* A volume that CreateVolume reported has its directory on the file       *)
(* system of its class, although the call may have worked on a path that   *)
(* abandoned calls mounted over, or unmounted, under it: the error that    *)
(* ends a call whose unmount finds nothing keeps it from being reported.   *)
(***************************************************************************)
CreatedHasDirectory ==
    \A n \in PvNames : volume[n].state = "bound" => <<params[n], n>> \in dirs

(***************************************************************************)
(* A volume that DeleteVolume reported deleted has no directory any more,  *)
(* in spite of failed, abandoned and repeated deletes and restarts in      *)
(* between, unless a create that the provisioner had given up was still    *)
(* running when a delete started.  What the id was made of is what it is   *)
(* taken apart into, or the mount fails.                                   *)
(***************************************************************************)
DeletedHasNoDirectory ==
    \A n \in PvNames : volume[n].state = "deleted" /\ n \notin mixed =>
        \A d \in dirs : d[2] # n
=============================================================================
