----------------------------- MODULE CfsProofs -----------------------------
(***************************************************************************)
(* Proofs about Cfs, for any number of claims, file systems, storage       *)
(* classes, targets, nodes and concurrent calls, and any faults.           *)
(***************************************************************************)
EXTENDS Cfs, TLAPS

-----------------------------------------------------------------------------
(* The inductive invariant of the controller's half.                        *)

\* The ClientToken: a file system is made for a claim, and a claim has one.
\* The cloud deletes only what the provisioner has released.
FsInv ==
    /\ \A f \in FileSystems :
          \/ fs[f] = Absent
          \/ /\ fs[f].claim \in Claims /\ fs[f].state # "absent"
             /\ fs[f].state \in {"deleting", "gone"} =>
                   pv[fs[f].claim].state \in {"released", "deleted"}
    /\ \A f, g \in FileSystems : fs[f].claim = fs[g].claim /\ fs[f].claim # None => f = g

\* A call works on the file system of its claim, and a DeleteVolume on a
\* claim that is released.
RpcInv ==
    \A c \in Rpcs :
        /\ rpc[c].pc # "idle" => rpc[c].claim \in Claims
        /\ rpc[c].pc \in {"poll", "target", "find", "delete"} =>
              rpc[c].id \in FileSystems /\ fs[rpc[c].id].claim = rpc[c].claim
        /\ rpc[c].pc \in {"find", "delete"} =>
              pv[rpc[c].claim].state \in {"released", "deleted"}

\* What the provisioner has recorded is the file system of the claim, and the
\* call that it waits for is one for the claim, of the kind that its state
\* asks for.
PvOK(n) ==
    /\ pv[n].state = "unbound" <=> pv[n].id = None
    /\ pv[n].id # None => fs[pv[n].id].claim = n
    /\ pv[n].host \in {None, pv[n].id} /\ pv[n].fsid \in {None, pv[n].id}
    /\ pv[n].state = "deleted" => fs[pv[n].id].state \in {"deleting", "gone"}
    /\ pv[n].waits # None =>
          /\ rpc[pv[n].waits].claim = n
          /\ \/ pv[n].state = "unbound" /\ rpc[pv[n].waits].pc \in {"create", "poll", "target"}
             \/ pv[n].state = "released" /\ rpc[pv[n].waits].pc \in {"find", "delete"}

PvInv == \A n \in Claims : PvOK(n)

CloudInv == CloudTypeOK /\ FsInv /\ RpcInv /\ PvInv

-----------------------------------------------------------------------------
(* The inductive invariant of the node's half.                              *)

Path(n) == IF class[n].path = <<>> THEN <<"/">> ELSE class[n].path

\* The mount that the pod of target t has asked for.
Asked(t) == [fs |-> pv[ClaimOf[t]].id, dir |-> Path(ClaimOf[t]), ro |-> t \in ReadOnly]

\* A publish in flight carries the volume context of a claim that was bound.
NcallInv ==
    \A c \in NodeRpcs :
        /\ ncall[c].pc # "idle" => ncall[c].target \in Targets
        /\ ncall[c].pc \in {"check", "mount"} =>
              LET n == ClaimOf[ncall[c].target]
              IN  /\ pv[n].state # "unbound"
                  /\ ncall[c].opt.host = pv[n].id
                  /\ ncall[c].opt.fsid \in {None, pv[n].id}
                  /\ ncall[c].opt.path = Path(n)

\* No target has another mount than the one that was asked for, and the
\* target of a pod that runs has it.
MountInv ==
    \A t \in Targets :
        /\ mnt[t] \in Seq({Asked(t)})
        /\ Running(t) => mnt[t] # <<>>

\* The kubelet calls unpublish only when the pod is gone for good.
KubeletInv ==
    \A t \in Targets :
        /\ kubelet[t].waits # None =>
              ncall[kubelet[t].waits].target = t /\ kubelet[t].state = "uncertain"
        /\ kubelet[t].pod =>
              \A c \in NodeRpcs : ncall[c].target = t => ncall[c].pc \in {"check", "mount"}

\* Where no call has met an abandoned publish, a publish is alone at its
\* target and mounts on nothing, and a target that the kubelet takes for
\* unmounted is empty and stays empty.
AloneAt(t) ==
    /\ Len(mnt[t]) <= 1
    /\ \A c, d \in NodeRpcs :
          /\ ncall[c].target = t /\ ncall[d].target = t
          /\ ncall[c].pc \in {"check", "mount"}
          => c = d
    /\ \A c \in NodeRpcs : ncall[c].target = t /\ ncall[c].pc = "mount" => mnt[t] = <<>>
    /\ kubelet[t].state = "unmounted" => mnt[t] = <<>> /\ ~Publishing(t)

AloneInv == \A t \in Targets \ overlap : AloneAt(t)

\* A claim that is released is used nowhere.
ReleaseInv ==
    \A n \in Claims : pv[n].state \in {"released", "deleted"} => ~InUse(n)

NodeInv == NodeTypeOK /\ NcallInv /\ MountInv /\ KubeletInv /\ AloneInv /\ ReleaseInv

Inv == CloudInv /\ NodeInv

-----------------------------------------------------------------------------
(* The steps of the controller's half.                                      *)

\* The provisioner's records stay what they are, but for the calls that it
\* waits for no longer.
KeepsPv ==
    \A n \in Claims :
        /\ pv'[n].state = pv[n].state /\ pv'[n].id = pv[n].id
        /\ pv'[n].host = pv[n].host /\ pv'[n].fsid = pv[n].fsid
        /\ pv'[n].waits \in {pv[n].waits, None}

\* What the update of a record of the provisioner is.
LEMMA PvUpdate ==
    ASSUME NEW p \in PvRecord, NEW w \in Rpcs \cup {None}
    PROVE  /\ [p EXCEPT !.waits = w] \in PvRecord
           /\ [p EXCEPT !.waits = w].waits = w
           /\ [p EXCEPT !.waits = w].state = p.state
           /\ [p EXCEPT !.waits = w].id = p.id
           /\ [p EXCEPT !.waits = w].host = p.host
           /\ [p EXCEPT !.waits = w].fsid = p.fsid
BY DEF PvRecord

(***************************************************************************)
(* A call that fails is idle, and nobody waits for it.                     *)
(***************************************************************************)
LEMMA FailsEffect ==
    ASSUME CloudInv, NEW c \in Rpcs, rpc[c].pc # "idle", Fails(c)
    PROVE  /\ rpc' \in [Rpcs -> RpcRecord] /\ pv' \in [Claims -> PvRecord]
           /\ rpc'[c] = IdleRpc /\ \A d \in Rpcs \ {c} : rpc'[d] = rpc[d]
           /\ KeepsPv
           /\ \A n \in Claims : pv'[n].waits # c
<1> DEFINE m == rpc[c].claim
<1>1. m \in Claims /\ pv \in [Claims -> PvRecord] /\ rpc \in [Rpcs -> RpcRecord]
    BY DEF RpcInv, CloudInv, CloudTypeOK
<1>2. /\ rpc' \in [Rpcs -> RpcRecord]
      /\ rpc'[c] = IdleRpc /\ \A d \in Rpcs \ {c} : rpc'[d] = rpc[d]
    BY <1>1 DEF Fails, Return, IdleRpc, RpcRecord
<1>3. None # c /\ \A n \in Claims : pv[n].waits = c => n = m
    BY CloudAssumption DEF CloudInv, PvInv, PvOK
<1>4. CASE pv[m].waits = c
    <2> DEFINE p == [pv[m] EXCEPT !.waits = None]
    <2>1. pv' = [pv EXCEPT ![m] = p]
        BY <1>1, <1>4 DEF Fails
    <2>2. /\ p \in PvRecord /\ p.waits = None
          /\ p.state = pv[m].state /\ p.id = pv[m].id
          /\ p.host = pv[m].host /\ p.fsid = pv[m].fsid
        BY <1>1, PvUpdate
    <2> HIDE DEF p, m
    <2>3. /\ pv' \in [Claims -> PvRecord]
          /\ pv'[m] = p /\ \A n \in Claims \ {m} : pv'[n] = pv[n]
        BY <1>1, <2>1, <2>2
    <2> QED
        BY <1>2, <1>3, <2>2, <2>3 DEF KeepsPv
<1>5. CASE pv[m].waits # c
    BY <1>1, <1>2, <1>3, <1>5 DEF Fails, KeepsPv
<1> QED
    BY <1>4, <1>5

\* A success leaves the call idle, and its record with the provisioner if that
\* still waits for it.
LEMMA SucceedsEffect ==
    ASSUME CloudInv, NEW c \in Rpcs, rpc[c].pc # "idle", NEW p \in PvRecord,
           p.waits = None, Succeeds(c, p)
    PROVE  LET m == rpc[c].claim
           IN  /\ m \in Claims
               /\ rpc' \in [Rpcs -> RpcRecord] /\ pv' \in [Claims -> PvRecord]
               /\ rpc'[c] = IdleRpc /\ \A d \in Rpcs \ {c} : rpc'[d] = rpc[d]
               /\ \A n \in Claims \ {m} : pv'[n] = pv[n]
               /\ pv'[m] = IF pv[m].waits = c THEN p ELSE pv[m]
               /\ \A n \in Claims : pv'[n].waits # c
<1> DEFINE m == rpc[c].claim
<1>1. m \in Claims /\ pv \in [Claims -> PvRecord] /\ rpc \in [Rpcs -> RpcRecord]
    BY DEF RpcInv, CloudInv, CloudTypeOK
<1>2. /\ rpc' \in [Rpcs -> RpcRecord]
      /\ rpc'[c] = IdleRpc /\ \A d \in Rpcs \ {c} : rpc'[d] = rpc[d]
    BY <1>1 DEF Succeeds, Return, IdleRpc, RpcRecord
<1>3. None # c /\ \A n \in Claims : pv[n].waits = c => n = m
    BY CloudAssumption DEF CloudInv, PvInv, PvOK
<1>4. pv' = IF pv[m].waits = c THEN [pv EXCEPT ![m] = p] ELSE pv
    BY DEF Succeeds
<1> HIDE DEF m
<1>5. /\ pv' \in [Claims -> PvRecord] /\ \A n \in Claims \ {m} : pv'[n] = pv[n]
      /\ pv'[m] = IF pv[m].waits = c THEN p ELSE pv[m]
    BY <1>1, <1>4
<1>6. \A n \in Claims : pv'[n].waits # c
    BY <1>3, <1>5
<1> QED
    BY <1>1, <1>2, <1>5, <1>6 DEF m

\* What a step may do to the file systems: none changes hands, none that is
\* deleted comes back, a new one is the only one of its claim, and only one
\* that is released is deleted.
FsStep ==
    /\ fs' \in [FileSystems -> FsRecord]
    /\ \A f \in FileSystems : fs[f] # Absent =>
          /\ fs'[f].claim = fs[f].claim
          /\ fs[f].state \in {"deleting", "gone"} => fs'[f].state \in {"deleting", "gone"}
    /\ \A f \in FileSystems :
          \/ fs'[f] = Absent
          \/ /\ fs'[f].claim \in Claims /\ fs'[f].state # "absent"
             /\ fs'[f].state \in {"deleting", "gone"} =>
                   pv[fs'[f].claim].state \in {"released", "deleted"}
    /\ \A f, g \in FileSystems : fs'[f].claim = fs'[g].claim /\ fs'[f].claim # None => f = g

LEMMA FsStutters ==
    ASSUME CloudInv, UNCHANGED fs
    PROVE  FsStep
BY DEF CloudInv, CloudTypeOK, FsInv, FsStep

\* The update of one file system that changes its state.
LEMMA FsMoves ==
    ASSUME CloudInv, NEW f \in FileSystems, NEW r \in FsRecord, fs[f].claim \in Claims,
           fs' = [fs EXCEPT ![f] = r], r.claim = fs[f].claim, r.state # "absent",
           fs[f].state \in {"deleting", "gone"} => r.state \in {"deleting", "gone"},
           r.state \in {"deleting", "gone"} => pv[r.claim].state \in {"released", "deleted"}
    PROVE  FsStep
<1>1. fs' \in [FileSystems -> FsRecord] /\ fs'[f] = r /\ \A g \in FileSystems \ {f} : fs'[g] = fs[g]
    BY DEF CloudInv, CloudTypeOK
<1> QED
    BY <1>1 DEF CloudInv, FsInv, FsStep

\* The file system that is made for a claim that has none.
LEMMA FsMade ==
    ASSUME CloudInv, NEW f \in FileSystems, NEW n \in Claims, fs[f] = Absent,
           \A g \in FileSystems : fs[g].claim # n,
           fs' = [fs EXCEPT ![f].claim = n, ![f].state = "creating"]
    PROVE  FsStep /\ fs'[f].claim = n
<1> DEFINE r == [claim |-> n, state |-> "creating", ip |-> FALSE, fsid |-> FALSE]
<1>1. r \in FsRecord
    BY DEF FsRecord
<1>2. fs' = [fs EXCEPT ![f] = r]
    BY DEF CloudInv, CloudTypeOK, Absent
<1>3. r.claim = n /\ r.state = "creating"
    OBVIOUS
<1> HIDE DEF r
<1>4. fs' \in [FileSystems -> FsRecord] /\ fs'[f] = r /\ \A g \in FileSystems \ {f} : fs'[g] = fs[g]
    BY <1>1, <1>2 DEF CloudInv, CloudTypeOK
<1> QED
    BY <1>3, <1>4 DEF CloudInv, FsInv, FsStep, Absent

\* The file systems that the records name are there.
LEMMA NamedExists ==
    ASSUME CloudInv
    PROVE  /\ \A n \in Claims : pv[n].id # None =>
                 pv[n].id \in FileSystems /\ fs[pv[n].id] # Absent
           /\ \A n \in Claims : pv[n].waits # None => pv[n].waits \in Rpcs
           /\ \A c \in Rpcs : rpc[c].pc \in {"poll", "target", "find", "delete"} =>
                 rpc[c].id \in FileSystems /\ fs[rpc[c].id] # Absent
<1>1. \A f \in FileSystems : fs[f].claim \in Claims => fs[f] # Absent
    BY CloudAssumption DEF Absent
<1>2. \A n \in Claims : pv[n].id \in FileSystems \cup {None} /\ pv[n].waits \in Rpcs \cup {None}
    BY DEF CloudInv, CloudTypeOK, PvRecord
<1> QED
    BY <1>1, <1>2 DEF CloudInv, PvInv, PvOK, RpcInv

\* A call that fails keeps the invariant.
LEMMA FailsCloud ==
    ASSUME CloudInv, NEW c \in Rpcs, rpc[c].pc # "idle", Fails(c), FsStep, UNCHANGED class
    PROVE  CloudInv' /\ KeepsPv
<1>1. /\ rpc' \in [Rpcs -> RpcRecord] /\ pv' \in [Claims -> PvRecord]
      /\ rpc'[c] = IdleRpc /\ \A d \in Rpcs \ {c} : rpc'[d] = rpc[d]
      /\ KeepsPv
      /\ \A n \in Claims : pv'[n].waits # c
    BY FailsEffect
<1>2. CloudTypeOK'
    BY <1>1 DEF CloudInv, CloudTypeOK, FsStep
<1>3. FsInv'
    BY <1>1 DEF FsStep, FsInv, KeepsPv
<1>4. RpcInv'
    BY <1>1, NamedExists DEF CloudInv, RpcInv, FsStep, KeepsPv, IdleRpc
<1>5. PvInv'
    BY <1>1, NamedExists DEF CloudInv, PvInv, PvOK, FsStep, KeepsPv
<1> QED
    BY <1>1, <1>2, <1>3, <1>4, <1>5 DEF CloudInv

\* A success keeps the invariant if what it records is true.
LEMMA SucceedsCloud ==
    ASSUME CloudInv, NEW c \in Rpcs, rpc[c].pc # "idle", NEW p \in PvRecord, p.waits = None,
           Succeeds(c, p), FsStep, UNCHANGED class,
           pv[rpc[c].claim].waits = c =>
              /\ p.id \in FileSystems /\ fs'[p.id].claim = rpc[c].claim
              /\ p.host \in {None, p.id} /\ p.fsid \in {None, p.id}
              /\ \/ p.state = "bound" /\ pv[rpc[c].claim].state = "unbound"
                 \/ /\ p.state = "deleted" /\ pv[rpc[c].claim].state = "released"
                    /\ fs'[p.id].state \in {"deleting", "gone"}
    PROVE  CloudInv'
<1>0. rpc[c].claim \in Claims
    BY DEF CloudInv, RpcInv
<1> PICK m \in Claims : m = rpc[c].claim
    BY <1>0
<1>1. /\ m \in Claims
      /\ rpc' \in [Rpcs -> RpcRecord] /\ pv' \in [Claims -> PvRecord]
      /\ rpc'[c] = IdleRpc /\ \A d \in Rpcs \ {c} : rpc'[d] = rpc[d]
      /\ \A n \in Claims \ {m} : pv'[n] = pv[n]
      /\ pv'[m] = IF pv[m].waits = c THEN p ELSE pv[m]
      /\ \A n \in Claims : pv'[n].waits # c
    BY SucceedsEffect
<1>2. /\ pv[m].state \in {"released", "deleted"} => pv'[m].state \in {"released", "deleted"}
      /\ \A n \in Claims : pv[n].state \in {"released", "deleted"} =>
            pv'[n].state \in {"released", "deleted"}
    BY <1>1
<1>3. CloudTypeOK'
    BY <1>1 DEF CloudInv, CloudTypeOK, FsStep
<1>4. FsInv'
    BY <1>2 DEF FsStep, FsInv
<1>5. RpcInv'
    BY <1>1, <1>2, NamedExists DEF CloudInv, RpcInv, FsStep, IdleRpc
<1>6. PvInv'
    <2>1. ASSUME NEW n \in Claims, n # m \/ pv[m].waits # c
          PROVE  PvOK(n)'
        BY <1>1, <2>1, NamedExists DEF CloudInv, PvInv, PvOK, FsStep
    <2>2. ASSUME pv[m].waits = c
          PROVE  PvOK(m)'
        BY <1>1, <2>2, CloudAssumption DEF PvOK
    <2> QED
        BY <1>1, <2>1, <2>2 DEF PvInv
<1> QED
    BY <1>3, <1>4, <1>5, <1>6 DEF CloudInv

\* A call that goes on keeps the invariant if it stays with its claim.
LEMMA MovesCloud ==
    ASSUME CloudInv, NEW c \in Rpcs, NEW r \in RpcRecord, rpc' = [rpc EXCEPT ![c] = r],
           r.claim = rpc[c].claim, r.id \in FileSystems, fs'[r.id].claim = r.claim,
           \/ rpc[c].pc \in {"create", "poll", "target"} /\ r.pc \in {"poll", "target"}
           \/ rpc[c].pc = "find" /\ r.pc = "delete",
           FsStep, UNCHANGED <<class, pv>>
    PROVE  CloudInv'
<1>1. /\ rpc' \in [Rpcs -> RpcRecord]
      /\ rpc'[c] = r /\ \A d \in Rpcs \ {c} : rpc'[d] = rpc[d]
    BY DEF CloudInv, CloudTypeOK
<1>2. CloudTypeOK'
    BY <1>1 DEF CloudInv, CloudTypeOK, FsStep
<1>3. FsInv'
    BY DEF FsStep, FsInv
<1>4. RpcInv'
    BY <1>1, NamedExists DEF CloudInv, RpcInv, FsStep
<1>5. PvInv'
    BY <1>1, NamedExists DEF CloudInv, PvInv, PvOK, FsStep
<1> QED
    BY <1>2, <1>3, <1>4, <1>5 DEF CloudInv

\* A new call keeps the invariant: a CreateVolume for a claim that is not
\* bound, a DeleteVolume for the volume of one that is.
LEMMA CallRpcCloud ==
    ASSUME CloudInv, NEW c \in Rpcs, NEW n \in Claims,
           NEW pc, NEW id, NEW st, CallRpc(c, n, pc, id, st),
           \/ pc = "create" /\ id = None /\ pv[n].state = "unbound" /\ st = "unbound"
           \/ /\ pc = "find" /\ id = pv[n].id /\ st = "released"
              /\ pv[n].state \in {"bound", "released"}
    PROVE  CloudInv'
<1> DEFINE r == [claim |-> n, pc |-> pc, id |-> id]
           p == [state |-> st, id |-> pv[n].id, host |-> pv[n].host,
                 fsid |-> pv[n].fsid, waits |-> c]
<1>1. rpc \in [Rpcs -> RpcRecord] /\ pv \in [Claims -> PvRecord] /\ pv[n] \in PvRecord
    BY DEF CloudInv, CloudTypeOK
<1>2. r \in RpcRecord /\ r.claim = n /\ r.pc = pc /\ r.id = id
    BY <1>1 DEF RpcRecord, PvRecord
<1>3. /\ p \in PvRecord /\ p.state = st /\ p.id = pv[n].id /\ p.host = pv[n].host
      /\ p.fsid = pv[n].fsid /\ p.waits = c
    BY <1>1 DEF PvRecord
<1>4. rpc' = [rpc EXCEPT ![c] = r]
    BY DEF CallRpc
<1>5. pv' = [pv EXCEPT ![n] = p]
    <2>1. pv' = [pv EXCEPT ![n].waits = c, ![n].state = st]
        BY DEF CallRpc
    <2> DEFINE q == [state |-> pv[n].state, id |-> pv[n].id, host |-> pv[n].host,
                     fsid |-> pv[n].fsid, waits |-> c]
    <2>2. [pv[n] EXCEPT !.waits = c] = q /\ [q EXCEPT !.state = st] = p
        BY <1>1 DEF PvRecord
    <2>3. [pv EXCEPT ![n].waits = c, ![n].state = st] =
             [pv EXCEPT ![n] = [[pv[n] EXCEPT !.waits = c] EXCEPT !.state = st]]
        BY <1>1
    <2>4. [[pv[n] EXCEPT !.waits = c] EXCEPT !.state = st] = p
        <3> HIDE DEF q, p
        <3> QED
            BY <2>2
    <2> QED
        BY <2>1, <2>3, <2>4
<1>6. UNCHANGED <<class, fs>> /\ rpc[c] = IdleRpc /\ pv[n].waits = None
    BY DEF CallRpc
<1> HIDE DEF r, p
<1>7. /\ rpc' \in [Rpcs -> RpcRecord] /\ pv' \in [Claims -> PvRecord]
      /\ rpc'[c] = r /\ \A d \in Rpcs \ {c} : rpc'[d] = rpc[d]
      /\ pv'[n] = p /\ \A m \in Claims \ {n} : pv'[m] = pv[m]
    BY <1>1, <1>2, <1>3, <1>4, <1>5
<1>8. \A m \in Claims : pv[m].waits # c
    BY <1>6, CloudAssumption DEF CloudInv, PvInv, PvOK, IdleRpc
<1>9. CloudTypeOK'
    BY <1>6, <1>7 DEF CloudInv, CloudTypeOK
<1>10. FsInv'
    BY <1>3, <1>6, <1>7 DEF CloudInv, FsInv
<1>11. RpcInv'
    BY <1>2, <1>3, <1>6, <1>7, NamedExists DEF CloudInv, RpcInv, PvInv, PvOK
<1>12. PvInv'
    <2>1. \A m \in Claims \ {n} : PvOK(m)'
        BY <1>6, <1>7, <1>8, NamedExists DEF CloudInv, PvInv, PvOK
    <2>2. PvOK(n)'
        BY <1>2, <1>3, <1>6, <1>7 DEF CloudInv, PvInv, PvOK
    <2> QED
        BY <2>1, <2>2 DEF PvInv
<1> QED
    BY <1>9, <1>10, <1>11, <1>12 DEF CloudInv

\* So do a provisioner that gives up and a process that dies.
LEMMA GivesUpCloud ==
    ASSUME CloudInv, NEW n \in Claims, ProvisionerGivesUp(n)
    PROVE  CloudInv' /\ KeepsPv
<1> DEFINE p == [pv[n] EXCEPT !.waits = None]
<1>1. UNCHANGED <<class, fs, rpc>> /\ pv' = [pv EXCEPT ![n] = p]
    BY DEF ProvisionerGivesUp
<1>2. pv \in [Claims -> PvRecord]
    BY DEF CloudInv, CloudTypeOK
<1>3. /\ p \in PvRecord /\ p.waits = None
      /\ p.state = pv[n].state /\ p.id = pv[n].id
      /\ p.host = pv[n].host /\ p.fsid = pv[n].fsid
    BY <1>2, PvUpdate
<1> HIDE DEF p
<1>4. /\ pv' \in [Claims -> PvRecord]
      /\ pv'[n] = p /\ \A m \in Claims \ {n} : pv'[m] = pv[m]
    BY <1>1, <1>2, <1>3
<1>5. KeepsPv
    BY <1>3, <1>4 DEF KeepsPv
<1>6. CloudTypeOK'
    BY <1>1, <1>4 DEF CloudInv, CloudTypeOK
<1>7. FsInv' /\ RpcInv'
    BY <1>1, <1>5 DEF CloudInv, FsInv, RpcInv, KeepsPv
<1>8. PvInv'
    BY <1>1, <1>5 DEF CloudInv, PvInv, PvOK, KeepsPv
<1> QED
    BY <1>5, <1>6, <1>7, <1>8 DEF CloudInv

LEMMA RestartCloud ==
    ASSUME CloudInv, ControllerRestart
    PROVE  CloudInv' /\ KeepsPv
<1>1. UNCHANGED <<class, fs>>
    BY DEF ControllerRestart
<1>2. rpc' \in [Rpcs -> RpcRecord] /\ \A c \in Rpcs : rpc'[c] = IdleRpc
    BY DEF ControllerRestart, IdleRpc, RpcRecord
<1>3. \A n \in Claims : pv[n] \in PvRecord /\ pv'[n] = [pv[n] EXCEPT !.waits = None]
    BY DEF ControllerRestart, CloudInv, CloudTypeOK
<1>4. \A n \in Claims : /\ pv'[n] \in PvRecord /\ pv'[n].waits = None
                        /\ pv'[n].state = pv[n].state /\ pv'[n].id = pv[n].id
                        /\ pv'[n].host = pv[n].host /\ pv'[n].fsid = pv[n].fsid
    <2> TAKE n \in Claims
    <2> DEFINE p == [pv[n] EXCEPT !.waits = None]
    <2>1. /\ p \in PvRecord /\ p.waits = None
          /\ p.state = pv[n].state /\ p.id = pv[n].id
          /\ p.host = pv[n].host /\ p.fsid = pv[n].fsid
        BY <1>3, PvUpdate
    <2>2. pv'[n] = p
        BY <1>3
    <2> QED
        BY <2>1, <2>2
<1>5. pv' \in [Claims -> PvRecord]
    BY <1>4 DEF ControllerRestart
<1>6. KeepsPv
    BY <1>4 DEF KeepsPv
<1>7. CloudTypeOK'
    BY <1>1, <1>2, <1>5 DEF CloudInv, CloudTypeOK
<1>8. FsInv' /\ RpcInv'
    BY <1>1, <1>2, <1>6 DEF CloudInv, FsInv, RpcInv, KeepsPv, IdleRpc
<1>9. PvInv'
    BY <1>1, <1>4 DEF CloudInv, PvInv, PvOK
<1> QED
    BY <1>6, <1>7, <1>8, <1>9 DEF CloudInv

(***************************************************************************)
(* What a step of the controller's half, but for a new DeleteVolume, is to *)
(* the node's half and to the life cycle: nothing, the binding of a claim, *)
(* or the deletion of its volume.                                          *)
(***************************************************************************)
Released(n) == pv[n].state \in {"released", "deleted"}

Dead(f) == fs[f].state \in {"deleting", "gone"}

KeepsUse == UNCHANGED class /\ \A n \in Claims : Released(n)' => Released(n)

Quiet ==
    /\ KeepsUse
    /\ \A n \in Claims : pv'[n].id = pv[n].id
    /\ \A f \in FileSystems : Dead(f)' <=> Dead(f)

Binds(n, f) ==
    /\ KeepsUse
    /\ pv[n].id = None /\ pv'[n].id = f
    /\ \A m \in Claims \ {n} : pv'[m].id = pv[m].id /\ pv[m].id # f
    /\ ~Dead(f)
    /\ \A g \in FileSystems : Dead(g)' <=> Dead(g)

Deletes(n) ==
    /\ KeepsUse
    /\ Released(n) /\ pv[n].id # None
    /\ \A m \in Claims : pv'[m].id = pv[m].id /\ (m # n => pv[m].id # pv[n].id)
    /\ \A g \in FileSystems : Dead(g)' <=> Dead(g) \/ g = pv[n].id

LEMMA KeepsPvQuiet ==
    ASSUME KeepsPv, UNCHANGED class, \A f \in FileSystems : Dead(f)' <=> Dead(f)
    PROVE  Quiet
BY DEF KeepsPv, Quiet, KeepsUse, Released

LEMMA CreateCfsStep ==
    ASSUME CloudInv, NEW c \in Rpcs, CreateCfsFileSystem(c)
    PROVE  CloudInv' /\ Quiet
<1>1. rpc[c].pc = "create" /\ UNCHANGED class
    BY DEF CreateCfsFileSystem
<1>2. rpc[c].claim \in Claims
    BY <1>1 DEF CloudInv, RpcInv
<1> PICK n \in Claims : n = rpc[c].claim
    BY <1>2
<1>3. CASE UNCHANGED fs /\ Fails(c)
    <2>1. FsStep
        BY <1>3, FsStutters
    <2> QED
        BY <1>1, <1>3, <2>1, FailsCloud, KeepsPvQuiet DEF Dead
<1>4. ASSUME NEW f \in FileSystemFor(n),
             fs' = IF fs[f] = Absent
                   THEN [fs EXCEPT ![f].claim = n, ![f].state = "creating"] ELSE fs
      PROVE  f \in FileSystems /\ FsStep /\ fs'[f].claim = n /\ \A g \in FileSystems : Dead(g)' <=> Dead(g)
    <2>1. f \in FileSystems
        BY DEF FileSystemFor
    <2>2. CASE fs[f] = Absent
        <3>1. \A g \in FileSystems : fs[g].claim # n
            BY <2>2, CloudAssumption DEF FileSystemFor, Absent
        <3>2. FsStep /\ fs'[f].claim = n
            BY <1>4, <2>1, <2>2, <3>1, FsMade
        <3>3. fs'[f].state = "creating" /\ fs[f].state = "absent"
            BY <1>4, <2>1, <2>2 DEF CloudInv, CloudTypeOK, Absent
        <3>4. \A g \in FileSystems \ {f} : fs'[g] = fs[g]
            BY <1>4, <2>1, <2>2 DEF CloudInv, CloudTypeOK
        <3> QED
            BY <2>1, <3>2, <3>3, <3>4 DEF Dead
    <2>3. CASE fs[f] # Absent
        <3>1. fs[f].claim = n
            BY <2>3 DEF FileSystemFor
        <3> QED
            BY <1>4, <2>1, <2>3, <3>1, FsStutters DEF Dead
    <2> QED
        BY <2>2, <2>3
<1>5. ASSUME NEW f \in FileSystemFor(n),
             fs' = IF fs[f] = Absent
                   THEN [fs EXCEPT ![f].claim = n, ![f].state = "creating"] ELSE fs,
             Fails(c)
      PROVE  CloudInv' /\ Quiet
    BY <1>1, <1>4, <1>5, FailsCloud, KeepsPvQuiet
<1>6. ASSUME NEW f \in FileSystemFor(n),
             fs' = IF fs[f] = Absent
                   THEN [fs EXCEPT ![f].claim = n, ![f].state = "creating"] ELSE fs,
             rpc' = [rpc EXCEPT ![c].pc = "poll", ![c].id = f], UNCHANGED pv
      PROVE  CloudInv' /\ Quiet
    <2> DEFINE r == [claim |-> n, pc |-> "poll", id |-> f]
    <2>1. f \in FileSystems /\ FsStep /\ fs'[f].claim = n /\ \A g \in FileSystems : Dead(g)' <=> Dead(g)
        BY <1>4, <1>6
    <2>2. r \in RpcRecord /\ r.claim = rpc[c].claim /\ r.id = f /\ r.pc = "poll"
        BY <2>1 DEF RpcRecord
    <2>3. rpc' = [rpc EXCEPT ![c] = r]
        <3> DEFINE q == [claim |-> n, pc |-> "poll", id |-> rpc[c].id]
        <3>1. rpc \in [Rpcs -> RpcRecord]
            BY DEF CloudInv, CloudTypeOK
        <3>2. [rpc[c] EXCEPT !.pc = "poll"] = q /\ [q EXCEPT !.id = f] = r
            BY <3>1 DEF RpcRecord
        <3> HIDE DEF q, r
        <3>3. [rpc EXCEPT ![c].pc = "poll", ![c].id = f] =
                 [rpc EXCEPT ![c] = [[rpc[c] EXCEPT !.pc = "poll"] EXCEPT !.id = f]]
            BY <3>1
        <3> QED
            BY <1>6, <3>2, <3>3
    <2> HIDE DEF r
    <2>4. CloudInv'
        BY <1>1, <1>6, <2>1, <2>2, <2>3, MovesCloud
    <2>5. Quiet
        BY <1>1, <1>6, <2>1 DEF Quiet, KeepsUse, Released
    <2> QED
        BY <2>4, <2>5
<1> QED
    BY <1>3, <1>5, <1>6 DEF CreateCfsFileSystem

LEMMA GoesOn ==
    ASSUME CloudInv, NEW c \in Rpcs, NEW pc, Step(c, pc), UNCHANGED <<class, fs>>,
           \/ rpc[c].pc \in {"poll", "target"} /\ pc \in {"poll", "target"}
           \/ rpc[c].pc = "find" /\ pc = "delete"
    PROVE  CloudInv' /\ Quiet
<1> DEFINE r == [claim |-> rpc[c].claim, pc |-> pc, id |-> rpc[c].id]
<1>1. rpc \in [Rpcs -> RpcRecord] /\ rpc[c] \in RpcRecord
    BY DEF CloudInv, CloudTypeOK
<1>2. r \in RpcRecord /\ r.claim = rpc[c].claim /\ r.id = rpc[c].id /\ r.pc = pc
    BY <1>1 DEF RpcRecord
<1>3. rpc' = [rpc EXCEPT ![c] = r]
    <2>1. [rpc[c] EXCEPT !.pc = pc] = r
        BY <1>1 DEF RpcRecord
    <2> QED
        BY <2>1 DEF Step
<1> HIDE DEF r
<1>4. FsStep
    BY FsStutters
<1>5. rpc[c].id \in FileSystems /\ fs[rpc[c].id].claim = rpc[c].claim
    BY DEF CloudInv, RpcInv
<1>6. CloudInv'
    BY <1>2, <1>3, <1>4, <1>5, MovesCloud DEF Step
<1>7. Quiet
    BY DEF Step, Quiet, KeepsUse, Released, Dead
<1> QED
    BY <1>6, <1>7

LEMMA FailsQuietly ==
    ASSUME CloudInv, NEW c \in Rpcs, rpc[c].pc # "idle", Fails(c), UNCHANGED <<class, fs>>
    PROVE  CloudInv' /\ Quiet
BY FsStutters, FailsCloud, KeepsPvQuiet DEF Dead

LEMMA PollMountTargetStep ==
    ASSUME CloudInv, NEW c \in Rpcs, PollMountTarget(c)
    PROVE  CloudInv' /\ (Quiet \/ \E n \in Claims, f \in FileSystems : Binds(n, f))
<1>1. rpc[c].pc = "target" /\ UNCHANGED <<class, fs>>
    BY DEF PollMountTarget
<1>2. rpc[c].claim \in Claims /\ rpc[c].id \in FileSystems /\ fs[rpc[c].id].claim = rpc[c].claim
    BY <1>1 DEF CloudInv, RpcInv
<1> PICK n \in Claims, f \in FileSystems : n = rpc[c].claim /\ f = rpc[c].id
    BY <1>2
<1>3. CASE Step(c, "poll")
    BY <1>1, <1>3, GoesOn
<1>4. CASE fs[f].state = "listed" /\ Succeeds(c, Bound(f))
    <2> DEFINE p == Bound(f)
    <2>1. /\ p \in PvRecord /\ p.waits = None /\ p.id = f /\ p.state = "bound"
          /\ p.host \in {None, f} /\ p.fsid \in {None, f}
        BY DEF Bound, PvRecord
    <2> HIDE DEF p
    <2>2. pv[n].waits = c => pv[n].state = "unbound"
        BY <1>1, CloudAssumption DEF CloudInv, PvInv, PvOK
    <2>3. Succeeds(c, p) /\ FsStep
        BY <1>1, <1>4, FsStutters DEF p
    <2>4. CloudInv'
        BY <1>1, <1>2, <2>1, <2>2, <2>3, SucceedsCloud
    <2>5. /\ \A m \in Claims \ {n} : pv'[m] = pv[m]
          /\ pv'[n] = IF pv[n].waits = c THEN p ELSE pv[n]
        BY <1>1, <2>1, <2>3, SucceedsEffect
    <2>6. CASE pv[n].waits = c
        <3>1. \A m \in Claims \ {n} : pv[m].id # f
            BY <1>2, CloudAssumption DEF CloudInv, PvInv, PvOK
        <3>2. pv[n].id = None
            BY <2>2, <2>6 DEF CloudInv, PvInv, PvOK
        <3>3. Binds(n, f)
            BY <1>1, <1>4, <2>1, <2>2, <2>5, <2>6, <3>1, <3>2 DEF Binds, KeepsUse, Released, Dead
        <3> QED
            BY <2>4, <3>3
    <2>7. CASE pv[n].waits # c
        BY <1>1, <2>4, <2>5, <2>7 DEF Quiet, KeepsUse, Released, Dead
    <2> QED
        BY <2>6, <2>7
<1> QED
    BY <1>3, <1>4 DEF PollMountTarget

\* The answer of a DeleteVolume whose file system is being deleted.
LEMMA DeletedStep ==
    ASSUME CloudInv, NEW c \in Rpcs, rpc[c].pc \in {"find", "delete"}, Succeeds(c, Deleted(c)),
           FsStep, UNCHANGED class, fs'[rpc[c].id].state \in {"deleting", "gone"}
    PROVE  CloudInv' /\ KeepsUse /\ \A n \in Claims : pv'[n].id = pv[n].id
<1>1. /\ rpc[c].claim \in Claims /\ rpc[c].id \in FileSystems
      /\ fs[rpc[c].id].claim = rpc[c].claim /\ fs[rpc[c].id] # Absent
      /\ pv[rpc[c].claim].state \in {"released", "deleted"}
    BY NamedExists DEF CloudInv, RpcInv
<1> PICK n \in Claims, f \in FileSystems : n = rpc[c].claim /\ f = rpc[c].id
    BY <1>1
<1> DEFINE p == [state |-> "deleted", id |-> pv[n].id, host |-> pv[n].host,
                 fsid |-> pv[n].fsid, waits |-> None]
<1>2. pv[n] \in PvRecord
    BY DEF CloudInv, CloudTypeOK
<1>3. /\ p \in PvRecord /\ p.state = "deleted" /\ p.id = pv[n].id
      /\ p.host = pv[n].host /\ p.fsid = pv[n].fsid /\ p.waits = None
    BY <1>2 DEF PvRecord
<1>4. Deleted(c) = p
    <2> DEFINE q == [state |-> "deleted", id |-> pv[n].id, host |-> pv[n].host,
                     fsid |-> pv[n].fsid, waits |-> pv[n].waits]
    <2>1. [pv[n] EXCEPT !.state = "deleted"] = q /\ [q EXCEPT !.waits = None] = p
        BY <1>2 DEF PvRecord
    <2>2. Deleted(c) = [[pv[n] EXCEPT !.state = "deleted"] EXCEPT !.waits = None]
        BY DEF Deleted
    <2> HIDE DEF p, q
    <2> QED
        BY <2>1, <2>2
<1> HIDE DEF p
<1>5. pv[n].id = f /\ p.host \in {None, f} /\ p.fsid \in {None, f}
    <2>1. pv[n].id \in FileSystems /\ fs[pv[n].id].claim = n
        BY <1>1, NamedExists DEF CloudInv, PvInv, PvOK
    <2>2. pv[n].id = f
        BY <1>1, <2>1, CloudAssumption DEF CloudInv, FsInv
    <2> QED
        BY <1>3, <2>2 DEF CloudInv, PvInv, PvOK
<1>6. pv[n].waits = c => pv[n].state = "released"
    BY CloudAssumption DEF CloudInv, PvInv, PvOK
<1>7. CloudInv'
    <2>1. fs'[f].claim = n
        BY <1>1 DEF FsStep
    <2> QED
        BY <1>3, <1>4, <1>5, <1>6, <2>1, SucceedsCloud
<1>8. /\ \A m \in Claims \ {n} : pv'[m] = pv[m]
      /\ pv'[n] = IF pv[n].waits = c THEN p ELSE pv[n]
    BY <1>3, <1>4, SucceedsEffect
<1> QED
    BY <1>1, <1>3, <1>7, <1>8 DEF KeepsUse, Released

LEMMA FindStep ==
    ASSUME CloudInv, NEW c \in Rpcs, FindFileSystem(c)
    PROVE  CloudInv' /\ Quiet
<1>1. rpc[c].pc = "find" /\ UNCHANGED <<class, fs>>
    BY DEF FindFileSystem
<1>2. CASE fs[rpc[c].id].state = "gone" /\ Succeeds(c, Deleted(c))
    <2>1. FsStep
        BY <1>1, FsStutters
    <2> QED
        BY <1>1, <1>2, <2>1, DeletedStep DEF Quiet, Dead
<1>3. CASE Step(c, "delete")
    BY <1>1, <1>3, GoesOn
<1>4. CASE Fails(c)
    BY <1>1, <1>4, FailsQuietly
<1> QED
    BY <1>2, <1>3, <1>4 DEF FindFileSystem

LEMMA DeleteCfsStep ==
    ASSUME CloudInv, NEW c \in Rpcs, DeleteCfsFileSystem(c)
    PROVE  CloudInv' /\ (Quiet \/ \E n \in Claims : Deletes(n))
<1>1. rpc[c].pc = "delete" /\ UNCHANGED class
    BY DEF DeleteCfsFileSystem
<1>2. /\ rpc[c].claim \in Claims /\ rpc[c].id \in FileSystems
      /\ fs[rpc[c].id].claim = rpc[c].claim /\ fs[rpc[c].id] # Absent
      /\ pv[rpc[c].claim].state \in {"released", "deleted"}
    BY <1>1, NamedExists DEF CloudInv, RpcInv
<1> PICK n \in Claims, f \in FileSystems : n = rpc[c].claim /\ f = rpc[c].id
    BY <1>2
<1>3. CASE Fails(c) /\ UNCHANGED fs
    BY <1>1, <1>3, FailsQuietly
<1>4. CASE /\ fs[f].state \notin {"deleting", "gone"}
           /\ fs' = [fs EXCEPT ![f].state = "deleting"]
           /\ Succeeds(c, Deleted(c)) \/ Fails(c)
    <2> DEFINE r == [fs[f] EXCEPT !.state = "deleting"]
    <2>1. fs \in [FileSystems -> FsRecord] /\ fs[f] \in FsRecord
        BY DEF CloudInv, CloudTypeOK
    <2>2. r \in FsRecord /\ r.claim = fs[f].claim /\ r.state = "deleting"
        BY <2>1 DEF FsRecord
    <2>3. fs' = [fs EXCEPT ![f] = r]
        BY <1>4
    <2> HIDE DEF r
    <2>4. FsStep
        BY <1>2, <1>4, <2>2, <2>3, FsMoves
    <2>5. fs'[f] = r /\ \A g \in FileSystems \ {f} : fs'[g] = fs[g]
        BY <2>1, <2>3
    <2>6. CloudInv' /\ KeepsUse /\ \A m \in Claims : pv'[m].id = pv[m].id
        <3>1. CASE Succeeds(c, Deleted(c))
            BY <1>1, <2>2, <2>4, <2>5, <3>1, DeletedStep
        <3>2. CASE Fails(c)
            BY <1>1, <2>4, <3>2, FailsCloud DEF KeepsPv, KeepsUse, Released
        <3> QED
            BY <1>4, <3>1, <3>2
    <2>7. pv[n].id = f
        <3>1. pv[n].id \in FileSystems /\ fs[pv[n].id].claim = n
            BY <1>2, NamedExists DEF CloudInv, PvInv, PvOK
        <3> QED
            BY <1>2, <3>1, CloudAssumption DEF CloudInv, FsInv
    <2>8. \A m \in Claims \ {n} : pv[m].id # f
        BY <1>2, CloudAssumption DEF CloudInv, PvInv, PvOK
    <2>9. \A g \in FileSystems : Dead(g)' <=> Dead(g) \/ g = f
        BY <2>2, <2>5 DEF Dead
    <2>10. Deletes(n)
        BY <1>2, <2>6, <2>7, <2>8, <2>9, CloudAssumption DEF Deletes, Released
    <2> QED
        BY <2>6, <2>10
<1> QED
    BY <1>3, <1>4 DEF DeleteCfsFileSystem

\* The cloud's own steps.
LEMMA CloudMoves ==
    ASSUME CloudInv, NEW f \in FileSystems, Cloud(f)
    PROVE  CloudInv' /\ Quiet
<1>1. UNCHANGED <<class, rpc, pv>>
    BY DEF Cloud, CloudCreates, CloudListsTarget, CloudDeletes
<1>2. fs \in [FileSystems -> FsRecord] /\ fs[f] \in FsRecord
    BY DEF CloudInv, CloudTypeOK
<1>3. PICK r \in FsRecord :
          /\ fs' = [fs EXCEPT ![f] = r]
          /\ r.claim = fs[f].claim
          /\ \/ fs[f].state \in {"creating", "available"} /\ r.state \in {"available", "listed"}
             \/ fs[f].state = "deleting" /\ r.state = "gone"
    <2>1. CASE CloudCreates(f)
        <3> DEFINE r == [fs[f] EXCEPT !.state = "available"]
        <3>1. r \in FsRecord /\ r.claim = fs[f].claim /\ r.state = "available"
            BY <1>2 DEF FsRecord
        <3>2. fs' = [fs EXCEPT ![f] = r] /\ fs[f].state = "creating"
            BY <2>1 DEF CloudCreates
        <3> HIDE DEF r
        <3> QED
            BY <3>1, <3>2
    <2>2. CASE CloudListsTarget(f)
        <3> PICK ip \in BOOLEAN, fsid \in BOOLEAN :
                fs' = [fs EXCEPT ![f].state = "listed", ![f].ip = ip, ![f].fsid = fsid]
            BY <2>2 DEF CloudListsTarget
        <3> DEFINE r == [[[fs[f] EXCEPT !.state = "listed"] EXCEPT !.ip = ip] EXCEPT !.fsid = fsid]
                   q == [[fs[f] EXCEPT !.state = "listed"] EXCEPT !.ip = ip]
                   o == [fs[f] EXCEPT !.state = "listed"]
        <3>1. o \in FsRecord /\ o.claim = fs[f].claim /\ o.state = "listed"
            BY <1>2 DEF FsRecord
        <3>2. q \in FsRecord /\ q.claim = fs[f].claim /\ q.state = "listed"
            <4>1. q = [o EXCEPT !.ip = ip]
                OBVIOUS
            <4> HIDE DEF o, q
            <4> QED
                BY <3>1, <4>1 DEF FsRecord
        <3>3. r \in FsRecord /\ r.claim = fs[f].claim /\ r.state = "listed"
            <4>1. r = [q EXCEPT !.fsid = fsid]
                OBVIOUS
            <4> HIDE DEF q, r
            <4> QED
                BY <3>2, <4>1 DEF FsRecord
        <3>4. fs' = [fs EXCEPT ![f] = r] /\ fs[f].state = "available"
            BY <1>2, <2>2 DEF CloudListsTarget
        <3> HIDE DEF r
        <3> QED
            BY <3>3, <3>4
    <2>3. CASE CloudDeletes(f)
        <3> DEFINE r == [fs[f] EXCEPT !.state = "gone"]
        <3>1. r \in FsRecord /\ r.claim = fs[f].claim /\ r.state = "gone"
            BY <1>2 DEF FsRecord
        <3>2. fs' = [fs EXCEPT ![f] = r] /\ fs[f].state = "deleting"
            BY <2>3 DEF CloudDeletes
        <3> HIDE DEF r
        <3> QED
            BY <3>1, <3>2
    <2> QED
        BY <2>1, <2>2, <2>3 DEF Cloud
<1>4. fs[f].claim \in Claims
    BY <1>3 DEF CloudInv, FsInv, Absent
<1>5. FsStep
    <2>1. fs[f].state = "deleting" => pv[fs[f].claim].state \in {"released", "deleted"}
        BY DEF CloudInv, FsInv, Absent
    <2> QED
        BY <1>3, <1>4, <2>1, FsMoves
<1>6. fs'[f] = r /\ \A g \in FileSystems \ {f} : fs'[g] = fs[g]
    BY <1>2, <1>3
<1>7. CloudTypeOK' /\ FsInv'
    BY <1>1, <1>5 DEF CloudInv, CloudTypeOK, FsStep, FsInv
<1>8. RpcInv' /\ PvInv'
    <2>1. RpcInv'
        BY <1>1, <1>5, NamedExists DEF CloudInv, RpcInv, FsStep
    <2>2. PvInv'
        BY <1>1, <1>5, NamedExists DEF CloudInv, PvInv, PvOK, FsStep
    <2> QED
        BY <2>1, <2>2
<1>9. Quiet
    BY <1>1, <1>3, <1>6 DEF Quiet, KeepsUse, Released, Dead
<1> QED
    BY <1>7, <1>8, <1>9 DEF CloudInv

LEMMA CloudHalf ==
    ASSUME CloudInv, CloudNext
    PROVE  /\ CloudInv'
           /\ \/ Quiet
              \/ \E n \in Claims, f \in FileSystems : Binds(n, f)
              \/ \E n \in Claims : Deletes(n)
<1>1. ASSUME NEW c \in Rpcs, Controller(c)
      PROVE  /\ CloudInv'
             /\ \/ Quiet
                \/ \E n \in Claims, f \in FileSystems : Binds(n, f)
                \/ \E n \in Claims : Deletes(n)
    <2>1. CASE PollFileSystem(c)
        BY <2>1, GoesOn DEF PollFileSystem
    <2>2. CASE CreateDeadline(c)
        BY <2>2, FailsQuietly DEF CreateDeadline
    <2> QED
        BY <1>1, <2>1, <2>2, CreateCfsStep, PollMountTargetStep, FindStep, DeleteCfsStep
        DEF Controller
<1>2. ASSUME NEW c \in Rpcs, NEW n \in Claims, CreateVolume(c, n)
      PROVE  CloudInv' /\ Quiet
    <2>1. CallRpc(c, n, "create", None, "unbound") /\ pv[n].state = "unbound"
        BY <1>2 DEF CreateVolume
    <2>2. CloudInv'
        BY <2>1, CallRpcCloud
    <2>3. UNCHANGED <<class, fs>>
        BY <2>1 DEF CallRpc
    <2>4. /\ \A m \in Claims \ {n} : pv'[m] = pv[m]
          /\ pv'[n].id = pv[n].id /\ pv'[n].state = "unbound"
        BY <2>1 DEF CallRpc, CloudInv, CloudTypeOK, PvRecord
    <2> QED
        BY <2>2, <2>3, <2>4 DEF Quiet, KeepsUse, Released, Dead
<1>3. ASSUME NEW n \in Claims, ProvisionerGivesUp(n)
      PROVE  CloudInv' /\ Quiet
    BY <1>3, GivesUpCloud, KeepsPvQuiet DEF ProvisionerGivesUp, Dead
<1>4. ASSUME ControllerRestart
      PROVE  CloudInv' /\ Quiet
    BY <1>4, RestartCloud, KeepsPvQuiet DEF ControllerRestart, Dead
<1> QED
    BY <1>1, <1>2, <1>3, <1>4, CloudMoves DEF CloudNext

LEMMA CloudStutters ==
    ASSUME CloudInv, UNCHANGED cloudVars
    PROVE  CloudInv'
BY DEF cloudVars, CloudInv, CloudTypeOK, FsInv, RpcInv, PvInv, PvOK

LEMMA ReleaseCloud ==
    ASSUME CloudInv, NEW c \in Rpcs, NEW n \in Claims, Release(c, n)
    PROVE  /\ CloudInv' /\ UNCHANGED <<class, fs>>
           /\ \A m \in Claims : pv'[m].id = pv[m].id
           /\ \A m \in Claims \ {n} : pv'[m] = pv[m]
<1>1. /\ CallRpc(c, n, "find", pv[n].id, "released")
      /\ pv[n].state \in {"bound", "released"}
    BY DEF Release, DeleteVolume
<1>2. CloudInv'
    BY <1>1, CallRpcCloud
<1>3. UNCHANGED <<class, fs>>
    BY <1>1 DEF CallRpc
<1>4. \A m \in Claims \ {n} : pv'[m] = pv[m]
    BY <1>1 DEF CallRpc, CloudInv, CloudTypeOK
<1>5. pv'[n].id = pv[n].id
    BY <1>1 DEF CallRpc, CloudInv, CloudTypeOK, PvRecord
<1> QED
    BY <1>2, <1>3, <1>4, <1>5

-----------------------------------------------------------------------------
(* The steps of the node's half.                                            *)

\* A mount at a target is of the claim's volume.
LEMMA MountedIsBound ==
    ASSUME NodeInv, NEW t \in Targets, mnt[t] # <<>>
    PROVE  mnt[t][1] = Asked(t) /\ pv[ClaimOf[t]].id \in FileSystems
<1>1. mnt[t] \in Seq(Layer) /\ mnt[t] \in Seq({Asked(t)})
    BY DEF NodeInv, NodeTypeOK, MountInv
<1>2. mnt[t][1] \in Layer /\ mnt[t][1] \in {Asked(t)}
    BY <1>1
<1> QED
    BY <1>2 DEF Layer, Asked

\* The node's half does not notice the steps of the other one.
LEMMA CloudStepNode ==
    ASSUME CloudInv, CloudInv', NodeInv, UNCHANGED nodeVars, UNCHANGED class,
           \A n \in Claims : pv[n].id # None => pv'[n].id = pv[n].id,
           \A n \in Claims : Released(n)' => Released(n) \/ ~InUse(n)
    PROVE  NodeInv'
<1> USE DEF nodeVars
<1>1. NodeTypeOK'
    BY DEF NodeInv, NodeTypeOK
<1>2. NcallInv'
    <2>1. \A n \in Claims : pv[n].state # "unbound" =>
              pv'[n].state # "unbound" /\ pv'[n].id = pv[n].id
        BY DEF CloudInv, PvInv, PvOK
    <2> QED
        BY <2>1, NodeAssumption DEF NodeInv, NcallInv, Path
<1>3. MountInv'
    <2> SUFFICES ASSUME NEW t \in Targets
                 PROVE  mnt[t] \in Seq({Asked(t)'}) /\ (Running(t) => mnt[t] # <<>>)
        BY DEF MountInv, Running
    <2>1. mnt[t] \in Seq({Asked(t)}) /\ (Running(t) => mnt[t] # <<>>)
        BY DEF NodeInv, MountInv
    <2>2. CASE mnt[t] = <<>>
        BY <2>1, <2>2
    <2>3. CASE mnt[t] # <<>>
        <3>1. pv'[ClaimOf[t]].id = pv[ClaimOf[t]].id
            BY <2>3, MountedIsBound, CloudAssumption, NodeAssumption
        <3>2. Asked(t)' = Asked(t)
            BY <3>1 DEF Asked, Path
        <3> QED
            BY <2>1, <3>2
    <2> QED
        BY <2>2, <2>3
<1>4. KubeletInv' /\ AloneInv'
    BY DEF NodeInv, KubeletInv, AloneInv, AloneAt, Publishing
<1>5. ReleaseInv'
    BY DEF NodeInv, ReleaseInv, InUse, Released
<1> QED
    BY <1>1, <1>2, <1>3, <1>4, <1>5 DEF NodeInv

\* What the end of call c at target t with answer st leaves: the kubelet that
\* waited for it waits no longer, and knows the answer.
Ends(c, t, st) ==
    /\ t \in Targets /\ UNCHANGED overlap
    /\ ncall' \in [NodeRpcs -> NcallRecord]
    /\ ncall'[c] = IdleNcall /\ \A d \in NodeRpcs \ {c} : ncall'[d] = ncall[d]
    /\ kubelet' \in [Targets -> KubeletRecord]
    /\ \A u \in Targets \ {t} : kubelet'[u] = kubelet[u]
    /\ kubelet'[t].pod = kubelet[t].pod
    /\ \/ /\ kubelet[t].waits = c /\ kubelet'[t].waits = None
          /\ kubelet[t].state = "uncertain" /\ kubelet'[t].state = st
       \/ kubelet[t].waits # c /\ kubelet'[t] = kubelet[t]
    /\ \A u \in Targets : kubelet'[u].waits # c

LEMMA ReturnEffect ==
    ASSUME NodeInv, NEW c \in NodeRpcs, ncall[c].pc # "idle",
           NEW st \in {"unmounted", "uncertain", "published"}, NodeReturn(c, st),
           NEW t, t = ncall[c].target
    PROVE  Ends(c, t, st)
<1> USE DEF Ends
<1>1. /\ t \in Targets
      /\ ncall \in [NodeRpcs -> NcallRecord] /\ kubelet \in [Targets -> KubeletRecord]
    BY DEF NodeInv, NodeTypeOK, NcallInv
<1>2. /\ ncall' = [ncall EXCEPT ![c] = IdleNcall] /\ UNCHANGED overlap
      /\ kubelet' = IF kubelet[t].waits = c
                    THEN [kubelet EXCEPT ![t].waits = None, ![t].state = st] ELSE kubelet
    BY DEF NodeReturn
<1>3. IdleNcall \in NcallRecord
    <2>1. NoOptions \in Options
        BY DEF NoOptions, Options
    <2> QED
        BY <2>1 DEF IdleNcall, NcallRecord
<1>4. /\ ncall' \in [NodeRpcs -> NcallRecord]
      /\ ncall'[c] = IdleNcall /\ \A d \in NodeRpcs \ {c} : ncall'[d] = ncall[d]
    BY <1>1, <1>2, <1>3
<1>5. None # c /\ \A u \in Targets : kubelet[u].waits = c => u = t /\ kubelet[u].state = "uncertain"
    BY NodeAssumption DEF NodeInv, KubeletInv
<1>6. CASE kubelet[t].waits = c
    <2> DEFINE q == [pod |-> kubelet[t].pod, state |-> kubelet[t].state, waits |-> None]
               k == [pod |-> kubelet[t].pod, state |-> st, waits |-> None]
    <2>1. [kubelet[t] EXCEPT !.waits = None] = q /\ [q EXCEPT !.state = st] = k
        BY <1>1 DEF KubeletRecord
    <2>2. k \in KubeletRecord /\ k.pod = kubelet[t].pod /\ k.state = st /\ k.waits = None
        BY <1>1 DEF KubeletRecord
    <2> HIDE DEF q, k
    <2>3. [kubelet EXCEPT ![t].waits = None, ![t].state = st] =
             [kubelet EXCEPT ![t] = [[kubelet[t] EXCEPT !.waits = None] EXCEPT !.state = st]]
        BY <1>1
    <2>4. kubelet' = [kubelet EXCEPT ![t] = k]
        BY <1>2, <1>6, <2>1, <2>3
    <2>5. /\ kubelet' \in [Targets -> KubeletRecord] /\ kubelet'[t] = k
          /\ \A u \in Targets \ {t} : kubelet'[u] = kubelet[u]
        BY <1>1, <2>2, <2>4
    <2> QED
        BY <1>1, <1>2, <1>4, <1>5, <1>6, <2>2, <2>5
<1>7. CASE kubelet[t].waits # c
    BY <1>1, <1>2, <1>4, <1>5, <1>7
<1> QED
    BY <1>6, <1>7

LEMMA IdleFacts == IdleNcall.pc = "idle" /\ IdleNcall.target = None /\ None \notin Targets
BY NodeAssumption DEF IdleNcall

LEMMA EndsKubelet ==
    ASSUME NodeInv, NEW c \in NodeRpcs, NEW t, NEW st, Ends(c, t, st)
    PROVE  KubeletInv'
<1>1. \A u \in Targets : /\ kubelet'[u].pod = kubelet[u].pod
                         /\ kubelet'[u].waits # None =>
                               kubelet'[u] = kubelet[u] /\ kubelet[u].waits \in NodeRpcs \ {c}
    BY DEF Ends, KubeletRecord
<1>2. \A d \in NodeRpcs \ {c} : ncall'[d] = ncall[d]
    BY DEF Ends
<1>3. ncall'[c].target \notin Targets
    BY IdleFacts DEF Ends
<1> QED
    BY <1>1, <1>2, <1>3 DEF NodeInv, KubeletInv

LEMMA EndsRelease ==
    ASSUME NodeInv, NEW c \in NodeRpcs, NEW t, NEW st, Ends(c, t, st), UNCHANGED cloudVars
    PROVE  ReleaseInv'
<1> SUFFICES ASSUME NEW n \in Claims, pv[n].state \in {"released", "deleted"}, NEW u \in Targets,
                    ClaimOf[u] = n
             PROVE  ~kubelet'[u].pod /\ kubelet'[u].state = "unmounted"
    BY DEF ReleaseInv, InUse, cloudVars
<1>1. ~kubelet[u].pod /\ kubelet[u].state = "unmounted"
    BY DEF NodeInv, ReleaseInv, InUse
<1> QED
    BY <1>1 DEF Ends

LEMMA EndsElsewhere ==
    ASSUME NodeInv, NEW c \in NodeRpcs, NEW t, NEW st, Ends(c, t, st), t = ncall[c].target,
           NEW u \in Targets \ overlap, u # t, mnt'[u] = mnt[u]
    PROVE  AloneAt(u)'
<1>1. AloneAt(u) /\ kubelet'[u] = kubelet[u]
    BY DEF NodeInv, AloneInv, Ends
<1>2. \A d \in NodeRpcs : ncall'[d].target = u => ncall'[d] = ncall[d]
    BY IdleFacts DEF Ends
<1> QED
    BY <1>1, <1>2 DEF AloneAt, Publishing

\* A call that ends keeps the invariant, if what it leaves at its target is
\* true to its answer.
LEMMA ReturnNode ==
    ASSUME NodeInv, NEW c \in NodeRpcs, ncall[c].pc # "idle",
           NEW st \in {"unmounted", "uncertain", "published"}, NodeReturn(c, st),
           NEW t \in Targets, t = ncall[c].target, UNCHANGED cloudVars,
           mnt' \in [Targets -> Seq(Layer)], \A u \in Targets \ {t} : mnt'[u] = mnt[u],
           mnt'[t] \in Seq({Asked(t)}),
           kubelet[t].pod /\ mnt'[t] = <<>> => mnt[t] = <<>> /\ st # "published",
           t \notin overlap => Len(mnt'[t]) <= 1,
           ncall[c].pc \in {"look", "unmount"} /\ mnt[t] = <<>> => mnt'[t] = <<>>,
           st = "unmounted" =>
              ncall[c].pc \in {"look", "unmount"} /\ (t \notin overlap => mnt'[t] = <<>>)
    PROVE  NodeInv'
<1> USE DEF cloudVars
<1>1. Ends(c, t, st)
    BY ReturnEffect
<1>2. NodeTypeOK'
    BY <1>1 DEF NodeInv, NodeTypeOK, Ends
<1>3. NcallInv'
    BY <1>1, IdleFacts DEF NodeInv, NcallInv, Path, Ends
<1>4. MountInv'
    <2>1. \A u \in Targets : Asked(u)' = Asked(u)
        BY DEF Asked, Path
    <2>2. \A u \in Targets \ {t} : mnt'[u] \in Seq({Asked(u)}) /\ (Running(u)' => mnt'[u] # <<>>)
        BY <1>1 DEF NodeInv, MountInv, Running, Ends
    <2>3. mnt'[t] \in Seq({Asked(t)}) /\ (Running(t)' => mnt'[t] # <<>>)
        BY <1>1 DEF NodeInv, MountInv, Running, Ends
    <2> QED
        BY <2>1, <2>2, <2>3 DEF MountInv
<1>5. KubeletInv' /\ ReleaseInv'
    BY <1>1, EndsKubelet, EndsRelease
<1>6. AloneInv'
    <2>1. ASSUME NEW u \in Targets \ overlap, u # t
          PROVE  AloneAt(u)'
        BY <1>1, <2>1, EndsElsewhere
    <2>2. ASSUME t \notin overlap
          PROVE  AloneAt(t)'
        <3>1. AloneAt(t)
            BY <2>2 DEF NodeInv, AloneInv
        <3>2. \A d \in NodeRpcs \ {c} :
                  ncall[d].target = t => ncall[d].pc \notin {"check", "mount"}
            BY <3>1 DEF AloneAt
        <3>3. ~Publishing(t)'
            BY <1>1, <3>2, IdleFacts DEF Publishing, Ends
        <3>4. kubelet'[t].state = "unmounted" => mnt'[t] = <<>>
            <4>1. ncall[c].pc \in {"check", "mount", "look", "unmount"}
                BY DEF NodeInv, NodeTypeOK, NcallRecord
            <4>2. CASE kubelet'[t] = kubelet[t]
                BY <2>2, <3>1, <4>1, <4>2 DEF AloneAt, Publishing
            <4> QED
                BY <1>1, <2>2, <4>2 DEF Ends
        <3> QED
            BY <1>1, <2>2, <3>1, <3>2, <3>3, <3>4, IdleFacts DEF AloneAt, Ends
    <2> QED
        BY <1>1, <2>1, <2>2 DEF AloneInv, Ends
<1> QED
    BY <1>2, <1>3, <1>4, <1>5, <1>6 DEF NodeInv

\* So does one that leaves its target as it is.
LEMMA ReturnsAsIs ==
    ASSUME NodeInv, NEW c \in NodeRpcs, ncall[c].pc # "idle",
           NEW st \in {"unmounted", "uncertain", "published"}, NodeReturn(c, st),
           UNCHANGED <<cloudVars, mnt>>,
           st = "published" => mnt[ncall[c].target] # <<>>,
           st = "unmounted" => ncall[c].pc \in {"look", "unmount"} /\ mnt[ncall[c].target] = <<>>
    PROVE  NodeInv'
<1>1. ncall[c].target \in Targets
    BY DEF NodeInv, NcallInv
<1> PICK t \in Targets : t = ncall[c].target
    BY <1>1
<1>2. mnt \in [Targets -> Seq(Layer)] /\ mnt[t] \in Seq({Asked(t)})
    BY DEF NodeInv, NodeTypeOK, MountInv
<1>3. t \notin overlap => Len(mnt[t]) <= 1
    BY DEF NodeInv, AloneInv, AloneAt
<1> QED
    BY <1>2, <1>3, ReturnNode

\* The prefix of version 3 and the export of the server cancel out.
LEMMA PrefixCancels ==
    ASSUME NEW S, NEW p \in Seq(S), NEW f
    PROVE  LET q == <<"/", f>> \o p
           IN  q[2] = f /\ Len(q) = Len(p) + 2 /\ SubSeq(q, 3, Len(q)) = p
OBVIOUS

\* Whatever the version is, a mount is the one that was asked for.
LEMMA MountsAsked ==
    ASSUME CloudInv, NodeInv, NEW c \in NodeRpcs, ncall[c].pc = "mount",
           NEW t \in Targets, t = ncall[c].target, NEW opt, opt = ncall[c].opt,
           NEW d \in Exported(opt.host, Version(opt), SourcePath(opt))
    PROVE  /\ [fs |-> opt.host, dir |-> d, ro |-> MountFlags(t)] = Asked(t)
           /\ Asked(t) \in Layer
<1>1. PICK n \in Claims : n = ClaimOf[t]
    BY NodeAssumption
<1>2. /\ opt.host = pv[n].id /\ opt.fsid \in {None, pv[n].id} /\ opt.path = Path(n)
      /\ pv[n].id \in FileSystems
    BY <1>1, NamedExists DEF NodeInv, NcallInv, CloudInv, PvInv, PvOK
<1>3. class[n] \in Classes /\ class[n].path \in Seq(STRING)
    BY CloudAssumption DEF CloudInv, CloudTypeOK
<1>4. /\ opt.path \in Dirs /\ opt.path \in Seq(STRING \cup {"/"})
      /\ Len(opt.path) > 2 => opt.path[2] \notin FileSystems
    <2>1. CASE class[n].path = <<>>
        BY <1>2, <2>1 DEF Path, Dirs
    <2>2. CASE class[n].path # <<>>
        <3>1. opt.path = class[n].path
            BY <1>2, <2>2 DEF Path
        <3>2. Len(opt.path) > 2 => 2 \in DOMAIN opt.path
            BY <1>3, <3>1
        <3> QED
            BY <1>3, <3>1, <3>2, CloudAssumption DEF Dirs
    <2> QED
        BY <2>1, <2>2
<1>5. d = opt.path
    <2>1. CASE Version(opt) = "3" /\ opt.fsid # None
        <3> DEFINE q == <<"/", opt.fsid>> \o opt.path
        <3>1. q[2] = opt.fsid /\ SubSeq(q, 3, Len(q)) = opt.path
            BY <1>4, PrefixCancels
        <3>2. SourcePath(opt) = q
            BY <2>1 DEF SourcePath
        <3>3. d \in Exported(opt.host, "3", q)
            BY <2>1, <3>2
        <3> HIDE DEF q
        <3> QED
            BY <3>1, <3>3 DEF Exported
    <2>2. CASE Version(opt) = "3" /\ opt.fsid = None
        BY <1>2, <1>4, <2>2 DEF Exported, SourcePath
    <2>3. CASE Version(opt) # "3"
        BY <2>3 DEF Exported, SourcePath
    <2> QED
        BY <2>1, <2>2, <2>3
<1> QED
    BY <1>1, <1>2, <1>4, <1>5 DEF Asked, MountFlags, Layer

LEMMA PublishMountNode ==
    ASSUME CloudInv, NodeInv, NEW c \in NodeRpcs, PublishMount(c), UNCHANGED cloudVars
    PROVE  NodeInv'
<1>1. ncall[c].pc = "mount" /\ ncall[c].target \in Targets
    BY DEF PublishMount, NodeInv, NcallInv
<1> PICK t \in Targets : t = ncall[c].target
    BY <1>1
<1>2. CASE NodeFails(c) /\ UNCHANGED mnt
    BY <1>1, <1>2, ReturnsAsIs DEF NodeFails
<1>3. ASSUME NEW d, d \in Exported(ncall[c].opt.host, Version(ncall[c].opt), SourcePath(ncall[c].opt)),
             mnt' = [mnt EXCEPT ![t] = <<[fs |-> ncall[c].opt.host, dir |-> d,
                                          ro |-> MountFlags(t)]>> \o @],
             NodeReturn(c, "published")
      PROVE  NodeInv'
    <2> DEFINE s == <<Asked(t)>> \o mnt[t]
    <2>1. /\ [fs |-> ncall[c].opt.host, dir |-> d, ro |-> MountFlags(t)] = Asked(t)
          /\ Asked(t) \in Layer
        BY <1>1, <1>3, MountsAsked
    <2>2. mnt[t] \in Seq(Layer) /\ mnt[t] \in Seq({Asked(t)}) /\ mnt \in [Targets -> Seq(Layer)]
        BY DEF NodeInv, NodeTypeOK, MountInv
    <2>3. mnt' = [mnt EXCEPT ![t] = s]
        BY <1>3, <2>1, <2>2
    <2>4. s \in Seq(Layer) /\ s \in Seq({Asked(t)}) /\ s # <<>> /\ Len(s) = Len(mnt[t]) + 1
        BY <2>1, <2>2
    <2>5. t \notin overlap => mnt[t] = <<>>
        BY <1>1 DEF NodeInv, AloneInv, AloneAt
    <2>6. t \notin overlap => Len(s) <= 1
        BY <2>4, <2>5
    <2> HIDE DEF s
    <2>7. /\ mnt' \in [Targets -> Seq(Layer)]
          /\ mnt'[t] = s /\ \A u \in Targets \ {t} : mnt'[u] = mnt[u]
        BY <2>2, <2>3, <2>4
    <2> QED
        BY <1>1, <1>3, <2>4, <2>6, <2>7, ReturnNode
<1> QED
    BY <1>1, <1>2, <1>3 DEF PublishMount

LEMMA UnpublishUnmountNode ==
    ASSUME NodeInv, NEW c \in NodeRpcs, UnpublishUnmount(c), UNCHANGED cloudVars
    PROVE  NodeInv'
<1>1. ncall[c].pc = "unmount" /\ ncall[c].target \in Targets
    BY DEF UnpublishUnmount, NodeInv, NcallInv
<1> PICK t \in Targets : t = ncall[c].target
    BY <1>1
<1>2. CASE NodeFails(c) /\ UNCHANGED mnt
    BY <1>1, <1>2, ReturnsAsIs DEF NodeFails
<1>3. CASE mnt[t] # <<>> /\ mnt' = [mnt EXCEPT ![t] = Tail(@)] /\ NodeReturn(c, "unmounted")
    <2> DEFINE s == Tail(mnt[t])
    <2>1. mnt[t] \in Seq(Layer) /\ mnt[t] \in Seq({Asked(t)}) /\ mnt \in [Targets -> Seq(Layer)]
        BY DEF NodeInv, NodeTypeOK, MountInv
    <2>2. mnt' = [mnt EXCEPT ![t] = s]
        BY <1>3, <2>1
    <2>3. s \in Seq(Layer) /\ s \in Seq({Asked(t)}) /\ Len(s) = Len(mnt[t]) - 1
        BY <1>3, <2>1
    <2>4. t \notin overlap => Len(mnt[t]) <= 1
        BY DEF NodeInv, AloneInv, AloneAt
    <2>5. t \notin overlap => s = <<>> /\ Len(s) <= 1
        BY <2>1, <2>3, <2>4
    <2>6. ~kubelet[t].pod
        BY <1>1 DEF NodeInv, KubeletInv
    <2> HIDE DEF s
    <2>7. /\ mnt' \in [Targets -> Seq(Layer)]
          /\ mnt'[t] = s /\ \A u \in Targets \ {t} : mnt'[u] = mnt[u]
        BY <2>1, <2>2, <2>3
    <2> QED
        BY <1>1, <1>3, <2>3, <2>5, <2>6, <2>7, ReturnNode
<1> QED
    BY <1>1, <1>2, <1>3 DEF UnpublishUnmount

\* A call that goes on from its look at the target.
LEMMA GoesOnNode ==
    ASSUME NodeInv, NEW c \in NodeRpcs, NEW pc, NodeStep(c, pc), UNCHANGED <<cloudVars, mnt>>,
           \/ ncall[c].pc = "check" /\ pc = "mount" /\ mnt[ncall[c].target] = <<>>
           \/ ncall[c].pc = "look" /\ pc = "unmount"
    PROVE  NodeInv'
<1> DEFINE r == [ncall[c] EXCEPT !.pc = pc]
<1>1. UNCHANGED <<class, fs, rpc, pv, mnt, kubelet, overlap>>
    BY DEF cloudVars, NodeStep
<1>2. ncall \in [NodeRpcs -> NcallRecord] /\ ncall[c].target \in Targets
    BY DEF NodeInv, NodeTypeOK, NcallInv
<1>3. r \in NcallRecord /\ r.target = ncall[c].target /\ r.opt = ncall[c].opt /\ r.pc = pc
    BY <1>2 DEF NcallRecord
<1>4. ncall' = [ncall EXCEPT ![c] = r]
    BY DEF NodeStep
<1> HIDE DEF r
<1>5. /\ ncall' \in [NodeRpcs -> NcallRecord]
      /\ ncall'[c] = r /\ \A d \in NodeRpcs \ {c} : ncall'[d] = ncall[d]
    BY <1>2, <1>3, <1>4
<1>6. /\ \A d \in NodeRpcs : ncall'[d].target = ncall[d].target /\ ncall'[d].opt = ncall[d].opt
      /\ \A d \in NodeRpcs : ncall'[d].pc \in {"check", "mount"} <=> ncall[d].pc \in {"check", "mount"}
      /\ \A d \in NodeRpcs : ncall'[d].pc # "idle" => ncall[d].pc # "idle"
    BY <1>3, <1>5
<1>7. NodeTypeOK'
    BY <1>1, <1>5 DEF NodeInv, NodeTypeOK
<1>8. NcallInv'
    BY <1>1, <1>6 DEF NodeInv, NcallInv, Path
<1>9. MountInv' /\ ReleaseInv'
    BY <1>1 DEF NodeInv, MountInv, Asked, Path, Running, ReleaseInv, InUse
<1>10. KubeletInv'
    <2>1. \A u \in Targets : kubelet[u].waits # None => kubelet[u].waits \in NodeRpcs
        BY DEF NodeInv, NodeTypeOK, KubeletRecord
    <2>2. \A d \in NodeRpcs : ncall[d].pc \in {"check", "mount"} => ncall'[d].pc \in {"check", "mount"}
        BY <1>6
    <2>3. UNCHANGED kubelet /\ \A d \in NodeRpcs : ncall'[d].target = ncall[d].target
        BY <1>1, <1>6
    <2> QED
        BY <2>1, <2>2, <2>3 DEF NodeInv, KubeletInv
<1>11. AloneInv'
    <2> SUFFICES ASSUME NEW t \in Targets \ overlap
                 PROVE  AloneAt(t)'
        BY <1>1 DEF AloneInv
    <2>1. AloneAt(t)
        BY DEF NodeInv, AloneInv
    <2>2. Publishing(t)' <=> Publishing(t)
        BY <1>6 DEF Publishing
    <2>3. \A d \in NodeRpcs : ncall'[d].target = t /\ ncall'[d].pc = "mount" => mnt[t] = <<>>
        BY <1>3, <1>5, <2>1 DEF AloneAt
    <2> QED
        BY <1>1, <1>6, <2>1, <2>2, <2>3 DEF AloneAt
<1> QED
    BY <1>7, <1>8, <1>9, <1>10, <1>11 DEF NodeInv

LEMMA NodeHandlers ==
    ASSUME CloudInv, NodeInv, NEW c \in NodeRpcs, Node(c), UNCHANGED cloudVars
    PROVE  NodeInv'
<1>1. CASE PublishCheck(c)
    <2>1. ncall[c].pc = "check" /\ UNCHANGED mnt
        BY <1>1 DEF PublishCheck
    <2> QED
        BY <1>1, <2>1, GoesOnNode, ReturnsAsIs DEF PublishCheck, NodeFails
<1>2. CASE UnpublishCheck(c)
    <2>1. ncall[c].pc = "look" /\ UNCHANGED mnt
        BY <1>2 DEF UnpublishCheck
    <2> QED
        BY <1>2, <2>1, GoesOnNode, ReturnsAsIs DEF UnpublishCheck, NodeFails
<1> QED
    BY <1>1, <1>2, PublishMountNode, UnpublishUnmountNode DEF Node

\* A new call: a publish that carries the volume context for a pod that is
\* wanted, or an unpublish for one that is not.
LEMMA CallNodeNode ==
    ASSUME CloudInv, NodeInv, NEW c \in NodeRpcs, NEW t \in Targets, NEW pc, NEW opt \in Options,
           CallNode(c, t, pc, opt), UNCHANGED cloudVars,
           ~Released(ClaimOf[t]),
           \/ /\ pc = "check" /\ kubelet[t].pod
              /\ pv[ClaimOf[t]].state # "unbound" /\ opt.host = pv[ClaimOf[t]].id
              /\ opt.fsid \in {None, pv[ClaimOf[t]].id} /\ opt.path = Path(ClaimOf[t])
           \/ pc = "look" /\ ~kubelet[t].pod
    PROVE  NodeInv'
<1> DEFINE r == [target |-> t, pc |-> pc, opt |-> opt]
           k == [pod |-> kubelet[t].pod, state |-> "uncertain", waits |-> c]
<1>1. /\ UNCHANGED <<class, fs, rpc, pv, mnt>> /\ ncall[c] = IdleNcall /\ kubelet[t].waits = None
      /\ overlap' = IF Publishing(t) THEN overlap \cup {t} ELSE overlap
    BY DEF cloudVars, CallNode
<1>2. /\ mnt \in [Targets -> Seq(Layer)] /\ overlap \subseteq Targets
      /\ ncall \in [NodeRpcs -> NcallRecord] /\ kubelet \in [Targets -> KubeletRecord]
    BY DEF NodeInv, NodeTypeOK
<1>3. r \in NcallRecord /\ r.target = t /\ r.pc = pc /\ r.opt = opt
    BY DEF NcallRecord
<1>4. k \in KubeletRecord /\ k.pod = kubelet[t].pod /\ k.state = "uncertain" /\ k.waits = c
    BY <1>2 DEF KubeletRecord
<1>5. kubelet' = [kubelet EXCEPT ![t] = k]
    <2> DEFINE q == [pod |-> kubelet[t].pod, state |-> kubelet[t].state, waits |-> c]
    <2>1. [kubelet[t] EXCEPT !.waits = c] = q /\ [q EXCEPT !.state = "uncertain"] = k
        BY <1>2 DEF KubeletRecord
    <2>2. kubelet' = [kubelet EXCEPT ![t].waits = c, ![t].state = "uncertain"]
        BY DEF CallNode
    <2> HIDE DEF q, k
    <2>3. [kubelet EXCEPT ![t].waits = c, ![t].state = "uncertain"] =
             [kubelet EXCEPT ![t] = [[kubelet[t] EXCEPT !.waits = c] EXCEPT !.state = "uncertain"]]
        BY <1>2
    <2> QED
        BY <2>1, <2>2, <2>3
<1>6. ncall' = [ncall EXCEPT ![c] = r]
    BY DEF CallNode
<1> HIDE DEF r, k
<1>7. /\ ncall' \in [NodeRpcs -> NcallRecord]
      /\ ncall'[c] = r /\ \A d \in NodeRpcs \ {c} : ncall'[d] = ncall[d]
    BY <1>2, <1>3, <1>6
<1>8. /\ kubelet' \in [Targets -> KubeletRecord]
      /\ kubelet'[t] = k /\ \A u \in Targets \ {t} : kubelet'[u] = kubelet[u]
    BY <1>2, <1>4, <1>5
<1>9. NodeTypeOK'
    BY <1>1, <1>2, <1>7, <1>8 DEF NodeTypeOK
<1>10. NcallInv'
    BY <1>1, <1>3, <1>7 DEF NodeInv, NcallInv, Path
<1>11. MountInv'
    BY <1>1, <1>4, <1>8 DEF NodeInv, MountInv, Asked, Path, Running
<1>12. KubeletInv'
    <2>1. \A u \in Targets : kubelet[u].waits # c /\ (kubelet[u].waits # None => kubelet[u].waits \in NodeRpcs)
        BY <1>1, <1>2, NodeAssumption, IdleFacts DEF NodeInv, KubeletInv, KubeletRecord
    <2>2. \A u \in Targets \ {t} : kubelet'[u].waits # None =>
              ncall'[kubelet'[u].waits].target = u /\ kubelet'[u].state = "uncertain"
        BY <1>7, <1>8, <2>1 DEF NodeInv, KubeletInv
    <2>3. ncall'[kubelet'[t].waits].target = t /\ kubelet'[t].state = "uncertain"
        BY <1>3, <1>4, <1>7, <1>8
    <2>4. \A u \in Targets : kubelet'[u].pod = kubelet[u].pod
        BY <1>4, <1>8
    <2>5. \A u \in Targets : kubelet'[u].pod =>
              \A d \in NodeRpcs : ncall'[d].target = u => ncall'[d].pc \in {"check", "mount"}
        BY <1>3, <1>7, <2>4 DEF NodeInv, KubeletInv
    <2> QED
        BY <2>2, <2>3, <2>5 DEF KubeletInv
<1>13. AloneInv'
    <2> SUFFICES ASSUME NEW u \in Targets \ overlap'
                 PROVE  AloneAt(u)'
        BY DEF AloneInv
    <2>1. AloneAt(u)
        BY <1>1 DEF NodeInv, AloneInv
    <2>2. CASE u # t
        <3>1. \A d \in NodeRpcs : /\ ncall'[d].target = u => ncall'[d] = ncall[d]
                                  /\ ncall[d].target = u => ncall'[d] = ncall[d]
            BY <1>1, <1>3, <1>7, <2>2, IdleFacts
        <3> QED
            BY <1>1, <1>8, <2>1, <2>2, <3>1 DEF AloneAt, Publishing
    <2>3. CASE u = t
        <3>1. ~Publishing(t)
            BY <1>1, <2>3
        <3>2. \A d \in NodeRpcs \ {c} : ncall'[d].target = t => ncall'[d].pc \notin {"check", "mount"}
            BY <1>7, <3>1 DEF Publishing
        <3>3. kubelet[t].pod => \A d \in NodeRpcs \ {c} : ncall'[d].target # t
            BY <1>7, <3>1 DEF NodeInv, KubeletInv, Publishing
        <3> QED
            BY <1>1, <1>3, <1>4, <1>7, <1>8, <2>1, <2>3, <3>2, <3>3 DEF AloneAt
    <2> QED
        BY <2>2, <2>3
<1>14. ReleaseInv'
    BY <1>1, <1>8 DEF NodeInv, ReleaseInv, InUse, Released
<1> QED
    BY <1>9, <1>10, <1>11, <1>12, <1>13, <1>14 DEF NodeInv

LEMMA PodDeletedNode ==
    ASSUME NodeInv, NEW t \in Targets, PodDeleted(t), UNCHANGED cloudVars
    PROVE  NodeInv'
<1> DEFINE k == [kubelet[t] EXCEPT !.pod = FALSE]
<1>1. UNCHANGED <<class, fs, rpc, pv, mnt, ncall, overlap>> /\ kubelet[t].pod
    BY DEF cloudVars, PodDeleted
<1>2. kubelet \in [Targets -> KubeletRecord]
    BY DEF NodeInv, NodeTypeOK
<1>3. k \in KubeletRecord /\ ~k.pod /\ k.state = kubelet[t].state /\ k.waits = kubelet[t].waits
    BY <1>2 DEF KubeletRecord
<1>4. kubelet' = [kubelet EXCEPT ![t] = k]
    BY DEF PodDeleted
<1> HIDE DEF k
<1>5. /\ kubelet' \in [Targets -> KubeletRecord]
      /\ kubelet'[t] = k /\ \A u \in Targets \ {t} : kubelet'[u] = kubelet[u]
    BY <1>2, <1>3, <1>4
<1>6. \A u \in Targets : /\ kubelet'[u].pod => kubelet[u].pod
                         /\ kubelet'[u].state = kubelet[u].state
                         /\ kubelet'[u].waits = kubelet[u].waits
    BY <1>3, <1>5
<1>7. NodeTypeOK'
    BY <1>1, <1>5 DEF NodeInv, NodeTypeOK
<1>8. NcallInv' /\ AloneInv'
    BY <1>1, <1>6 DEF NodeInv, NcallInv, Path, AloneInv, AloneAt, Publishing
<1>9. MountInv'
    BY <1>1, <1>6 DEF NodeInv, MountInv, Asked, Path, Running
<1>10. KubeletInv' /\ ReleaseInv'
    BY <1>1, <1>6 DEF NodeInv, KubeletInv, ReleaseInv, InUse
<1> QED
    BY <1>7, <1>8, <1>9, <1>10 DEF NodeInv

LEMMA KubeletGivesUpNode ==
    ASSUME NodeInv, NEW t \in Targets, KubeletGivesUp(t), UNCHANGED cloudVars
    PROVE  NodeInv'
<1> DEFINE k == [kubelet[t] EXCEPT !.waits = None]
<1>1. UNCHANGED <<class, fs, rpc, pv, mnt, ncall, overlap>>
    BY DEF cloudVars, KubeletGivesUp
<1>2. kubelet \in [Targets -> KubeletRecord]
    BY DEF NodeInv, NodeTypeOK
<1>3. k \in KubeletRecord /\ k.pod = kubelet[t].pod /\ k.state = kubelet[t].state /\ k.waits = None
    BY <1>2 DEF KubeletRecord
<1>4. kubelet' = [kubelet EXCEPT ![t] = k]
    BY DEF KubeletGivesUp
<1> HIDE DEF k
<1>5. /\ kubelet' \in [Targets -> KubeletRecord]
      /\ kubelet'[t] = k /\ \A u \in Targets \ {t} : kubelet'[u] = kubelet[u]
    BY <1>2, <1>3, <1>4
<1>6. \A u \in Targets : /\ kubelet'[u].pod = kubelet[u].pod
                         /\ kubelet'[u].state = kubelet[u].state
                         /\ kubelet'[u].waits \in {kubelet[u].waits, None}
    BY <1>3, <1>5
<1>7. NodeTypeOK'
    BY <1>1, <1>5 DEF NodeInv, NodeTypeOK
<1>8. NcallInv' /\ AloneInv'
    BY <1>1, <1>6 DEF NodeInv, NcallInv, Path, AloneInv, AloneAt, Publishing
<1>9. MountInv'
    BY <1>1, <1>6 DEF NodeInv, MountInv, Asked, Path, Running
<1>10. KubeletInv' /\ ReleaseInv'
    BY <1>1, <1>6 DEF NodeInv, KubeletInv, ReleaseInv, InUse
<1> QED
    BY <1>7, <1>8, <1>9, <1>10 DEF NodeInv

\* The calls that a restart ends are idle, the others go on.
LEMMA CallsEndEffect ==
    ASSUME NodeInv, NEW n, CallsEnd(n)
    PROVE  /\ ncall' \in [NodeRpcs -> NcallRecord]
           /\ \A c \in NodeRpcs :
                 /\ ncall[c].target \in On(n) => ncall'[c] = IdleNcall
                 /\ ncall[c].target \notin On(n) => ncall'[c] = ncall[c]
           /\ \A c \in NodeRpcs : ncall'[c].target \notin On(n)
<1>1. IdleNcall \in NcallRecord
    <2>1. NoOptions \in Options
        BY DEF NoOptions, Options
    <2> QED
        BY <2>1 DEF IdleNcall, NcallRecord
<1>2. ncall \in [NodeRpcs -> NcallRecord]
    BY DEF NodeInv, NodeTypeOK
<1>3. /\ ncall' \in [NodeRpcs -> NcallRecord]
      /\ \A c \in NodeRpcs : ncall'[c] = IF ncall[c].target \in On(n) THEN IdleNcall ELSE ncall[c]
    BY <1>1, <1>2 DEF CallsEnd
<1> QED
    BY <1>3, IdleFacts DEF On

\* A plugin that restarts, and a node that does, with what that leaves at its
\* targets.
LEMMA RestartNode ==
    ASSUME NodeInv, NEW n, CallsEnd(n), UNCHANGED cloudVars,
           mnt' \in [Targets -> Seq(Layer)], kubelet' \in [Targets -> KubeletRecord],
           \A t \in Targets \ On(n) : mnt'[t] = mnt[t] /\ kubelet'[t] = kubelet[t],
           \A t \in On(n) : kubelet'[t].pod = kubelet[t].pod /\ kubelet'[t].waits = None,
           \/ /\ UNCHANGED <<mnt, overlap>>
              /\ \A t \in On(n) : kubelet'[t].state = kubelet[t].state
           \/ /\ \A t \in On(n) : mnt'[t] = <<>> /\ kubelet'[t].state = "unmounted"
              /\ overlap' = overlap \ On(n)
    PROVE  NodeInv'
<1>1. /\ ncall' \in [NodeRpcs -> NcallRecord]
      /\ \A c \in NodeRpcs : ncall[c].target \notin On(n) => ncall'[c] = ncall[c]
      /\ \A c \in NodeRpcs : ncall[c].target \in On(n) => ncall'[c] = IdleNcall
      /\ \A c \in NodeRpcs : ncall'[c].target \notin On(n)
    BY CallsEndEffect
<1>2. UNCHANGED <<class, fs, rpc, pv>>
    BY DEF cloudVars
<1>3. NodeTypeOK'
    BY <1>1 DEF NodeInv, NodeTypeOK
<1>4. NcallInv'
    <2>1. \A c \in NodeRpcs : ncall'[c].pc # "idle" => ncall'[c] = ncall[c]
        BY <1>1, IdleFacts
    <2> QED
        BY <1>2, <2>1 DEF NodeInv, NcallInv, Path
<1>5. MountInv'
    <2> SUFFICES ASSUME NEW t \in Targets
                 PROVE  mnt'[t] \in Seq({Asked(t)}) /\ (Running(t)' => mnt'[t] # <<>>)
        BY <1>2 DEF MountInv, Asked, Path
    <2>1. mnt[t] \in Seq({Asked(t)}) /\ (Running(t) => mnt[t] # <<>>)
        BY DEF NodeInv, MountInv
    <2>2. CASE mnt'[t] = mnt[t] /\ kubelet'[t].pod = kubelet[t].pod /\ kubelet'[t].state = kubelet[t].state
        BY <2>1, <2>2 DEF Running
    <2>3. CASE mnt'[t] = <<>> /\ kubelet'[t].state = "unmounted"
        BY <2>3 DEF Running
    <2> QED
        BY <2>2, <2>3 DEF On
<1>6. KubeletInv'
    <2> SUFFICES ASSUME NEW t \in Targets
                 PROVE  /\ kubelet'[t].waits # None =>
                              ncall'[kubelet'[t].waits].target = t /\ kubelet'[t].state = "uncertain"
                        /\ kubelet'[t].pod =>
                              \A c \in NodeRpcs : ncall'[c].target = t => ncall'[c].pc \in {"check", "mount"}
        BY DEF KubeletInv
    <2>1. CASE t \in On(n)
        BY <1>1, <2>1
    <2>2. CASE t \notin On(n)
        <3>1. kubelet'[t] = kubelet[t] /\ (kubelet[t].waits # None => kubelet[t].waits \in NodeRpcs)
            BY <2>2 DEF NodeInv, NodeTypeOK, KubeletRecord
        <3>2. \A c \in NodeRpcs : ncall'[c].target = t => ncall'[c] = ncall[c]
            BY <1>1, IdleFacts
        <3>3. /\ kubelet[t].waits # None =>
                    ncall[kubelet[t].waits].target = t /\ kubelet[t].state = "uncertain"
              /\ kubelet[t].pod =>
                    \A c \in NodeRpcs : ncall[c].target = t => ncall[c].pc \in {"check", "mount"}
            BY DEF NodeInv, KubeletInv
        <3>4. kubelet[t].waits # None => ncall'[kubelet[t].waits] = ncall[kubelet[t].waits]
            BY <1>1, <2>2, <3>1, <3>3
        <3> QED
            BY <3>1, <3>2, <3>3, <3>4
    <2> QED
        BY <2>1, <2>2
<1>7. AloneInv'
    <2> SUFFICES ASSUME NEW t \in Targets \ overlap'
                 PROVE  AloneAt(t)'
        BY DEF AloneInv
    <2>1. \A c \in NodeRpcs : ncall'[c].target = t => ncall'[c] = ncall[c]
        BY <1>1, IdleFacts
    <2>2. CASE mnt'[t] = <<>> /\ t \in On(n)
        BY <1>1, <2>2 DEF AloneAt, Publishing
    <2>3. CASE t \notin overlap /\ mnt'[t] = mnt[t] /\ kubelet'[t].state = kubelet[t].state
        <3>1. AloneAt(t)
            BY <2>3 DEF NodeInv, AloneInv
        <3>2. Publishing(t)' => Publishing(t)
            BY <2>1 DEF Publishing
        <3>3. \A c, d \in NodeRpcs :
                 /\ ncall'[c].target = t /\ ncall'[d].target = t
                 /\ ncall'[c].pc \in {"check", "mount"}
                 => c = d
            BY <2>1, <3>1 DEF AloneAt
        <3>4. \A c \in NodeRpcs : ncall'[c].target = t /\ ncall'[c].pc = "mount" => mnt'[t] = <<>>
            BY <2>1, <2>3, <3>1 DEF AloneAt
        <3> QED
            BY <2>3, <3>1, <3>2, <3>3, <3>4 DEF AloneAt
    <2> QED
        BY <2>2, <2>3 DEF On
<1>8. ReleaseInv'
    <2> SUFFICES ASSUME NEW m \in Claims, Released(m), NEW t \in Targets, ClaimOf[t] = m
                 PROVE  ~kubelet'[t].pod /\ kubelet'[t].state = "unmounted"
        BY <1>2 DEF ReleaseInv, InUse, Released
    <2>1. ~kubelet[t].pod /\ kubelet[t].state = "unmounted"
        BY DEF NodeInv, ReleaseInv, InUse, Released
    <2> QED
        BY <2>1 DEF On
<1> QED
    BY <1>3, <1>4, <1>5, <1>6, <1>7, <1>8 DEF NodeInv

LEMMA PublishNode ==
    ASSUME CloudInv, NodeInv, NEW c \in NodeRpcs, NEW t \in Targets, Publish(c, t)
    PROVE  NodeInv'
<1>1. PICK n \in Claims : n = ClaimOf[t]
    BY NodeAssumption
<1> DEFINE ctx == VolumeContext(n)
           opt == [host |-> pv[n].host, fsid |-> pv[n].fsid, path |-> Path(n), vers |-> class[n].vers]
<1>2. /\ class[n] \in Classes /\ pv[n].host \in FileSystems \cup {None}
      /\ pv[n].fsid \in FileSystems \cup {None}
    BY DEF CloudInv, CloudTypeOK, PvRecord
<1>3. /\ opt \in Options /\ opt.host = pv[n].host /\ opt.fsid = pv[n].fsid /\ opt.path = Path(n)
    BY <1>2 DEF Options, Path, Dirs
<1>4. [ctx EXCEPT !.path = IF ctx.path = <<>> THEN <<"/">> ELSE ctx.path] = opt
    BY DEF VolumeContext, Path
<1>5. /\ pv[n].state = "bound" /\ kubelet[t].pod /\ ctx.host # None
      /\ CallNode(c, t, "check", [ctx EXCEPT !.path = IF ctx.path = <<>> THEN <<"/">> ELSE ctx.path])
      /\ UNCHANGED cloudVars
    BY <1>1 DEF Publish, NodePublishVolume
<1>6. pv[n].host # None
    BY <1>5 DEF VolumeContext
<1> HIDE DEF ctx, opt
<1>7. opt.host = pv[n].id /\ opt.fsid \in {None, pv[n].id}
    BY <1>3, <1>6 DEF CloudInv, PvInv, PvOK
<1>8. CallNode(c, t, "check", opt)
    BY <1>4, <1>5
<1> QED
    BY <1>1, <1>3, <1>5, <1>7, <1>8, CallNodeNode DEF Released

LEMMA UnpublishNode ==
    ASSUME CloudInv, NodeInv, NEW c \in NodeRpcs, NEW t \in Targets, NodeUnpublishVolume(c, t),
           UNCHANGED cloudVars
    PROVE  NodeInv'
<1>1. ~kubelet[t].pod /\ CallNode(c, t, "look", NoOptions) /\ kubelet[t].state # "unmounted"
    BY DEF NodeUnpublishVolume
<1>2. NoOptions \in Options
    BY DEF NoOptions, Options
<1>3. ~Released(ClaimOf[t])
    BY <1>1, NodeAssumption DEF NodeInv, ReleaseInv, InUse, Released
<1> QED
    BY <1>1, <1>2, <1>3, CallNodeNode

LEMMA NodePluginRestartNode ==
    ASSUME NodeInv, NEW n, NodePluginRestart(n), UNCHANGED cloudVars
    PROVE  NodeInv'
<1>1. CallsEnd(n) /\ UNCHANGED <<mnt, overlap>>
    BY DEF NodePluginRestart
<1>2. mnt \in [Targets -> Seq(Layer)] /\ kubelet \in [Targets -> KubeletRecord]
    BY DEF NodeInv, NodeTypeOK
<1>3. kubelet' = [t \in Targets |->
                    IF t \in On(n) THEN [kubelet[t] EXCEPT !.waits = None] ELSE kubelet[t]]
    BY DEF NodePluginRestart
<1>4. ASSUME NEW k \in KubeletRecord
      PROVE  LET r == [k EXCEPT !.waits = None]
             IN  r \in KubeletRecord /\ r.pod = k.pod /\ r.state = k.state /\ r.waits = None
    BY DEF KubeletRecord
<1>5. kubelet' \in [Targets -> KubeletRecord]
    BY <1>2, <1>3, <1>4
<1>6. \A t \in Targets \ On(n) : mnt'[t] = mnt[t] /\ kubelet'[t] = kubelet[t]
    BY <1>1, <1>3
<1>7. \A t \in On(n) : /\ kubelet'[t].pod = kubelet[t].pod /\ kubelet'[t].waits = None
                       /\ kubelet'[t].state = kubelet[t].state
    BY <1>2, <1>3, <1>4 DEF On
<1> QED
    BY <1>1, <1>2, <1>5, <1>6, <1>7, RestartNode

LEMMA NodeRebootNode ==
    ASSUME NodeInv, NEW n, NodeReboot(n), UNCHANGED cloudVars
    PROVE  NodeInv'
<1>1. CallsEnd(n) /\ overlap' = overlap \ On(n)
    BY DEF NodeReboot
<1>2. mnt \in [Targets -> Seq(Layer)] /\ kubelet \in [Targets -> KubeletRecord]
    BY DEF NodeInv, NodeTypeOK
<1>3. kubelet' = [t \in Targets |->
                    IF t \in On(n) THEN [kubelet[t] EXCEPT !.waits = None, !.state = "unmounted"]
                                   ELSE kubelet[t]]
    BY DEF NodeReboot
<1>4. mnt' = [t \in Targets |-> IF t \in On(n) THEN <<>> ELSE mnt[t]]
    BY DEF NodeReboot
<1>5. ASSUME NEW k \in KubeletRecord
      PROVE  LET r == [k EXCEPT !.waits = None, !.state = "unmounted"]
             IN  r \in KubeletRecord /\ r.pod = k.pod /\ r.state = "unmounted" /\ r.waits = None
    <2> DEFINE q == [k EXCEPT !.waits = None]
               r == [q EXCEPT !.state = "unmounted"]
    <2>1. q \in KubeletRecord /\ q.pod = k.pod /\ q.waits = None
        BY DEF KubeletRecord
    <2>2. [k EXCEPT !.waits = None, !.state = "unmounted"] = r
        OBVIOUS
    <2> HIDE DEF q
    <2>3. r \in KubeletRecord /\ r.pod = k.pod /\ r.state = "unmounted" /\ r.waits = None
        BY <2>1 DEF KubeletRecord
    <2> QED
        BY <2>2, <2>3
<1>6. mnt' \in [Targets -> Seq(Layer)] /\ kubelet' \in [Targets -> KubeletRecord]
    <2>1. mnt' \in [Targets -> Seq(Layer)]
        BY <1>2, <1>4
    <2>2. kubelet' \in [Targets -> KubeletRecord]
        BY <1>2, <1>3, <1>5
    <2> QED
        BY <2>1, <2>2
<1>7. \A t \in Targets \ On(n) : mnt'[t] = mnt[t] /\ kubelet'[t] = kubelet[t]
    BY <1>3, <1>4
<1>8. \A t \in On(n) : /\ kubelet'[t].pod = kubelet[t].pod /\ kubelet'[t].waits = None
                       /\ mnt'[t] = <<>> /\ kubelet'[t].state = "unmounted"
    BY <1>2, <1>3, <1>4, <1>5 DEF On
<1> QED
    BY <1>1, <1>6, <1>7, <1>8, RestartNode

LEMMA NodeHalf ==
    ASSUME CloudInv, NodeInv, NodeNext
    PROVE  NodeInv'
BY NodeHandlers, UnpublishNode, PodDeletedNode, KubeletGivesUpNode, NodePluginRestartNode,
   NodeRebootNode DEF NodeNext

-----------------------------------------------------------------------------
(* The invariant holds in every state.                                      *)

LEMMA InitInv == Init => Inv
<1> SUFFICES ASSUME Init PROVE Inv
    OBVIOUS
<1>1. CloudTypeOK
    BY DEF Init, CloudInit, CloudTypeOK, Absent, FsRecord, IdleRpc, RpcRecord, Unbound, PvRecord
<1>2. FsInv /\ RpcInv /\ PvInv
    BY DEF Init, CloudInit, FsInv, RpcInv, PvInv, PvOK, Absent, IdleRpc, Unbound
<1>3. NodeTypeOK
    <2>1. NoOptions \in Options
        BY DEF NoOptions, Options
    <2>2. IdleNcall \in NcallRecord
        BY <2>1 DEF IdleNcall, NcallRecord
    <2>3. NewTarget \in KubeletRecord
        BY DEF NewTarget, KubeletRecord
    <2> QED
        BY <2>2, <2>3 DEF Init, NodeInit, NodeTypeOK
<1>4. NcallInv /\ MountInv /\ KubeletInv
    BY IdleFacts DEF Init, NodeInit, NcallInv, MountInv, KubeletInv, Running, NewTarget
<1>5. AloneInv
    BY IdleFacts DEF Init, NodeInit, AloneInv, AloneAt, Publishing
<1>6. ReleaseInv
    BY DEF Init, CloudInit, ReleaseInv, Unbound
<1> QED
    BY <1>1, <1>2, <1>3, <1>4, <1>5, <1>6 DEF Inv, CloudInv, NodeInv

LEMMA NextInv == Inv /\ [Next]_vars => Inv'
<1> SUFFICES ASSUME Inv, [Next]_vars PROVE Inv'
    OBVIOUS
<1>0. CloudInv /\ NodeInv
    BY DEF Inv
<1>1. CASE CloudNext
    <2>1. UNCHANGED nodeVars
        BY <1>1 DEF CloudNext
    <2>2. CloudInv' /\ UNCHANGED class
          /\ (\A n \in Claims : pv[n].id # None => pv'[n].id = pv[n].id)
          /\ (\A n \in Claims : Released(n)' => Released(n))
        BY <1>0, <1>1, CloudHalf DEF Quiet, Binds, Deletes, KeepsUse
    <2> QED
        BY <1>0, <2>1, <2>2, CloudStepNode DEF Inv
<1>2. CASE NodeNext
    <2>1. CloudInv' /\ UNCHANGED cloudVars
        BY <1>0, <1>2, CloudStutters DEF NodeNext
    <2> QED
        BY <1>0, <1>2, <2>1, NodeHalf DEF Inv
<1>3. ASSUME NEW c \in Rpcs, NEW n \in Claims, Release(c, n)
      PROVE  Inv'
    <2>1. UNCHANGED nodeVars /\ ~InUse(n)
        BY <1>3 DEF Release
    <2>2. /\ CloudInv' /\ UNCHANGED <<class, fs>>
          /\ \A m \in Claims : pv'[m].id = pv[m].id
          /\ \A m \in Claims \ {n} : pv'[m] = pv[m]
        BY <1>0, <1>3, ReleaseCloud
    <2>3. \A m \in Claims : Released(m)' => Released(m) \/ ~InUse(m)
        BY <2>1, <2>2 DEF Released
    <2> QED
        BY <1>0, <2>1, <2>2, <2>3, CloudStepNode DEF Inv
<1>4. ASSUME NEW c \in NodeRpcs, NEW t \in Targets, Publish(c, t)
      PROVE  Inv'
    <2>1. CloudInv'
        BY <1>0, <1>4, CloudStutters DEF Publish
    <2> QED
        BY <1>0, <1>4, <2>1, PublishNode DEF Inv
<1>5. CASE UNCHANGED vars
    <2>1. UNCHANGED cloudVars /\ UNCHANGED nodeVars
        BY <1>5 DEF vars
    <2>2. CloudInv'
        BY <1>0, <2>1, CloudStutters
    <2>3. UNCHANGED <<class, pv>>
        BY <2>1 DEF cloudVars
    <2>4. NodeInv'
        BY <1>0, <2>1, <2>2, <2>3, CloudStepNode DEF Released
    <2> QED
        BY <2>2, <2>4 DEF Inv
<1> QED
    BY <1>1, <1>2, <1>3, <1>4, <1>5 DEF Next

(***************************************************************************)
(* The invariant holds in every state of every behaviour.                  *)
(***************************************************************************)
THEOREM Invariance == Spec => []Inv
BY InitInv, NextInv, PTL DEF Spec

(***************************************************************************)
(* The state of the driver, the cloud and the kubelets has its type.       *)
(***************************************************************************)
THEOREM TypeCorrect == Spec => []TypeOK
<1>1. Inv => TypeOK
    BY DEF Inv, CloudInv, NodeInv, TypeOK
<1> QED
    BY <1>1, Invariance, PTL

(***************************************************************************)
(* A pod whose publish succeeded sees the directory that its storage class *)
(* asks for, read-only where that was asked for.                           *)
(***************************************************************************)
THEOREM PodsSeeTheirDirectory == Spec => []MountedAsAsked
<1>1. Inv => MountedAsAsked
    <2> SUFFICES ASSUME Inv, NEW t \in Targets, Running(t)
                 PROVE  /\ mnt[t] # <<>>
                        /\ mnt[t][1].dir = Path(ClaimOf[t])
                        /\ mnt[t][1].ro = (t \in ReadOnly)
        BY DEF MountedAsAsked, Path
    <2>1. NodeInv /\ mnt[t] # <<>>
        BY DEF Inv, NodeInv, MountInv
    <2>2. mnt[t][1] = Asked(t)
        BY <2>1, MountedIsBound
    <2> QED
        BY <2>1, <2>2 DEF Asked
<1> QED
    BY <1>1, Invariance, PTL

(***************************************************************************)
(* A deleted volume leaves no file system of its claim behind.             *)
(***************************************************************************)
THEOREM NothingLeftBehind == Spec => []DeletedIsGone
<1>1. Inv => DeletedIsGone
    <2> SUFFICES ASSUME Inv, NEW n \in Claims, pv[n].state = "deleted",
                        NEW f \in FileSystems, fs[f].claim = n
                 PROVE  fs[f].state \in {"deleting", "gone"}
        BY DEF DeletedIsGone
    <2>1. /\ pv[n].id \in FileSystems /\ fs[pv[n].id].claim = n
          /\ fs[pv[n].id].state \in {"deleting", "gone"}
        BY NamedExists DEF Inv, CloudInv, PvInv, PvOK
    <2>2. pv[n].id = f
        BY <2>1, CloudAssumption DEF Inv, CloudInv, FsInv
    <2> QED
        BY <2>1, <2>2
<1> QED
    BY <1>1, Invariance, PTL

-----------------------------------------------------------------------------
(* The driver implements the CSI life cycle.                                *)

\* The refinement mapping, target by target.
PlaceAt(t) == IF t \in overlap \/ mnt[t] = <<>> THEN None ELSE mnt[t][1].fs

RunsAt(t) == t \notin overlap /\ Running(t)

Volume == [n \in Claims |-> pv[n].id]

DeletedClaims == {n \in Claims : pv[n].id # None /\ Dead(pv[n].id)}

Place == [t \in Targets |-> PlaceAt(t)]

RunningPods == {t \in Targets : RunsAt(t)}

\* What the actions of the life cycle say of the mapped state.
LEMMA CsiCloudActions ==
    /\ UNCHANGED <<Volume, DeletedClaims, Place, RunningPods>> => UNCHANGED Csi!vars
    /\ \A n, i : Csi!Provision(n, i) <=>
          /\ Volume[n] = None /\ \A m \in Claims : Volume[m] # i
          /\ Volume' = [Volume EXCEPT ![n] = i]
          /\ UNCHANGED <<DeletedClaims, Place, RunningPods>>
    /\ \A n : Csi!Delete(n) <=>
          /\ Volume[n] # None /\ \A t \in Targets : ClaimOf[t] = n => Place[t] = None
          /\ DeletedClaims' = DeletedClaims \cup {n}
          /\ UNCHANGED <<Volume, Place, RunningPods>>
BY DEF Csi!vars, Csi!Provision, Csi!Delete, Volume, DeletedClaims, Place, RunningPods, PlaceAt,
    RunsAt, Dead

LEMMA CsiNodeActions ==
    /\ \A t : Csi!Mount(t) <=>
          /\ Volume[ClaimOf[t]] # None /\ ClaimOf[t] \notin DeletedClaims
          /\ Place' = [Place EXCEPT ![t] = Volume[ClaimOf[t]]]
          /\ RunningPods' \in {RunningPods, RunningPods \cup {t}}
          /\ UNCHANGED <<Volume, DeletedClaims>>
    /\ \A t : Csi!Start(t) <=>
          /\ Place[t] # None
          /\ RunningPods' = RunningPods \cup {t}
          /\ UNCHANGED <<Volume, DeletedClaims, Place>>
    /\ \A t : Csi!Stop(t) <=>
          RunningPods' = RunningPods \ {t} /\ UNCHANGED <<Volume, DeletedClaims, Place>>
    /\ \A t : Csi!Unmount(t) <=>
          /\ t \notin RunningPods
          /\ Place' = [Place EXCEPT ![t] = None]
          /\ UNCHANGED <<Volume, DeletedClaims, RunningPods>>
    /\ \A down : Csi!Reboot(down) <=>
          /\ Place' = [t \in Targets |-> IF t \in down THEN None ELSE Place[t]]
          /\ RunningPods' = RunningPods \ down
          /\ UNCHANGED <<Volume, DeletedClaims>>
BY DEF Csi!Mount, Csi!Start, Csi!Stop, Csi!Unmount, Csi!Reboot, Volume, DeletedClaims, Place,
    RunningPods, PlaceAt, RunsAt, Dead

\* The steps of the controller's half.
LEMMA CloudCsi ==
    ASSUME CloudInv, NodeInv, UNCHANGED nodeVars,
           \/ Quiet
           \/ \E n \in Claims, f \in FileSystems : Binds(n, f)
           \/ \E n \in Claims : Deletes(n)
    PROVE  [Csi!Next]_(Csi!vars)
<1>1. UNCHANGED <<Place, RunningPods>>
    BY DEF nodeVars, Place, RunningPods, PlaceAt, RunsAt, Running
<1>2. \A n \in Claims : pv[n].id # None => pv[n].id \in FileSystems
    BY NamedExists
<1>3. CASE Quiet
    <2>1. Volume' = Volume
        BY <1>3 DEF Quiet, Volume
    <2>2. DeletedClaims' = DeletedClaims
        BY <1>2, <1>3 DEF Quiet, DeletedClaims, Dead
    <2> QED
        BY <1>1, <2>1, <2>2, CsiCloudActions
<1>4. ASSUME NEW n \in Claims, NEW f \in FileSystems, Binds(n, f)
      PROVE  Csi!Next
    <2>1. Volume' = [Volume EXCEPT ![n] = f]
        BY <1>4 DEF Binds, Volume
    <2>2. DeletedClaims' = DeletedClaims
        BY <1>2, <1>4 DEF Binds, DeletedClaims, Dead
    <2>3. Volume[n] = None /\ \A m \in Claims : Volume[m] # f
        BY <1>4, CloudAssumption DEF Binds, Volume
    <2> QED
        BY <1>1, <2>1, <2>2, <2>3, CsiCloudActions DEF Csi!Next
<1>5. ASSUME NEW n \in Claims, Deletes(n)
      PROVE  Csi!Next
    <2>1. Volume' = Volume
        BY <1>5 DEF Deletes, Volume
    <2>2. DeletedClaims' = DeletedClaims \cup {n}
        BY <1>2, <1>5 DEF Deletes, DeletedClaims, Dead
    <2>3. Volume[n] # None
        BY <1>5 DEF Deletes, Volume
    <2>4. \A t \in Targets : ClaimOf[t] = n => Place[t] = None
        BY <1>5 DEF Deletes, Released, NodeInv, ReleaseInv, InUse, AloneInv, AloneAt, Place, PlaceAt
    <2> QED
        BY <1>1, <2>1, <2>2, <2>3, <2>4, CsiCloudActions DEF Csi!Next
<1> QED
    BY <1>3, <1>4, <1>5

\* A step at one target.
LEMMA TargetCsi ==
    ASSUME CloudInv, NodeInv, UNCHANGED cloudVars, NEW t \in Targets,
           \A u \in Targets \ {t} : PlaceAt(u)' = PlaceAt(u) /\ (RunsAt(u)' <=> RunsAt(u)),
           \/ PlaceAt(t)' = PlaceAt(t) /\ (RunsAt(t)' => RunsAt(t) \/ PlaceAt(t) # None)
           \/ PlaceAt(t)' = None /\ ~RunsAt(t) /\ ~RunsAt(t)'
           \/ /\ PlaceAt(t)' = pv[ClaimOf[t]].id /\ pv[ClaimOf[t]].id # None
              /\ ~Released(ClaimOf[t])
              /\ RunsAt(t) => RunsAt(t)'
    PROVE  [Csi!Next]_(Csi!vars)
<1>1. UNCHANGED <<Volume, DeletedClaims>>
    BY DEF cloudVars, Volume, DeletedClaims, Dead
<1>2. CASE PlaceAt(t)' = PlaceAt(t) /\ (RunsAt(t)' => RunsAt(t) \/ PlaceAt(t) # None)
    <2>1. Place' = Place
        BY <1>2 DEF Place
    <2>2. CASE RunsAt(t)' <=> RunsAt(t)
        <3>1. RunningPods' = RunningPods
            BY <2>2 DEF RunningPods
        <3> QED
            BY <1>1, <2>1, <3>1, CsiCloudActions
    <2>3. CASE RunsAt(t)' /\ ~RunsAt(t)
        <3>1. RunningPods' = RunningPods \cup {t} /\ Place[t] # None
            BY <1>2, <2>3 DEF RunningPods, Place
        <3> QED
            BY <1>1, <2>1, <3>1, CsiNodeActions DEF Csi!Next
    <2>4. CASE ~RunsAt(t)' /\ RunsAt(t)
        <3>1. RunningPods' = RunningPods \ {t}
            BY <2>4 DEF RunningPods
        <3> QED
            BY <1>1, <2>1, <3>1, CsiNodeActions DEF Csi!Next
    <2> QED
        BY <2>2, <2>3, <2>4
<1>3. CASE PlaceAt(t)' = None /\ ~RunsAt(t) /\ ~RunsAt(t)'
    <2>1. Place' = [Place EXCEPT ![t] = None]
        BY <1>3 DEF Place
    <2>2. RunningPods' = RunningPods /\ t \notin RunningPods
        BY <1>3 DEF RunningPods
    <2> QED
        BY <1>1, <2>1, <2>2, CsiNodeActions DEF Csi!Next
<1>4. CASE /\ PlaceAt(t)' = pv[ClaimOf[t]].id /\ pv[ClaimOf[t]].id # None
           /\ ~Released(ClaimOf[t])
           /\ RunsAt(t) => RunsAt(t)'
    <2>1. ClaimOf[t] \in Claims
        BY NodeAssumption
    <2>2. Volume[ClaimOf[t]] = pv[ClaimOf[t]].id
        BY <2>1 DEF Volume
    <2>3. ClaimOf[t] \notin DeletedClaims
        <3>1. /\ pv[ClaimOf[t]].id \in FileSystems /\ fs[pv[ClaimOf[t]].id] # Absent
              /\ fs[pv[ClaimOf[t]].id].claim = ClaimOf[t]
            BY <1>4, <2>1, NamedExists DEF CloudInv, PvInv, PvOK
        <3> QED
            BY <1>4, <3>1 DEF CloudInv, FsInv, Released, DeletedClaims, Dead
    <2>4. Place' = [Place EXCEPT ![t] = Volume[ClaimOf[t]]]
        BY <1>4, <2>2 DEF Place
    <2>5. RunningPods' \in {RunningPods, RunningPods \cup {t}}
        BY <1>4 DEF RunningPods
    <2> QED
        BY <1>1, <1>4, <2>2, <2>3, <2>4, <2>5, CsiNodeActions DEF Csi!Next
<1> QED
    BY <1>2, <1>3, <1>4

\* The end of a call that leaves the mounts as they are.
LEMMA ReturnsAsIsCsi ==
    ASSUME CloudInv, NodeInv, NEW c \in NodeRpcs, ncall[c].pc # "idle",
           NEW st \in {"unmounted", "uncertain", "published"}, NodeReturn(c, st),
           UNCHANGED <<cloudVars, mnt>>, st = "published" => mnt[ncall[c].target] # <<>>
    PROVE  [Csi!Next]_(Csi!vars)
<1>1. ncall[c].target \in Targets
    BY DEF NodeInv, NcallInv
<1> PICK t \in Targets : t = ncall[c].target
    BY <1>1
<1>2. Ends(c, t, st)
    BY ReturnEffect
<1>3. \A u \in Targets \ {t} : PlaceAt(u)' = PlaceAt(u) /\ (RunsAt(u)' <=> RunsAt(u))
    BY <1>2 DEF Ends, PlaceAt, RunsAt, Running
<1>4. PlaceAt(t)' = PlaceAt(t)
    BY <1>2 DEF Ends, PlaceAt
<1>5. RunsAt(t)' => RunsAt(t) \/ (st = "published" /\ t \notin overlap)
    BY <1>2 DEF Ends, RunsAt, Running
<1>6. st = "published" /\ t \notin overlap => PlaceAt(t) # None
    <2>1. None \notin FileSystems
        BY CloudAssumption
    <2>2. mnt[t] # <<>> => mnt[t][1] = Asked(t) /\ pv[ClaimOf[t]].id \in FileSystems
        BY MountedIsBound
    <2>3. mnt[t] # <<>> => mnt[t][1].fs = pv[ClaimOf[t]].id
        BY <2>2 DEF Asked
    <2> QED
        BY <2>1, <2>2, <2>3 DEF PlaceAt
<1> QED
    BY <1>3, <1>4, <1>5, <1>6, TargetCsi

LEMMA PublishMountCsi ==
    ASSUME CloudInv, NodeInv, NEW c \in NodeRpcs, PublishMount(c), UNCHANGED cloudVars
    PROVE  [Csi!Next]_(Csi!vars)
<1>1. ncall[c].pc = "mount" /\ ncall[c].target \in Targets
    BY DEF PublishMount, NodeInv, NcallInv
<1> PICK t \in Targets : t = ncall[c].target
    BY <1>1
<1>2. CASE NodeFails(c) /\ UNCHANGED mnt
    BY <1>1, <1>2, ReturnsAsIsCsi DEF NodeFails
<1>3. ASSUME NEW d, d \in Exported(ncall[c].opt.host, Version(ncall[c].opt), SourcePath(ncall[c].opt)),
             mnt' = [mnt EXCEPT ![t] = <<[fs |-> ncall[c].opt.host, dir |-> d,
                                          ro |-> MountFlags(t)]>> \o @],
             NodeReturn(c, "published")
      PROVE  [Csi!Next]_(Csi!vars)
    <2>1. /\ [fs |-> ncall[c].opt.host, dir |-> d, ro |-> MountFlags(t)] = Asked(t)
          /\ Asked(t) \in Layer
        BY <1>1, <1>3, MountsAsked
    <2>2. mnt \in [Targets -> Seq(Layer)]
        BY DEF NodeInv, NodeTypeOK
    <2>3. /\ mnt'[t] = <<Asked(t)>> \o mnt[t]
          /\ \A u \in Targets \ {t} : mnt'[u] = mnt[u]
        BY <1>3, <2>1, <2>2
    <2>4. mnt'[t] # <<>> /\ mnt'[t][1] = Asked(t)
        BY <2>1, <2>2, <2>3
    <2>5. Ends(c, t, "published")
        BY <1>1, <1>3, ReturnEffect
    <2>6. \A u \in Targets \ {t} : PlaceAt(u)' = PlaceAt(u) /\ (RunsAt(u)' <=> RunsAt(u))
        BY <2>3, <2>5 DEF Ends, PlaceAt, RunsAt, Running
    <2>7. CASE t \in overlap
        BY <2>5, <2>6, <2>7, TargetCsi DEF Ends, PlaceAt, RunsAt
    <2>8. CASE t \notin overlap
        <3>1. PlaceAt(t)' = pv[ClaimOf[t]].id
            BY <2>4, <2>5, <2>8 DEF Ends, PlaceAt, Asked
        <3>2. pv[ClaimOf[t]].id # None
            BY <2>1, CloudAssumption DEF Layer, Asked
        <3>3. RunsAt(t) => RunsAt(t)'
            BY <2>5 DEF Ends, RunsAt, Running
        <3>4. ~Released(ClaimOf[t])
            <4>1. kubelet[t].state # "unmounted"
                BY <1>1, <2>8 DEF NodeInv, AloneInv, AloneAt, Publishing
            <4> QED
                BY <4>1, NodeAssumption DEF NodeInv, ReleaseInv, InUse, Released
        <3> QED
            BY <2>6, <3>1, <3>2, <3>3, <3>4, TargetCsi
    <2> QED
        BY <2>7, <2>8
<1> QED
    BY <1>1, <1>2, <1>3 DEF PublishMount

LEMMA UnpublishUnmountCsi ==
    ASSUME CloudInv, NodeInv, NEW c \in NodeRpcs, UnpublishUnmount(c), UNCHANGED cloudVars
    PROVE  [Csi!Next]_(Csi!vars)
<1>1. ncall[c].pc = "unmount" /\ ncall[c].target \in Targets
    BY DEF UnpublishUnmount, NodeInv, NcallInv
<1> PICK t \in Targets : t = ncall[c].target
    BY <1>1
<1>2. CASE NodeFails(c) /\ UNCHANGED mnt
    BY <1>1, <1>2, ReturnsAsIsCsi DEF NodeFails
<1>3. CASE mnt[t] # <<>> /\ mnt' = [mnt EXCEPT ![t] = Tail(@)] /\ NodeReturn(c, "unmounted")
    <2>1. mnt \in [Targets -> Seq(Layer)]
        BY DEF NodeInv, NodeTypeOK
    <2>2. mnt'[t] = Tail(mnt[t]) /\ \A u \in Targets \ {t} : mnt'[u] = mnt[u]
        BY <1>3, <2>1
    <2>3. Ends(c, t, "unmounted")
        BY <1>1, <1>3, ReturnEffect
    <2>4. \A u \in Targets \ {t} : PlaceAt(u)' = PlaceAt(u) /\ (RunsAt(u)' <=> RunsAt(u))
        BY <2>2, <2>3 DEF Ends, PlaceAt, RunsAt, Running
    <2>5. ~kubelet[t].pod
        BY <1>1 DEF NodeInv, KubeletInv
    <2>6. ~RunsAt(t) /\ ~RunsAt(t)'
        BY <2>3, <2>5 DEF Ends, RunsAt, Running
    <2>7. PlaceAt(t)' = None
        <3>1. t \notin overlap => Len(mnt[t]) <= 1
            BY DEF NodeInv, AloneInv, AloneAt
        <3>2. t \notin overlap => mnt'[t] = <<>>
            BY <1>3, <2>1, <2>2, <3>1
        <3> QED
            BY <2>3, <3>2 DEF Ends, PlaceAt
    <2> QED
        BY <2>4, <2>6, <2>7, TargetCsi
<1> QED
    BY <1>1, <1>2, <1>3 DEF UnpublishUnmount

\* A step that leaves the mounts and what the kubelets know of them.
LEMMA StuttersCsi ==
    ASSUME UNCHANGED cloudVars, UNCHANGED <<mnt, overlap>>,
           \A t \in Targets : /\ kubelet'[t].pod = kubelet[t].pod
                              /\ kubelet'[t].state = kubelet[t].state
    PROVE  UNCHANGED Csi!vars
<1>1. UNCHANGED <<Volume, DeletedClaims>>
    BY DEF cloudVars, Volume, DeletedClaims, Dead
<1>2. UNCHANGED <<Place, RunningPods>>
    BY DEF Place, RunningPods, PlaceAt, RunsAt, Running
<1> QED
    BY <1>1, <1>2, CsiCloudActions

LEMMA NodeHandlersCsi ==
    ASSUME CloudInv, NodeInv, NEW c \in NodeRpcs, Node(c), UNCHANGED cloudVars
    PROVE  [Csi!Next]_(Csi!vars)
<1>1. ASSUME NEW pc, NodeStep(c, pc), UNCHANGED mnt
      PROVE  UNCHANGED Csi!vars
    BY <1>1, StuttersCsi DEF NodeStep
<1>2. CASE PublishCheck(c)
    <2>1. ncall[c].pc = "check" /\ UNCHANGED mnt
        BY <1>2 DEF PublishCheck
    <2> QED
        BY <1>1, <1>2, <2>1, ReturnsAsIsCsi DEF PublishCheck, NodeFails
<1>3. CASE UnpublishCheck(c)
    <2>1. ncall[c].pc = "look" /\ UNCHANGED mnt
        BY <1>3 DEF UnpublishCheck
    <2> QED
        BY <1>1, <1>3, <2>1, ReturnsAsIsCsi DEF UnpublishCheck, NodeFails
<1> QED
    BY <1>2, <1>3, PublishMountCsi, UnpublishUnmountCsi DEF Node

\* A new call for a pod that does not run: where it meets an abandoned publish,
\* the target leaves the life cycle.
LEMMA CallNodeCsi ==
    ASSUME CloudInv, NodeInv, NEW c \in NodeRpcs, NEW t \in Targets, NEW pc, NEW opt,
           CallNode(c, t, pc, opt), UNCHANGED cloudVars, ~Running(t)
    PROVE  [Csi!Next]_(Csi!vars)
<1>1. /\ UNCHANGED mnt
      /\ overlap' = IF Publishing(t) THEN overlap \cup {t} ELSE overlap
      /\ kubelet' = [kubelet EXCEPT ![t].waits = c, ![t].state = "uncertain"]
    BY DEF CallNode
<1>2. kubelet \in [Targets -> KubeletRecord]
    BY DEF NodeInv, NodeTypeOK
<1>3. kubelet'[t].state = "uncertain" /\ \A u \in Targets \ {t} : kubelet'[u] = kubelet[u]
    BY <1>1, <1>2 DEF KubeletRecord
<1>4. \A u \in Targets \ {t} : PlaceAt(u)' = PlaceAt(u) /\ (RunsAt(u)' <=> RunsAt(u))
    BY <1>1, <1>3 DEF PlaceAt, RunsAt, Running
<1>5. ~RunsAt(t) /\ ~RunsAt(t)' /\ PlaceAt(t)' \in {PlaceAt(t), None}
    BY <1>1, <1>3 DEF PlaceAt, RunsAt, Running
<1> QED
    BY <1>4, <1>5, TargetCsi

LEMMA NodeCsi ==
    ASSUME CloudInv, NodeInv, NodeNext
    PROVE  [Csi!Next]_(Csi!vars)
<1>0. UNCHANGED cloudVars /\ kubelet \in [Targets -> KubeletRecord]
    BY DEF NodeNext, NodeInv, NodeTypeOK
<1>1. ASSUME NEW c \in NodeRpcs, NEW t \in Targets, NodeUnpublishVolume(c, t)
      PROVE  [Csi!Next]_(Csi!vars)
    BY <1>0, <1>1, CallNodeCsi DEF NodeUnpublishVolume, Running
<1>2. ASSUME NEW t \in Targets, PodDeleted(t)
      PROVE  [Csi!Next]_(Csi!vars)
    <2>1. UNCHANGED <<mnt, overlap>> /\ kubelet' = [kubelet EXCEPT ![t].pod = FALSE]
        BY <1>2 DEF PodDeleted
    <2>2. ~kubelet'[t].pod /\ \A u \in Targets \ {t} : kubelet'[u] = kubelet[u]
        BY <1>0, <2>1 DEF KubeletRecord
    <2>3. \A u \in Targets \ {t} : PlaceAt(u)' = PlaceAt(u) /\ (RunsAt(u)' <=> RunsAt(u))
        BY <2>1, <2>2 DEF PlaceAt, RunsAt, Running
    <2>4. PlaceAt(t)' = PlaceAt(t) /\ ~RunsAt(t)'
        BY <2>1, <2>2 DEF PlaceAt, RunsAt, Running
    <2> QED
        BY <1>0, <2>3, <2>4, TargetCsi
<1>3. ASSUME NEW t \in Targets, KubeletGivesUp(t)
      PROVE  [Csi!Next]_(Csi!vars)
    <2>1. UNCHANGED <<mnt, overlap>> /\ kubelet' = [kubelet EXCEPT ![t].waits = None]
        BY <1>3 DEF KubeletGivesUp
    <2>2. \A u \in Targets : kubelet'[u].pod = kubelet[u].pod /\ kubelet'[u].state = kubelet[u].state
        BY <1>0, <2>1 DEF KubeletRecord
    <2> QED
        BY <1>0, <2>1, <2>2, StuttersCsi
<1>4. ASSUME NEW n, NodePluginRestart(n)
      PROVE  [Csi!Next]_(Csi!vars)
    <2>1. UNCHANGED <<mnt, overlap>>
        BY <1>4 DEF NodePluginRestart
    <2>2. \A u \in Targets : kubelet'[u] = IF u \in On(n) THEN [kubelet[u] EXCEPT !.waits = None]
                                                          ELSE kubelet[u]
        BY <1>4 DEF NodePluginRestart
    <2>3. \A u \in Targets : kubelet'[u].pod = kubelet[u].pod /\ kubelet'[u].state = kubelet[u].state
        BY <1>0, <2>2 DEF KubeletRecord
    <2> QED
        BY <1>0, <2>1, <2>3, StuttersCsi
<1>5. ASSUME NEW n, NodeReboot(n)
      PROVE  [Csi!Next]_(Csi!vars)
    <2>1. /\ mnt' = [t \in Targets |-> IF t \in On(n) THEN <<>> ELSE mnt[t]]
          /\ overlap' = overlap \ On(n)
        BY <1>5 DEF NodeReboot
    <2>2. \A u \in Targets :
             kubelet'[u] = IF u \in On(n) THEN [kubelet[u] EXCEPT !.waits = None, !.state = "unmounted"]
                                          ELSE kubelet[u]
        BY <1>5 DEF NodeReboot
    <2>3. \A u \in On(n) : kubelet'[u].state = "unmounted"
        BY <1>0, <2>2 DEF On, KubeletRecord
    <2>4. \A u \in Targets \ On(n) : kubelet'[u] = kubelet[u]
        BY <2>2
    <2>5. Place' = [t \in Targets |-> IF t \in On(n) THEN None ELSE Place[t]]
        BY <2>1 DEF Place, PlaceAt, On
    <2>6. RunningPods' = RunningPods \ On(n)
        BY <2>1, <2>3, <2>4 DEF RunningPods, RunsAt, Running, On
    <2>7. UNCHANGED <<Volume, DeletedClaims>>
        BY <1>0 DEF cloudVars, Volume, DeletedClaims, Dead
    <2>8. Csi!Reboot(On(n)) /\ On(n) \in SUBSET Targets
        BY <2>5, <2>6, <2>7, CsiNodeActions DEF On
    <2> QED
        BY <2>8 DEF Csi!Next
<1> QED
    BY <1>0, <1>1, <1>2, <1>3, <1>4, <1>5, NodeHandlersCsi DEF NodeNext

LEMMA InitCsi == Init => Csi!Init
BY DEF Init, CloudInit, NodeInit, Unbound, NewTarget, Csi!Init, Running

LEMMA NextCsi == Inv /\ [Next]_vars => [Csi!Next]_(Csi!vars)
<1> SUFFICES ASSUME Inv, [Next]_vars PROVE [Csi!Next]_(Csi!vars)
    OBVIOUS
<1>0. CloudInv /\ NodeInv
    BY DEF Inv
<1>1. CASE CloudNext
    BY <1>0, <1>1, CloudHalf, CloudCsi DEF CloudNext
<1>2. CASE NodeNext
    BY <1>0, <1>2, NodeCsi
<1>3. ASSUME NEW c \in Rpcs, NEW n \in Claims, Release(c, n)
      PROVE  UNCHANGED Csi!vars
    <2>1. UNCHANGED <<fs, nodeVars>> /\ \A m \in Claims : pv'[m].id = pv[m].id
        BY <1>0, <1>3, ReleaseCloud DEF Release
    <2>2. UNCHANGED <<Volume, DeletedClaims>>
        BY <2>1 DEF Volume, DeletedClaims, Dead
    <2>3. UNCHANGED <<Place, RunningPods>>
        BY <2>1 DEF nodeVars, Place, RunningPods, PlaceAt, RunsAt, Running
    <2> QED
        BY <2>2, <2>3, CsiCloudActions
<1>4. ASSUME NEW c \in NodeRpcs, NEW t \in Targets, Publish(c, t)
      PROVE  [Csi!Next]_(Csi!vars)
    BY <1>0, <1>4, CallNodeCsi DEF Publish, NodePublishVolume, Running
<1>5. CASE UNCHANGED vars
    BY <1>5, StuttersCsi DEF vars, nodeVars
<1> QED
    BY <1>1, <1>2, <1>3, <1>4, <1>5 DEF Next

(***************************************************************************)
(* The driver implements the CSI life cycle: every step of the controller, *)
(* the nodes, the cloud and the faults is a step of CsiVolume or changes   *)
(* nothing there.                                                          *)
(***************************************************************************)
THEOREM Refinement == Spec => ImplementsCsiVolume
BY InitCsi, NextCsi, Invariance, PTL DEF Spec, ImplementsCsiVolume, Csi!Spec
=============================================================================
