--------------------------- MODULE CfsturboProofs ---------------------------
(***************************************************************************)
(* Proofs about CfsturboDriver, for any number of volumes, file systems,   *)
(* names and concurrent calls, and any faults.                             *)
(***************************************************************************)
EXTENDS CfsturboDriver, FiniteSetTheorems, SequenceTheorems, WellFoundedInduction, TLAPS

-----------------------------------------------------------------------------
(* The inductive invariant of the node.                                     *)

\* Call c is between truncating and filling the config of key k.
Writes(c, k) == call[c].op # "none" /\ call[c].pc = "write" /\ call[c].key = k

\* The config of v's key names v, or will when the call that writes it is done.
Recorded(v) ==
    \/ v \in config[KeyOf[v]].vols
    \/ \E c \in Calls : Writes(c, KeyOf[v]) /\ v \in call[c].new

\* A config that was truncated and never filled: every call that reads it
\* fails, so that nothing is unmounted any more.
Stuck(k) == config[k].file = "torn" /\ \A c \in Calls : ~ Writes(c, k)

Listed(v) == Recorded(v) \/ Stuck(KeyOf[v])

Holds(c) ==
    /\ call[c].op # "none"
    /\ call[c].pc \in {"check", "mount", "add", "truncate", "write", "delete", "umount", "remove"}

\* A stage, or the stage within a publish, that has found or made the mount.
Staging(c) ==
    call[c].op \in {"stage", "publish"} /\ call[c].pc \in {"add", "truncate", "write"}

IsMounted(v) == mounted[KeyOf[v]] \in SourcesOf(KeyOf[v])

\* Unless calls for a volume overlapped, it has one call at most.
AloneOK ==
    \A c, d \in Calls :
        VolumeOf[c] = VolumeOf[d] /\ VolumeOf[c] \notin overlap
        /\ call[c].op # "none" /\ call[d].op # "none" => c = d

\* Where a call is, and what the kubelet knows of its volume meanwhile.
CallOK(c) ==
    LET v == VolumeOf[c]
    IN  /\ call[c].key \in {NoKey, KeyOf[v]}
        /\ call[c].op = "none" => call[c] = NoCall
        /\ call[c].op = "stage" => call[c].pc \in StageSteps
        /\ call[c].op = "unstage" => call[c].pc \in UnstageSteps \cup {"truncate", "write"}
        /\ call[c].op = "publish" => call[c].pc \in StageSteps \cup PublishSteps
        /\ call[c].op = "unpublish" => call[c].pc \in UnpublishSteps
        /\ Holds(c) => call[c].key = KeyOf[v]
        /\ call[c].pc = "list" => call[c].key = NoKey
        /\ v \notin overlap =>
              /\ call[c].op \in {"stage", "unstage"} => kube[v] = "maybeStaged"
              /\ call[c].op \in {"publish", "unpublish"} => kube[v] = "maybePublished"
              /\ call[c].pc = "bind" => bound[v] = 0

\* What a call that writes the config is about to write.
WriteOK(c) ==
    LET v == VolumeOf[c]
        k == KeyOf[v]
    IN  /\ call[c].pc = "truncate" =>
              /\ config[k].file # "torn"
              /\ config[k].vols \ {v} \subseteq call[c].new
              /\ call[c].new \subseteq config[k].vols \cup {v}
              /\ call[c].op # "unstage" => config[k].vols \subseteq call[c].new
        /\ call[c].pc = "write" => config[k].file = "torn"
        /\ call[c].pc \in {"truncate", "write"} =>
              /\ \A u \in call[c].new : KeyOf[u] = k
              /\ call[c].op = "unstage" /\ v \notin overlap =>
                    call[c].then = "return" /\ v \notin call[c].new /\ call[c].new # {}
              /\ call[c].op = "unstage" => call[c].then # "add"
              /\ call[c].op # "unstage" =>
                    \/ call[c].then = "return" /\ v \in call[c].new
                    \/ call[c].then = "add"

\* What a stage and a publish know of the mount, and an unstage of the config.
KnowsOK(c) ==
    LET v == VolumeOf[c]
        k == KeyOf[v]
    IN  /\ Staging(c) => IsMounted(v)
        /\ call[c].pc \in {"umount", "remove"} => config[k] = List({v})
        /\ call[c].pc = "remove" => mounted[k] = NoSource
        /\ v \notin overlap =>
              /\ call[c].pc \in {"target", "bind"} => IsMounted(v)
              /\ call[c].pc \in {"load", "delete"} /\ call[c].key # NoKey => Listed(v)
              /\ call[c].pc = "load" /\ Recorded(v) => call[c].key = k \/ k \in call[c].todo

\* What the kubelet takes for staged is in the list and mounted, and what it
\* takes for gone is not in the list.
VolumeOK(v) ==
    v \notin overlap =>
        /\ InUse(v) => Listed(v)
        /\ InUse(v) /\ v \notin lost => IsMounted(v)
        /\ Recorded(v) => kube[v] # "none"

LocksOK ==
    /\ \A c \in Calls : Holds(c) => KeyOf[VolumeOf[c]] \in locks
    /\ \A c, d \in Calls :
          Holds(c) /\ Holds(d) /\ KeyOf[VolumeOf[c]] = KeyOf[VolumeOf[d]] => c = d

\* Volume v accounts for the mount of its key.
Accounts(v) ==
    \/ Recorded(v) \/ v \in overlap
    \/ \E c \in Calls : VolumeOf[c] = v /\ Staging(c)

\* Unless something went wrong with a config, a mount has a volume that is in
\* the list or on its way there, or whose calls overlapped.
KeyOK(k) ==
    /\ \A v \in config[k].vols : KeyOf[v] = k
    /\ config[k].file # "list" => config[k].vols = {}
    /\ mounted[k] \in SourcesOf(k) \cup {NoSource}
    /\ Stuck(k) => dirty
    /\ ~ dirty /\ mounted[k] # NoSource => \E v \in Volumes : KeyOf[v] = k /\ Accounts(v)

NodeInv ==
    /\ TypeOK
    /\ AloneOK
    /\ \A c \in Calls : CallOK(c) /\ WriteOK(c) /\ KnowsOK(c)
    /\ \A v \in Volumes : VolumeOK(v)
    /\ LocksOK
    /\ \A k \in Keys : KeyOK(k)
    /\ hollow \subseteq overlap

-----------------------------------------------------------------------------
(* The inductive invariant of the controller.                               *)

\* No directory of volume n is left.
Gone(n) == \A d \in dirs : d[2] # n

Has(n) == <<params[n], n>> \in dirs

\* What a call works for: a class, or what is left of its host in the id.
Opts ==
    TurboClasses \cup {NoOptions} \cup
    UNION {{[fsid |-> c.fsid, host |-> SubSeq(c.host, 1, i - 1)] : i \in DOMAIN c.host} :
           c \in TurboClasses}

IdOf(c, n) == c.fsid \o <<"-">> \o c.host \o <<"-", "/", ClusterId, "/">> \o n

Ids == {<<>>} \cup {IdOf(c, n) : c \in TurboClasses, n \in PvNames}

WorkRecord ==
    [op : {"none", "create", "delete"}, pc : {"idle", "check", "mount", "dir", "unmount"},
     claim : PvNames \cup {<<>>}, name : PvNames \cup {<<>>}, opt : Opts]

VolumeRecord ==
    [state : {"unbound", "bound", "released", "deleted"}, id : Ids,
     waits : Workers \cup {NoWorker}]

ShapeOK ==
    /\ params \in [PvNames -> TurboClasses \cup {NoOptions}]
    /\ dirs \subseteq Exports \X PvNames
    /\ tmp \in [PvNames -> Seq(Exports)]
    /\ work \in [Workers -> WorkRecord]
    /\ volume \in [PvNames -> VolumeRecord]
    /\ mixed \subseteq PvNames

\* No create for n is running.
Uncreated(n) == \A x \in Workers : work[x].op = "create" => work[x].claim # n

\* A call works for its own claim, whose class it was given, or for nothing.
\* Past the mount, a delete that no create runs beside reaches the directory
\* or there is none, and a create for a volume not yet deleted likewise.
WorkOK(w) ==
    work[w] # NoWork =>
        LET n == work[w].claim
        IN  /\ n \in PvNames /\ work[w].name = n
            /\ work[w].op \in {"create", "delete"}
            /\ work[w].pc \in {"check", "mount", "dir", "unmount"}
            /\ params[n] # NoOptions
            /\ work[w].opt \in Exports => work[w].opt = params[n]
            /\ work[w].op = "delete" => volume[n].state \in {"released", "deleted"}
            /\ work[w].op = "delete" /\ n \notin mixed =>
                  /\ Uncreated(n)
                  /\ work[w].pc = "dir" => tmp[n] # <<>> \/ Gone(n)
                  /\ work[w].pc = "unmount" => Gone(n)
            /\ work[w].op = "create" /\ volume[n].state \in {"unbound", "bound"} =>
                  /\ work[w].pc = "dir" => tmp[n] # <<>> \/ Has(n)
                  /\ work[w].pc = "unmount" => Has(n)

\* What is mounted and made for a name is of its class only, and the call that
\* the provisioner waits for is the one that the state of the volume says.
NameOK(n) ==
    /\ volume[n].waits # NoWorker =>
          LET w == volume[n].waits
          IN  /\ work[w].claim = n /\ work[w] # NoWork
              /\ volume[n].state = IF work[w].op = "create" THEN "unbound" ELSE "released"
    /\ volume[n].state # "unbound" => params[n] # NoOptions /\ volume[n].id = VolumeId(n)
    /\ params[n] = NoOptions => tmp[n] = <<>> /\ Gone(n)
    /\ \A i \in 1..Len(tmp[n]) : tmp[n][i] = params[n]
    /\ \A d \in dirs : d[2] = n => d[1] = params[n]
    /\ volume[n].state = "bound" => Has(n)
    /\ volume[n].state = "deleted" /\ n \notin mixed => Gone(n) /\ Uncreated(n)

ControllerInv ==
    /\ ShapeOK
    /\ \A w \in Workers : WorkOK(w)
    /\ \A n \in PvNames : NameOK(n)

-----------------------------------------------------------------------------
(* The node's invariant implies what the run checks, and holds initially.   *)

LEMMA NodeImplies ==
    ASSUME NodeInv
    PROVE  TypeOK /\ StagedIsMounted /\ NoHollowTarget /\ NoLeakedMount
<1>1. TypeOK /\ NoHollowTarget
    BY DEF NodeInv, NoHollowTarget
<1>2. StagedIsMounted
    BY DEF NodeInv, VolumeOK, StagedIsMounted, IsMounted
<1>3. NoLeakedMount
    <2> SUFFICES ASSUME ~ dirty, NEW k \in Keys,
                        \A v \in Volumes : KeyOf[v] = k => kube[v] = "none" /\ v \notin overlap,
                        mounted[k] # NoSource
                 PROVE  FALSE
        BY DEF NoLeakedMount
    <2>1. PICK v \in Volumes : KeyOf[v] = k /\ Accounts(v)
        BY DEF NodeInv, KeyOK
    <2>2. ~ Recorded(v)
        BY <2>1 DEF NodeInv, VolumeOK
    <2>3. \A c \in Calls : VolumeOf[c] = v => ~ Staging(c)
        BY <2>1 DEF NodeInv, CallOK, Staging
    <2> QED
        BY <2>1, <2>2, <2>3 DEF Accounts
<1> QED
    BY <1>1, <1>2, <1>3

\* What a volume's parameters name may be mounted under its key.
LEMMA OwnSource ==
    ASSUME NEW v \in Volumes
    PROVE  /\ KeyOf[v] \in Keys /\ SourceOf[v] \in SourcesOf(KeyOf[v]) /\ SourceOf[v] \in Sources
           /\ NoSource \notin SourcesOf(KeyOf[v]) /\ SourceOf[v] # NoSource
BY ConstantsAssumption DEF SourcesOf, Sources

LEMMA NodeInit == Init => NodeInv
<1> SUFFICES ASSUME Init PROVE NodeInv
    OBVIOUS
<1>1. TypeOK
    <2>1. NoCall \in CallRecord /\ Missing \in ConfigRecord /\ "none" \in KubeStates /\ 0 \in Nat
        BY DEF KubeStates, CallRecord, NoCall, ConfigRecord, Missing
    <2>2. \A v \in Volumes : bound[v] <= 1
        BY DEF Init
    <2> QED
        BY <2>1, <2>2 DEF Init, TypeOK
<1>2. /\ \A v \in Volumes : kube[v] = "none" /\ KeyOf[v] \in Keys
      /\ \A c \in Calls : call[c] = NoCall /\ VolumeOf[c] \in Volumes
      /\ \A k \in Keys : config[k] = Missing /\ mounted[k] = NoSource
    BY ConstantsAssumption DEF Init
<1>3. /\ \A v \in Volumes : ~ Recorded(v)
      /\ \A c \in Calls : ~ Holds(c)
      /\ \A k \in Keys : ~ Stuck(k)
    BY <1>2 DEF Recorded, Holds, Stuck, Writes, NoCall, Missing
<1>4. \A c \in Calls : call[c].op = "none"
    BY <1>2 DEF NoCall
<1>9. AloneOK
    BY <1>4 DEF AloneOK
<1>10. ASSUME NEW c \in Calls PROVE CallOK(c) /\ WriteOK(c) /\ KnowsOK(c)
    <2>1. call[c] = NoCall /\ ~ Holds(c)
        BY <1>2, <1>3
    <2>2. CallOK(c)
        BY <2>1 DEF CallOK, NoCall
    <2>3. WriteOK(c)
        BY <2>1 DEF WriteOK, NoCall
    <2>4. KnowsOK(c)
        BY <2>1 DEF KnowsOK, Staging, NoCall
    <2> QED
        BY <2>2, <2>3, <2>4
<1>5. \A v \in Volumes : VolumeOK(v)
    BY <1>2, <1>3 DEF VolumeOK, InUse
<1>6. LocksOK
    BY <1>3 DEF LocksOK
<1>7. \A k \in Keys : KeyOK(k)
    BY <1>2, <1>3 DEF KeyOK, Missing
<1>8. hollow \subseteq overlap
    BY DEF Init
<1> QED
    BY <1>1, <1>5, <1>6, <1>7, <1>8, <1>9, <1>10 DEF NodeInv

-----------------------------------------------------------------------------
(* What a step of call c, for volume v, does to the rest.                   *)

\* The volume's other calls are over, or calls for it have overlapped.
Lone(c) ==
    VolumeOf[c] \notin overlap' =>
        \A d \in Calls : d # c /\ VolumeOf[d] = VolumeOf[c] => call[d].op = "none"

\* The other calls and the other volumes' targets stay as they are, the locks
\* of other calls stay taken, and only a call that holds the lock touches its
\* config.  It mounts only its own file system, and unmounts only for the last
\* volume.
Local(c) ==
    LET v == VolumeOf[c]
        k == KeyOf[v]
    IN  /\ TypeOK'
        /\ Lone(c) /\ overlap \subseteq overlap'
        /\ \A d \in Calls : d # c => call'[d] = call[d]
        /\ \A u \in Volumes : u # v => kube'[u] = kube[u] /\ bound'[u] = bound[u]
        /\ \A j \in Keys : j # k \/ ~ Holds(c) => (j \in locks => j \in locks')
        /\ Holds(c)' => k \in locks' /\ (Holds(c) \/ k \notin locks)
        /\ \A j \in Keys : j # k \/ ~ Holds(c) => config'[j] = config[j] /\ mounted'[j] = mounted[j]
        /\ \/ mounted'[k] \in {mounted[k], SourceOf[v]}
           \/ mounted'[k] = NoSource /\ config[k] = List({v})
        /\ lost \ {v} \subseteq lost'
        /\ dirty => dirty'
        /\ hollow' \subseteq overlap'

\* What is recorded of the other volumes.
Keeps(c) ==
    LET v == VolumeOf[c]
    IN  /\ \A u \in Volumes : u # v => (Recorded(u)' => Recorded(u)) /\ (Listed(u) => Listed(u)')
        /\ \A u \in Volumes : KeyOf[u] # KeyOf[v] => (Recorded(u) => Recorded(u)')
        /\ \A k \in Keys : k # KeyOf[v] /\ Stuck(k)' => Stuck(k)

LEMMA LockedIsAlone ==
    ASSUME NodeInv, NEW c \in Calls, NEW d \in Calls, Holds(c), Holds(d),
           KeyOf[VolumeOf[c]] = KeyOf[VolumeOf[d]]
    PROVE  c = d
BY DEF NodeInv, LocksOK

LEMMA LoneCall ==
    ASSUME NodeInv, NEW c \in Calls, call[c].op # "none", overlap' = overlap
    PROVE  Lone(c)
BY DEF NodeInv, AloneOK, Lone

\* Nobody else writes the config of a lock that c holds.
LEMMA WriterHolds ==
    ASSUME NodeInv, NEW d \in Calls, NEW k \in Keys, Writes(d, k)
    PROVE  Holds(d) /\ KeyOf[VolumeOf[d]] = k /\ config[k].file = "torn"
BY DEF NodeInv, CallOK, WriteOK, Writes, Holds

\* While the config is a list, it is what is recorded.
LEMMA ListIsRecord ==
    ASSUME NodeInv, NEW u \in Volumes, config[KeyOf[u]].file # "torn"
    PROVE  /\ Recorded(u) <=> u \in config[KeyOf[u]].vols
           /\ Listed(u) <=> Recorded(u)
BY WriterHolds, ConstantsAssumption DEF Recorded, Listed, Stuck

\* The file system of a volume in use is not unmounted for another volume.
LEMMA MountStays ==
    ASSUME NodeInv, NEW c \in Calls, NEW v, v = VolumeOf[c], Local(c), NEW u \in Volumes, u # v,
           Listed(u), IsMounted(u)
    PROVE  IsMounted(u)'
<1>0. v \in Volumes /\ KeyOf[u] \in Keys /\ KeyOf[v] \in Keys
    BY ConstantsAssumption
<1>1. CASE KeyOf[u] # KeyOf[v]
    BY <1>0, <1>1 DEF Local, IsMounted
<1>2. CASE KeyOf[u] = KeyOf[v]
    <2>1. config[KeyOf[v]] # List({v})
        BY <1>2, ListIsRecord DEF List
    <2>2. mounted'[KeyOf[v]] \in {mounted[KeyOf[v]], SourceOf[v]}
        BY <2>1 DEF Local
    <2> QED
        BY <1>0, <1>2, <2>2, OwnSource DEF IsMounted
<1> QED
    BY <1>1, <1>2

LEMMA NoCallIsOK ==
    ASSUME NEW d \in Calls, call'[d] = NoCall
    PROVE  CallOK(d)' /\ WriteOK(d)' /\ KnowsOK(d)' /\ ~ Holds(d)' /\ ~ Staging(d)'
BY DEF NoCall, CallOK, WriteOK, KnowsOK, Holds, Staging

\* A call past the look-ups holds the lock.
LEMMA StepHolds ==
    ASSUME NodeInv, NEW d \in Calls, call[d].pc \in {"truncate", "write", "umount", "remove", "add"}
    PROVE  Holds(d)
BY DEF NodeInv, Holds, CallOK, NoCall

LEMMA OtherCalls ==
    ASSUME NodeInv, NEW c \in Calls, NEW v, v = VolumeOf[c], Local(c), Keeps(c),
           NEW d \in Calls, d # c
    PROVE  CallOK(d)' /\ WriteOK(d)' /\ KnowsOK(d)'
<1> DEFINE u == VolumeOf[d]
<1>0. /\ CallOK(d) /\ WriteOK(d) /\ KnowsOK(d) /\ VolumeOK(u)
      /\ u \in Volumes /\ v \in Volumes /\ KeyOf[u] \in Keys /\ KeyOf[v] \in Keys
      /\ call[d].op \in {"none", "stage", "unstage", "publish", "unpublish"}
    BY ConstantsAssumption DEF NodeInv, TypeOK, CallRecord
<1>1. call'[d] = call[d] /\ (u \in overlap => u \in overlap')
    BY DEF Local
<1>2. CASE call[d] = NoCall
    BY <1>1, <1>2, NoCallIsOK
<1>3. CASE call[d] # NoCall
    <2>1. u \notin overlap' => u # v /\ u \notin overlap
        BY <1>0, <1>1, <1>3 DEF Local, Lone, CallOK
    <2>2. u # v => /\ kube'[u] = kube[u] /\ bound'[u] = bound[u]
                   /\ Recorded(u)' => Recorded(u)
                   /\ Listed(u) => Listed(u)'
        BY <1>0 DEF Local, Keeps
    <2>3. Holds(d) => config'[KeyOf[u]] = config[KeyOf[u]] /\ mounted'[KeyOf[u]] = mounted[KeyOf[u]]
        <3>1. Holds(d) => KeyOf[u] # KeyOf[v] \/ ~ Holds(c)
            BY LockedIsAlone
        <3> QED
            BY <1>0, <3>1 DEF Local
    <2>4. (Holds(d)' <=> Holds(d)) /\ (Staging(d)' <=> Staging(d))
        BY <1>1 DEF Holds, Staging
    <2>5. CallOK(d)'
        BY <1>0, <1>1, <2>1, <2>2, <2>4 DEF CallOK
    <2>6. call[d].pc \in {"truncate", "write", "umount", "remove", "add"} => Holds(d)
        BY StepHolds
    <2>7. WriteOK(d)'
        BY <1>0, <1>1, <2>1, <2>3, <2>6 DEF WriteOK
    <2>8. call[d].pc \in {"target", "bind"} /\ u \notin overlap => InUse(u)
        BY <1>0 DEF CallOK, NoCall, StageSteps, UnstageSteps, UnpublishSteps, InUse
    <2>9. call[d].pc \in {"target", "bind"} /\ u \notin overlap' => IsMounted(u)'
        BY <1>0, <2>1, <2>8, MountStays DEF KnowsOK, VolumeOK
    <2>10. Staging(d) => IsMounted(u)'
        BY <1>0, <2>3, <2>6 DEF Staging, KnowsOK, IsMounted
    <2>11. KnowsOK(d)'
        BY <1>0, <1>1, <2>1, <2>2, <2>3, <2>4, <2>6, <2>9, <2>10 DEF KnowsOK
    <2> QED
        BY <2>5, <2>7, <2>11
<1> QED
    BY <1>2, <1>3

LEMMA OtherVolumes ==
    ASSUME NodeInv, NEW c \in Calls, NEW v, v = VolumeOf[c], Local(c), Keeps(c),
           NEW u \in Volumes, u # v
    PROVE  VolumeOK(u)'
<1>1. VolumeOK(u)
    BY DEF NodeInv
<1>2. /\ kube'[u] = kube[u] /\ (u \in lost => u \in lost') /\ (u \in overlap => u \in overlap')
      /\ InUse(u)' <=> InUse(u)
    BY DEF Local, InUse
<1>3. (Recorded(u)' => Recorded(u)) /\ (Listed(u) => Listed(u)')
    BY DEF Keeps
<1>4. Listed(u) /\ IsMounted(u) => IsMounted(u)'
    BY MountStays
<1> QED
    BY <1>1, <1>2, <1>3, <1>4 DEF VolumeOK

LEMMA LocksKept ==
    ASSUME NodeInv, NEW c \in Calls, Local(c)
    PROVE  LocksOK'
<1> DEFINE K(d) == KeyOf[VolumeOf[d]]
<1>0. \A d \in Calls : K(d) \in Keys
    BY ConstantsAssumption
<1>1. \A d \in Calls : d # c => (Holds(d)' <=> Holds(d))
    BY DEF Local, Holds
<1>2. \A d \in Calls : d # c /\ Holds(d) => K(d) \in locks /\ K(d) \in locks'
    BY <1>0, LockedIsAlone DEF NodeInv, LocksOK, Local
<1>3. Holds(c)' => K(c) \in locks'
    BY DEF Local
<1>4. ASSUME NEW d \in Calls, d # c, Holds(c)', Holds(d) PROVE K(d) # K(c)
    BY <1>2, <1>4, LockedIsAlone DEF Local
<1>5. \A a, b \in Calls : a # c /\ b # c /\ Holds(a) /\ Holds(b) /\ K(a) = K(b) => a = b
    BY DEF NodeInv, LocksOK
<1>6. \A d \in Calls : Holds(d)' => K(d) \in locks'
    BY <1>1, <1>2, <1>3
<1>7. \A a, b \in Calls : Holds(a)' /\ Holds(b)' /\ K(a) = K(b) => a = b
    BY <1>1, <1>4, <1>5
<1> QED
    BY <1>6, <1>7 DEF LocksOK

\* The keys of other volumes.
LEMMA OtherKeys ==
    ASSUME NodeInv, NEW c \in Calls, NEW v, v = VolumeOf[c], Local(c), Keeps(c),
           NEW k \in Keys, k # KeyOf[v]
    PROVE  KeyOK(k)'
<1>1. config'[k] = config[k] /\ mounted'[k] = mounted[k] /\ (dirty => dirty') /\ (Stuck(k)' => Stuck(k))
    BY DEF Local, Keeps
<1>2. \A d \in Calls : d # c /\ Staging(d) => Staging(d)'
    BY DEF Local, Staging
<1>3. \A u \in Volumes : KeyOf[u] = k => (Recorded(u) => Recorded(u)') /\ (u \in overlap => u \in overlap')
    BY DEF Local, Keeps
<1>4. \A u \in Volumes : KeyOf[u] = k /\ Accounts(u) => Accounts(u)'
    BY <1>2, <1>3 DEF Accounts
<1>5. KeyOK(k)
    BY DEF NodeInv
<1> QED
    BY <1>1, <1>4, <1>5 DEF KeyOK

LEMMA AloneKept ==
    ASSUME NodeInv, NEW c \in Calls, Local(c)
    PROVE  AloneOK'
<1>1. /\ \A d \in Calls : d # c => call'[d] = call[d]
      /\ overlap \subseteq overlap'
      /\ VolumeOf[c] \notin overlap' =>
            \A d \in Calls : d # c /\ VolumeOf[d] = VolumeOf[c] => call'[d].op = "none"
    BY DEF Local, Lone
<1> QED
    BY <1>1 DEF NodeInv, AloneOK

\* What is left to show of a step of c.
LEMMA NodeStep ==
    ASSUME NodeInv, NEW c \in Calls, NEW v, v = VolumeOf[c], Local(c), Keeps(c),
           CallOK(c)', WriteOK(c)', KnowsOK(c)', VolumeOK(v)', KeyOK(KeyOf[v])'
    PROVE  NodeInv'
<1>1. \A d \in Calls : CallOK(d)' /\ WriteOK(d)' /\ KnowsOK(d)'
    BY OtherCalls
<1>2. \A u \in Volumes : VolumeOK(u)'
    BY OtherVolumes
<1>3. LocksOK' /\ AloneOK'
    BY LocksKept, AloneKept
<1>4. \A k \in Keys : KeyOK(k)'
    BY OtherKeys
<1>5. TypeOK' /\ hollow' \subseteq overlap'
    BY DEF Local
<1> QED
    BY <1>1, <1>2, <1>3, <1>4, <1>5 DEF NodeInv

-----------------------------------------------------------------------------
(* Steps that leave the configs and the mounts alone.                       *)

\* Call c becomes r, and the other calls stay as they are.
Becomes(c, r) ==
    /\ r \in CallRecord
    /\ call' \in [Calls -> CallRecord]
    /\ call'[c] = r
    /\ \A d \in Calls : d # c => call'[d] = call[d]

Moved(c, pc, key, todo, new, then) ==
    [op |-> call[c].op, awaited |-> call[c].awaited, pc |-> pc, key |-> key, todo |-> todo,
     new |-> new, then |-> then]

LEMMA QuietLedger ==
    ASSUME NodeInv, NEW c \in Calls, NEW r, Becomes(c, r), config' = config,
           call[c].pc # "write", r.pc # "write"
    PROVE  /\ \A u \in Volumes : (Recorded(u)' <=> Recorded(u)) /\ (Listed(u)' <=> Listed(u))
           /\ \A k \in Keys : Stuck(k)' <=> Stuck(k)
           /\ Keeps(c)
<1>0. \A u \in Volumes : KeyOf[u] \in Keys
    BY ConstantsAssumption
<1>1. \A d \in Calls, k \in Keys : Writes(d, k)' <=> Writes(d, k)
    BY DEF Becomes, Writes
<1>2. \A d \in Calls, k \in Keys : Writes(d, k) => call'[d].new = call[d].new
    BY DEF Becomes, Writes
<1>3. \A u \in Volumes : Recorded(u)' <=> Recorded(u)
    BY <1>0, <1>1, <1>2 DEF Recorded
<1>4. \A k \in Keys : Stuck(k)' <=> Stuck(k)
    BY <1>1 DEF Stuck
<1>5. \A u \in Volumes : Listed(u)' <=> Listed(u)
    BY <1>0, <1>3, <1>4 DEF Listed
<1> QED
    BY <1>3, <1>4, <1>5 DEF Keeps

LEMMA QuietLocal ==
    ASSUME NodeInv, NEW c \in Calls, NEW v, v = VolumeOf[c], NEW r, Becomes(c, r),
           UNCHANGED <<config, mounted>>,
           kube' \in [Volumes -> KubeStates], bound' \in [Volumes -> Nat],
           v \notin overlap' => bound'[v] <= 1,
           \A u \in Volumes : u # v => kube'[u] = kube[u] /\ bound'[u] = bound[u],
           overlap \subseteq overlap', overlap' \subseteq Volumes, Lone(c),
           hollow' \subseteq Volumes, hollow' \subseteq overlap',
           lost' \subseteq Volumes, lost \ {v} \subseteq lost', dirty' \in BOOLEAN, dirty => dirty',
           \/ locks' = locks /\ (Holds(c)' => Holds(c))
           \/ locks' = locks \cup {KeyOf[v]} /\ KeyOf[v] \notin locks
           \/ locks' = locks \ {KeyOf[v]} /\ Holds(c) /\ ~ Holds(c)'
    PROVE  Local(c)
<1>0. KeyOf[v] \in Keys /\ v \in Volumes
    BY ConstantsAssumption
<1>1. \A u \in Volumes : u \notin overlap' => bound'[u] <= 1
    BY DEF NodeInv, TypeOK
<1>2. locks' \subseteq Keys
    BY <1>0 DEF NodeInv, TypeOK
<1>3. TypeOK'
    BY <1>0, <1>1, <1>2 DEF NodeInv, TypeOK, Becomes
<1>4. Holds(c) => KeyOf[v] \in locks
    BY DEF NodeInv, LocksOK
<1>5. \A d \in Calls : d # c => call'[d] = call[d]
    BY DEF Becomes
<1>6. \A k \in Keys : k # KeyOf[v] \/ ~ Holds(c) => (k \in locks => k \in locks')
    OBVIOUS
<1>7. Holds(c)' => KeyOf[v] \in locks' /\ (Holds(c) \/ KeyOf[v] \notin locks)
    BY <1>4
<1> QED
    BY <1>0, <1>3, <1>5, <1>6, <1>7 DEF Local

\* A stage that leaves has recorded its volume, or a config has failed.
LEMMA QuietKey ==
    ASSUME NodeInv, NEW c \in Calls, NEW v, v = VolumeOf[c], NEW r, Becomes(c, r),
           UNCHANGED <<config, mounted>>, overlap \subseteq overlap', dirty' \in BOOLEAN, dirty => dirty',
           call[c].pc # "write", r.pc # "write",
           Staging(c) => Staging(c)' \/ Recorded(v) \/ dirty'
    PROVE  KeyOK(KeyOf[v])'
<1>0. v \in Volumes /\ KeyOf[v] \in Keys /\ KeyOK(KeyOf[v])
    BY ConstantsAssumption DEF NodeInv
<1>2. /\ \A u \in Volumes : Recorded(u)' <=> Recorded(u)
      /\ Stuck(KeyOf[v])' <=> Stuck(KeyOf[v])
    BY <1>0, QuietLedger
<1>3. \A d \in Calls : d # c => (Staging(d) => Staging(d)')
    BY DEF Becomes, Staging
<1>4. \A u \in Volumes : Accounts(u) => Accounts(u)' \/ dirty'
    BY <1>2, <1>3 DEF Accounts
<1>5. ~ dirty' /\ mounted'[KeyOf[v]] # NoSource =>
          \E u \in Volumes : KeyOf[u] = KeyOf[v] /\ Accounts(u)'
    BY <1>0, <1>4 DEF KeyOK
<1> QED
    BY <1>0, <1>2, <1>5 DEF KeyOK

\* A call that has returned asks for nothing.
LEMMA Returned ==
    ASSUME NodeInv, NEW c \in Calls, Becomes(c, NoCall)
    PROVE  CallOK(c)' /\ WriteOK(c)' /\ KnowsOK(c)' /\ ~ Holds(c)'
BY NoCallIsOK DEF Becomes

LEMMA NoCallType == NoCall \in CallRecord
BY DEF NoCall, CallRecord

LEMMA FailQuiet ==
    ASSUME NodeInv, NEW c \in Calls, NEW v, v = VolumeOf[c], call[c].op # "none",
           NEW held \in BOOLEAN, held <=> Holds(c), Fail(c, held),
           UNCHANGED <<config, mounted, bound, hollow, overlap>>, dirty' \in BOOLEAN, dirty => dirty',
           call[c].pc # "write", Staging(c) => dirty'
    PROVE  NodeInv'
<1>0. /\ v \in Volumes /\ KeyOf[v] \in Keys /\ TypeOK /\ CallOK(c) /\ VolumeOK(v)
      /\ hollow \subseteq overlap
    BY ConstantsAssumption DEF NodeInv
<1>1. Becomes(c, NoCall)
    BY <1>0, NoCallType DEF Fail, Becomes, TypeOK
<1>2. CallOK(c)' /\ WriteOK(c)' /\ KnowsOK(c)' /\ ~ Holds(c)'
    BY <1>1, Returned
<1>3. UNCHANGED <<kube, lost>> /\ NoCall.pc # "write"
    BY DEF Fail, NoCall
<1>4. locks' = locks \/ (locks' = locks \ {KeyOf[v]} /\ Holds(c))
    BY <1>0 DEF Fail, Release, CallOK
<1>5. Local(c)
    BY <1>0, <1>1, <1>2, <1>3, <1>4, LoneCall, QuietLocal DEF TypeOK
<1>6. KeyOK(KeyOf[v])'
    BY <1>1, <1>3, QuietKey
<1>7. Keeps(c) /\ (Recorded(v)' <=> Recorded(v)) /\ (Listed(v)' <=> Listed(v))
    BY <1>0, <1>1, <1>3, QuietLedger
<1>8. VolumeOK(v)'
    BY <1>0, <1>3, <1>7 DEF VolumeOK, InUse, IsMounted
<1> QED
    BY <1>2, <1>5, <1>6, <1>7, <1>8, NodeStep

\* What a success tells the kubelet, if it still waits.
LEMMA Told ==
    ASSUME TypeOK, NEW c \in Calls, NEW v, v = VolumeOf[c], v \in Volumes,
           call[c].op \in {"stage", "unstage", "publish", "unpublish"},
           NEW held \in BOOLEAN, Succeed(c, held)
    PROVE  /\ kube' \in [Volumes -> KubeStates]
           /\ \A u \in Volumes : u # v => kube'[u] = kube[u]
           /\ lost' \subseteq Volumes /\ lost \ {v} \subseteq lost'
           /\ \/ kube'[v] = Acknowledged(call[c].op)
              \/ kube'[v] = kube[v] /\ lost' = lost
           /\ call[c].op = "unpublish" => lost' = lost
<1>1. Acknowledged(call[c].op) \in KubeStates
    BY DEF Acknowledged, KubeStates
<1>2. CASE call[c].awaited
    BY <1>1, <1>2 DEF Succeed, TypeOK
<1>3. CASE ~ call[c].awaited
    BY <1>3 DEF Succeed, TypeOK
<1> QED
    BY <1>2, <1>3

LEMMA SucceedQuiet ==
    ASSUME NodeInv, NEW c \in Calls, NEW v, v = VolumeOf[c],
           NEW held \in BOOLEAN, held <=> Holds(c),
           call[c].op # "none", Succeed(c, held),
           UNCHANGED <<config, mounted, overlap, dirty>>, bound' \in [Volumes -> Nat],
           hollow' \subseteq overlap, v \notin overlap => bound'[v] <= 1,
           \A u \in Volumes : u # v => bound'[u] = bound[u],
           call[c].pc # "write", Staging(c) => Recorded(v),
           v \notin overlap =>
               /\ call[c].op = "stage" => Listed(v)
               /\ call[c].op \in {"stage", "publish"} => IsMounted(v)
               /\ call[c].op = "unstage" => ~ Recorded(v)
    PROVE  NodeInv'
<1>0. /\ v \in Volumes /\ KeyOf[v] \in Keys /\ TypeOK /\ CallOK(c) /\ VolumeOK(v)
      /\ call[c].op \in {"stage", "unstage", "publish", "unpublish"}
    BY ConstantsAssumption DEF NodeInv, TypeOK, CallRecord
<1>1. Becomes(c, NoCall)
    BY <1>0, NoCallType DEF Succeed, Becomes, TypeOK
<1>2. CallOK(c)' /\ WriteOK(c)' /\ KnowsOK(c)' /\ ~ Holds(c)'
    BY <1>1, Returned
<1>3. NoCall.pc # "write"
    BY DEF NoCall
<1>4. locks' = locks \/ (locks' = locks \ {KeyOf[v]} /\ Holds(c))
    BY <1>0 DEF Succeed, Release, CallOK
<1>5. /\ kube' \in [Volumes -> KubeStates]
      /\ \A u \in Volumes : u # v => kube'[u] = kube[u]
      /\ lost' \subseteq Volumes /\ lost \ {v} \subseteq lost'
      /\ \/ kube'[v] = Acknowledged(call[c].op)
         \/ kube'[v] = kube[v] /\ lost' = lost
      /\ call[c].op = "unpublish" => lost' = lost
    BY <1>0, Told
<1>6. dirty' \in BOOLEAN /\ (dirty => dirty') /\ overlap \subseteq Volumes /\ hollow' \subseteq Volumes
    BY <1>0 DEF TypeOK
<1>7. Lone(c)
    BY LoneCall
<1>8. Local(c)
    BY <1>1, <1>2, <1>4, <1>5, <1>6, <1>7, QuietLocal
<1>9. KeyOK(KeyOf[v])'
    BY <1>1, <1>3, <1>6, QuietKey
<1>10. Keeps(c) /\ (Recorded(v)' <=> Recorded(v)) /\ (Listed(v)' <=> Listed(v))
    BY <1>0, <1>1, <1>3, QuietLedger
<1>11. IsMounted(v)' <=> IsMounted(v)
    BY DEF IsMounted
<1>12. CASE kube'[v] = kube[v] /\ lost' = lost
    BY <1>0, <1>2, <1>8, <1>9, <1>10, <1>11, <1>12, NodeStep DEF VolumeOK, InUse
<1>13. ASSUME kube'[v] = Acknowledged(call[c].op)
       PROVE  VolumeOK(v)'
    <2>1. CASE call[c].op = "stage"
        BY <1>10, <1>11, <1>13, <2>1 DEF VolumeOK, InUse, Acknowledged
    <2>2. CASE call[c].op = "unstage"
        BY <1>10, <1>13, <2>2 DEF VolumeOK, InUse, Acknowledged
    <2>3. CASE call[c].op = "publish"
        BY <1>0, <1>10, <1>11, <1>13, <2>3 DEF VolumeOK, InUse, Acknowledged, CallOK
    <2>4. CASE call[c].op = "unpublish"
        BY <1>0, <1>5, <1>10, <1>11, <1>13, <2>4 DEF VolumeOK, InUse, Acknowledged, CallOK
    <2> QED
        BY <1>0, <2>1, <2>2, <2>3, <2>4
<1> QED
    BY <1>2, <1>5, <1>8, <1>9, <1>10, <1>12, <1>13, NodeStep

\* A call goes on to another step, and takes the lock or not.
LEMMA MovesQuiet ==
    ASSUME NodeInv, NEW c \in Calls, NEW v, v = VolumeOf[c], call[c].op # "none",
           NEW r, Becomes(c, r), UNCHANGED <<kube, lost, config, mounted, bound, hollow, overlap, dirty>>,
           \/ locks' = locks /\ (Holds(c)' => Holds(c))
           \/ locks' = locks \cup {KeyOf[v]} /\ KeyOf[v] \notin locks
           \/ locks' = locks \ {KeyOf[v]} /\ Holds(c) /\ ~ Holds(c)',
           call[c].pc # "write", r.pc # "write", Staging(c) => Staging(c)' \/ Recorded(v),
           CallOK(c)', WriteOK(c)', KnowsOK(c)'
    PROVE  NodeInv'
<1>0. v \in Volumes /\ KeyOf[v] \in Keys /\ TypeOK /\ VolumeOK(v) /\ hollow \subseteq overlap
    BY ConstantsAssumption DEF NodeInv
<1>1. dirty' \in BOOLEAN /\ (dirty => dirty')
    BY <1>0 DEF TypeOK
<1>2. Local(c)
    BY <1>0, <1>1, LoneCall, QuietLocal DEF TypeOK
<1>3. KeyOK(KeyOf[v])'
    BY <1>1, QuietKey
<1>4. Keeps(c) /\ (Recorded(v)' <=> Recorded(v)) /\ (Listed(v)' <=> Listed(v))
    BY <1>0, QuietLedger
<1>5. VolumeOK(v)'
    BY <1>0, <1>4 DEF VolumeOK, InUse, IsMounted
<1> QED
    BY <1>2, <1>3, <1>4, <1>5, NodeStep

-----------------------------------------------------------------------------
(* The kubelet's requests.                                                  *)

\* If the volume has a call that the kubelet gave up, the two overlap from now.
LEMMA RequestInv ==
    ASSUME NodeInv, NEW c \in Calls, NEW v, v = VolumeOf[c], Request(c)
    PROVE  NodeInv'
<1>0. /\ v \in Volumes /\ KeyOf[v] \in Keys /\ TypeOK /\ CallOK(c) /\ VolumeOK(v)
      /\ call[c] = NoCall /\ hollow \subseteq overlap
    BY ConstantsAssumption
       DEF NodeInv, CallOK, Request, StartCall, NodeStageVolume, NodeUnstageVolume, NodePublishVolume,
           NodeUnpublishVolume
<1>1. PICK op \in {"stage", "unstage", "publish", "unpublish"},
           pc \in {"acquire", "list", "global", "loop"},
           state \in {"maybeStaged", "maybePublished"} :
          /\ call' = [call EXCEPT ![c] = [NoCall EXCEPT !.op = op, !.awaited = TRUE, !.pc = pc]]
          /\ kube' = [kube EXCEPT ![v] = state]
          /\ overlap' = IF Runs(v) THEN overlap \cup {v} ELSE overlap
          /\ op = "stage" => pc = "acquire" /\ state = "maybeStaged"
          /\ op = "unstage" => pc = "list" /\ state = "maybeStaged"
          /\ op = "publish" => pc = "global" /\ state = "maybePublished"
          /\ op = "unpublish" => pc = "loop" /\ state = "maybePublished"
          /\ state = "maybePublished" => InUse(v)
          /\ UNCHANGED <<locks, mounted, config, bound, hollow, lost, dirty>>
    <2>1. CASE NodeStageVolume(c)
        BY <2>1 DEF StartCall, NodeStageVolume
    <2>2. CASE NodeUnstageVolume(c)
        BY <2>2 DEF StartCall, NodeUnstageVolume
    <2>3. CASE NodePublishVolume(c)
        BY <2>3 DEF StartCall, NodePublishVolume, InUse
    <2>4. CASE NodeUnpublishVolume(c)
        BY <2>4 DEF StartCall, NodeUnpublishVolume, InUse
    <2> QED
        BY <2>1, <2>2, <2>3, <2>4 DEF Request
<1>2. UNCHANGED <<locks, mounted, config, bound, hollow, lost, dirty>>
    BY <1>1
<1>3. PICK r : r = [NoCall EXCEPT !.op = op, !.awaited = TRUE, !.pc = pc] /\ call' = [call EXCEPT ![c] = r]
    BY <1>1
<1>4. r \in CallRecord
    BY <1>3, NoCallType DEF CallRecord, StageSteps, UnstageSteps, PublishSteps, UnpublishSteps
<1>5. /\ r \in CallRecord /\ r.op = op /\ r.pc = pc /\ r.key = NoKey
      /\ r.todo = {} /\ r.new = {} /\ r.then = "return"
    BY <1>3, <1>4 DEF NoCall
<1>6. Becomes(c, r)
    BY <1>0, <1>3, <1>5 DEF Becomes, TypeOK
<1>7. /\ kube' \in [Volumes -> KubeStates] /\ kube'[v] = state
      /\ \A u \in Volumes : u # v => kube'[u] = kube[u]
    BY <1>0, <1>1 DEF TypeOK, KubeStates
<1>8. ~ Holds(c)'
    BY <1>1, <1>5, <1>6 DEF Becomes, Holds
<1>9. CallOK(c)'
    BY <1>1, <1>5, <1>6, <1>7, <1>8
       DEF Becomes, CallOK, StageSteps, UnstageSteps, PublishSteps, UnpublishSteps
<1>10. WriteOK(c)' /\ KnowsOK(c)' /\ r.pc # "write" /\ call[c].pc # "write" /\ ~ Staging(c)
    BY <1>0, <1>1, <1>5, <1>6 DEF Becomes, WriteOK, KnowsOK, Staging, NoCall
<1>11. /\ overlap \subseteq overlap' /\ overlap' \subseteq Volumes /\ hollow' \subseteq overlap'
       /\ v \notin overlap' => v \notin overlap /\ bound'[v] <= 1
    BY <1>0, <1>1, <1>2 DEF TypeOK
<1>12. Lone(c)
    BY <1>1 DEF Lone, Runs
<1>13. Local(c)
    BY <1>0, <1>2, <1>6, <1>7, <1>8, <1>11, <1>12, QuietLocal DEF TypeOK
<1>14. KeyOK(KeyOf[v])'
    BY <1>0, <1>2, <1>6, <1>10, <1>11, QuietKey DEF TypeOK
<1>15. Keeps(c) /\ (Recorded(v)' <=> Recorded(v)) /\ (Listed(v)' <=> Listed(v))
    BY <1>0, <1>2, <1>6, <1>10, QuietLedger
<1>16. VolumeOK(v)'
    BY <1>0, <1>1, <1>2, <1>7, <1>11, <1>15 DEF VolumeOK, InUse, IsMounted
<1> QED
    BY <1>9, <1>10, <1>13, <1>14, <1>15, <1>16, NodeStep

-----------------------------------------------------------------------------
(* NodeStageVolume.                                                         *)

LEMMA GotoBecomes ==
    ASSUME TypeOK, NEW c \in Calls, NEW v, v = VolumeOf[c],
           NEW s \in StageSteps \cup UnstageSteps \cup PublishSteps \cup UnpublishSteps, Goto(c, s)
    PROVE  /\ Becomes(c, Moved(c, s, call[c].key, call[c].todo, call[c].new, call[c].then))
           /\ UNCHANGED <<kube, locks, lost>>
BY DEF TypeOK, Goto, Becomes, Moved, CallRecord

\* Facts about a call at a step of its own.
LEMMA CallFacts ==
    ASSUME NodeInv, NEW c \in Calls, NEW v, v = VolumeOf[c]
    PROVE  /\ TypeOK /\ CallOK(c) /\ WriteOK(c) /\ KnowsOK(c) /\ VolumeOK(v)
           /\ v \in Volumes /\ KeyOf[v] \in Keys /\ hollow \subseteq overlap /\ KeyOK(KeyOf[v])
              /\ call[c] \in CallRecord
           /\ config[KeyOf[v]] \in ConfigRecord
           /\ call[c].op \in {"none", "stage", "unstage", "publish", "unpublish"}
BY ConstantsAssumption DEF NodeInv, TypeOK, CallRecord

LEMMA StageAcquireInv ==
    ASSUME NodeInv, NEW c \in Calls, NEW v, v = VolumeOf[c], StageAcquire(c)
    PROVE  NodeInv'
<1>0. /\ TypeOK /\ CallOK(c) /\ v \in Volumes /\ KeyOf[v] \in Keys /\ call[c].op # "none"
         /\ call[c].pc = "acquire"
      /\ call[c] \in CallRecord
    BY CallFacts DEF StageAcquire, At
<1>1. UNCHANGED <<mounted, config, bound, hollow, overlap, dirty>>
    BY DEF StageAcquire
<1>2. ~ Holds(c) /\ ~ Staging(c)
    BY <1>0 DEF Holds, Staging
<1>3. CASE KeyOf[v] \in locks /\ Fail(c, FALSE)
    BY <1>0, <1>1, <1>2, <1>3, FailQuiet DEF TypeOK
<1>4. CASE /\ KeyOf[v] \notin locks
           /\ locks' = locks \cup {KeyOf[v]}
           /\ call' = [call EXCEPT ![c].pc = "check", ![c].key = KeyOf[v]]
           /\ UNCHANGED <<kube, lost>>
    <2>1. Becomes(c, Moved(c, "check", KeyOf[v], call[c].todo, call[c].new, call[c].then))
        BY <1>0, <1>4 DEF TypeOK, Becomes, Moved, CallRecord, StageSteps
    <2>2. CallOK(c)'
        BY <1>0, <1>1, <1>4, <2>1 DEF CallOK, Becomes, Moved, Holds, StageSteps, UnstageSteps,
           PublishSteps, UnpublishSteps
    <2>3. WriteOK(c)' /\ KnowsOK(c)'
        BY <2>1 DEF WriteOK, KnowsOK, Becomes, Moved, Staging, IsMounted
    <2>4. Moved(c, "check", KeyOf[v], call[c].todo, call[c].new, call[c].then).pc # "write"
        BY DEF Moved
    <2> QED
        BY <1>0, <1>1, <1>2, <1>4, <2>1, <2>2, <2>3, <2>4, MovesQuiet
<1> QED
    BY <1>3, <1>4 DEF StageAcquire, TryAcquire

LEMMA StageCheckInv ==
    ASSUME NodeInv, NEW c \in Calls, NEW v, v = VolumeOf[c], StageCheck(c)
    PROVE  NodeInv'
<1>0. /\ TypeOK /\ CallOK(c) /\ v \in Volumes /\ KeyOf[v] \in Keys /\ call[c].op # "none"
         /\ call[c].pc = "check"
      /\ KeyOK(KeyOf[v])
    BY CallFacts DEF StageCheck, At
<1>1. UNCHANGED <<mounted, config, bound, hollow, overlap, dirty>>
    BY DEF StageCheck
<1>2. Holds(c) /\ ~ Staging(c) /\ call[c].key = KeyOf[v]
    BY <1>0 DEF Holds, Staging, CallOK
<1>3. CASE Fail(c, TRUE)
    BY <1>0, <1>1, <1>2, <1>3, FailQuiet DEF TypeOK
<1>4. ASSUME NEW s \in {"add", "mount"}, Goto(c, s), s = "add" => mounted[KeyOf[v]] # NoSource
      PROVE  NodeInv'
    <2> DEFINE r == Moved(c, s, call[c].key, call[c].todo, call[c].new, call[c].then)
    <2>1. Becomes(c, r) /\ UNCHANGED <<kube, locks, lost>>
        BY <1>0, <1>4, GotoBecomes DEF StageSteps
    <2>2. CallOK(c)'
        BY <1>0, <1>1, <2>1 DEF CallOK, Becomes, Moved, Holds, StageSteps, UnstageSteps, PublishSteps,
           UnpublishSteps
    <2>3. WriteOK(c)' /\ KnowsOK(c)'
        BY <1>0, <1>1, <1>4, <2>1 DEF WriteOK, KnowsOK, Becomes, Moved, Staging, KeyOK, IsMounted
    <2>4. r.pc # "write"
        BY <1>4 DEF Moved
    <2> QED
        BY <1>0, <1>1, <1>2, <2>1, <2>2, <2>3, <2>4, MovesQuiet
<1> QED
    BY <1>2, <1>3, <1>4 DEF StageCheck

\* A step under the lock, which may change the mount or the config of v's key.
LEMMA LockedLocal ==
    ASSUME NodeInv, NEW c \in Calls, NEW v, v = VolumeOf[c], Holds(c), NEW r, Becomes(c, r),
           UNCHANGED <<bound, hollow, overlap>>,
           kube' \in [Volumes -> KubeStates], \A u \in Volumes : u # v => kube'[u] = kube[u],
           config' \in [Keys -> ConfigRecord], mounted' \in [Keys -> Sources \cup {NoSource}],
           \A k \in Keys : k # KeyOf[v] => config'[k] = config[k] /\ mounted'[k] = mounted[k],
           \/ mounted'[KeyOf[v]] \in {mounted[KeyOf[v]], SourceOf[v]}
           \/ mounted'[KeyOf[v]] = NoSource /\ config[KeyOf[v]] = List({v}),
           lost' \subseteq Volumes, lost \ {v} \subseteq lost',
           dirty' \in BOOLEAN, dirty => dirty',
           locks' = locks \/ (locks' = locks \ {KeyOf[v]} /\ ~ Holds(c)')
    PROVE  Local(c)
<1>0. KeyOf[v] \in Keys /\ hollow \subseteq overlap
    BY ConstantsAssumption DEF NodeInv
<1>1. TypeOK'
    BY DEF NodeInv, TypeOK, Becomes
<1>2. KeyOf[v] \in locks /\ Lone(c)
    BY LoneCall DEF NodeInv, LocksOK, Holds
<1>3. \A d \in Calls : d # c => call'[d] = call[d]
    BY DEF Becomes
<1>4. Holds(c)' => KeyOf[v] \in locks'
    BY <1>2
<1>5. \A k \in Keys : k # KeyOf[v] => (k \in locks => k \in locks')
    OBVIOUS
<1> QED
    BY <1>0, <1>1, <1>2, <1>3, <1>4, <1>5 DEF Local

\* Nobody but the holder of the lock writes its config.
LEMMA OnlyWriter ==
    ASSUME NodeInv, NEW c \in Calls, NEW v, v = VolumeOf[c], Holds(c), NEW d \in Calls, d # c
    PROVE  ~ Writes(d, KeyOf[v])
BY WriterHolds, LockedIsAlone, ConstantsAssumption

\* In general: what v's step does to the record of its own key is all it does.
LEMMA LockedLedger ==
    ASSUME NodeInv, NEW c \in Calls, NEW v, v = VolumeOf[c], Holds(c), NEW r, Becomes(c, r),
           r.op # "none" => r.key = KeyOf[v],
           \A k \in Keys : k # KeyOf[v] => config'[k] = config[k]
    PROVE  /\ \A u \in Volumes : KeyOf[u] # KeyOf[v] => (Recorded(u)' <=> Recorded(u))
              /\ (Listed(u)' <=> Listed(u))
           /\ \A k \in Keys : k # KeyOf[v] => (Stuck(k)' <=> Stuck(k))
           /\ \A d \in Calls : d # c => ~ Writes(d, KeyOf[v]) /\ ~ Writes(d, KeyOf[v])'
           /\ Writes(c, KeyOf[v])' <=> r.op # "none" /\ r.pc = "write"
<1>0. v \in Volumes /\ KeyOf[v] \in Keys /\ CallOK(c) /\ \A u \in Volumes : KeyOf[u] \in Keys
    BY ConstantsAssumption DEF NodeInv
<1>1. \A d \in Calls : d # c => ~ Writes(d, KeyOf[v])
    BY OnlyWriter
<1>2. \A d \in Calls, k \in Keys : d # c => (Writes(d, k)' <=> Writes(d, k)) /\ call'[d].new = call[d].new
    BY DEF Becomes, Writes
<1>3. \A k \in Keys : k # KeyOf[v] => ~ Writes(c, k) /\ ~ Writes(c, k)'
    BY <1>0 DEF Becomes, Writes, CallOK
<1>4. ASSUME NEW k \in Keys, k # KeyOf[v]
      PROVE  Stuck(k)' <=> Stuck(k)
    BY <1>2, <1>3, <1>4 DEF Stuck
<1>5. ASSUME NEW u \in Volumes, KeyOf[u] # KeyOf[v]
      PROVE  Recorded(u)' <=> Recorded(u)
    BY <1>0, <1>2, <1>3, <1>5 DEF Recorded
<1>6. \A u \in Volumes : KeyOf[u] # KeyOf[v] => (Listed(u)' <=> Listed(u))
    BY <1>0, <1>4, <1>5 DEF Listed
<1>7. Writes(c, KeyOf[v])' <=> r.op # "none" /\ r.pc = "write"
    BY <1>0 DEF Writes, Becomes
<1> QED
    BY <1>0, <1>1, <1>2, <1>4, <1>5, <1>6, <1>7

LEMMA TruncateLedger ==
    ASSUME NodeInv, NEW c \in Calls, NEW v, v = VolumeOf[c], Holds(c), call[c].pc = "truncate", NEW r,
           Becomes(c, r),
           r.op # "none", r.key = KeyOf[v], r.pc = "write", r.new = call[c].new,
           config'[KeyOf[v]] = Torn,
           \A k \in Keys : k # KeyOf[v] => config'[k] = config[k]
    PROVE  /\ Keeps(c) /\ ~ Stuck(KeyOf[v])'
           /\ Recorded(v)' <=> v \in call[c].new
           /\ \A u \in Volumes : KeyOf[u] = KeyOf[v] /\ u # v => (Recorded(u)' <=> Recorded(u))
<1>0. /\ v \in Volumes /\ KeyOf[v] \in Keys /\ WriteOK(c)
      /\ config[KeyOf[v]].file # "torn"
      /\ config[KeyOf[v]].vols \ {v} \subseteq call[c].new
      /\ call[c].new \subseteq config[KeyOf[v]].vols \cup {v}
    BY CallFacts DEF WriteOK
<1>1. /\ \A u \in Volumes : KeyOf[u] # KeyOf[v] => (Recorded(u)' <=> Recorded(u))
         /\ (Listed(u)' <=> Listed(u))
      /\ \A k \in Keys : k # KeyOf[v] => (Stuck(k)' <=> Stuck(k))
      /\ \A d \in Calls : d # c => ~ Writes(d, KeyOf[v])'
      /\ Writes(c, KeyOf[v])'
    BY LockedLedger
<1>2. call'[c].new = call[c].new /\ config'[KeyOf[v]].vols = {} /\ config'[KeyOf[v]].file = "torn"
    BY DEF Becomes, Torn
<1>3. \A u \in Volumes : KeyOf[u] = KeyOf[v] => (Recorded(u)' <=> u \in call[c].new)
    BY <1>1, <1>2 DEF Recorded
<1>4. \A u \in Volumes : KeyOf[u] = KeyOf[v] => (Recorded(u) <=> u \in config[KeyOf[v]].vols)
      /\ (Listed(u) <=> Recorded(u))
    BY <1>0, ListIsRecord
<1>5. ~ Stuck(KeyOf[v])'
    BY <1>1 DEF Stuck
<1>6. \A u \in Volumes : KeyOf[u] = KeyOf[v] /\ u # v => (Recorded(u)' <=> Recorded(u))
    BY <1>0, <1>3, <1>4
<1>7. \A u \in Volumes : u # v => (Recorded(u)' => Recorded(u)) /\ (Listed(u) => Listed(u)')
    BY <1>1, <1>4, <1>6 DEF Listed
<1>8. Keeps(c)
    BY <1>1, <1>7 DEF Keeps
<1> QED
    BY <1>0, <1>3, <1>5, <1>6, <1>8

LEMMA FillLedger ==
    ASSUME NodeInv, NEW c \in Calls, NEW v, v = VolumeOf[c], Holds(c), call[c].pc = "write", NEW r,
           Becomes(c, r),
           r.op # "none" => r.key = KeyOf[v], r.pc # "write",
           config'[KeyOf[v]] = List(call[c].new),
           \A k \in Keys : k # KeyOf[v] => config'[k] = config[k]
    PROVE  /\ Keeps(c) /\ ~ Stuck(KeyOf[v])'
           /\ \A u \in Volumes : KeyOf[u] = KeyOf[v] =>
                 /\ Recorded(u)' <=> u \in call[c].new
                 /\ Recorded(u) <=> u \in call[c].new
<1>0. /\ KeyOf[v] \in Keys /\ config[KeyOf[v]].file = "torn" /\ config[KeyOf[v]].vols = {}
      /\ call[c].key = KeyOf[v] /\ call[c].op # "none"
    BY CallFacts DEF WriteOK, KeyOK, CallOK, Holds
<1>1. /\ \A u \in Volumes : KeyOf[u] # KeyOf[v] => (Recorded(u)' <=> Recorded(u))
         /\ (Listed(u)' <=> Listed(u))
      /\ \A k \in Keys : k # KeyOf[v] => (Stuck(k)' <=> Stuck(k))
      /\ \A d \in Calls : d # c => ~ Writes(d, KeyOf[v]) /\ ~ Writes(d, KeyOf[v])'
      /\ ~ Writes(c, KeyOf[v])'
    BY LockedLedger
<1>2. Writes(c, KeyOf[v])
    BY <1>0 DEF Writes
<1>3. config'[KeyOf[v]].vols = call[c].new /\ config'[KeyOf[v]].file = "list"
    BY DEF List
<1>4. \A u \in Volumes : KeyOf[u] = KeyOf[v] => (Recorded(u)' <=> u \in call[c].new)
    BY <1>1, <1>3 DEF Recorded
<1>5. \A u \in Volumes : KeyOf[u] = KeyOf[v] => (Recorded(u) <=> u \in call[c].new)
    BY <1>0, <1>1, <1>2 DEF Recorded
<1>6. ~ Stuck(KeyOf[v])' /\ ~ Stuck(KeyOf[v])
    BY <1>2, <1>3 DEF Stuck
<1>7. \A u \in Volumes : u # v => (Recorded(u)' => Recorded(u)) /\ (Listed(u) => Listed(u)')
    BY <1>1, <1>4, <1>5, <1>6 DEF Listed
<1> QED
    BY <1>1, <1>4, <1>5, <1>6, <1>7 DEF Keeps

\* A call that fails between truncating and filling leaves the config stuck.
LEMMA TornLedger ==
    ASSUME NodeInv, NEW c \in Calls, NEW v, v = VolumeOf[c], Holds(c), call[c].pc = "write", Becomes(c,
           NoCall),
           config' = config
    PROVE  /\ Keeps(c) /\ Stuck(KeyOf[v])'
           /\ \A u \in Volumes : (Recorded(u)' => Recorded(u)) /\ (KeyOf[u] = KeyOf[v] => Listed(u)')
<1>0. /\ KeyOf[v] \in Keys /\ config[KeyOf[v]].file = "torn" /\ config[KeyOf[v]].vols = {}
    BY CallFacts DEF WriteOK, KeyOK
<1>1. /\ \A u \in Volumes : KeyOf[u] # KeyOf[v] => (Recorded(u)' <=> Recorded(u))
         /\ (Listed(u)' <=> Listed(u))
      /\ \A k \in Keys : k # KeyOf[v] => (Stuck(k)' <=> Stuck(k))
      /\ \A d \in Calls : ~ Writes(d, KeyOf[v])'
    <2>1. NoCall.op = "none"
        BY DEF NoCall
    <2> QED
        BY <2>1, LockedLedger
<1>2. Stuck(KeyOf[v])'
    BY <1>0, <1>1 DEF Stuck
<1>3. \A u \in Volumes : KeyOf[u] = KeyOf[v] => Listed(u)' /\ ~ Recorded(u)'
    BY <1>0, <1>1, <1>2 DEF Listed, Recorded
<1> QED
    BY <1>1, <1>2, <1>3 DEF Keeps

LEMMA RemoveLedger ==
    ASSUME NodeInv, NEW c \in Calls, NEW v, v = VolumeOf[c], Holds(c), config[KeyOf[v]] = List({v}),
           Becomes(c, NoCall),
           config'[KeyOf[v]] = Missing,
           \A k \in Keys : k # KeyOf[v] => config'[k] = config[k]
    PROVE  Keeps(c) /\ ~ Stuck(KeyOf[v])' /\ ~ Recorded(v)'
<1>0. v \in Volumes /\ KeyOf[v] \in Keys
    BY ConstantsAssumption
<1>1. /\ \A u \in Volumes : KeyOf[u] # KeyOf[v] => (Recorded(u)' <=> Recorded(u))
         /\ (Listed(u)' <=> Listed(u))
      /\ \A k \in Keys : k # KeyOf[v] => (Stuck(k)' <=> Stuck(k))
      /\ \A d \in Calls : ~ Writes(d, KeyOf[v])'
    <2>1. NoCall.op = "none"
        BY DEF NoCall
    <2> QED
        BY <2>1, LockedLedger
<1>2. \A u \in Volumes : KeyOf[u] = KeyOf[v] => ~ Recorded(u)'
    BY <1>1 DEF Recorded, Missing
<1>3. ~ Stuck(KeyOf[v])'
    BY DEF Stuck, Missing
<1>4. \A u \in Volumes : KeyOf[u] = KeyOf[v] /\ u # v => ~ Listed(u)
    BY ListIsRecord DEF List
<1>5. \A u \in Volumes : u # v => (Recorded(u)' => Recorded(u)) /\ (Listed(u) => Listed(u)')
    BY <1>1, <1>2, <1>4
<1>6. Keeps(c)
    BY <1>1, <1>5 DEF Keeps
<1> QED
    BY <1>0, <1>2, <1>3, <1>6

LEMMA StageMountInv ==
    ASSUME NodeInv, NEW c \in Calls, NEW v, v = VolumeOf[c], StageMount(c)
    PROVE  NodeInv'
<1>0. /\ TypeOK /\ CallOK(c) /\ v \in Volumes /\ KeyOf[v] \in Keys /\ call[c].op # "none"
         /\ call[c].pc = "mount"
      /\ KeyOK(KeyOf[v]) /\ VolumeOK(v) /\ call[c] \in CallRecord
    BY CallFacts DEF StageMount, At
<1>1. UNCHANGED <<config, bound, hollow, overlap, dirty>>
    BY DEF StageMount
<1>2. Holds(c) /\ ~ Staging(c) /\ call[c].key = KeyOf[v]
    BY <1>0 DEF Holds, Staging, CallOK
<1>3. CASE Fail(c, TRUE) /\ UNCHANGED mounted
    BY <1>0, <1>1, <1>2, <1>3, FailQuiet DEF TypeOK
<1>4. CASE mounted' = [mounted EXCEPT ![call[c].key] = SourceOf[v]] /\ Goto(c, "add")
    <2> DEFINE r == Moved(c, "add", call[c].key, call[c].todo, call[c].new, call[c].then)
    <2>1. Becomes(c, r) /\ UNCHANGED <<kube, locks, lost>>
        BY <1>0, <1>4, GotoBecomes DEF StageSteps
    <2>2. /\ mounted' \in [Keys -> Sources \cup {NoSource}] /\ mounted'[KeyOf[v]] = SourceOf[v]
          /\ \A k \in Keys : k # KeyOf[v] => mounted'[k] = mounted[k]
        BY <1>0, <1>2, <1>4, OwnSource DEF TypeOK
    <2>3. Local(c)
        BY <1>0, <1>1, <1>2, <2>1, <2>2, LockedLocal DEF TypeOK
    <2>4. CallOK(c)'
        BY <1>0, <1>1, <2>1 DEF CallOK, Becomes, Moved, Holds, StageSteps, UnstageSteps, PublishSteps,
           UnpublishSteps
    <2>5. WriteOK(c)' /\ KnowsOK(c)' /\ Staging(c)'
        BY <1>0, <2>1, <2>2, OwnSource
           DEF WriteOK, KnowsOK, Becomes, Moved, Staging, CallOK, UnstageSteps, UnpublishSteps, CallRecord,
               IsMounted
    <2>6. r.pc # "write"
        BY DEF Moved
    <2>7. /\ Keeps(c) /\ (Recorded(v)' <=> Recorded(v)) /\ (Listed(v)' <=> Listed(v))
          /\ Stuck(KeyOf[v])' <=> Stuck(KeyOf[v])
        BY <1>0, <1>1, <2>1, <2>6, QuietLedger
    <2>8. VolumeOK(v)'
        BY <1>0, <1>1, <2>1, <2>2, <2>7, OwnSource DEF VolumeOK, InUse, IsMounted
    <2>9. Accounts(v)'
        BY <2>5 DEF Accounts
    <2>10. KeyOK(KeyOf[v])'
        BY <1>0, <1>1, <2>2, <2>7, <2>9, OwnSource DEF KeyOK
    <2> QED
        BY <2>3, <2>4, <2>5, <2>7, <2>8, <2>10, NodeStep
<1> QED
    BY <1>3, <1>4 DEF StageMount

\* A config operation fails before the config is truncated.
LEMMA ConfigFailsInv ==
    ASSUME NodeInv, NEW c \in Calls, NEW v, v = VolumeOf[c], Holds(c), call[c].pc # "write", ConfigFails(c),
           UNCHANGED <<config, mounted, bound, hollow, overlap>>
    PROVE  NodeInv'
BY FailQuiet DEF ConfigFails, Holds

\* The holder of the lock starts to write list s.
LEMMA WriteInv ==
    ASSUME NodeInv, NEW c \in Calls, NEW v, v = VolumeOf[c], Holds(c), call[c].pc \in {"add", "delete"},
           NEW s \in SUBSET Volumes, NEW t \in {"add", "delete", "return"}, Write(c, s, t),
           UNCHANGED <<config, mounted, bound, hollow, overlap>>,
           config[KeyOf[v]].file # "torn",
           config[KeyOf[v]].vols \ {v} \subseteq s, s \subseteq config[KeyOf[v]].vols \cup {v},
           call[c].op = "unstage" => t # "add",
           call[c].op = "unstage" /\ v \notin overlap => t = "return" /\ v \notin s /\ s # {},
           call[c].op # "unstage" => (t = "add" \/ (t = "return" /\ v \in s))
           /\ config[KeyOf[v]].vols \subseteq s
    PROVE  NodeInv'
<1>0. TypeOK /\ CallOK(c) /\ KeyOf[v] \in Keys /\ KeyOK(KeyOf[v]) /\ KnowsOK(c) /\ call[c] \in CallRecord
    BY CallFacts
<1>1. call[c].op # "none" /\ call[c].key = KeyOf[v]
    BY <1>0 DEF Holds, CallOK
<1> DEFINE r == Moved(c, "truncate", call[c].key, call[c].todo, s, t)
<1>2. Becomes(c, r)
    BY <1>0 DEF Write, TypeOK, Becomes, Moved, CallRecord, StageSteps
<1>3. UNCHANGED <<kube, locks, lost, dirty>>
    BY DEF Write
<1>4. CallOK(c)' /\ Holds(c)'
    BY <1>0, <1>1, <1>2, <1>3 DEF CallOK, Becomes, Moved, Holds, StageSteps, UnstageSteps,
       PublishSteps, UnpublishSteps
<1>5. WriteOK(c)'
    BY <1>0, <1>2 DEF WriteOK, Becomes, Moved, KeyOK
<1>6. Staging(c)' <=> call[c].op \in {"stage", "publish"}
    BY <1>2 DEF Staging, Becomes, Moved
<1>7. Staging(c)' => Staging(c)
    BY <1>0, <1>6 DEF Staging, CallOK, StageSteps, PublishSteps, UnpublishSteps
<1>8. KnowsOK(c)'
    BY <1>0, <1>2, <1>7 DEF KnowsOK, Becomes, Moved, IsMounted
<1>9. r.pc # "write" /\ (Staging(c) => Staging(c)')
    BY <1>6 DEF Moved, Staging
<1> QED
    BY <1>1, <1>2, <1>3, <1>4, <1>5, <1>8, <1>9, MovesQuiet

\* The stage is done: its volume is in the list and mounted.
LEMMA StageDoneInv ==
    ASSUME NodeInv, NEW c \in Calls, NEW v, v = VolumeOf[c], Holds(c), call[c].pc = "add", StageDone(c),
           UNCHANGED <<config, mounted, bound, hollow, overlap, dirty>>, v \in config[KeyOf[v]].vols
    PROVE  NodeInv'
<1>0. /\ TypeOK /\ CallOK(c) /\ v \in Volumes /\ KeyOf[v] \in Keys /\ KnowsOK(c) /\ VolumeOK(v)
      /\ call[c] \in CallRecord /\ hollow \subseteq overlap
    BY CallFacts
<1>1. call[c].key = KeyOf[v] /\ Recorded(v) /\ Listed(v)
    BY <1>0 DEF CallOK, Recorded, Listed
<1>2. CASE call[c].op = "stage" /\ Succeed(c, TRUE)
    <2>1. IsMounted(v)
        BY <1>0, <1>2 DEF Staging, KnowsOK
    <2>2. /\ bound' \in [Volumes -> Nat] /\ (v \notin overlap => bound'[v] <= 1)
          /\ \A u \in Volumes : u # v => bound'[u] = bound[u]
        BY <1>0 DEF TypeOK
    <2> QED
        BY <1>0, <1>1, <1>2, <2>1, <2>2, SucceedQuiet
<1>3. CASE /\ call[c].op = "publish"
           /\ call' = [call EXCEPT ![c].pc = "target"]
           /\ Release(c, TRUE)
           /\ UNCHANGED <<kube, lost>>
    <2> DEFINE r == Moved(c, "target", call[c].key, call[c].todo, call[c].new, call[c].then)
    <2>1. Becomes(c, r)
        BY <1>0, <1>3 DEF TypeOK, Becomes, Moved, CallRecord, PublishSteps, UnpublishSteps
    <2>2. locks' = locks \ {KeyOf[v]}
        BY <1>1, <1>3 DEF Release
    <2>3. IsMounted(v)
        BY <1>0, <1>3 DEF Staging, KnowsOK, IsMounted
    <2>4. CallOK(c)' /\ ~ Holds(c)'
        BY <1>0, <1>3, <2>1 DEF CallOK, Becomes, Moved, Holds, PublishSteps, UnpublishSteps
    <2>5. WriteOK(c)' /\ KnowsOK(c)'
        BY <2>1, <2>3 DEF WriteOK, KnowsOK, Becomes, Moved, Staging, IsMounted
    <2>6. r.pc # "write"
        BY DEF Moved
    <2> QED
        BY <1>1, <1>3, <2>1, <2>2, <2>4, <2>5, <2>6, MovesQuiet
<1> QED
    BY <1>2, <1>3 DEF StageDone

LEMMA StageAddInv ==
    ASSUME NodeInv, NEW c \in Calls, NEW v, v = VolumeOf[c], StageAdd(c)
    PROVE  NodeInv'
<1>0. /\ TypeOK /\ CallOK(c) /\ v \in Volumes /\ KeyOf[v] \in Keys /\ call[c].op # "none"
         /\ call[c].pc = "add"
      /\ KeyOK(KeyOf[v]) /\ config[KeyOf[v]] \in ConfigRecord
    BY CallFacts DEF StageAdd, At
<1>1. UNCHANGED <<mounted, config, bound, hollow, overlap>>
    BY DEF StageAdd
<1>2. Holds(c) /\ call[c].key = KeyOf[v] /\ call[c].op # "unstage"
    BY <1>0 DEF Holds, CallOK, UnstageSteps
<1>3. CASE config[KeyOf[v]].file = "missing" /\ Write(c, {}, "add")
    <2>1. config[KeyOf[v]].vols = {}
        BY <1>0, <1>3 DEF KeyOK
    <2> QED
        BY <1>0, <1>1, <1>2, <1>3, <2>1, WriteInv
<1>4. CASE ConfigFails(c)
    BY <1>0, <1>1, <1>2, <1>4, ConfigFailsInv
<1>5. CASE v \in config[KeyOf[v]].vols /\ StageDone(c) /\ UNCHANGED dirty
    BY <1>0, <1>1, <1>2, <1>5, StageDoneInv
<1>6. CASE config[KeyOf[v]].file = "list" /\ Write(c, config[KeyOf[v]].vols \cup {v}, "return")
    <2>1. config[KeyOf[v]].vols \cup {v} \in SUBSET Volumes
        BY <1>0 DEF ConfigRecord
    <2> QED
        BY <1>0, <1>1, <1>2, <1>6, <2>1, WriteInv
<1> QED
    BY <1>2, <1>3, <1>4, <1>5, <1>6 DEF StageAdd

LEMMA TruncateInv ==
    ASSUME NodeInv, NEW c \in Calls, NEW v, v = VolumeOf[c], Truncate(c)
    PROVE  NodeInv'
<1>0. /\ TypeOK /\ CallOK(c) /\ v \in Volumes /\ KeyOf[v] \in Keys /\ call[c].op # "none"
         /\ call[c].pc = "truncate"
      /\ KeyOK(KeyOf[v]) /\ WriteOK(c) /\ KnowsOK(c) /\ VolumeOK(v) /\ call[c] \in CallRecord
    BY CallFacts DEF Truncate, At
<1>1. UNCHANGED <<mounted, bound, hollow, overlap>>
    BY DEF Truncate
<1>2. Holds(c) /\ call[c].key = KeyOf[v]
    BY <1>0 DEF Holds, CallOK
<1>3. CASE ConfigFails(c) /\ UNCHANGED config
    BY <1>0, <1>1, <1>2, <1>3, ConfigFailsInv
<1>4. CASE config' = [config EXCEPT ![call[c].key] = Torn] /\ Goto(c, "write") /\ UNCHANGED dirty
    <2> DEFINE r == Moved(c, "write", call[c].key, call[c].todo, call[c].new, call[c].then)
    <2>1. Becomes(c, r) /\ UNCHANGED <<kube, locks, lost>>
        BY <1>0, <1>4, GotoBecomes DEF StageSteps
    <2>2. /\ config' \in [Keys -> ConfigRecord] /\ config'[KeyOf[v]] = Torn
          /\ \A k \in Keys : k # KeyOf[v] => config'[k] = config[k]
        BY <1>0, <1>2, <1>4 DEF TypeOK, Torn, ConfigRecord
    <2>3. Local(c)
        BY <1>0, <1>1, <1>2, <1>4, <2>1, <2>2, LockedLocal DEF TypeOK
    <2>4. r.op # "none" /\ r.key = KeyOf[v] /\ r.pc = "write" /\ r.new = call[c].new
        BY <1>0, <1>2 DEF Moved
    <2>5. /\ Keeps(c) /\ ~ Stuck(KeyOf[v])'
          /\ Recorded(v)' <=> v \in call[c].new
          /\ \A u \in Volumes : KeyOf[u] = KeyOf[v] /\ u # v => (Recorded(u)' <=> Recorded(u))
        BY <1>0, <1>2, <2>1, <2>2, <2>4, TruncateLedger
    <2>6. CallOK(c)'
        BY <1>0, <1>1, <2>1 DEF CallOK, Becomes, Moved, Holds, StageSteps, UnstageSteps, PublishSteps,
           UnpublishSteps
    <2>7. WriteOK(c)'
        BY <1>0, <1>1, <2>1, <2>2 DEF WriteOK, Becomes, Moved, Torn
    <2>8. Staging(c)' <=> Staging(c)
        BY <1>0, <2>1 DEF Staging, Becomes, Moved
    <2>9. KnowsOK(c)'
        BY <1>0, <1>1, <2>1, <2>8 DEF KnowsOK, Becomes, Moved, IsMounted
    \* Only a call that writes its own volume, or one whose volume is in the
    \* list already, can be at this step while the volume is in use.
    <2>10. v \notin overlap /\ InUse(v) => v \in call[c].new
        <3>1. v \notin overlap /\ InUse(v) => Recorded(v)
            BY <1>0, ListIsRecord DEF VolumeOK, WriteOK
        <3>2. v \notin overlap /\ InUse(v) => v \in config[KeyOf[v]].vols
            BY <1>0, <3>1, ListIsRecord DEF WriteOK
        <3>3. v \notin overlap /\ InUse(v) => call[c].op # "unstage"
            BY <1>0 DEF CallOK, InUse
        <3> QED
            BY <1>0, <3>2, <3>3 DEF WriteOK
    <2>11. v \notin overlap => kube[v] # "none"
        BY <1>0 DEF CallOK, NoCall, CallRecord
    <2>12. VolumeOK(v)'
        BY <1>0, <1>1, <2>1, <2>5, <2>10, <2>11 DEF VolumeOK, InUse, Listed, IsMounted
    <2>13. \E w \in Volumes : KeyOf[w] = KeyOf[v] /\ Accounts(w)'
        <3>1. CASE v \in overlap
            BY <1>0, <1>1, <3>1 DEF Accounts
        <3>2. CASE v \notin overlap /\ call[c].op = "unstage"
            <4>1. call[c].new # {} /\ \A u \in call[c].new : u \in Volumes /\ KeyOf[u] = KeyOf[v] /\ u # v
                BY <1>0, <3>2 DEF WriteOK, CallRecord
            <4>2. PICK u \in call[c].new : TRUE
                BY <4>1
            <4>3. Recorded(u)
                BY <1>0, <4>1, ListIsRecord DEF WriteOK
            <4>4. Accounts(u)'
                BY <2>5, <4>1, <4>3 DEF Accounts
            <4> QED
                BY <4>1, <4>4
        <3>3. CASE call[c].op # "unstage"
            <4>1. Staging(c)'
                BY <1>0, <2>1, <3>3 DEF Staging, Becomes, Moved, CallOK, CallRecord, UnpublishSteps
            <4>2. Accounts(v)'
                BY <4>1 DEF Accounts
            <4> QED
                BY <1>0, <4>2
        <3> QED
            BY <3>1, <3>2, <3>3
    <2>14. KeyOK(KeyOf[v])'
        BY <1>0, <1>1, <1>4, <2>2, <2>5, <2>13 DEF KeyOK, Torn
    <2> QED
        BY <2>3, <2>5, <2>6, <2>7, <2>9, <2>12, <2>14, NodeStep
<1> QED
    BY <1>3, <1>4 DEF Truncate

\* After the list is written, it has the volumes that were to be written.
LEMMA FillKey ==
    ASSUME NodeInv, NEW c \in Calls, NEW v, v = VolumeOf[c], Holds(c), call[c].pc = "write",
           UNCHANGED <<mounted, overlap, dirty>>,
           config'[KeyOf[v]] = List(call[c].new), ~ Stuck(KeyOf[v])',
           \A u \in Volumes : KeyOf[u] = KeyOf[v] => (Recorded(u)' <=> u \in call[c].new),
           call[c].op # "unstage" /\ call[c].then = "add" => Staging(c)'
    PROVE  KeyOK(KeyOf[v])'
<1>0. v \in Volumes /\ KeyOK(KeyOf[v]) /\ WriteOK(c) /\ call[c] \in CallRecord
    BY CallFacts
<1>1. config'[KeyOf[v]].vols = call[c].new /\ config'[KeyOf[v]].file = "list"
    BY DEF List
<1>2. \A u \in call[c].new : u \in Volumes /\ KeyOf[u] = KeyOf[v]
    BY <1>0 DEF WriteOK, CallRecord
<1>3. \E u \in Volumes : KeyOf[u] = KeyOf[v] /\ Accounts(u)'
    <2>1. CASE call[c].new # {}
        BY <1>2, <2>1 DEF Accounts
    <2>2. CASE v \in overlap
        BY <1>0, <2>2 DEF Accounts
    <2>3. CASE call[c].new = {} /\ v \notin overlap
        <3>1. Staging(c)'
            BY <1>0, <2>3 DEF WriteOK
        <3> QED
            BY <1>0, <3>1 DEF Accounts
    <2> QED
        BY <2>1, <2>2, <2>3
<1> QED
    BY <1>0, <1>1, <1>2, <1>3 DEF KeyOK

LEMMA FillInv ==
    ASSUME NodeInv, NEW c \in Calls, NEW v, v = VolumeOf[c], Fill(c)
    PROVE  NodeInv'
<1>0. /\ TypeOK /\ CallOK(c) /\ v \in Volumes /\ KeyOf[v] \in Keys /\ call[c].op # "none"
         /\ call[c].pc = "write"
      /\ KeyOK(KeyOf[v]) /\ WriteOK(c) /\ KnowsOK(c) /\ VolumeOK(v) /\ call[c] \in CallRecord
    BY CallFacts DEF Fill, At
<1>1. UNCHANGED <<mounted, bound, hollow, overlap>>
    BY DEF Fill
<1>2. Holds(c) /\ call[c].key = KeyOf[v] /\ call[c].op \in {"stage", "unstage", "publish"}
    BY <1>0 DEF Holds, CallOK, CallRecord, UnpublishSteps
<1>3. CASE ConfigFails(c) /\ UNCHANGED config
    <2>1. Becomes(c, NoCall)
        BY <1>0, <1>3, NoCallType DEF ConfigFails, Fail, Becomes, TypeOK
    <2>2. CallOK(c)' /\ WriteOK(c)' /\ KnowsOK(c)' /\ ~ Holds(c)'
        BY <2>1, Returned
    <2>3. UNCHANGED <<kube, lost>> /\ dirty' = TRUE /\ locks' = locks \ {KeyOf[v]}
        BY <1>2, <1>3 DEF ConfigFails, Fail, Release
    <2>4. Local(c)
        BY <1>0, <1>1, <1>2, <1>3, <2>1, <2>2, <2>3, LockedLocal DEF TypeOK
    <2>5. /\ Keeps(c) /\ (Recorded(v)' => Recorded(v)) /\ Listed(v)'
        BY <1>0, <1>2, <1>3, <2>1, TornLedger
    <2>6. VolumeOK(v)'
        BY <1>0, <1>1, <2>3, <2>5 DEF VolumeOK, InUse, IsMounted
    <2>7. KeyOK(KeyOf[v])'
        BY <1>0, <1>1, <1>3, <2>3 DEF KeyOK
    <2> QED
        BY <2>2, <2>4, <2>5, <2>6, <2>7, NodeStep
<1>4. ASSUME config' = [config EXCEPT ![call[c].key] = List(call[c].new)], UNCHANGED dirty,
             NEW r, Becomes(c, r), r.op # "none" => r.key = KeyOf[v], r.pc # "write",
             kube' \in [Volumes -> KubeStates], \A u \in Volumes : u # v => kube'[u] = kube[u],
             lost' \subseteq Volumes, lost \ {v} \subseteq lost',
             locks' = locks \/ (locks' = locks \ {KeyOf[v]} /\ ~ Holds(c)'),
             call[c].op # "unstage" /\ call[c].then = "add" => Staging(c)',
             CallOK(c)', WriteOK(c)', KnowsOK(c)',
             v \notin overlap =>
                 /\ InUse(v)' => v \in call[c].new
                 /\ InUse(v)' /\ v \notin lost' => IsMounted(v)
                 /\ v \in call[c].new => kube'[v] # "none"
      PROVE  NodeInv'
    <2>1. /\ config' \in [Keys -> ConfigRecord] /\ config'[KeyOf[v]] = List(call[c].new)
          /\ \A k \in Keys : k # KeyOf[v] => config'[k] = config[k]
        BY <1>0, <1>2, <1>4 DEF TypeOK, List, ConfigRecord, CallRecord
    <2>2. Local(c)
        BY <1>0, <1>1, <1>2, <1>4, <2>1, LockedLocal DEF TypeOK
    <2>3. /\ Keeps(c) /\ ~ Stuck(KeyOf[v])'
          /\ \A u \in Volumes : KeyOf[u] = KeyOf[v] => (Recorded(u)' <=> u \in call[c].new)
        BY <1>0, <1>2, <1>4, <2>1, FillLedger
    <2>4. KeyOK(KeyOf[v])'
        BY <1>0, <1>1, <1>2, <1>4, <2>1, <2>3, FillKey
    <2>5. VolumeOK(v)'
        BY <1>0, <1>1, <1>4, <2>3 DEF VolumeOK, Listed, IsMounted
    <2> QED
        BY <1>4, <2>2, <2>3, <2>4, <2>5, NodeStep
<1>5. ASSUME config' = [config EXCEPT ![call[c].key] = List(call[c].new)], UNCHANGED dirty,
             call[c].then = "add", Goto(c, "add"), call[c].op # "unstage"
      PROVE  NodeInv'
    <2> DEFINE r == Moved(c, "add", call[c].key, call[c].todo, call[c].new, call[c].then)
    <2>1. Becomes(c, r) /\ UNCHANGED <<kube, locks, lost>>
        BY <1>0, <1>5, GotoBecomes DEF StageSteps
    <2>2. r.key = KeyOf[v] /\ r.pc # "write"
        BY <1>2 DEF Moved
    <2>3. CallOK(c)'
        BY <1>0, <1>1, <1>5, <2>1 DEF CallOK, Becomes, Moved, Holds, StageSteps, UnstageSteps,
           PublishSteps, UnpublishSteps
    <2>4. Staging(c)' /\ Staging(c)
        BY <1>0, <1>2, <1>5, <2>1 DEF Staging, Becomes, Moved
    <2>5. WriteOK(c)' /\ KnowsOK(c)'
        BY <1>0, <1>1, <2>1, <2>4 DEF WriteOK, KnowsOK, Becomes, Moved, IsMounted
    \* A volume in use is recorded, and so in what is being written.
    <2>6. v \notin overlap /\ InUse(v) => v \in call[c].new
        <3>1. Writes(c, KeyOf[v]) /\ ~ Stuck(KeyOf[v])
            BY <1>0, <1>2 DEF Writes, Stuck
        <3>2. Recorded(v) => v \in call[c].new
            BY <1>0, <1>2, OnlyWriter DEF Recorded, KeyOK, WriteOK
        <3> QED
            BY <1>0, <3>1, <3>2 DEF VolumeOK, Listed, IsMounted
    <2>7. /\ v \notin overlap =>
                /\ InUse(v)' => v \in call[c].new
                /\ kube'[v] # "none"
          /\ IsMounted(v)
        BY <1>0, <1>2, <2>1, <2>4, <2>6 DEF InUse, KnowsOK, CallOK
    <2> QED
        BY <1>0, <1>4, <1>5, <2>1, <2>2, <2>3, <2>4, <2>5, <2>7 DEF TypeOK
<1>6. ASSUME config' = [config EXCEPT ![call[c].key] = List(call[c].new)], UNCHANGED dirty,
             call[c].then = "return", Succeed(c, TRUE), call[c].op \in {"stage", "unstage"}
      PROVE  NodeInv'
    <2>1. Becomes(c, NoCall)
        BY <1>0, <1>6, NoCallType DEF Succeed, Becomes, TypeOK
    <2>2. CallOK(c)' /\ WriteOK(c)' /\ KnowsOK(c)' /\ ~ Holds(c)' /\ NoCall.op = "none" /\ NoCall.pc # "write"
        BY <2>1, Returned DEF NoCall
    <2>3. /\ kube' \in [Volumes -> KubeStates]
          /\ \A u \in Volumes : u # v => kube'[u] = kube[u]
          /\ lost' \subseteq Volumes /\ lost \ {v} \subseteq lost'
          /\ \/ kube'[v] = Acknowledged(call[c].op)
             \/ kube'[v] = kube[v] /\ lost' = lost
        BY <1>0, <1>6, Told
    <2>4. locks' = locks \ {KeyOf[v]}
        BY <1>2, <1>6 DEF Succeed, Release
    <2>5. CASE call[c].op = "stage"
        <3>1. v \in call[c].new /\ IsMounted(v)
            BY <1>0, <1>6, <2>5 DEF WriteOK, KnowsOK, Staging
        <3>2. v \notin overlap => kube'[v] # "none"
            BY <1>0, <2>3, <2>5 DEF CallOK, Acknowledged
        <3> QED
            BY <1>4, <1>6, <2>1, <2>2, <2>3, <2>4, <3>1, <3>2
    <2>6. CASE call[c].op = "unstage"
        <3>1. v \notin overlap => v \notin call[c].new
            BY <1>0, <2>6 DEF WriteOK
        <3>2. v \notin overlap => ~ InUse(v)'
            BY <1>0, <2>3, <2>6 DEF CallOK, Acknowledged, InUse
        <3> QED
            BY <1>4, <1>6, <2>1, <2>2, <2>3, <2>4, <2>6, <3>1, <3>2
    <2> QED
        BY <1>6, <2>5, <2>6
<1>7. ASSUME config' = [config EXCEPT ![call[c].key] = List(call[c].new)], UNCHANGED dirty,
             call[c].then = "return", call[c].op = "publish",
             call' = [call EXCEPT ![c].pc = "target"], Release(c, TRUE), UNCHANGED <<kube, lost>>
      PROVE  NodeInv'
    <2> DEFINE r == Moved(c, "target", call[c].key, call[c].todo, call[c].new, call[c].then)
    <2>1. Becomes(c, r)
        BY <1>0, <1>7 DEF TypeOK, Becomes, Moved, CallRecord, PublishSteps, UnpublishSteps
    <2>2. locks' = locks \ {KeyOf[v]} /\ r.key = KeyOf[v] /\ r.pc # "write"
        BY <1>2, <1>7 DEF Release, Moved
    <2>3. IsMounted(v) /\ v \in call[c].new
        BY <1>0, <1>7 DEF Staging, KnowsOK, WriteOK, IsMounted
    <2>4. CallOK(c)' /\ ~ Holds(c)'
        BY <1>0, <1>1, <1>7, <2>1 DEF CallOK, Becomes, Moved, Holds, PublishSteps
    <2>5. WriteOK(c)' /\ KnowsOK(c)'
        BY <1>1, <2>1, <2>3 DEF WriteOK, KnowsOK, Becomes, Moved, Staging, IsMounted
    <2>6. v \notin overlap => kube'[v] # "none"
        BY <1>0, <1>7 DEF CallOK
    <2> QED
        BY <1>0, <1>4, <1>7, <2>1, <2>2, <2>3, <2>4, <2>5, <2>6 DEF TypeOK
\* Only after calls for its volume overlapped does an unstage find no config.
<1>8. ASSUME config' = [config EXCEPT ![call[c].key] = List(call[c].new)], UNCHANGED dirty,
             call[c].then = "delete", Goto(c, "delete"), call[c].op = "unstage", v \in overlap
      PROVE  NodeInv'
    <2> DEFINE r == Moved(c, "delete", call[c].key, call[c].todo, call[c].new, call[c].then)
    <2>1. Becomes(c, r) /\ UNCHANGED <<kube, locks, lost>>
        BY <1>0, <1>8, GotoBecomes DEF UnstageSteps
    <2>2. r.key = KeyOf[v] /\ r.pc # "write"
        BY <1>2 DEF Moved
    <2>3. CallOK(c)'
        BY <1>0, <1>1, <1>8, <2>1 DEF CallOK, Becomes, Moved, Holds, StageSteps, UnstageSteps,
           PublishSteps, UnpublishSteps
    <2>4. WriteOK(c)' /\ KnowsOK(c)'
        BY <1>0, <1>1, <1>8, <2>1 DEF WriteOK, KnowsOK, Becomes, Moved, Staging
    <2> QED
        BY <1>0, <1>4, <1>8, <2>1, <2>2, <2>3, <2>4 DEF TypeOK
<1>9. CASE /\ config' = [config EXCEPT ![call[c].key] = List(call[c].new)]
           /\ call[c].then # "return" /\ Goto(c, call[c].then) /\ UNCHANGED dirty
    <2>1. \/ call[c].then = "add" /\ call[c].op # "unstage"
          \/ call[c].then = "delete" /\ call[c].op = "unstage" /\ v \in overlap
        BY <1>0, <1>9 DEF WriteOK, CallRecord
    <2> QED
        BY <1>5, <1>8, <1>9, <2>1
<1>10. CASE /\ config' = [config EXCEPT ![call[c].key] = List(call[c].new)]
            /\ call[c].then = "return"
            /\ IF call[c].op = "unstage" THEN Succeed(c, TRUE) ELSE StageDone(c)
            /\ UNCHANGED dirty
    BY <1>2, <1>6, <1>7, <1>10 DEF StageDone
<1> QED
    BY <1>3, <1>9, <1>10 DEF Fill

-----------------------------------------------------------------------------
(* NodeUnstageVolume.                                                       *)

\* The walk reads every config that exists, so that it cannot miss a volume
\* that is recorded.
LEMMA UnstageListInv ==
    ASSUME NodeInv, NEW c \in Calls, NEW v, v = VolumeOf[c], UnstageList(c)
    PROVE  NodeInv'
<1>0. /\ TypeOK /\ CallOK(c) /\ v \in Volumes /\ KeyOf[v] \in Keys /\ call[c].op # "none"
         /\ call[c].pc = "list"
      /\ KeyOK(KeyOf[v]) /\ call[c] \in CallRecord
    BY CallFacts DEF UnstageList, At
<1>1. UNCHANGED <<kube, locks, mounted, config, bound, hollow, lost, overlap, dirty>>
    BY DEF UnstageList
<1> DEFINE files == {k \in Keys : config[k].file # "missing"}
           r == Moved(c, "load", call[c].key, files, call[c].new, call[c].then)
<1>2. Becomes(c, r)
    BY <1>0 DEF UnstageList, TypeOK, Becomes, Moved, CallRecord, UnstageSteps
<1>3. Recorded(v) => KeyOf[v] \in files
    BY <1>0, WriterHolds DEF Recorded, KeyOK
<1>4. r.pc = "load" /\ r.todo = files /\ r.key = call[c].key /\ r.op = call[c].op
    BY DEF Moved
<1> HIDE DEF r, files
<1>5. \A u \in Volumes : Recorded(u)' <=> Recorded(u)
    BY <1>0, <1>1, <1>2, <1>4, QuietLedger
<1>6. CallOK(c)' /\ ~ Holds(c)'
    BY <1>0, <1>1, <1>2, <1>4 DEF CallOK, Becomes, Holds, StageSteps, UnstageSteps, PublishSteps,
       UnpublishSteps
<1>7. WriteOK(c)' /\ KnowsOK(c)'
    BY <1>0, <1>2, <1>3, <1>4, <1>5 DEF WriteOK, KnowsOK, Becomes, Staging, CallOK, IsMounted
<1> QED
    BY <1>0, <1>1, <1>2, <1>4, <1>6, <1>7, MovesQuiet DEF Staging

LEMMA UnstageLoadInv ==
    ASSUME NodeInv, NEW c \in Calls, NEW v, v = VolumeOf[c], NEW k \in Keys, UnstageLoad(c, k)
    PROVE  NodeInv'
<1>0. /\ TypeOK /\ CallOK(c) /\ KnowsOK(c) /\ v \in Volumes /\ KeyOf[v] \in Keys /\ call[c].op # "none"
      /\ call[c].pc = "load" /\ KeyOK(k) /\ call[c] \in CallRecord
    BY CallFacts DEF UnstageLoad, At, NodeInv
<1>1. UNCHANGED <<mounted, config, bound, hollow, overlap, dirty>> /\ ~ Holds(c) /\ ~ Staging(c)
    BY <1>0 DEF UnstageLoad, Holds, Staging
<1>2. CASE Fail(c, FALSE)
    BY <1>0, <1>1, <1>2, FailQuiet DEF TypeOK
<1>3. CASE /\ config[k].file = "list"
           /\ call' = [call EXCEPT ![c].todo = @ \ {k},
                                   ![c].key = IF v \in config[k].vols THEN k ELSE @]
           /\ UNCHANGED <<kube, locks, lost>>
    <2>1. PICK key \in Keys \cup {NoKey} : key = IF v \in config[k].vols THEN k ELSE call[c].key
        BY <1>0 DEF CallRecord
    <2>2. PICK todo \in SUBSET Keys : todo = call[c].todo \ {k}
        BY <1>0 DEF CallRecord
    <2> DEFINE r == Moved(c, "load", key, todo, call[c].new, call[c].then)
    <2>3. Becomes(c, r)
        BY <1>0, <1>3, <2>1, <2>2 DEF TypeOK, Becomes, Moved, CallRecord, UnstageSteps
    <2>4. v \in config[k].vols => KeyOf[v] = k
        BY <1>0 DEF KeyOK
    <2>5. k = KeyOf[v] => (Recorded(v) <=> v \in config[k].vols)
        BY <1>0, <1>3, ListIsRecord
    <2>6. key \in {NoKey, KeyOf[v]} /\ (v \notin overlap /\ key # NoKey => Listed(v))
        BY <1>0, <2>1, <2>4, <2>5 DEF CallOK, KnowsOK, Listed
    <2>7. v \notin overlap /\ Recorded(v) => key = KeyOf[v] \/ KeyOf[v] \in todo
        BY <1>0, <2>1, <2>2, <2>4, <2>5 DEF KnowsOK
    <2>8. r.pc = "load" /\ r.todo = todo /\ r.key = key /\ r.op = call[c].op
        BY DEF Moved
    <2> HIDE DEF r
    <2>9. (Recorded(v)' <=> Recorded(v)) /\ (Listed(v)' <=> Listed(v))
        BY <1>0, <1>1, <2>3, <2>8, QuietLedger
    <2>10. CallOK(c)' /\ ~ Holds(c)'
        BY <1>0, <1>1, <1>3, <2>3, <2>6, <2>8
           DEF CallOK, Becomes, Holds, StageSteps, UnstageSteps, PublishSteps, UnpublishSteps
    <2>11. WriteOK(c)' /\ KnowsOK(c)'
        BY <1>1, <2>3, <2>6, <2>7, <2>8, <2>9 DEF WriteOK, KnowsOK, Becomes, Staging, IsMounted
    <2> QED
        BY <1>0, <1>1, <1>3, <2>3, <2>8, <2>10, <2>11, MovesQuiet
<1> QED
    BY <1>2, <1>3 DEF UnstageLoad

LEMMA UnstageLookupInv ==
    ASSUME NodeInv, NEW c \in Calls, NEW v, v = VolumeOf[c], UnstageLookup(c)
    PROVE  NodeInv'
<1>0. /\ TypeOK /\ CallOK(c) /\ KnowsOK(c) /\ v \in Volumes /\ KeyOf[v] \in Keys /\ call[c].op = "unstage"
      /\ call[c].pc = "load" /\ call[c] \in CallRecord /\ call[c].todo = {} /\ hollow \subseteq overlap
    BY CallFacts DEF UnstageLookup, At, CallOK, CallRecord, StageSteps, PublishSteps, UnpublishSteps
<1>1. UNCHANGED <<mounted, config, bound, hollow, overlap, dirty>> /\ ~ Holds(c) /\ ~ Staging(c)
    BY <1>0 DEF UnstageLookup, Holds, Staging
<1>2. CASE call[c].key = NoKey /\ Succeed(c, FALSE)
    <2>1. v \notin overlap => ~ Recorded(v)
        BY <1>0, <1>2, ConstantsAssumption DEF KnowsOK
    <2> QED
        BY <1>0, <1>1, <1>2, <2>1, SucceedQuiet DEF TypeOK
<1>3. CASE call[c].key # NoKey /\ Fail(c, FALSE)
    BY <1>0, <1>1, <1>3, FailQuiet DEF TypeOK
<1>4. CASE /\ call[c].key # NoKey
           /\ call[c].key \notin locks
           /\ locks' = locks \cup {call[c].key}
           /\ call' = [call EXCEPT ![c].pc = "delete", ![c].key = call[c].key]
           /\ UNCHANGED <<kube, lost>>
    <2> DEFINE r == Moved(c, "delete", call[c].key, call[c].todo, call[c].new, call[c].then)
    <2>1. Becomes(c, r)
        BY <1>0, <1>4 DEF TypeOK, Becomes, Moved, CallRecord, UnstageSteps
    <2>2. call[c].key = KeyOf[v] /\ (v \notin overlap => Listed(v))
        BY <1>0, <1>4 DEF CallOK, KnowsOK
    <2>3. r.pc = "delete" /\ r.key = KeyOf[v] /\ r.op = "unstage"
        BY <1>0, <2>2 DEF Moved
    <2> HIDE DEF r
    <2>4. v \notin overlap => Listed(v)'
        BY <1>0, <1>1, <2>1, <2>2, <2>3, QuietLedger
    <2>5. CallOK(c)'
        BY <1>0, <1>1, <1>4, <2>1, <2>3 DEF CallOK, Becomes, Holds, StageSteps, UnstageSteps,
           PublishSteps, UnpublishSteps
    <2>6. WriteOK(c)' /\ KnowsOK(c)'
        BY <1>1, <2>1, <2>3, <2>4 DEF WriteOK, KnowsOK, Becomes, Staging, IsMounted
    <2> QED
        BY <1>0, <1>1, <1>4, <2>1, <2>2, <2>3, <2>5, <2>6, MovesQuiet
<1> QED
    BY <1>2, <1>3, <1>4 DEF UnstageLookup, TryAcquire

\* The volume is in the list that is read under the lock: a list of one is its
\* own, and from a longer one it takes itself out.  Only after calls for the volume
\* overlapped is it not there any more.
LEMMA UnstageDeleteInv ==
    ASSUME NodeInv, NEW c \in Calls, NEW v, v = VolumeOf[c], UnstageDelete(c)
    PROVE  NodeInv'
<1>0. /\ TypeOK /\ CallOK(c) /\ KnowsOK(c) /\ v \in Volumes /\ KeyOf[v] \in Keys /\ call[c].op # "none"
      /\ call[c].pc = "delete" /\ call[c] \in CallRecord /\ KeyOK(KeyOf[v])
      /\ config[KeyOf[v]] \in ConfigRecord /\ hollow \subseteq overlap
    BY CallFacts DEF UnstageDelete, At
<1>1. /\ UNCHANGED <<mounted, config, bound, hollow, overlap>> /\ Holds(c) /\ ~ Staging(c)
      /\ call[c].op = "unstage" /\ call[c].key = KeyOf[v]
    BY <1>0 DEF UnstageDelete, Holds, Staging, CallOK, CallRecord, StageSteps, PublishSteps, UnpublishSteps
<1>2. CASE ConfigFails(c)
    BY <1>0, <1>1, <1>2, ConfigFailsInv
<1>3. CASE config[KeyOf[v]].file # "torn"
    <2>1. /\ v \notin overlap => v \in config[KeyOf[v]].vols
          /\ config[KeyOf[v]].vols # {} => config[KeyOf[v]].file = "list"
        <3>1. v \notin overlap => v \in config[KeyOf[v]].vols
            BY <1>0, <1>1, <1>3, ListIsRecord, ConstantsAssumption DEF KnowsOK
        <3> QED
            BY <1>0, <3>1 DEF KeyOK
    <2>2. CASE config[KeyOf[v]].vols = {v} /\ Goto(c, "umount") /\ UNCHANGED dirty
        <3> DEFINE r == Moved(c, "umount", call[c].key, call[c].todo, call[c].new, call[c].then)
        <3>1. Becomes(c, r) /\ UNCHANGED <<kube, locks, lost>>
            BY <1>0, <2>2, GotoBecomes DEF UnstageSteps
        <3>2. r.pc = "umount" /\ r.key = KeyOf[v] /\ r.op = "unstage"
            BY <1>1 DEF Moved
        <3> HIDE DEF r
        <3>3. config[KeyOf[v]] = List({v})
            BY <1>0, <2>1, <2>2 DEF List, ConfigRecord
        <3>4. CallOK(c)' /\ Holds(c)'
            BY <1>0, <1>1, <3>1, <3>2 DEF CallOK, Becomes, Holds, StageSteps, UnstageSteps,
               PublishSteps, UnpublishSteps
        <3>5. WriteOK(c)' /\ KnowsOK(c)'
            BY <1>1, <3>1, <3>2, <3>3 DEF WriteOK, KnowsOK, Becomes, Staging, IsMounted
        <3> QED
            BY <1>0, <1>1, <2>2, <3>1, <3>2, <3>4, <3>5, MovesQuiet
    <2>3. ASSUME config[KeyOf[v]].vols # {v}, Cardinality(config[KeyOf[v]].vols) = 1,
                 Succeed(c, TRUE), UNCHANGED dirty
          PROVE  NodeInv'
        <3>1. IsFiniteSet(config[KeyOf[v]].vols)
            BY <1>0, FiniteAssumption, FS_Subset DEF ConfigRecord
        <3>2. PICK x : config[KeyOf[v]].vols = {x}
            BY <2>3, <3>1, FS_Singleton
        <3>3. v \in overlap
            BY <2>1, <2>3, <3>2
        <3> QED
            BY <1>0, <1>1, <2>3, <3>3, SucceedQuiet DEF TypeOK
    <2>4. CASE config[KeyOf[v]].vols # {v} /\ Write(c, config[KeyOf[v]].vols \ {v}, "return")
        <3>1. /\ config[KeyOf[v]].vols \ {v} \in SUBSET Volumes
              /\ v \notin overlap => config[KeyOf[v]].vols \ {v} # {}
            BY <1>0, <2>1, <2>4 DEF ConfigRecord
        <3> QED
            BY <1>0, <1>1, <1>3, <2>1, <2>4, <3>1, WriteInv
    <2>5. CASE config[KeyOf[v]].file = "missing" /\ Write(c, {}, "delete")
        <3>1. config[KeyOf[v]].vols = {}
            BY <1>0, <2>5 DEF KeyOK
        <3>2. v \in overlap
            BY <2>1, <3>1
        <3> QED
            BY <1>0, <1>1, <1>3, <2>5, <3>1, <3>2, WriteInv
    <2> QED
        BY <1>1, <1>2, <1>3, <2>2, <2>3, <2>4, <2>5 DEF UnstageDelete
<1> QED
    BY <1>1, <1>2, <1>3 DEF UnstageDelete

\* The last volume unmounts: the others are not in the list, so that none of
\* them is in use.
LEMMA UnstageUmountInv ==
    ASSUME NodeInv, NEW c \in Calls, NEW v, v = VolumeOf[c], UnstageUmount(c)
    PROVE  NodeInv'
<1>0. /\ TypeOK /\ CallOK(c) /\ KnowsOK(c) /\ v \in Volumes /\ KeyOf[v] \in Keys /\ call[c].op # "none"
      /\ call[c].pc = "umount" /\ call[c] \in CallRecord /\ KeyOK(KeyOf[v]) /\ VolumeOK(v)
    BY CallFacts DEF UnstageUmount, At
<1>1. /\ UNCHANGED <<config, bound, hollow, overlap, dirty>> /\ Holds(c) /\ ~ Staging(c)
      /\ call[c].op = "unstage" /\ call[c].key = KeyOf[v] /\ config[KeyOf[v]] = List({v})
    BY <1>0 DEF UnstageUmount, Holds, Staging, CallOK, CallRecord, StageSteps, PublishSteps,
       UnpublishSteps, KnowsOK, IsMounted
<1>2. CASE Fail(c, TRUE) /\ UNCHANGED mounted
    BY <1>0, <1>1, <1>2, FailQuiet DEF TypeOK
<1>3. ASSUME mounted' = [mounted EXCEPT ![call[c].key] = NoSource],
             NEW r, Becomes(c, r), r.pc # "write", UNCHANGED <<kube, lost>>,
             locks' = locks \/ (locks' = locks \ {KeyOf[v]} /\ ~ Holds(c)'),
             CallOK(c)', WriteOK(c)', mounted'[KeyOf[v]] = NoSource => KnowsOK(c)'
      PROVE  NodeInv'
    <2>1. /\ mounted' \in [Keys -> Sources \cup {NoSource}] /\ mounted'[KeyOf[v]] = NoSource
          /\ \A k \in Keys : k # KeyOf[v] => mounted'[k] = mounted[k]
        BY <1>0, <1>1, <1>3 DEF TypeOK
    <2>2. Local(c)
        BY <1>0, <1>1, <1>3, <2>1, LockedLocal DEF TypeOK
    <2>3. /\ Keeps(c) /\ (Recorded(v)' <=> Recorded(v)) /\ (Listed(v)' <=> Listed(v))
          /\ Stuck(KeyOf[v])' <=> Stuck(KeyOf[v])
        BY <1>0, <1>1, <1>3, QuietLedger
    <2>4. VolumeOK(v)'
        BY <1>0, <1>1, <1>3, <2>3 DEF VolumeOK, InUse, CallOK, IsMounted
    <2>5. KeyOK(KeyOf[v])'
        BY <1>0, <1>1, <2>1, <2>3 DEF KeyOK
    <2> QED
        BY <1>3, <2>1, <2>2, <2>3, <2>4, <2>5, NodeStep
<1>4. CASE mounted' = [mounted EXCEPT ![call[c].key] = NoSource] /\ Goto(c, "remove")
    <2> DEFINE r == Moved(c, "remove", call[c].key, call[c].todo, call[c].new, call[c].then)
    <2>1. Becomes(c, r) /\ UNCHANGED <<kube, locks, lost>>
        BY <1>0, <1>4, GotoBecomes DEF UnstageSteps
    <2>2. r.pc = "remove" /\ r.key = KeyOf[v] /\ r.op = "unstage"
        BY <1>1 DEF Moved
    <2> HIDE DEF r
    <2>3. CallOK(c)'
        BY <1>0, <1>1, <2>1, <2>2 DEF CallOK, Becomes, Holds, StageSteps, UnstageSteps, PublishSteps,
           UnpublishSteps
    <2>4. WriteOK(c)' /\ (mounted'[KeyOf[v]] = NoSource => KnowsOK(c)')
        BY <1>1, <2>1, <2>2 DEF WriteOK, KnowsOK, Becomes, Staging, IsMounted
    <2> QED
        BY <1>3, <1>4, <2>1, <2>2, <2>3, <2>4
<1>5. CASE mounted' = [mounted EXCEPT ![call[c].key] = NoSource] /\ Fail(c, TRUE)
    <2>1. Becomes(c, NoCall)
        BY <1>0, <1>5, NoCallType DEF Fail, Becomes, TypeOK
    <2>2. CallOK(c)' /\ WriteOK(c)' /\ KnowsOK(c)' /\ ~ Holds(c)' /\ NoCall.pc # "write"
        BY <2>1, Returned DEF NoCall
    <2>3. locks' = locks \ {KeyOf[v]} /\ UNCHANGED <<kube, lost>>
        BY <1>1, <1>5 DEF Fail, Release
    <2> QED
        BY <1>3, <1>5, <2>1, <2>2, <2>3
<1> QED
    BY <1>2, <1>4, <1>5 DEF UnstageUmount

LEMMA UnstageRemoveInv ==
    ASSUME NodeInv, NEW c \in Calls, NEW v, v = VolumeOf[c], UnstageRemove(c)
    PROVE  NodeInv'
<1>0. /\ TypeOK /\ CallOK(c) /\ KnowsOK(c) /\ v \in Volumes /\ KeyOf[v] \in Keys /\ call[c].op # "none"
      /\ call[c].pc = "remove" /\ call[c] \in CallRecord /\ KeyOK(KeyOf[v])
    BY CallFacts DEF UnstageRemove, At
<1>1. /\ UNCHANGED <<mounted, bound, hollow, overlap>> /\ Holds(c) /\ ~ Staging(c)
      /\ call[c].op = "unstage" /\ call[c].key = KeyOf[v] /\ config[KeyOf[v]] = List({v})
      /\ mounted[KeyOf[v]] = NoSource
    BY <1>0 DEF UnstageRemove, Holds, Staging, CallOK, CallRecord, StageSteps, PublishSteps,
       UnpublishSteps, KnowsOK, IsMounted
<1>2. CASE ConfigFails(c) /\ UNCHANGED config
    BY <1>0, <1>1, <1>2, ConfigFailsInv
<1>3. CASE config' = [config EXCEPT ![call[c].key] = Missing] /\ Succeed(c, TRUE) /\ UNCHANGED dirty
    <2>1. Becomes(c, NoCall)
        BY <1>0, <1>3, NoCallType DEF Succeed, Becomes, TypeOK
    <2>2. CallOK(c)' /\ WriteOK(c)' /\ KnowsOK(c)' /\ ~ Holds(c)'
        BY <2>1, Returned
    <2>3. /\ kube' \in [Volumes -> KubeStates]
          /\ \A u \in Volumes : u # v => kube'[u] = kube[u]
          /\ lost' \subseteq Volumes /\ lost \ {v} \subseteq lost'
          /\ v \notin overlap => ~ InUse(v)'
        BY <1>0, <1>1, <1>3, Told DEF CallOK, Acknowledged, InUse
    <2>4. locks' = locks \ {KeyOf[v]}
        BY <1>1, <1>3 DEF Succeed, Release
    <2>5. /\ config' \in [Keys -> ConfigRecord] /\ config'[KeyOf[v]] = Missing
          /\ \A k \in Keys : k # KeyOf[v] => config'[k] = config[k]
        BY <1>0, <1>1, <1>3 DEF TypeOK, Missing, ConfigRecord
    <2>6. Local(c)
        BY <1>0, <1>1, <1>3, <2>1, <2>2, <2>3, <2>4, <2>5, LockedLocal DEF TypeOK
    <2>7. Keeps(c) /\ ~ Stuck(KeyOf[v])' /\ ~ Recorded(v)'
        BY <1>1, <2>1, <2>5, RemoveLedger
    <2>8. VolumeOK(v)'
        BY <1>1, <2>3, <2>7 DEF VolumeOK
    <2>9. KeyOK(KeyOf[v])'
        BY <1>0, <1>1, <2>5, <2>7 DEF KeyOK, Missing
    <2> QED
        BY <2>2, <2>6, <2>7, <2>8, <2>9, NodeStep
<1> QED
    BY <1>2, <1>3 DEF UnstageRemove

-----------------------------------------------------------------------------
(* NodePublishVolume and NodeUnpublishVolume.                               *)

LEMMA CheckGlobalInv ==
    ASSUME NodeInv, NEW c \in Calls, NEW v, v = VolumeOf[c], CheckGlobalMountPath(c)
    PROVE  NodeInv'
<1>0. /\ TypeOK /\ CallOK(c) /\ v \in Volumes /\ KeyOf[v] \in Keys /\ call[c].op # "none"
         /\ call[c].pc = "global"
      /\ KeyOK(KeyOf[v]) /\ call[c] \in CallRecord
    BY CallFacts DEF CheckGlobalMountPath, At
<1>1. /\ UNCHANGED <<mounted, config, bound, hollow, overlap, dirty>> /\ ~ Holds(c) /\ ~ Staging(c)
      /\ call[c].op = "publish"
    BY <1>0 DEF CheckGlobalMountPath, Holds, Staging, CallOK, CallRecord, StageSteps, UnstageSteps,
       UnpublishSteps
<1>2. CASE Fail(c, FALSE)
    BY <1>0, <1>1, <1>2, FailQuiet DEF TypeOK
<1>3. ASSUME NEW s \in {"target", "acquire"}, Goto(c, s), s = "target" => mounted[KeyOf[v]] # NoSource
      PROVE  NodeInv'
    <2> DEFINE r == Moved(c, s, call[c].key, call[c].todo, call[c].new, call[c].then)
    <2>1. Becomes(c, r) /\ UNCHANGED <<kube, locks, lost>>
        BY <1>0, <1>3, GotoBecomes DEF StageSteps, PublishSteps, UnpublishSteps
    <2>2. r.pc = s /\ r.key = call[c].key /\ r.op = "publish"
        BY <1>1 DEF Moved
    <2> HIDE DEF r
    <2>3. CallOK(c)' /\ ~ Holds(c)'
        BY <1>0, <1>1, <1>3, <2>1, <2>2 DEF CallOK, Becomes, Holds, StageSteps, PublishSteps, UnpublishSteps
    <2>4. WriteOK(c)' /\ KnowsOK(c)'
        BY <1>0, <1>1, <1>3, <2>1, <2>2 DEF WriteOK, KnowsOK, Becomes, Staging, KeyOK, IsMounted
    <2> QED
        BY <1>0, <1>1, <1>3, <2>1, <2>2, <2>3, <2>4, MovesQuiet
<1> QED
    BY <1>2, <1>3 DEF CheckGlobalMountPath

LEMMA PublishTargetInv ==
    ASSUME NodeInv, NEW c \in Calls, NEW v, v = VolumeOf[c], PublishTarget(c)
    PROVE  NodeInv'
<1>0. /\ TypeOK /\ CallOK(c) /\ KnowsOK(c) /\ v \in Volumes /\ KeyOf[v] \in Keys /\ call[c].op # "none"
      /\ call[c].pc = "target" /\ call[c] \in CallRecord /\ hollow \subseteq overlap
    BY CallFacts DEF PublishTarget, At
<1>1. /\ UNCHANGED <<mounted, config, bound, hollow, overlap, dirty>> /\ ~ Holds(c) /\ ~ Staging(c)
      /\ call[c].op = "publish" /\ (v \notin overlap => IsMounted(v))
    BY <1>0 DEF PublishTarget, Holds, Staging, CallOK, CallRecord, StageSteps, UnstageSteps,
       UnpublishSteps, KnowsOK
<1>2. CASE Succeed(c, FALSE)
    BY <1>0, <1>1, <1>2, SucceedQuiet DEF TypeOK
<1>3. CASE bound[v] = 0 /\ Goto(c, "bind")
    <2> DEFINE r == Moved(c, "bind", call[c].key, call[c].todo, call[c].new, call[c].then)
    <2>1. Becomes(c, r) /\ UNCHANGED <<kube, locks, lost>>
        BY <1>0, <1>3, GotoBecomes DEF PublishSteps, UnpublishSteps
    <2>2. r.pc = "bind" /\ r.key = call[c].key /\ r.op = "publish"
        BY <1>1 DEF Moved
    <2> HIDE DEF r
    <2>3. CallOK(c)' /\ ~ Holds(c)'
        BY <1>0, <1>1, <1>3, <2>1, <2>2 DEF CallOK, Becomes, Holds, StageSteps, PublishSteps, UnpublishSteps
    <2>4. WriteOK(c)' /\ KnowsOK(c)'
        BY <1>1, <2>1, <2>2 DEF WriteOK, KnowsOK, Becomes, Staging, IsMounted
    <2> QED
        BY <1>0, <1>1, <2>1, <2>2, <2>3, <2>4, MovesQuiet
<1> QED
    BY <1>2, <1>3 DEF PublishTarget

LEMMA PublishBindInv ==
    ASSUME NodeInv, NEW c \in Calls, NEW v, v = VolumeOf[c], PublishBind(c)
    PROVE  NodeInv'
<1>0. /\ TypeOK /\ CallOK(c) /\ KnowsOK(c) /\ v \in Volumes /\ KeyOf[v] \in Keys /\ call[c].op # "none"
      /\ call[c].pc = "bind" /\ call[c] \in CallRecord /\ hollow \subseteq overlap
    BY CallFacts DEF PublishBind, At
<1>1. /\ UNCHANGED <<mounted, config, overlap, dirty>> /\ ~ Holds(c) /\ ~ Staging(c)
      /\ call[c].op = "publish" /\ (v \notin overlap => IsMounted(v) /\ bound[v] = 0)
    BY <1>0 DEF PublishBind, Holds, Staging, CallOK, CallRecord, StageSteps, UnstageSteps,
       UnpublishSteps, KnowsOK
<1>2. CASE Fail(c, FALSE) /\ UNCHANGED <<bound, hollow>>
    BY <1>0, <1>1, <1>2, FailQuiet DEF TypeOK
<1>3. CASE /\ bound' = [bound EXCEPT ![v] = @ + 1]
           /\ hollow' = IF mounted[KeyOf[v]] = NoSource THEN hollow \cup {v} ELSE hollow
           /\ Succeed(c, FALSE)
    <2>1. hollow' \subseteq overlap
        BY <1>0, <1>1, <1>3, OwnSource DEF IsMounted
    <2>2. /\ bound' \in [Volumes -> Nat] /\ (v \notin overlap => bound'[v] <= 1)
          /\ \A u \in Volumes : u # v => bound'[u] = bound[u]
        BY <1>0, <1>1, <1>3 DEF TypeOK
    <2> QED
        BY <1>0, <1>1, <1>3, <2>1, <2>2, SucceedQuiet
<1> QED
    BY <1>2, <1>3 DEF PublishBind

\* A call of unpublish moves on, having unmounted the target or not.
LEMMA UnpublishMoves ==
    ASSUME NodeInv, NEW c \in Calls, NEW v, v = VolumeOf[c], At(c, "loop") \/ At(c, "unbind"),
           NEW s \in {"loop", "unbind"}, call[c].op = "unpublish", Goto(c, s),
           UNCHANGED <<mounted, config, hollow, overlap, dirty>>,
           bound' \in [Volumes -> Nat], bound'[v] <= bound[v],
           \A u \in Volumes : u # v => bound'[u] = bound[u]
    PROVE  NodeInv'
<1>0. /\ TypeOK /\ CallOK(c) /\ VolumeOK(v) /\ v \in Volumes /\ KeyOf[v] \in Keys
      /\ hollow \subseteq overlap /\ call[c].op # "none" /\ call[c].pc \in {"loop", "unbind"}
    BY CallFacts DEF At
<1> DEFINE r == Moved(c, s, call[c].key, call[c].todo, call[c].new, call[c].then)
<1>1. Becomes(c, r) /\ UNCHANGED <<kube, locks, lost>>
    BY <1>0, GotoBecomes DEF UnpublishSteps
<1>2. r.pc = s /\ r.key = call[c].key /\ r.op = "unpublish"
    BY DEF Moved
<1> HIDE DEF r
<1>3. CallOK(c)' /\ ~ Holds(c)'
    BY <1>0, <1>1, <1>2 DEF CallOK, Becomes, Holds, UnpublishSteps
<1>4. WriteOK(c)' /\ KnowsOK(c)'
    BY <1>1, <1>2 DEF WriteOK, KnowsOK, Becomes, Staging
<1>5. v \notin overlap' => bound'[v] <= 1
    BY <1>0 DEF TypeOK
<1>6. Local(c)
    BY <1>0, <1>1, <1>3, <1>5, LoneCall, QuietLocal DEF TypeOK
<1>7. Keeps(c) /\ (Recorded(v)' <=> Recorded(v)) /\ (Listed(v)' <=> Listed(v))
    BY <1>0, <1>1, <1>2, QuietLedger
<1>8. KeyOK(KeyOf[v])'
    BY <1>0, <1>1, <1>2, QuietKey DEF TypeOK, Staging
<1>9. VolumeOK(v)'
    BY <1>0, <1>1, <1>7 DEF VolumeOK, InUse, IsMounted
<1> QED
    BY <1>3, <1>4, <1>6, <1>7, <1>8, <1>9, NodeStep

LEMMA UnpublishCheckInv ==
    ASSUME NodeInv, NEW c \in Calls, NEW v, v = VolumeOf[c], UnpublishCheck(c)
    PROVE  NodeInv'
<1>0. /\ TypeOK /\ CallOK(c) /\ v \in Volumes /\ KeyOf[v] \in Keys /\ call[c].op # "none"
      /\ call[c].pc = "loop" /\ call[c] \in CallRecord /\ hollow \subseteq overlap
    BY CallFacts DEF UnpublishCheck, At
<1>1. /\ UNCHANGED <<mounted, config, bound, overlap, dirty>> /\ ~ Holds(c) /\ ~ Staging(c)
      /\ call[c].op = "unpublish"
    BY <1>0 DEF UnpublishCheck, Holds, Staging, CallOK, CallRecord, StageSteps, UnstageSteps, PublishSteps
<1>2. CASE hollow' = hollow \ {v} /\ Succeed(c, FALSE)
    BY <1>0, <1>1, <1>2, SucceedQuiet DEF TypeOK
<1>3. CASE Goto(c, "unbind") /\ UNCHANGED hollow
    BY <1>0, <1>1, <1>3, UnpublishMoves DEF At, TypeOK
<1> QED
    BY <1>2, <1>3 DEF UnpublishCheck

LEMMA UnpublishUmountInv ==
    ASSUME NodeInv, NEW c \in Calls, NEW v, v = VolumeOf[c], UnpublishUmount(c)
    PROVE  NodeInv'
<1>0. /\ TypeOK /\ CallOK(c) /\ v \in Volumes /\ KeyOf[v] \in Keys /\ call[c].op # "none"
      /\ call[c].pc = "unbind" /\ call[c] \in CallRecord
    BY CallFacts DEF UnpublishUmount, At
<1>1. /\ UNCHANGED <<mounted, config, hollow, overlap, dirty>> /\ ~ Holds(c) /\ ~ Staging(c)
      /\ call[c].op = "unpublish"
    BY <1>0 DEF UnpublishUmount, Holds, Staging, CallOK, CallRecord, StageSteps, UnstageSteps, PublishSteps
<1>2. CASE Fail(c, FALSE) /\ UNCHANGED bound
    BY <1>0, <1>1, <1>2, FailQuiet DEF TypeOK
<1>3. CASE bound[v] > 0 /\ bound' = [bound EXCEPT ![v] = @ - 1] /\ Goto(c, "loop")
    <2>1. /\ bound' \in [Volumes -> Nat] /\ bound'[v] <= bound[v]
          /\ \A u \in Volumes : u # v => bound'[u] = bound[u]
        BY <1>0, <1>3 DEF TypeOK
    <2> QED
        BY <1>0, <1>1, <1>3, <2>1, UnpublishMoves DEF At
<1> QED
    BY <1>2, <1>3 DEF UnpublishUmount

-----------------------------------------------------------------------------
(* The process dies, the node restarts.                                     *)

\* Without calls, what was being written is stuck, and the rest stays.
LEMMA NoCallsLedger ==
    ASSUME NodeInv, call' = [c \in Calls |-> NoCall], config' = config
    PROVE  /\ \A u \in Volumes : (Recorded(u)' => Recorded(u)) /\ (Listed(u) => Listed(u)')
           /\ \A c \in Calls : CallOK(c)' /\ WriteOK(c)' /\ KnowsOK(c)' /\ ~ Holds(c)'
           /\ AloneOK' /\ LocksOK'
<1>0. \A u \in Volumes : KeyOf[u] \in Keys
    BY ConstantsAssumption
<1>1. \A c \in Calls : call'[c] = NoCall
    OBVIOUS
<1>2. \A c \in Calls, k \in Keys : ~ Writes(c, k)'
    BY <1>1 DEF Writes, NoCall
<1>3. \A u \in Volumes : Recorded(u)' <=> u \in config[KeyOf[u]].vols
    BY <1>0, <1>2 DEF Recorded
<1>4. \A k \in Keys : Stuck(k)' <=> config[k].file = "torn"
    BY <1>2 DEF Stuck
<1>5. \A u \in Volumes : Recorded(u)' => Recorded(u)
    BY <1>3 DEF Recorded
<1>6. ASSUME NEW u \in Volumes, Listed(u) PROVE Listed(u)'
    <2>1. CASE u \in config[KeyOf[u]].vols
        BY <1>3, <2>1 DEF Listed
    <2>2. CASE config[KeyOf[u]].file = "torn"
        BY <1>0, <1>4, <2>2 DEF Listed
    <2> QED
        BY <1>0, <1>6, <2>1, <2>2, WriterHolds DEF Listed, Recorded, Stuck
<1>7. \A c \in Calls : CallOK(c)' /\ WriteOK(c)' /\ KnowsOK(c)' /\ ~ Holds(c)'
    BY <1>1, NoCallIsOK
<1>8. AloneOK'
    BY <1>1 DEF AloneOK, NoCall
<1>9. LocksOK'
    BY <1>7 DEF LocksOK
<1> QED
    BY <1>5, <1>6, <1>7, <1>8, <1>9

LEMMA DiesInv ==
    ASSUME NodeInv, Dies
    PROVE  NodeInv'
<1>0. TypeOK /\ hollow \subseteq overlap
    BY DEF NodeInv
<1>1. /\ \A u \in Volumes : (Recorded(u)' => Recorded(u)) /\ (Listed(u) => Listed(u)')
      /\ \A c \in Calls : CallOK(c)' /\ WriteOK(c)' /\ KnowsOK(c)' /\ ~ Holds(c)'
      /\ AloneOK' /\ LocksOK'
    BY NoCallsLedger DEF Dies
<1>2. UNCHANGED <<kube, mounted, config, bound, hollow, lost, overlap>> /\ dirty' = TRUE /\ locks' = {}
    BY DEF Dies
<1>3. TypeOK'
    BY <1>0, <1>2, NoCallType DEF Dies, TypeOK
<1>4. \A u \in Volumes : VolumeOK(u)'
    BY <1>1, <1>2 DEF NodeInv, VolumeOK, InUse, IsMounted
<1>5. \A k \in Keys : KeyOK(k)'
    BY <1>2 DEF NodeInv, KeyOK
<1> QED
    BY <1>0, <1>1, <1>2, <1>3, <1>4, <1>5 DEF NodeInv

\* No mount is left, but no volume counts as mounted either.
LEMMA RebootInv ==
    ASSUME NodeInv, Reboot
    PROVE  NodeInv'
<1>0. TypeOK
    BY DEF NodeInv
<1>1. /\ \A u \in Volumes : (Recorded(u)' => Recorded(u)) /\ (Listed(u) => Listed(u)')
      /\ \A c \in Calls : CallOK(c)' /\ WriteOK(c)' /\ KnowsOK(c)' /\ ~ Holds(c)'
      /\ AloneOK' /\ LocksOK'
    BY NoCallsLedger DEF Reboot
<1>2. /\ UNCHANGED <<config, overlap>> /\ dirty' = TRUE /\ locks' = {} /\ hollow' = {} /\ lost' = Volumes
      /\ mounted' = [k \in Keys |-> NoSource] /\ bound' = [v \in Volumes |-> 0]
      /\ call' = [c \in Calls |-> NoCall]
    BY DEF Reboot
<1>3. /\ kube' \in [Volumes -> KubeStates]
      /\ \A u \in Volumes : kube'[u] = "none" <=> kube[u] = "none"
      /\ \A u \in Volumes : InUse(u)' => InUse(u)
    BY <1>0 DEF Reboot, TypeOK, KubeStates, InUse
<1>4. TypeOK'
    BY <1>0, <1>2, <1>3, NoCallType DEF TypeOK
<1>5. \A u \in Volumes : VolumeOK(u)'
    BY <1>1, <1>2, <1>3 DEF NodeInv, VolumeOK, IsMounted
<1>6. \A k \in Keys : KeyOK(k)'
    BY <1>2 DEF NodeInv, KeyOK
<1> QED
    BY <1>1, <1>2, <1>4, <1>5, <1>6 DEF NodeInv

-----------------------------------------------------------------------------
(* The kubelet gives up a call, and nothing happens.                        *)

\* No call does anything: only what the kubelet waits for may change.
LEMMA SameCalls ==
    ASSUME NodeInv, UNCHANGED <<kube, locks, mounted, config, bound, hollow, lost, overlap, dirty>>,
           call' \in [Calls -> CallRecord],
           \A c \in Calls : call'[c] = call[c] \/
                            /\ call[c].op # "none"
                            /\ \E a \in BOOLEAN : call'[c] = [call[c] EXCEPT !.awaited = a]
    PROVE  NodeInv'
<1>0. \A u \in Volumes : KeyOf[u] \in Keys
    BY ConstantsAssumption
<1>1. \A c \in Calls : /\ call'[c].op = call[c].op /\ call'[c].pc = call[c].pc
                       /\ call'[c].key = call[c].key /\ call'[c].todo = call[c].todo
                       /\ call'[c].new = call[c].new /\ call'[c].then = call[c].then
                       /\ call[c].op = "none" => call'[c] = call[c]
    BY DEF NodeInv, TypeOK, CallRecord
<1>2. \A c \in Calls : /\ \A k \in Keys : Writes(c, k)' <=> Writes(c, k)
                       /\ (Holds(c)' <=> Holds(c)) /\ (Staging(c)' <=> Staging(c))
    BY <1>1 DEF Writes, Holds, Staging
<1>3. /\ \A u \in Volumes : Recorded(u)' <=> Recorded(u)
      /\ \A k \in Keys : Stuck(k)' <=> Stuck(k)
    BY <1>0, <1>1, <1>2 DEF Recorded, Stuck
<1>4. \A u \in Volumes : (Listed(u)' <=> Listed(u)) /\ (IsMounted(u)' <=> IsMounted(u))
    BY <1>0, <1>3 DEF Listed, IsMounted
<1>5. ASSUME NEW c \in Calls PROVE CallOK(c)' /\ WriteOK(c)' /\ KnowsOK(c)'
    <2>1. CallOK(c) /\ WriteOK(c) /\ KnowsOK(c) /\ VolumeOf[c] \in Volumes
        BY ConstantsAssumption DEF NodeInv
    <2>2. CallOK(c)'
        BY <1>1, <1>2, <2>1 DEF CallOK
    <2>3. WriteOK(c)'
        BY <1>1, <2>1 DEF WriteOK
    <2>4. KnowsOK(c)'
        BY <1>1, <1>2, <1>3, <1>4, <2>1 DEF KnowsOK
    <2> QED
        BY <2>2, <2>3, <2>4
<1>6. \A u \in Volumes : VolumeOK(u)'
    BY <1>3, <1>4 DEF NodeInv, VolumeOK, InUse
<1>7. LocksOK' /\ AloneOK'
    BY <1>1, <1>2 DEF NodeInv, LocksOK, AloneOK
<1>8. \A u \in Volumes : Accounts(u)' <=> Accounts(u)
    BY <1>2, <1>3 DEF Accounts
<1>9. \A k \in Keys : KeyOK(k)'
    BY <1>3, <1>8 DEF NodeInv, KeyOK
<1>10. TypeOK'
    BY DEF NodeInv, TypeOK
<1> QED
    BY <1>5, <1>6, <1>7, <1>9, <1>10 DEF NodeInv

LEMMA GiveUpInv ==
    ASSUME NodeInv, NEW c \in Calls, GiveUp(c)
    PROVE  NodeInv'
<1>0. TypeOK /\ CallOK(c) /\ call[c].op # "none"
    BY DEF NodeInv, GiveUp, CallOK, NoCall
<1>1. call[c] \in CallRecord /\ [call[c] EXCEPT !.awaited = FALSE] \in CallRecord
    BY <1>0 DEF TypeOK, CallRecord
<1>2. /\ call' \in [Calls -> CallRecord]
      /\ call'[c] = [call[c] EXCEPT !.awaited = FALSE]
      /\ \A d \in Calls : d # c => call'[d] = call[d]
    BY <1>0, <1>1 DEF GiveUp, TypeOK
<1>3. UNCHANGED <<kube, locks, mounted, config, bound, hollow, lost, overlap, dirty>>
    BY DEF GiveUp
<1> QED
    BY <1>0, <1>2, <1>3, SameCalls

LEMMA NodeNext ==
    ASSUME NodeInv, Next
    PROVE  NodeInv'
<1>1. ASSUME NEW c \in Calls, Step(c) PROVE NodeInv'
    BY <1>1, StageAcquireInv, StageCheckInv, StageMountInv, StageAddInv, TruncateInv, FillInv,
       UnstageListInv, UnstageLookupInv, UnstageDeleteInv, UnstageUmountInv, UnstageRemoveInv,
       CheckGlobalInv, PublishTargetInv, PublishBindInv, UnpublishCheckInv, UnpublishUmountInv,
       UnstageLoadInv, DiesInv
       DEF Step, WalkPanics
<1> QED
    BY <1>1, RequestInv, GiveUpInv, DiesInv, RebootInv DEF Next, Crash

LEMMA NodeStutter ==
    ASSUME NodeInv, UNCHANGED vars
    PROVE  NodeInv'
BY SameCalls DEF vars, NodeInv, TypeOK
-----------------------------------------------------------------------------
(* Volume ids: what is put together comes apart.                            *)

LEMMA FirstOne ==
    ASSUME NEW T \in SUBSET Nat, T # {}
    PROVE  \E i \in T : \A j \in T : ~ j < i
<1> DEFINE R == OpToRel(<, Nat)
<1>1. IsWellFoundedOn(R, Nat)
    BY NatLessThanWellFounded, Zenon
<1>2. \A i, j \in Nat : j < i => <<j, i>> \in R
    BY DEF OpToRel
<1> HIDE DEF R
<1>3. PICK i \in T : \A j \in T : <<j, i>> \notin R
    BY <1>1, WFMin
<1> QED
    BY <1>2, <1>3

Lacks(s, x) == \A i \in 1..Len(s) : s[i] # x

\* i is the length of the part of s before the first x.
Cut(s, x, i) == (i < Len(s) => s[i + 1] = x) /\ \A j \in 1..i : s[j] # x

LEMMA OneCut ==
    ASSUME NEW S, NEW s \in Seq(S), NEW x, NEW i \in 0..Len(s), Cut(s, x, i)
    PROVE  Before(s, x) = SubSeq(s, 1, i)
<1> DEFINE c == CHOOSE k \in 0..Len(s) : Cut(s, x, k)
<1>1. c \in 0..Len(s) /\ Cut(s, x, c)
    OBVIOUS
<1>2. Len(s) \in Nat
    OBVIOUS
<1>3. c = i
    <2> HIDE DEF c
    <2>1. ~ c < i
        BY <1>1, <1>2 DEF Cut
    <2>2. ~ i < c
        BY <1>1, <1>2 DEF Cut
    <2> QED
        BY <1>1, <1>2, <2>1, <2>2
<1>4. Before(s, x) = SubSeq(s, 1, c)
    BY DEF Before, Cut
<1> QED
    BY <1>3, <1>4

\* A string without x is before the first x, and a string put before an x
\* and another string is taken out again.
LEMMA BeforeAll ==
    ASSUME NEW S, NEW s \in Seq(S), NEW x, Lacks(s, x)
    PROVE  Before(s, x) = s
<1>1. Len(s) \in 0..Len(s) /\ Cut(s, x, Len(s))
    BY DEF Cut, Lacks
<1>2. Before(s, x) = SubSeq(s, 1, Len(s))
    BY <1>1, OneCut
<1> QED
    BY <1>2, SubSeqFull

LEMMA SplitAt ==
    ASSUME NEW S, NEW a \in Seq(S), NEW x \in S, NEW b \in Seq(S), Lacks(a, x)
    PROVE  /\ Before(a \o <<x>> \o b, x) = a
           /\ After(a \o <<x>> \o b, x) = b
<1> DEFINE s == a \o <<x>> \o b
<1>0. <<x>> \in Seq(S) /\ Len(<<x>>) = 1 /\ <<x>>[1] = x /\ Len(a) \in Nat /\ Len(b) \in Nat
    OBVIOUS
<1>1. PICK e \in Seq(S) : /\ e = a \o <<x>> /\ Len(e) = Len(a) + 1
                          /\ \A i \in 1..Len(a) : e[i] = a[i]
                          /\ e[Len(a) + 1] = x
    <2>1. /\ a \o <<x>> \in Seq(S) /\ Len(a \o <<x>>) = Len(a) + 1
          /\ \A i \in 1..Len(a) : (a \o <<x>>)[i] = a[i]
          /\ (a \o <<x>>)[Len(a) + 1] = x
        BY <1>0, ConcatProperties
    <2> QED
        BY <2>1
<1>2. /\ s \in Seq(S) /\ Len(s) = Len(a) + 1 + Len(b)
      /\ \A i \in 1..(Len(a) + 1 + Len(b)) :
            s[i] = IF i <= Len(a) + 1 THEN e[i] ELSE b[i - (Len(a) + 1)]
    BY <1>0, <1>1, ConcatProperties
<1> HIDE DEF s
<1>3. /\ \A i \in 1..Len(a) : s[i] = a[i]
      /\ s[Len(a) + 1] = x
      /\ \A i \in 1..Len(b) : s[Len(a) + 2 + i - 1] = b[i]
    <2>0. \A i \in 1..Len(a) : i \in 1..(Len(a) + 1 + Len(b)) /\ i <= Len(a) + 1
        BY <1>0
    <2>1. \A i \in 1..Len(a) : s[i] = a[i]
        BY <1>1, <1>2, <2>0
    <2>2. s[Len(a) + 1] = x
        BY <1>0, <1>1, <1>2
    <2>3. ASSUME NEW i \in 1..Len(b) PROVE s[Len(a) + 2 + i - 1] = b[i]
        <3>1. /\ Len(a) + 2 + i - 1 \in 1..(Len(a) + 1 + Len(b))
              /\ ~ Len(a) + 2 + i - 1 <= Len(a) + 1
              /\ Len(a) + 2 + i - 1 - (Len(a) + 1) = i
            BY <1>0
        <3>2. PICK j \in 1..(Len(a) + 1 + Len(b)) : j = Len(a) + 2 + i - 1
            BY <3>1
        <3>3. ~ j <= Len(a) + 1 /\ j - (Len(a) + 1) = i
            BY <3>1, <3>2
        <3>4. s[j] = b[j - (Len(a) + 1)]
            BY <1>2, <3>3
        <3> QED
            BY <3>2, <3>3, <3>4
    <2> QED
        BY <2>1, <2>2, <2>3
<1>4. Len(a) \in 0..Len(s) /\ Cut(s, x, Len(a))
    BY <1>0, <1>2, <1>3 DEF Cut, Lacks
<1>5. Before(s, x) = SubSeq(s, 1, Len(a))
    BY <1>2, <1>4, OneCut
<1>6. SubSeq(s, 1, Len(a)) = a
    <2>1. \A i \in 1..Len(a) : s[i] \in S
        BY <1>3
    <2>2. /\ SubSeq(s, 1, Len(a)) \in Seq(S) /\ Len(SubSeq(s, 1, Len(a))) = Len(a)
          /\ \A i \in 1..Len(a) : SubSeq(s, 1, Len(a))[i] = s[i]
        BY <2>1, <1>0, SubSeqProperties
    <2> QED
        BY <2>2, <1>3, SeqEqual
<1>7. SubSeq(s, Len(a) + 2, Len(s)) = b
    <2> DEFINE t == SubSeq(s, Len(a) + 2, Len(s))
    <2>0. Len(a) + 2 \in Int /\ Len(s) \in Int /\ Len(s) - (Len(a) + 2) + 1 = Len(b)
        BY <1>0, <1>2
    <2>1. \A i \in (Len(a) + 2)..Len(s) : s[i] \in S
        BY <1>0, <1>2
    <2>2. /\ t \in Seq(S) /\ Len(t) = IF Len(a) + 2 <= Len(s) THEN Len(s) - (Len(a) + 2) + 1 ELSE 0
          /\ \A i \in 1..(Len(s) - (Len(a) + 2) + 1) : t[i] = s[Len(a) + 2 + i - 1]
        BY <2>0, <2>1, SubSeqProperties
    <2> HIDE DEF t
    <2>3. Len(t) = Len(b)
        BY <1>0, <1>2, <2>0, <2>2
    <2>4. \A i \in 1..Len(t) : t[i] = b[i]
        BY <2>0, <2>2, <2>3, <1>3
    <2>5. t = b
        BY <2>2, <2>3, <2>4, SeqEqual
    <2> QED
        BY <2>5 DEF t
<1>8. After(s, x) = b
    BY <1>5, <1>6, <1>7 DEF After
<1> QED
    BY <1>5, <1>6, <1>8 DEF s

LEMMA JoinType ==
    ASSUME NEW S, NEW a \in Seq(S), NEW b \in Seq(S)
    PROVE  a \o b \in Seq(S)
OBVIOUS

\* Named, so that the provers find the instance that a step needs.
Assoc(a, b, c) == (a \o b) \o c = a \o (b \o c)

LEMMA JoinAssoc ==
    ASSUME NEW S, NEW a \in Seq(S), NEW b \in Seq(S), NEW c \in Seq(S)
    PROVE  Assoc(a, b, c)
BY DEF Assoc

Joined(s, a, b) ==
    /\ Len(s) = Len(a) + Len(b)
    /\ \A i \in 1..Len(a) : s[i] = a[i]
    /\ \A i \in 1..Len(b) : s[Len(a) + i] = b[i]

LEMMA JoinElements ==
    ASSUME NEW S, NEW a \in Seq(S), NEW b \in Seq(S)
    PROVE  Joined(a \o b, a, b)
BY DEF Joined

LEMMA JoinLacks ==
    ASSUME NEW S, NEW a \in Seq(S), NEW b \in Seq(S), NEW x, Lacks(a, x), Lacks(b, x)
    PROVE  Lacks(a \o b, x)
<1>1. \A i \in 1..(Len(a) + Len(b)) : ~ i \in 1..Len(a) => i - Len(a) \in 1..Len(b)
      /\ Len(a) + (i - Len(a)) = i
    OBVIOUS
<1> QED
    BY <1>1, JoinElements DEF Lacks, Joined

\* A string has its first x after a part without it.
FirstIs(s, x, i, a, b) ==
    /\ s[i] = x
    /\ a = SubSeq(s, 1, i - 1) /\ Lacks(a, x)
    /\ \A y : Lacks(s, y) => Lacks(b, y)
    /\ s = a \o <<x>> \o b

LEMMA FirstSplit ==
    ASSUME NEW S, NEW s \in Seq(S), NEW x, ~ Lacks(s, x)
    PROVE  \E i \in DOMAIN s, a \in Seq(S), b \in Seq(S) : FirstIs(s, x, i, a, b)
<1> DEFINE T == {j \in 1..Len(s) : s[j] = x}
<1>1. T \in SUBSET Nat /\ T # {}
    BY DEF Lacks
<1>2. PICK i \in 1..Len(s) : s[i] = x /\ \A j \in 1..(i - 1) : s[j] # x
    <2> HIDE DEF T
    <2>2. PICK i \in T : \A j \in T : ~ j < i
        BY <1>1, FirstOne
    <2> QED
        BY <2>2 DEF T
<1> DEFINE a == SubSeq(s, 1, i - 1)
           b == SubSeq(s, i + 1, Len(s))
<1>3. a \in Seq(S) /\ Lacks(a, x) /\ Len(a) = i - 1 /\ \A j \in 1..(i - 1) : a[j] = s[j]
    <2>1. i - 1 \in Int /\ 1 \in Int /\ i - 1 - 1 + 1 = i - 1 /\ \A j \in 1..(i - 1) : s[j] \in S
        OBVIOUS
    <2>2. /\ a \in Seq(S) /\ Len(a) = IF 1 <= i - 1 THEN i - 1 - 1 + 1 ELSE 0
          /\ \A j \in 1..(i - 1 - 1 + 1) : a[j] = s[1 + j - 1]
        BY <2>1, SubSeqProperties
    <2> QED
        BY <2>1, <2>2, <1>2 DEF Lacks
<1>4. /\ b \in Seq(S) /\ Len(b) = Len(s) - i
      /\ \A j \in 1..(Len(s) - i) : b[j] = s[i + j]
    <2>1. i + 1 \in Int /\ Len(s) \in Int /\ \A j \in (i + 1)..Len(s) : s[j] \in S
        OBVIOUS
    <2>2. /\ b \in Seq(S) /\ Len(b) = IF i + 1 <= Len(s) THEN Len(s) - (i + 1) + 1 ELSE 0
          /\ \A j \in 1..(Len(s) - (i + 1) + 1) : b[j] = s[i + 1 + j - 1]
        BY <2>1, SubSeqProperties
    <2> QED
        BY <2>1, <2>2
<1>5. \A y : Lacks(s, y) => Lacks(b, y)
    BY <1>4 DEF Lacks
<1> HIDE DEF a, b
<1>6. s = a \o <<x>> \o b
    <2> DEFINE d == <<x>>
    <2>0. x \in S /\ d \in Seq(S) /\ Len(d) = 1 /\ d[1] = x
        BY <1>2
    <2> HIDE DEF d
    <2> DEFINE e == a \o d
    <2>1. /\ e \in Seq(S) /\ Len(e) = i
          /\ \A j \in 1..(i - 1) : e[j] = s[j]
          /\ e[i] = s[i]
        <3>0. e \in Seq(S)
            BY <2>0, <1>3, JoinType
        <3>1. Joined(e, a, d)
            BY <2>0, <1>3, JoinElements
        <3> HIDE DEF e
        <3> QED
            BY <3>0, <3>1, <2>0, <1>2, <1>3 DEF Joined
    <2> HIDE DEF e
    <2>2. /\ e \o b \in Seq(S) /\ Len(e \o b) = Len(s)
          /\ \A j \in 1..i : (e \o b)[j] = s[j]
          /\ \A j \in 1..(Len(s) - i) : (e \o b)[i + j] = s[i + j]
        <3>0. e \in Seq(S) /\ b \in Seq(S)
            BY <2>1, <1>4
        <3>1. PICK g \in Seq(S) : g = e \o b
            BY <3>0, JoinType
        <3>3. Joined(g, e, b)
            BY <3>0, <3>1, JoinElements
        <3>2. \A j \in 1..i : j \in 1..(i - 1) \/ j = i
            OBVIOUS
        <3>4. /\ Len(g) = Len(s)
              /\ \A j \in 1..i : g[j] = s[j]
              /\ \A j \in 1..(Len(s) - i) : g[i + j] = s[i + j]
            <4>1. Len(e) = i /\ Len(b) = Len(s) - i /\ Len(s) \in Nat /\ i \in Nat
                BY <2>1, <1>4
            <4>2. Len(g) = Len(s)
                BY <4>1, <3>3 DEF Joined
            <4>3. \A j \in 1..i : g[j] = s[j]
                BY <4>1, <3>2, <3>3, <2>1 DEF Joined
            <4>4. \A j \in 1..(Len(s) - i) : g[i + j] = s[i + j]
                BY <4>1, <3>3, <1>4 DEF Joined
            <4> QED
                BY <4>2, <4>3, <4>4
        <3> QED
            BY <3>1, <3>4
    <2>3. \A j \in 1..Len(s) : ~ j \in 1..i => j - i \in 1..(Len(s) - i) /\ i + (j - i) = j
        OBVIOUS
    <2>4. \A j \in 1..Len(s) : (e \o b)[j] = s[j]
        BY <2>2, <2>3
    <2>5. e \o b = s
        BY <2>2, <2>4, SeqEqual
    <2> QED
        BY <2>5 DEF e, d
<1>7. i \in DOMAIN s
    OBVIOUS
<1> QED
    <2>1. a = SubSeq(s, 1, i - 1)
        BY DEF a
    <2>2. FirstIs(s, x, i, a, b)
        BY <2>1, <1>2, <1>3, <1>5, <1>6 DEF FirstIs
    <2> QED
        BY <2>2, <1>3, <1>4, <1>7

\* What CreateVolume put together, DeleteVolume takes apart, but for the part
\* of the host after its first dash.
Parsed(o, f, h, n) ==
    /\ o.fsid = f /\ o.name = n
    /\ \/ o.host = h
       \/ \E i \in DOMAIN h : h[i] = "-" /\ o.host = SubSeq(h, 1, i - 1)

LEMMA TakenApart ==
    ASSUME NEW S, NEW f \in Seq(S), NEW h \in Seq(S), NEW n \in Seq(S), NEW c \in S,
           "-" \in S, "/" \in S, c # "/", Lacks(f, "-"), Lacks(h, "/"), Lacks(n, "/")
    PROVE  Parsed(getCfsTurboOptionsFromVolumeId(
                      f \o <<"-">> \o h \o <<"-", "/", c, "/">> \o n), f, h, n)
<1> DEFINE d == <<"-">>
           z == <<"/">>
           m == <<"-", "/", c, "/">>
           id == f \o d \o h \o m \o n
<1>1. d \in Seq(S) /\ z \in Seq(S) /\ <<c>> \in Seq(S) /\ <<>> \in Seq(S)
    OBVIOUS
<1>2. Lacks(d, "/") /\ Lacks(<<c>>, "/") /\ Lacks(<<>>, "/")
    BY DEF Lacks
<1>3. PICK cz \in Seq(S) : cz = <<c>> \o z
    BY <1>1, JoinType
<1>4. m = (d \o z) \o cz
    BY <1>3
<1>5. PICK t \in Seq(S) : t = cz \o n
    BY JoinType
<1>6. After(t, "/") = n
    <2>1. PICK k \in Seq(S) : k = <<c>>
        BY <1>1
    <2>2. t = k \o <<"/">> \o n /\ Lacks(k, "/")
        BY <2>1, <1>2, <1>3, <1>5
    <2> QED
        BY <2>2, SplitAt
<1> HIDE DEF d, m, z
<1>7. d \in Seq(S) /\ z \in Seq(S)
    BY <1>1
<1>8. PICK p \in Seq(S) : p = z \o t
    BY <1>7, JoinType
<1>9. PICK dp \in Seq(S) : dp = d \o p
    BY <1>7, JoinType
<1>10. PICK hp \in Seq(S) : hp = h \o d \o p
    BY <1>7, JoinType
<1>11. PICK fd \in Seq(S) : fd = f \o d
    BY <1>7, JoinType
<1>12. m \o n = dp
    <2>1. PICK zc \in Seq(S) : zc = z \o cz
        BY <1>7, JoinType
    <2>2. Assoc(d, z, cz) /\ Assoc(d, zc, n) /\ Assoc(z, cz, n)
        BY <1>7, JoinAssoc
    <2> QED
        BY <2>1, <2>2, <1>4, <1>5, <1>8, <1>9 DEF Assoc
<1>13. hp = h \o dp
    <2>1. Assoc(h, d, p)
        BY <1>7, JoinAssoc
    <2> QED
        BY <2>1, <1>9, <1>10 DEF Assoc
<1>14. m \in Seq(S)
    BY <1>1, <1>4, JoinType
<1>15. id = fd \o hp
    <2>1. PICK fh \in Seq(S) : fh = fd \o h
        BY JoinType
    <2>2. id = (fh \o m) \o n
        BY <2>1, <1>11
    <2> HIDE DEF id
    <2>3. Assoc(fh, m, n) /\ Assoc(fd, h, dp)
        BY <1>14, JoinAssoc
    <2> QED
        BY <2>1, <2>2, <2>3, <1>12, <1>13 DEF Assoc
<1> HIDE DEF id
<1>16. Before(id, "-") = f /\ After(id, "-") = hp
    BY <1>11, <1>15, SplitAt DEF d
<1>17. /\ \/ Before(hp, "-") = h
          \/ \E i \in DOMAIN h : h[i] = "-" /\ Before(hp, "-") = SubSeq(h, 1, i - 1)
       /\ \E q \in Seq(S) : Lacks(q, "/") /\ After(hp, "-") = q \o p
    <2>1. CASE Lacks(h, "-")
        <3>1. Before(hp, "-") = h /\ After(hp, "-") = p
            BY <1>10, <2>1, SplitAt DEF d
        <3>2. <<>> \o p = p
            BY ConcatEmptySeq
        <3> QED
            BY <3>1, <3>2, <1>1, <1>2
    <2>2. CASE ~ Lacks(h, "-")
        <3>1. PICK i \in DOMAIN h, a \in Seq(S), b \in Seq(S) : FirstIs(h, "-", i, a, b)
            BY <2>2, FirstSplit
        <3>2. h[i] = "-" /\ a = SubSeq(h, 1, i - 1)
            BY <3>1 DEF FirstIs
        <3>3. Lacks(a, "-") /\ Lacks(b, "/") /\ h = (a \o d) \o b
            BY <3>1 DEF FirstIs, d
        <3>4. PICK ad \in Seq(S) : ad = a \o d
            BY <1>7, JoinType
        <3>5. PICK bd \in Seq(S) : bd = b \o d
            BY <1>7, JoinType
        <3>6. PICK bp \in Seq(S) : bp = bd \o p
            BY JoinType
        <3>7. Assoc(b, d, p) /\ Assoc(ad, b, dp)
            BY <1>7, JoinAssoc
        <3>8. hp = ad \o bp
            BY <1>9, <1>13, <3>3, <3>4, <3>5, <3>6, <3>7 DEF Assoc
        <3>9. Before(hp, "-") = a /\ After(hp, "-") = bp
            BY <3>3, <3>4, <3>8, SplitAt DEF d
        <3>10. Lacks(bd, "/")
            BY <1>2, <1>7, <3>3, <3>5, JoinLacks
        <3> QED
            BY <3>2, <3>6, <3>9, <3>10
    <2> QED
        BY <2>1, <2>2
<1>18. PICK q \in Seq(S) : Lacks(q, "/") /\ After(hp, "-") = q \o p
    BY <1>17
<1>19. After(q \o p, "/") = t
    <2>1. Assoc(q, z, t)
        BY <1>7, JoinAssoc
    <2>2. q \o p = (q \o z) \o t
        BY <2>1, <1>8 DEF Assoc
    <2> QED
        BY <2>2, <1>18, SplitAt DEF z
<1>20. Before(n, "/") = n
    BY BeforeAll
<1>21. id = f \o <<"-">> \o h \o <<"-", "/", c, "/">> \o n
    BY DEF id, d, m
<1>22. getCfsTurboOptionsFromVolumeId(id) = [fsid |-> f, host |-> Before(hp, "-"), name |-> n]
    BY <1>6, <1>16, <1>18, <1>19, <1>20 DEF getCfsTurboOptionsFromVolumeId
<1> QED
    <2>1. PICK o : o = [fsid |-> f, host |-> Before(hp, "-"), name |-> n]
        OBVIOUS
    <2>2. Parsed(o, f, h, n)
        BY <2>1, <1>17 DEF Parsed
    <2> QED
        BY <2>1, <2>2, <1>21, <1>22

-----------------------------------------------------------------------------
(* The controller.                                                          *)

LEMMA ControllerImplies ==
    ASSUME ControllerInv
    PROVE  ControllerTypeOK /\ CreatedHasDirectory /\ DeletedHasNoDirectory
<1>1. ControllerTypeOK
    <2>1. \A w \in Workers :
             /\ work[w].op \in {"none", "create", "delete"}
             /\ work[w].pc \in {"idle", "check", "mount", "dir", "unmount"}
        BY DEF ControllerInv, ShapeOK, WorkRecord
    <2>2. \A w \in Workers : work[w] # NoWork => work[w].claim \in PvNames /\ work[w].name \in PvNames
        BY DEF ControllerInv, WorkOK
    <2>3. \A n \in PvNames :
             /\ volume[n].state \in {"unbound", "bound", "released", "deleted"}
             /\ volume[n].waits \in Workers \cup {NoWorker}
        BY DEF ControllerInv, ShapeOK, VolumeRecord
    <2> QED
        BY <2>1, <2>2, <2>3 DEF ControllerInv, ShapeOK, ControllerTypeOK
<1>2. CreatedHasDirectory
    BY DEF ControllerInv, NameOK, CreatedHasDirectory, Has
<1>3. DeletedHasNoDirectory
    BY DEF ControllerInv, NameOK, DeletedHasNoDirectory, Gone
<1> QED
    BY <1>1, <1>2, <1>3

LEMMA NoWorkType == NoWork \in WorkRecord
<1>1. NoOptions \in Opts
    BY DEF Opts
<1> QED
    BY <1>1 DEF WorkRecord, NoWork

LEMMA ControllerStart == ControllerInit => ControllerInv
<1> SUFFICES ASSUME ControllerInit PROVE ControllerInv
    OBVIOUS
<1>0. <<>> \in Ids
    BY DEF Ids
<1>1. NoVolume \in VolumeRecord
    BY <1>0 DEF VolumeRecord, NoVolume
<1>2. ShapeOK
    BY <1>1, NoWorkType DEF ShapeOK, ControllerInit
<1>3. \A w \in Workers : WorkOK(w)
    BY DEF WorkOK, ControllerInit
<1>4. ASSUME NEW n \in PvNames PROVE NameOK(n)
    <2>1. volume[n].state = "unbound" /\ volume[n].waits = NoWorker /\ tmp[n] = <<>> /\ Len(tmp[n]) = 0
        BY DEF ControllerInit, NoVolume
    <2>2. Gone(n) /\ dirs = {}
        BY DEF ControllerInit, Gone
    <2> QED
        BY <2>1, <2>2 DEF NameOK
<1> QED
    BY <1>2, <1>3, <1>4 DEF ControllerInv

\* A step for name n by call w leaves the other names and calls alone.
Apart(w, n) ==
    /\ ShapeOK'
    /\ \A x \in Workers : x # w => work'[x] = work[x]
    /\ work[w] = NoWork \/ work[w].claim = n
    /\ work'[w] = NoWork \/ work'[w].claim = n
    /\ \A m \in PvNames : m # n =>
          /\ params'[m] = params[m] /\ volume'[m] = volume[m] /\ tmp'[m] = tmp[m]
          /\ m \in mixed' <=> m \in mixed
          /\ \A d : d[2] = m => (d \in dirs' <=> d \in dirs)

LEMMA OtherNames ==
    ASSUME ControllerInv, NEW w \in Workers, NEW n \in PvNames, Apart(w, n)
    PROVE  /\ \A m \in PvNames : m # n => NameOK(m)'
           /\ \A x \in Workers : work'[x] # NoWork /\ work'[x].claim # n => WorkOK(x)'
<1>1. ASSUME NEW m \in PvNames, m # n
      PROVE  /\ Gone(m)' <=> Gone(m)
             /\ Has(m)' <=> Has(m)
             /\ VolumeId(m)' = VolumeId(m)
             /\ Uncreated(m)' <=> Uncreated(m)
    <2>1. Gone(m)' <=> Gone(m)
        BY <1>1 DEF Apart, Gone
    <2>2. Has(m)' <=> Has(m)
        BY <1>1 DEF Apart, Has
    <2>3. VolumeId(m)' = VolumeId(m)
        BY <1>1 DEF Apart, VolumeId
    <2>4. Uncreated(m)' <=> Uncreated(m)
        BY <1>1 DEF Apart, Uncreated, NoWork
    <2> QED
        BY <2>1, <2>2, <2>3, <2>4
<1>2. ASSUME NEW m \in PvNames, m # n PROVE NameOK(m)'
    <2>1. NameOK(m) /\ volume[m].waits \in Workers \cup {NoWorker}
        BY DEF ControllerInv, ShapeOK, VolumeRecord
    <2>2. /\ params'[m] = params[m] /\ volume'[m] = volume[m] /\ tmp'[m] = tmp[m]
          /\ m \in mixed' <=> m \in mixed
          /\ \A d : d[2] = m => (d \in dirs' <=> d \in dirs)
        BY <1>2 DEF Apart
    <2>3. volume[m].waits # NoWorker => work'[volume[m].waits] = work[volume[m].waits]
        BY <1>2, <2>1 DEF NameOK, Apart
    <2> QED
        BY <1>1, <1>2, <2>1, <2>2, <2>3 DEF NameOK
<1>3. ASSUME NEW x \in Workers, work'[x] # NoWork, work'[x].claim # n PROVE WorkOK(x)'
    <2>1. work'[x] = work[x]
        BY <1>3 DEF Apart
    <2>2. WorkOK(x)
        BY DEF ControllerInv
    <2>3. PICK m \in PvNames : m = work[x].claim
        BY <1>3, <2>1, <2>2 DEF WorkOK
    <2>4. /\ params'[m] = params[m] /\ volume'[m] = volume[m] /\ tmp'[m] = tmp[m]
          /\ m \in mixed' <=> m \in mixed
        BY <1>3, <2>1, <2>3 DEF Apart
    <2> QED
        BY <1>1, <1>3, <2>1, <2>2, <2>3, <2>4 DEF WorkOK
<1> QED
    BY <1>2, <1>3

\* What is left to show of a step.
LEMMA ControllerStep ==
    ASSUME ControllerInv, NEW w \in Workers, NEW n \in PvNames, Apart(w, n), NameOK(n)',
           \A x \in Workers : work'[x] # NoWork /\ work'[x].claim = n => WorkOK(x)'
    PROVE  ControllerInv'
<1>1. \A x \in Workers : work'[x] = NoWork => WorkOK(x)'
    BY DEF WorkOK
<1> QED
    BY <1>1, OtherNames DEF ControllerInv, Apart

\* A call that stops, without the others noticing.
LEMMA FailsInv ==
    ASSUME ControllerInv, NEW w \in Workers, work[w] # NoWork, WorkFails(w),
           UNCHANGED <<params, dirs, tmp, mixed>>
    PROVE  ControllerInv'
<1>1. PICK n \in PvNames : n = work[w].claim
    BY DEF ControllerInv, WorkOK
<1>2. /\ work' \in [Workers -> WorkRecord] /\ work'[w] = NoWork
      /\ \A x \in Workers : x # w => work'[x] = work[x]
    BY NoWorkType DEF WorkFails, WorkEnds, ControllerInv, ShapeOK
<1>3. /\ volume' \in [PvNames -> VolumeRecord]
      /\ \A m \in PvNames : m # n => volume'[m] = volume[m]
      /\ volume'[n].state = volume[n].state /\ volume'[n].id = volume[n].id
      /\ volume'[n].waits = IF volume[n].waits = w THEN NoWorker ELSE volume[n].waits
    <2>1. volume' = IF volume[n].waits = w THEN [volume EXCEPT ![n] = [volume[n] EXCEPT !.waits = NoWorker]]
                                            ELSE volume
        BY <1>1 DEF WorkFails, WorkEnds
    <2>2. volume \in [PvNames -> VolumeRecord]
        BY DEF ControllerInv, ShapeOK
    <2>3. volume[n] \in VolumeRecord /\ [volume[n] EXCEPT !.waits = NoWorker] \in VolumeRecord
        BY <2>2 DEF VolumeRecord
    <2> QED
        BY <2>1, <2>2, <2>3 DEF VolumeRecord
<1>4. ShapeOK'
    BY <1>2, <1>3 DEF ControllerInv, ShapeOK
<1>5. Apart(w, n)
    BY <1>1, <1>2, <1>3, <1>4 DEF Apart
<1>6. /\ Gone(n)' <=> Gone(n)
      /\ Has(n)' <=> Has(n)
      /\ VolumeId(n)' = VolumeId(n)
      /\ Uncreated(n) => Uncreated(n)'
    BY <1>2 DEF Gone, Has, VolumeId, Uncreated, NoWork
<1>7. NameOK(n)'
    <2>1. NameOK(n) /\ volume[n].waits \in Workers \cup {NoWorker}
        BY DEF ControllerInv, ShapeOK, VolumeRecord
    <2>2. volume'[n].waits # NoWorker =>
              volume'[n].waits = volume[n].waits /\ work'[volume[n].waits] = work[volume[n].waits]
        BY <1>2, <1>3, <2>1
    <2> QED
        BY <1>3, <1>6, <2>1, <2>2 DEF NameOK
<1>8. ASSUME NEW x \in Workers, work'[x] # NoWork, work'[x].claim = n PROVE WorkOK(x)'
    <2>1. WorkOK(x) /\ work'[x] = work[x]
        BY <1>2, <1>8 DEF ControllerInv
    <2> QED
        BY <1>3, <1>6, <1>8, <2>1 DEF WorkOK
<1> QED
    BY <1>5, <1>7, <1>8, ControllerStep

\* What a call that goes on leaves alone.
LEMMA WorkOnFrame ==
    ASSUME ControllerInv, NEW w \in Workers, NEW n \in PvNames, work[w] # NoWork, n = work[w].claim,
           NEW pc \in {"check", "mount", "dir", "unmount"}, WorkOn(w, pc)
    PROVE  /\ work' \in [Workers -> WorkRecord] /\ volume' = volume
           /\ \A x \in Workers : x # w => work'[x] = work[x]
           /\ work'[w].op = work[w].op /\ work'[w].pc = pc /\ work'[w].claim = n
           /\ work'[w].name = work[w].name /\ work'[w].opt = work[w].opt
           /\ Uncreated(n)' <=> Uncreated(n)
<1>1. work \in [Workers -> WorkRecord]
    BY DEF ControllerInv, ShapeOK
<1>2. /\ work' \in [Workers -> WorkRecord] /\ volume' = volume
      /\ \A x \in Workers : x # w => work'[x] = work[x]
      /\ work'[w].op = work[w].op /\ work'[w].pc = pc /\ work'[w].claim = n
      /\ work'[w].name = work[w].name /\ work'[w].opt = work[w].opt
    BY <1>1 DEF WorkOn, WorkRecord
<1> QED
    BY <1>2 DEF Uncreated

\* A call that goes on: what it may do to the mount and the directory of its
\* name, and what it must know then.
LEMMA GoesOnInv ==
    ASSUME ControllerInv, NEW w \in Workers, NEW n \in PvNames, work[w] # NoWork, n = work[w].claim,
           NEW pc \in {"check", "mount", "dir", "unmount"}, WorkOn(w, pc),
           UNCHANGED <<params, mixed>>, tmp' \in [PvNames -> Seq(Exports)],
           dirs' \subseteq Exports \X PvNames,
           \A m \in PvNames : m # n => tmp'[m] = tmp[m],
           tmp[n] # <<>> => tmp'[n] # <<>>,
           \A i \in 1..Len(tmp'[n]) : tmp'[n][i] = params[n],
           \A d : d[2] # n => (d \in dirs' <=> d \in dirs),
           \A d \in dirs' : d[2] = n => d[1] = params[n],
           volume[n].state \in {"unbound", "bound"} => (Has(n) => Has(n)'),
           n \notin mixed /\ (work[w].op = "delete" \/ Uncreated(n)) => (Gone(n) => Gone(n)'),
           work[w].op = "delete" /\ n \notin mixed =>
              /\ pc = "dir" => tmp'[n] # <<>> \/ Gone(n)'
              /\ pc = "unmount" => Gone(n)',
           work[w].op = "create" /\ volume[n].state \in {"unbound", "bound"} =>
              /\ pc = "dir" => tmp'[n] # <<>> \/ Has(n)'
              /\ pc = "unmount" => Has(n)'
    PROVE  ControllerInv'
<1>1. /\ work' \in [Workers -> WorkRecord] /\ volume' = volume
      /\ \A x \in Workers : x # w => work'[x] = work[x]
      /\ work'[w].op = work[w].op /\ work'[w].pc = pc /\ work'[w].claim = n
      /\ work'[w].name = work[w].name /\ work'[w].opt = work[w].opt
      /\ Uncreated(n)' <=> Uncreated(n)
    BY WorkOnFrame
<1>2. ShapeOK'
    BY <1>1 DEF ControllerInv, ShapeOK
<1>3. Apart(w, n)
    BY <1>1, <1>2 DEF Apart
<1>4. VolumeId(n)' = VolumeId(n)
    BY DEF VolumeId
<1>5. WorkOK(w) /\ NameOK(n) /\ volume[n].waits \in Workers \cup {NoWorker}
    BY DEF ControllerInv, ShapeOK, VolumeRecord
<1>6. work'[w] # NoWork
    BY <1>1 DEF NoWork
<1>7. NameOK(n)'
    <2>1. volume[n].waits # NoWorker =>
              /\ work'[volume[n].waits].op = work[volume[n].waits].op
              /\ work'[volume[n].waits].claim = n /\ work'[volume[n].waits] # NoWork
        BY <1>1, <1>5, <1>6 DEF NameOK
    <2>2. params[n] # NoOptions
        BY <1>5 DEF WorkOK
    <2> QED
        BY <1>1, <1>4, <1>5, <2>1, <2>2 DEF NameOK
<1>8. ASSUME NEW x \in Workers, work'[x] # NoWork, work'[x].claim = n PROVE WorkOK(x)'
    <2>1. CASE x = w
        BY <1>1, <1>5, <2>1 DEF WorkOK
    <2>2. CASE x # w
        <3>1. WorkOK(x) /\ work'[x] = work[x]
            BY <1>1, <2>2 DEF ControllerInv
        <3> QED
            BY <1>1, <1>8, <3>1 DEF WorkOK
    <2> QED
        BY <2>1, <2>2
<1> QED
    BY <1>3, <1>7, <1>8, ControllerStep

LEMMA WorkFacts ==
    ASSUME ControllerInv, NEW w \in Workers, work[w].pc # "idle"
    PROVE  /\ work[w] # NoWork /\ WorkOK(w)
           /\ work[w].claim \in PvNames /\ work[w].name = work[w].claim
           /\ work[w].op \in {"create", "delete"}
           /\ NameOK(work[w].claim)
           /\ tmp[work[w].claim] \in Seq(Exports)
BY DEF ControllerInv, WorkOK, NoWork, ShapeOK

LEMMA MountCheckInv ==
    ASSUME ControllerInv, NEW w \in Workers, MountCheck(w)
    PROVE  ControllerInv'
<1>1. work[w].pc = "check" /\ UNCHANGED <<params, dirs, tmp, mixed>>
    BY DEF MountCheck
<1>2. PICK n \in PvNames : n = work[w].claim
    BY <1>1, WorkFacts
<1>3. work[w] # NoWork /\ work[w].name = n /\ NameOK(n) /\ ShapeOK
    BY <1>1, <1>2, WorkFacts DEF ControllerInv
<1>4. /\ Gone(n)' <=> Gone(n)
      /\ Has(n)' <=> Has(n)
    BY <1>1 DEF Gone, Has
<1>5. ASSUME NEW pc \in {"dir", "mount"}, WorkOn(w, pc), pc = "dir" => tmp[n] # <<>> PROVE ControllerInv'
    <2>1. pc \in {"check", "mount", "dir", "unmount"} /\ pc # "unmount"
        OBVIOUS
    <2>2. /\ tmp' \in [PvNames -> Seq(Exports)]
          /\ dirs' \subseteq Exports \X PvNames
          /\ \A i \in 1..Len(tmp'[n]) : tmp'[n][i] = params[n]
          /\ \A d \in dirs' : d[2] = n => d[1] = params[n]
        BY <1>1, <1>3 DEF ShapeOK, NameOK
    <2> QED
        BY <1>1, <1>2, <1>3, <1>4, <1>5, <2>1, <2>2, GoesOnInv
<1>6. CASE WorkFails(w)
    BY <1>1, <1>3, <1>6, FailsInv
<1> QED
    BY <1>3, <1>5, <1>6 DEF MountCheck

LEMMA MountTempInv ==
    ASSUME ControllerInv, NEW w \in Workers, MountTemp(w)
    PROVE  ControllerInv'
<1>1. work[w].pc = "mount" /\ UNCHANGED <<params, dirs, mixed>>
    BY DEF MountTemp
<1>2. PICK n \in PvNames : n = work[w].claim
    BY <1>1, WorkFacts
<1>3. work[w] # NoWork /\ work[w].name = n /\ NameOK(n) /\ ShapeOK /\ WorkOK(w)
    BY <1>1, <1>2, WorkFacts DEF ControllerInv
<1>4. CASE WorkFails(w) /\ UNCHANGED tmp
    BY <1>1, <1>3, <1>4, FailsInv
<1>5. CASE /\ work[w].opt \in Exports
           /\ tmp' = [tmp EXCEPT ![work[w].name] = <<work[w].opt>> \o @]
           /\ WorkOn(w, "dir")
    <2>1. PICK e \in Exports : e = work[w].opt
        BY <1>5
    <2>2. e = params[n]
        BY <1>2, <1>3, <2>1 DEF WorkOK
    <2>3. tmp[n] \in Seq(Exports) /\ tmp \in [PvNames -> Seq(Exports)]
        BY <1>3 DEF ShapeOK
    <2>4. PICK t \in Seq(Exports) : t = <<e>> \o tmp[n]
        <3>1. <<e>> \in Seq(Exports)
            OBVIOUS
        <3> QED
            BY <2>3, <3>1, ConcatProperties
    <2>5. t # <<>> /\ \A i \in 1..Len(t) : t[i] = params[n]
        <3>1. Len(tmp[n]) \in Nat /\ \A i \in 1..Len(tmp[n]) : tmp[n][i] = params[n]
            BY <1>3, <2>3 DEF NameOK
        <3>2. Len(t) = 1 + Len(tmp[n]) /\ t[1] = e /\ \A i \in 1..Len(tmp[n]) : t[i + 1] = tmp[n][i]
            BY <2>3, <2>4
        <3>3. \A i \in 1..(1 + Len(tmp[n])) : i = 1 \/ (i - 1 \in 1..Len(tmp[n]) /\ (i - 1) + 1 = i)
            BY <3>1
        <3>4. \A i \in 1..Len(t) : t[i] = params[n]
            BY <3>1, <3>2, <3>3, <2>2
        <3>5. Len(t) # 0
            BY <3>1, <3>2
        <3> QED
            BY <3>4, <3>5
    <2>6. tmp' = [tmp EXCEPT ![n] = t]
        BY <1>3, <1>5, <2>1, <2>4
    <2>7. /\ tmp' \in [PvNames -> Seq(Exports)] /\ tmp'[n] = t
          /\ \A m \in PvNames : m # n => tmp'[m] = tmp[m]
        BY <2>3, <2>6
    <2>8. /\ dirs' \subseteq Exports \X PvNames
          /\ \A d \in dirs' : d[2] = n => d[1] = params[n]
        BY <1>1, <1>3 DEF ShapeOK, NameOK
    <2>9. (Gone(n)' <=> Gone(n)) /\ (Has(n)' <=> Has(n))
        BY <1>1 DEF Gone, Has
    <2>10. WorkOn(w, "dir")
        BY <1>5
    <2> QED
        BY <1>1, <1>2, <1>3, <2>5, <2>7, <2>8, <2>9, <2>10, GoesOnInv
<1> QED
    BY <1>4, <1>5 DEF MountTemp

LEMMA ReachedIsOwn ==
    ASSUME ControllerInv, NEW w \in Workers, NEW n \in PvNames, n = work[w].claim, work[w].pc = "dir"
    PROVE  /\ Reached(w) = IF tmp[n] = <<>> THEN {} ELSE {<<params[n], n>>}
           /\ Reached(w) \subseteq Exports \X PvNames
<1>1. work[w].name = n /\ NameOK(n) /\ tmp[n] \in Seq(Exports)
    BY WorkFacts
<1>2. tmp[n] # <<>> => Head(tmp[n]) = params[n] /\ Head(tmp[n]) \in Exports
    BY <1>1 DEF NameOK
<1>3. Reached(w) = IF tmp[n] = <<>> THEN {} ELSE {<<Head(tmp[n]), n>>}
    BY <1>1 DEF Reached
<1>4. CASE tmp[n] = <<>>
    BY <1>3, <1>4
<1>5. CASE tmp[n] # <<>>
    <2>1. PICK e \in Exports : e = Head(tmp[n])
        BY <1>2, <1>5
    <2> QED
        BY <1>2, <1>3, <1>5, <2>1
<1> QED
    BY <1>4, <1>5

LEMMA MakeDirectoryInv ==
    ASSUME ControllerInv, NEW w \in Workers, MakeDirectory(w)
    PROVE  ControllerInv'
<1>1. work[w].op = "create" /\ work[w].pc = "dir" /\ UNCHANGED <<params, tmp, mixed>>
    BY DEF MakeDirectory
<1>2. PICK n \in PvNames : n = work[w].claim
    BY <1>1, WorkFacts
<1>3. work[w] # NoWork /\ work[w].name = n /\ NameOK(n) /\ ShapeOK /\ WorkOK(w)
    BY <1>1, <1>2, WorkFacts DEF ControllerInv
<1>4. CASE WorkFails(w) /\ UNCHANGED dirs
    BY <1>1, <1>3, <1>4, FailsInv
<1>5. CASE dirs' = dirs \cup Reached(w) /\ WorkOn(w, "unmount")
    <2>1. /\ Reached(w) = IF tmp[n] = <<>> THEN {} ELSE {<<params[n], n>>}
          /\ Reached(w) \subseteq Exports \X PvNames
        BY <1>1, <1>2, ReachedIsOwn
    <2>2. /\ tmp' \in [PvNames -> Seq(Exports)]
          /\ \A i \in 1..Len(tmp'[n]) : tmp'[n][i] = params[n]
          /\ dirs' \subseteq Exports \X PvNames
        BY <1>1, <1>3, <1>5, <2>1 DEF ShapeOK, NameOK
    <2>3. /\ \A d : d[2] # n => (d \in dirs' <=> d \in dirs)
          /\ \A d \in dirs' : d[2] = n => d[1] = params[n]
        BY <1>3, <1>5, <2>1 DEF NameOK
    <2>4. Has(n) => Has(n)'
        BY <1>1, <1>5 DEF Has
    <2>5. ~ Uncreated(n)
        BY <1>1, <1>2 DEF Uncreated
    <2>6. volume[n].state \in {"unbound", "bound"} => Has(n)'
        <3>1. tmp[n] # <<>> => Has(n)'
            BY <1>1, <1>5, <2>1 DEF Has
        <3> QED
            BY <1>1, <1>2, <1>3, <2>4, <3>1 DEF WorkOK
    <2>7. WorkOn(w, "unmount")
        BY <1>5
    <2> QED
        BY <1>1, <1>2, <1>3, <2>2, <2>3, <2>4, <2>5, <2>6, <2>7, GoesOnInv
<1> QED
    BY <1>4, <1>5 DEF MakeDirectory

LEMMA RemoveDirectoryInv ==
    ASSUME ControllerInv, NEW w \in Workers, RemoveDirectory(w)
    PROVE  ControllerInv'
<1>1. work[w].op = "delete" /\ work[w].pc = "dir" /\ UNCHANGED <<params, tmp, mixed>>
    BY DEF RemoveDirectory
<1>2. PICK n \in PvNames : n = work[w].claim
    BY <1>1, WorkFacts
<1>3. work[w] # NoWork /\ work[w].name = n /\ NameOK(n) /\ ShapeOK /\ WorkOK(w)
    BY <1>1, <1>2, WorkFacts DEF ControllerInv
<1>4. CASE WorkFails(w) /\ UNCHANGED dirs
    BY <1>1, <1>3, <1>4, FailsInv
<1>5. CASE dirs' = dirs \ Reached(w) /\ WorkOn(w, "unmount")
    <2>1. Reached(w) = IF tmp[n] = <<>> THEN {} ELSE {<<params[n], n>>}
        BY <1>1, <1>2, ReachedIsOwn
    <2>2. /\ tmp' \in [PvNames -> Seq(Exports)]
          /\ \A i \in 1..Len(tmp'[n]) : tmp'[n][i] = params[n]
          /\ dirs' \subseteq Exports \X PvNames
        BY <1>1, <1>3, <1>5 DEF ShapeOK, NameOK
    <2>3. /\ \A d : d[2] # n => (d \in dirs' <=> d \in dirs)
          /\ \A d \in dirs' : d[2] = n => d[1] = params[n]
        BY <1>3, <1>5, <2>1 DEF NameOK
    <2>4. volume[n].state \notin {"unbound", "bound"}
        BY <1>1, <1>2, <1>3 DEF WorkOK
    <2>5. Gone(n) => Gone(n)'
        BY <1>5 DEF Gone
    <2>6. n \notin mixed => Gone(n)'
        <3>1. ASSUME tmp[n] # <<>>, NEW d \in dirs, d[2] = n PROVE d \in Reached(w)
            <4>1. d[1] = params[n] /\ d \in Exports \X PvNames
                BY <1>3, <3>1 DEF NameOK, ShapeOK
            <4> QED
                BY <2>1, <3>1, <4>1
        <3>2. tmp[n] # <<>> => Gone(n)'
            BY <1>5, <3>1 DEF Gone
        <3> QED
            BY <1>1, <1>2, <1>3, <2>5, <3>2 DEF WorkOK
    <2>7. WorkOn(w, "unmount")
        BY <1>5
    <2> QED
        BY <1>1, <1>2, <1>3, <2>2, <2>3, <2>4, <2>5, <2>6, <2>7, GoesOnInv
<1> QED
    BY <1>4, <1>5 DEF RemoveDirectory

LEMMA IdIsOf == \A n : VolumeId(n) = IdOf(params[n], n)
BY DEF VolumeId, IdOf

\* The end of a call that the provisioner may have given up.
LEMMA EndedVolume ==
    ASSUME ControllerInv, NEW w \in Workers, NEW n \in PvNames, n = work[w].claim, work[w] # NoWork,
           WorkEnds(w, IF work[w].op = "create" THEN Created(n) ELSE Removed(n))
    PROVE  /\ volume' \in [PvNames -> VolumeRecord]
           /\ \A m \in PvNames : m # n => volume'[m] = volume[m]
           /\ volume[n].waits # w => volume'[n] = volume[n]
           /\ volume[n].waits = w => volume'[n].waits = NoWorker
           /\ volume[n].waits = w /\ work[w].op = "create" =>
                 volume'[n].state = "bound" /\ volume'[n].id = VolumeId(n)
           /\ volume[n].waits = w /\ work[w].op # "create" =>
                 volume'[n].state = "deleted" /\ volume'[n].id = volume[n].id
<1>1. volume \in [PvNames -> VolumeRecord] /\ volume[n] \in VolumeRecord
    BY DEF ControllerInv, ShapeOK
<1>2. VolumeId(n) \in Ids
    <2>1. params[n] # NoOptions
        BY DEF ControllerInv, WorkOK
    <2>2. params[n] \in TurboClasses
        BY <2>1 DEF ControllerInv, ShapeOK
    <2> QED
        BY <2>2, IdIsOf DEF Ids
<1>3. CASE volume[n].waits = w /\ work[w].op = "create"
    <2>1. volume' = [volume EXCEPT ![n] = [Created(n) EXCEPT !.waits = NoWorker]]
        BY <1>3 DEF WorkEnds
    <2>2. PICK v \in VolumeRecord : v = [state |-> "bound", id |-> VolumeId(n), waits |-> NoWorker]
        BY <1>2 DEF VolumeRecord
    <2>3. PICK q \in VolumeRecord : q = [state |-> "bound", id |-> VolumeId(n), waits |-> volume[n].waits]
        BY <1>1, <1>2 DEF VolumeRecord
    <2>4. Created(n) = q
        <3>1. PICK r \in VolumeRecord : r = [state |-> "bound", id |-> volume[n].id,
              waits |-> volume[n].waits]
            BY <1>1 DEF VolumeRecord
        <3>2. [volume[n] EXCEPT !.state = "bound"] = r
            BY <1>1, <3>1 DEF VolumeRecord
        <3>3. [r EXCEPT !.id = VolumeId(n)] = q
            BY <2>3, <3>1
        <3>4. Created(n) = [[volume[n] EXCEPT !.state = "bound"] EXCEPT !.id = VolumeId(n)]
            BY DEF Created
        <3> QED
            BY <3>2, <3>3, <3>4
    <2>5. [q EXCEPT !.waits = NoWorker] = v
        BY <2>2, <2>3 DEF VolumeRecord
    <2>6. volume' = [volume EXCEPT ![n] = v]
        BY <2>1, <2>4, <2>5
    <2>7. v.state = "bound" /\ v.id = VolumeId(n) /\ v.waits = NoWorker
        BY <2>2
    <2> QED
        BY <1>1, <1>3, <2>6, <2>7
<1>4. CASE volume[n].waits = w /\ work[w].op # "create"
    <2>1. volume' = [volume EXCEPT ![n] = [Removed(n) EXCEPT !.waits = NoWorker]]
        BY <1>4 DEF WorkEnds
    <2>2. PICK v \in VolumeRecord : v = [state |-> "deleted", id |-> volume[n].id, waits |-> NoWorker]
        BY <1>1 DEF VolumeRecord
    <2>3. PICK q \in VolumeRecord : q = [state |-> "deleted", id |-> volume[n].id, waits |-> volume[n].waits]
        BY <1>1 DEF VolumeRecord
    <2>4. Removed(n) = q
        BY <1>1, <2>3 DEF Removed, VolumeRecord
    <2>5. [q EXCEPT !.waits = NoWorker] = v
        BY <2>2, <2>3 DEF VolumeRecord
    <2>6. volume' = [volume EXCEPT ![n] = v]
        BY <2>1, <2>4, <2>5
    <2>7. v.state = "deleted" /\ v.id = volume[n].id /\ v.waits = NoWorker
        BY <2>2
    <2> QED
        BY <1>1, <1>4, <2>6, <2>7
<1>5. CASE volume[n].waits # w
    BY <1>1, <1>5 DEF WorkEnds
<1> QED
    BY <1>3, <1>4, <1>5

LEMMA UnmountTempInv ==
    ASSUME ControllerInv, NEW w \in Workers, UnmountTemp(w)
    PROVE  ControllerInv'
<1>1. work[w].pc = "unmount" /\ UNCHANGED <<params, dirs, mixed>>
    BY DEF UnmountTemp
<1>2. PICK n \in PvNames : n = work[w].claim
    BY <1>1, WorkFacts
<1>3. /\ work[w] # NoWork /\ work[w].name = n /\ NameOK(n) /\ ShapeOK /\ WorkOK(w)
      /\ work[w].op \in {"create", "delete"}
    BY <1>1, <1>2, WorkFacts DEF ControllerInv
<1>4. CASE WorkFails(w) /\ UNCHANGED tmp
    BY <1>1, <1>3, <1>4, FailsInv
<1>5. CASE /\ tmp[work[w].name] # <<>>
           /\ tmp' = [tmp EXCEPT ![work[w].name] = Tail(@)]
           /\ WorkEnds(w, IF work[w].op = "create" THEN Created(n) ELSE Removed(n))
    <2>1. /\ work' \in [Workers -> WorkRecord] /\ work'[w] = NoWork
          /\ \A x \in Workers : x # w => work'[x] = work[x]
        BY <1>3, <1>5, NoWorkType DEF WorkEnds, ShapeOK
    <2>2. /\ volume' \in [PvNames -> VolumeRecord]
          /\ \A m \in PvNames : m # n => volume'[m] = volume[m]
          /\ volume[n].waits # w => volume'[n] = volume[n]
          /\ volume[n].waits = w => volume'[n].waits = NoWorker
          /\ volume[n].waits = w /\ work[w].op = "create" =>
                volume'[n].state = "bound" /\ volume'[n].id = VolumeId(n)
          /\ volume[n].waits = w /\ work[w].op # "create" =>
                volume'[n].state = "deleted" /\ volume'[n].id = volume[n].id
        BY <1>2, <1>3, <1>5, EndedVolume
    <2>3. tmp[n] \in Seq(Exports) /\ tmp[n] # <<>> /\ tmp \in [PvNames -> Seq(Exports)]
        BY <1>3, <1>5 DEF ShapeOK
    <2>4. PICK t \in Seq(Exports) : t = Tail(tmp[n])
        BY <2>3, HeadTailProperties
    <2>5. \A i \in 1..Len(t) : t[i] = params[n]
        <3>1. Len(t) = Len(tmp[n]) - 1 /\ Len(tmp[n]) \in Nat /\ \A i \in 1..Len(t) : t[i] = tmp[n][i + 1]
            BY <2>3, <2>4, HeadTailProperties
        <3>2. \A i \in 1..Len(t) : i + 1 \in 1..Len(tmp[n])
            BY <3>1
        <3> QED
            BY <1>3, <3>1, <3>2 DEF NameOK
    <2>6. /\ tmp' \in [PvNames -> Seq(Exports)] /\ tmp'[n] = t
          /\ \A m \in PvNames : m # n => tmp'[m] = tmp[m]
        BY <1>3, <1>5, <2>3, <2>4
    <2>7. ShapeOK'
        BY <1>1, <1>3, <2>1, <2>2, <2>6 DEF ShapeOK
    <2>8. Apart(w, n)
        BY <1>1, <1>2, <2>1, <2>2, <2>6, <2>7 DEF Apart
    <2>9. /\ Gone(n)' <=> Gone(n)
          /\ Has(n)' <=> Has(n)
          /\ VolumeId(n)' = VolumeId(n)
          /\ Uncreated(n) => Uncreated(n)'
        BY <1>1, <2>1 DEF Gone, Has, VolumeId, Uncreated, NoWork
    <2>10. /\ params[n] # NoOptions
           /\ work[w].op = "delete" => volume[n].state \in {"released", "deleted"}
           /\ work[w].op = "delete" /\ n \notin mixed => Gone(n) /\ Uncreated(n)
           /\ work[w].op = "create" => ~ Uncreated(n)
           /\ work[w].op = "create" /\ volume[n].state \in {"unbound", "bound"} => Has(n)
           /\ volume[n].waits = w => volume[n].state = IF work[w].op = "create" THEN "unbound" ELSE "released"
        <3>1. w # NoWorker
            BY ControllerAssumption
        <3> QED
            BY <1>1, <1>2, <1>3, <3>1 DEF WorkOK, NameOK, Uncreated
    <2>11. NameOK(n)'
        <3>1. volume'[n].waits # NoWorker =>
                  volume'[n] = volume[n] /\ work'[volume[n].waits] = work[volume[n].waits]
            <4>1. volume[n].waits \in Workers \cup {NoWorker}
                BY <1>3 DEF ShapeOK, VolumeRecord
            <4> QED
                BY <2>1, <2>2, <4>1
        <3>2. volume'[n].waits # NoWorker =>
                LET x == volume'[n].waits
                IN  /\ work'[x].claim = n /\ work'[x] # NoWork
                    /\ volume'[n].state = IF work'[x].op = "create" THEN "unbound" ELSE "released"
            BY <1>3, <3>1 DEF NameOK
        <3>3. volume'[n].state # "unbound" => volume'[n].id = VolumeId(n)'
            BY <1>3, <2>2, <2>9, <2>10 DEF NameOK
        <3>4. volume'[n].state = "bound" => Has(n)'
            BY <1>3, <2>2, <2>9, <2>10 DEF NameOK
        <3>5. volume'[n].state = "deleted" /\ n \notin mixed => Gone(n)' /\ Uncreated(n)'
            BY <1>3, <2>2, <2>9, <2>10 DEF NameOK
        <3> QED
            BY <1>1, <1>3, <2>5, <2>6, <2>10, <3>2, <3>3, <3>4, <3>5 DEF NameOK
    <2>12. ASSUME NEW x \in Workers, work'[x] # NoWork, work'[x].claim = n PROVE WorkOK(x)'
        <3>1. WorkOK(x) /\ work'[x] = work[x] /\ work[x] # NoWork /\ work[x].claim = n
            BY <2>1, <2>12 DEF ControllerInv
        <3>2. work[x].op = "delete" /\ n \notin mixed => work[w].op = "delete" /\ Gone(n)
            BY <1>3, <2>10, <3>1 DEF WorkOK
        <3>3. volume'[n].state \in {"unbound", "bound"} => Has(n)
            BY <1>3, <2>2, <2>10
        <3>4. work[x].op = "delete" => volume'[n].state \in {"released", "deleted"}
            BY <2>2, <2>10, <3>1 DEF WorkOK
        <3> QED
            BY <1>1, <2>9, <3>1, <3>2, <3>3, <3>4 DEF WorkOK
    <2> QED
        BY <2>8, <2>11, <2>12, ControllerStep
<1> QED
    BY <1>2, <1>4, <1>5 DEF UnmountTemp

\* A call that starts is the only change, and the provisioner waits for it.
LEMMA StartedWork ==
    ASSUME ControllerInv, NEW w \in Workers, NEW n \in PvNames, NEW op \in {"create", "delete"},
           NEW opt \in Opts, NEW state \in {"unbound", "released"}, StartWork(w, op, n, n, opt, state)
    PROVE  /\ work' \in [Workers -> WorkRecord]
           /\ \A x \in Workers : x # w => work'[x] = work[x]
           /\ work[w] = NoWork /\ work'[w] # NoWork
           /\ work'[w].op = op /\ work'[w].pc = "check" /\ work'[w].claim = n
           /\ work'[w].name = n /\ work'[w].opt = opt
           /\ volume' \in [PvNames -> VolumeRecord]
           /\ \A m \in PvNames : m # n => volume'[m] = volume[m]
           /\ volume'[n].waits = w /\ volume'[n].state = state /\ volume'[n].id = volume[n].id
<1>1. PICK r \in WorkRecord : r = [op |-> op, pc |-> "check", claim |-> n, name |-> n, opt |-> opt]
    BY DEF WorkRecord
<1>2. work' = [work EXCEPT ![w] = r] /\ work \in [Workers -> WorkRecord]
    BY <1>1 DEF StartWork, ControllerInv, ShapeOK
<1>3. r.op = op /\ r.pc = "check" /\ r.claim = n /\ r.name = n /\ r.opt = opt /\ r # NoWork
    BY <1>1 DEF NoWork
<1>4. volume \in [PvNames -> VolumeRecord] /\ volume[n] \in VolumeRecord
    BY DEF ControllerInv, ShapeOK
<1>5. PICK q \in VolumeRecord : q = [state |-> volume[n].state, id |-> volume[n].id, waits |-> w]
    BY <1>4 DEF VolumeRecord
<1>6. PICK v \in VolumeRecord : v = [state |-> state, id |-> volume[n].id, waits |-> w]
    BY <1>4 DEF VolumeRecord
<1>7. volume' = [volume EXCEPT ![n] = v]
    <2>1. [volume[n] EXCEPT !.waits = w] = q
        BY <1>4, <1>5 DEF VolumeRecord
    <2>2. [q EXCEPT !.state = state] = v
        BY <1>5, <1>6
    <2>3. volume' = [volume EXCEPT ![n] = [[volume[n] EXCEPT !.waits = w] EXCEPT !.state = state]]
        BY <1>4 DEF StartWork
    <2> QED
        BY <2>1, <2>2, <2>3
<1>8. v.waits = w /\ v.state = state /\ v.id = volume[n].id
    BY <1>6
<1>9. work[w] = NoWork
    BY DEF StartWork
<1> QED
    BY <1>2, <1>3, <1>4, <1>7, <1>8, <1>9

LEMMA CreateVolumeInv ==
    ASSUME ControllerInv, NEW w \in Workers, NEW n \in PvNames, CreateVolume(w, n)
    PROVE  ControllerInv'
<1>1. /\ volume[n].state = "unbound" /\ params[n].fsid # <<>> /\ UNCHANGED <<params, dirs, tmp, mixed>>
      /\ StartWork(w, "create", n, n, params[n], "unbound")
    BY DEF CreateVolume, StartWork
<1>2. params[n] # NoOptions /\ params[n] \in Opts /\ ShapeOK /\ NameOK(n)
    BY <1>1 DEF NoOptions, Opts, ControllerInv, ShapeOK
<1>3. /\ work' \in [Workers -> WorkRecord]
      /\ \A x \in Workers : x # w => work'[x] = work[x]
      /\ work[w] = NoWork /\ work'[w] # NoWork
      /\ work'[w].op = "create" /\ work'[w].pc = "check" /\ work'[w].claim = n
      /\ work'[w].name = n /\ work'[w].opt = params[n]
      /\ volume' \in [PvNames -> VolumeRecord]
      /\ \A m \in PvNames : m # n => volume'[m] = volume[m]
      /\ volume'[n].waits = w /\ volume'[n].state = "unbound" /\ volume'[n].id = volume[n].id
    BY <1>1, <1>2, StartedWork
<1>4. ShapeOK'
    BY <1>1, <1>2, <1>3 DEF ShapeOK
<1>5. Apart(w, n)
    BY <1>1, <1>3, <1>4 DEF Apart
<1>6. (Gone(n)' <=> Gone(n)) /\ (Has(n)' <=> Has(n))
    BY <1>1 DEF Gone, Has
<1>7. NameOK(n)'
    BY <1>1, <1>2, <1>3, <1>6 DEF NameOK
<1>8. ASSUME NEW x \in Workers, work'[x] # NoWork, work'[x].claim = n PROVE WorkOK(x)'
    <2>1. CASE x = w
        BY <1>1, <1>2, <1>3, <2>1 DEF WorkOK
    <2>2. CASE x # w
        <3>1. WorkOK(x) /\ work'[x] = work[x] /\ work[x].op = "create"
            BY <1>1, <1>3, <1>8, <2>2 DEF ControllerInv, WorkOK
        <3> QED
            BY <1>1, <1>3, <1>6, <1>8, <3>1 DEF WorkOK
    <2> QED
        BY <2>1, <2>2
<1> QED
    BY <1>5, <1>7, <1>8, ControllerStep

\* The id of a volume leads a delete to its own name, and to its own file
\* system or to none.
LEMMA IdLeadsHome ==
    ASSUME ControllerInv, NEW n \in PvNames, params[n] # NoOptions
    PROVE  LET o == getCfsTurboOptionsFromVolumeId(VolumeId(n))
               opt == [fsid |-> o.fsid, host |-> o.host]
           IN  o.name = n /\ opt \in Opts /\ (opt \in Exports => opt = params[n])
<1>1. PICK c \in TurboClasses : c = params[n]
    BY DEF ControllerInv, ShapeOK
<1>2. PICK o : o = getCfsTurboOptionsFromVolumeId(VolumeId(n))
    OBVIOUS
<1>3. Parsed(o, c.fsid, c.host, n)
    <2> DEFINE S == STRING \cup {"-", "/", ClusterId}
    <2>1. /\ c \in [fsid : Seq(STRING), host : Seq(STRING)] /\ n \in Seq(STRING)
        BY ControllerAssumption
    <2>2. STRING \subseteq S /\ "-" \in S /\ "/" \in S /\ ClusterId \in S
        OBVIOUS
    <2>3. c.fsid \in Seq(STRING) /\ c.host \in Seq(STRING)
        BY <2>1
    <2> HIDE DEF S
    <2>4. c.fsid \in Seq(S) /\ c.host \in Seq(S) /\ n \in Seq(S)
        BY <2>1, <2>2, <2>3, SeqMonotonic
    <2>5. Lacks(c.fsid, "-") /\ Lacks(c.host, "/") /\ Lacks(n, "/") /\ ClusterId # "/"
        BY <2>1, <2>3, IdAssumption DEF Lacks
    <2>6. VolumeId(n) = IdOf(c, n)
        BY <1>1, IdIsOf
    <2> QED
        BY <1>2, <2>2, <2>4, <2>5, <2>6, TakenApart DEF IdOf
<1>4. PICK opt : opt = [fsid |-> o.fsid, host |-> o.host]
    OBVIOUS
<1>5. o.name = n /\ o.fsid = c.fsid
    BY <1>3 DEF Parsed
<1>6. c \in [fsid : Seq(STRING), host : Seq(STRING)]
    BY ControllerAssumption
<1>7. CASE o.host = c.host
    <2>1. opt = c
        BY <1>4, <1>5, <1>6, <1>7
    <2> QED
        BY <1>1, <1>2, <1>4, <1>5, <2>1 DEF Opts
<1>8. ASSUME NEW i \in DOMAIN c.host, c.host[i] = "-", o.host = SubSeq(c.host, 1, i - 1)
      PROVE  opt \in Opts /\ opt \notin Exports
    <2>1. opt.fsid = c.fsid /\ opt.host = SubSeq(c.host, 1, i - 1)
        BY <1>4, <1>5, <1>8
    <2>2. opt \notin Exports
        BY <1>8, <2>1, IdAssumption
    <2>3. opt \in {[fsid |-> c.fsid, host |-> SubSeq(c.host, 1, j - 1)] : j \in DOMAIN c.host}
        BY <1>4, <1>5, <1>8
    <2> QED
        BY <2>2, <2>3 DEF Opts
<1> QED
    BY <1>2, <1>3, <1>4, <1>5, <1>7, <1>8 DEF Parsed

LEMMA DeleteVolumeInv ==
    ASSUME ControllerInv, NEW w \in Workers, NEW n \in PvNames, DeleteVolume(w, n)
    PROVE  ControllerInv'
<1> DEFINE o == getCfsTurboOptionsFromVolumeId(volume[n].id)
           opt == [fsid |-> o.fsid, host |-> o.host]
<1>1. /\ volume[n].state \in {"bound", "released"} /\ UNCHANGED <<params, dirs, tmp>>
      /\ StartWork(w, "delete", n, o.name, opt, "released")
      /\ mixed' = IF Creating(n) THEN mixed \cup {n} ELSE mixed
    BY DEF DeleteVolume, StartWork
<1>2. params[n] # NoOptions /\ volume[n].id = VolumeId(n) /\ ShapeOK /\ NameOK(n)
    BY <1>1 DEF ControllerInv, NameOK
<1>3. o.name = n /\ opt \in Opts /\ (opt \in Exports => opt = params[n])
    BY <1>2, IdLeadsHome
<1> HIDE DEF o, opt
<1>4. /\ work' \in [Workers -> WorkRecord]
      /\ \A x \in Workers : x # w => work'[x] = work[x]
      /\ work[w] = NoWork /\ work'[w] # NoWork
      /\ work'[w].op = "delete" /\ work'[w].pc = "check" /\ work'[w].claim = n
      /\ work'[w].name = n /\ work'[w].opt = opt
      /\ volume' \in [PvNames -> VolumeRecord]
      /\ \A m \in PvNames : m # n => volume'[m] = volume[m]
      /\ volume'[n].waits = w /\ volume'[n].state = "released" /\ volume'[n].id = volume[n].id
    BY <1>1, <1>3, StartedWork
<1>5. ShapeOK'
    BY <1>1, <1>2, <1>4 DEF ShapeOK
<1>6. Apart(w, n)
    BY <1>1, <1>4, <1>5 DEF Apart
<1>7. /\ (Gone(n)' <=> Gone(n)) /\ (Has(n)' <=> Has(n))
      /\ VolumeId(n)' = VolumeId(n)
    BY <1>1 DEF Gone, Has, VolumeId
<1>8. n \notin mixed' => n \notin mixed /\ Uncreated(n)'
    BY <1>1, <1>4 DEF Creating, Uncreated
<1>9. NameOK(n)'
    BY <1>1, <1>2, <1>4, <1>7 DEF NameOK
<1>10. ASSUME NEW x \in Workers, work'[x] # NoWork, work'[x].claim = n PROVE WorkOK(x)'
    <2>1. CASE x = w
        BY <1>1, <1>2, <1>3, <1>4, <1>8, <2>1 DEF WorkOK
    <2>2. CASE x # w
        <3>1. WorkOK(x) /\ work'[x] = work[x]
            BY <1>4, <2>2 DEF ControllerInv
        <3> QED
            BY <1>1, <1>4, <1>7, <1>8, <1>10, <3>1 DEF WorkOK
    <2> QED
        BY <2>1, <2>2
<1> QED
    BY <1>6, <1>9, <1>10, ControllerStep

\* A name without a class has no calls yet.
LEMMA NewClaimInv ==
    ASSUME ControllerInv, NEW n \in PvNames, NewClaim(n)
    PROVE  ControllerInv'
<1>1. /\ params[n] = NoOptions /\ UNCHANGED <<dirs, tmp, work, volume, mixed>>
      /\ \E opt \in TurboClasses : params' = [params EXCEPT ![n] = opt]
    BY DEF NewClaim
<1>2. ShapeOK /\ NameOK(n)
    BY DEF ControllerInv
<1>3. ShapeOK' /\ \A m \in PvNames : m # n => params'[m] = params[m]
    BY <1>1, <1>2 DEF ShapeOK
<1>4. ASSUME NEW m \in PvNames
      PROVE  /\ Gone(m)' <=> Gone(m)
             /\ Uncreated(m)' <=> Uncreated(m)
             /\ m # n => (Has(m)' <=> Has(m)) /\ VolumeId(m)' = VolumeId(m)
    BY <1>1, <1>3 DEF Gone, Uncreated, Has, VolumeId
<1>5. ASSUME NEW x \in Workers PROVE WorkOK(x)'
    <2>1. WorkOK(x) /\ work'[x] = work[x]
        BY <1>1 DEF ControllerInv
    <2> QED
        BY <1>1, <1>3, <1>4, <2>1 DEF WorkOK
<1>6. ASSUME NEW m \in PvNames, m # n PROVE NameOK(m)'
    <2>1. NameOK(m)
        BY DEF ControllerInv
    <2> QED
        BY <1>1, <1>3, <1>4, <1>6, <2>1 DEF NameOK
<1>7. NameOK(n)'
    <2>1. tmp[n] = <<>> /\ Gone(n) /\ volume[n].state = "unbound"
        <3>1. volume[n].state \in {"unbound", "bound", "released", "deleted"}
            BY <1>2 DEF ShapeOK, VolumeRecord
        <3> QED
            BY <1>1, <1>2, <3>1 DEF NameOK
    <2>2. Len(tmp[n]) = 0 /\ \A d \in dirs : d[2] # n
        BY <2>1 DEF Gone
    <2> QED
        BY <1>1, <1>2, <1>4, <2>1, <2>2 DEF NameOK
<1> QED
    BY <1>3, <1>5, <1>6, <1>7 DEF ControllerInv

\* The provisioner forgets the calls it waits for, and nothing else changes or
\* all calls and mounts are gone.
LEMMA ForgetsInv ==
    ASSUME ControllerInv, UNCHANGED <<params, dirs, mixed>>,
           volume' \in [PvNames -> VolumeRecord],
           \A m \in PvNames :
              /\ volume'[m].waits \in {NoWorker, volume[m].waits}
              /\ volume'[m].state = volume[m].state /\ volume'[m].id = volume[m].id,
           \/ work' = work /\ tmp' = tmp
           \/ /\ work' = [w \in Workers |-> NoWork] /\ tmp' = [n \in PvNames |-> <<>>]
              /\ \A m \in PvNames : volume'[m].waits = NoWorker
    PROVE  ControllerInv'
<1>1. ShapeOK'
    <2>1. <<>> \in Seq(Exports)
        OBVIOUS
    <2>2. tmp' \in [PvNames -> Seq(Exports)]
        BY <2>1 DEF ControllerInv, ShapeOK
    <2>3. work' \in [Workers -> WorkRecord]
        BY NoWorkType DEF ControllerInv, ShapeOK
    <2> QED
        BY <2>2, <2>3 DEF ControllerInv, ShapeOK
<1>2. ASSUME NEW m \in PvNames
      PROVE  /\ (Gone(m)' <=> Gone(m)) /\ (Has(m)' <=> Has(m)) /\ VolumeId(m)' = VolumeId(m)
             /\ Uncreated(m) => Uncreated(m)'
    BY DEF Gone, Has, VolumeId, Uncreated, NoWork
<1>3. ASSUME NEW x \in Workers PROVE WorkOK(x)'
    <2>1. CASE work' = work /\ tmp' = tmp
        <3>1. WorkOK(x)
            BY DEF ControllerInv
        <3> QED
            BY <1>2, <2>1, <3>1 DEF WorkOK
    <2>2. CASE work' = [w \in Workers |-> NoWork]
        BY <2>2 DEF WorkOK
    <2> QED
        BY <2>1, <2>2
<1>4. ASSUME NEW m \in PvNames PROVE NameOK(m)'
    <2>1. NameOK(m)
        BY DEF ControllerInv
    <2>2. CASE work' = work /\ tmp' = tmp
        BY <1>2, <2>1, <2>2 DEF NameOK
    <2>3. CASE tmp' = [n \in PvNames |-> <<>>] /\ volume'[m].waits = NoWorker
        <3>1. tmp'[m] = <<>> /\ Len(tmp'[m]) = 0
            BY <2>3
        <3> QED
            BY <1>2, <2>1, <2>3, <3>1 DEF NameOK
    <2> QED
        BY <2>2, <2>3
<1> QED
    BY <1>1, <1>3, <1>4 DEF ControllerInv

LEMMA GivesUpInv ==
    ASSUME ControllerInv, NEW n \in PvNames, ProvisionerGivesUp(n)
    PROVE  ControllerInv'
<1>1. volume \in [PvNames -> VolumeRecord]
    BY DEF ControllerInv, ShapeOK
<1>2. UNCHANGED <<params, dirs, tmp, work, mixed>> /\ volume' = [volume EXCEPT ![n].waits = NoWorker]
    BY DEF ProvisionerGivesUp
<1>3. /\ volume' \in [PvNames -> VolumeRecord]
      /\ \A m \in PvNames :
            /\ volume'[m].waits \in {NoWorker, volume[m].waits}
            /\ volume'[m].state = volume[m].state /\ volume'[m].id = volume[m].id
    BY <1>1, <1>2 DEF VolumeRecord
<1> QED
    BY <1>2, <1>3, ForgetsInv

LEMMA ControllerRestartInv ==
    ASSUME ControllerInv, ControllerRestart
    PROVE  ControllerInv'
<1>1. volume \in [PvNames -> VolumeRecord]
    BY DEF ControllerInv, ShapeOK
<1>2. /\ volume' \in [PvNames -> VolumeRecord]
      /\ \A m \in PvNames :
            /\ volume'[m].waits = NoWorker
            /\ volume'[m].state = volume[m].state /\ volume'[m].id = volume[m].id
    BY <1>1 DEF ControllerRestart, VolumeRecord
<1>3. /\ UNCHANGED <<params, dirs, mixed>>
      /\ work' = [w \in Workers |-> NoWork] /\ tmp' = [n \in PvNames |-> <<>>]
    BY DEF ControllerRestart
<1> QED
    BY <1>2, <1>3, ForgetsInv

LEMMA ControllerNextInv ==
    ASSUME ControllerInv, ControllerNext
    PROVE  ControllerInv'
BY MountCheckInv, MountTempInv, MakeDirectoryInv, RemoveDirectoryInv, UnmountTempInv, CreateVolumeInv,
   DeleteVolumeInv, NewClaimInv, GivesUpInv, ControllerRestartInv DEF ControllerNext

LEMMA ControllerStutter ==
    ASSUME ControllerInv, UNCHANGED controllerVars
    PROVE  ControllerInv'
<1>1. /\ UNCHANGED <<params, dirs, mixed>> /\ work' = work /\ tmp' = tmp /\ volume' = volume
    BY DEF controllerVars
<1>2. volume' \in [PvNames -> VolumeRecord]
    BY <1>1 DEF ControllerInv, ShapeOK
<1> QED
    BY <1>1, <1>2, ForgetsInv

-----------------------------------------------------------------------------
(* The theorems.                                                            *)

(***************************************************************************)
(* The two invariants hold in every state of the driver, whichever calls   *)
(* the process serves.                                                     *)
(***************************************************************************)
THEOREM Invariance == DriverSpec => [](NodeInv /\ ControllerInv)
<1>1. DriverInit => NodeInv /\ ControllerInv
    BY NodeInit, ControllerStart DEF DriverInit
<1>2. NodeInv /\ ControllerInv /\ [DriverNext]_driverVars => NodeInv' /\ ControllerInv'
    <2> SUFFICES ASSUME NodeInv, ControllerInv, [DriverNext]_driverVars
                 PROVE  NodeInv' /\ ControllerInv'
        OBVIOUS
    <2>1. CASE Next /\ UNCHANGED controllerVars
        BY <2>1, NodeNext, ControllerStutter
    <2>2. CASE ControllerNext /\ UNCHANGED vars
        BY <2>2, NodeStutter, ControllerNextInv
    <2>3. CASE UNCHANGED <<vars, controllerVars>>
        BY <2>3, NodeStutter, ControllerStutter
    <2> QED
        BY <2>1, <2>2, <2>3 DEF DriverNext, driverVars
<1> QED
    BY <1>1, <1>2, PTL DEF DriverSpec

(***************************************************************************)
(* The state of both servers has its type, and the name that DeleteVolume  *)
(* takes out of a volume id is the name of a volume.                       *)
(***************************************************************************)
THEOREM TypeCorrect == DriverSpec => []DriverTypeOK
<1>1. NodeInv /\ ControllerInv => DriverTypeOK
    BY NodeImplies, ControllerImplies DEF DriverTypeOK
<1> QED
    BY <1>1, Invariance, PTL

(***************************************************************************)
(* What the kubelet takes for staged or published is mounted, although     *)
(* calls of volumes that share a mount add and remove their entries in one *)
(* reference file, fail or die between truncating and filling it, and run  *)
(* on after the kubelet has given them up.  The one exception is a volume  *)
(* of which such a call was still running when its next one started: the   *)
(* theorem then still speaks of all the others, those of its file system   *)
(* included.  The mount is of a file system that has the volume's name.    *)
(***************************************************************************)
THEOREM StagedStaysMounted == DriverSpec => []StagedIsMounted
<1>1. NodeInv /\ ControllerInv => StagedIsMounted
    BY NodeImplies
<1> QED
    BY <1>1, Invariance, PTL

(***************************************************************************)
(* NodePublishVolume never binds a global path that has nothing mounted,   *)
(* although it checks the mount long before it binds, unless a call of the *)
(* same volume that the kubelet had given up was overtaken by a later one. *)
(***************************************************************************)
THEOREM NoEmptyTarget == DriverSpec => []NoHollowTarget
<1>1. NodeInv /\ ControllerInv => NoHollowTarget
    BY NodeImplies
<1> QED
    BY <1>1, Invariance, PTL

(***************************************************************************)
(* As long as nothing went wrong with a reference file, the last volume to *)
(* be unstaged takes the mount with it, if no call of a volume of the file *)
(* system was started while an abandoned one of the same volume was        *)
(* running.                                                                *)
(***************************************************************************)
THEOREM LastOneUnmounts == DriverSpec => []NoLeakedMount
<1>1. NodeInv /\ ControllerInv => NoLeakedMount
    BY NodeImplies
<1> QED
    BY <1>1, Invariance, PTL

(***************************************************************************)
(* A volume that CreateVolume reported has its directory, whatever         *)
(* abandoned calls did to the path under /tmp that they all share.         *)
(***************************************************************************)
THEOREM ReportedIsMade == DriverSpec => []CreatedHasDirectory
<1>1. NodeInv /\ ControllerInv => CreatedHasDirectory
    BY ControllerImplies
<1> QED
    BY <1>1, Invariance, PTL

(***************************************************************************)
(* A volume that DeleteVolume reported deleted has no directory, unless a  *)
(* delete started while an abandoned create was running.                   *)
(***************************************************************************)
THEOREM ReportedIsGone == DriverSpec => []DeletedHasNoDirectory
<1>1. NodeInv /\ ControllerInv => DeletedHasNoDirectory
    BY ControllerImplies
<1> QED
    BY <1>1, Invariance, PTL
=============================================================================
