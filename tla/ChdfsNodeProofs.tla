--------------------------- MODULE ChdfsNodeProofs ---------------------------
(***************************************************************************)
(* Proofs about the CHDFS node server: for any targets, volumes, calls and *)
(* chdfs-fuse processes, what kubelet was told about a target is so, and a *)
(* target shows its own volume unless publishes that share a config file   *)
(* overlapped.                                                             *)
(***************************************************************************)
EXTENDS ChdfsNode, SequenceTheorems, TLAPS

Layer == [volume : Volumes, by : Procs \cup {None}]

ProcRecord ==
    [pc : {"exited", "starts", "mounts", "serves"}, target : Targets \cup {None},
     reads : Files \cup {None}, volume : Volumes \cup {None}]

CallRecord ==
    [pc : {"idle", "create", "config", "write", "exec", "poll", "check", "umount"},
     target : Targets \cup {None}]

KubeletRecord ==
    [pod : BOOLEAN, volume : Volumes, call : Calls \cup {None}, answer : Answers]

StateTypeOK ==
    /\ dir \subseteq Targets
    /\ mnt \in [Targets -> Seq(Layer)]
    /\ file \in [Files -> Volumes \cup {"empty", None}]
    /\ proc \in [Procs -> ProcRecord]
    /\ call \in [Calls -> CallRecord]
    /\ kubelet \in [Targets -> KubeletRecord]
    /\ late \subseteq Targets

PublishSteps == {"create", "config", "write", "exec", "poll"}
UnpublishSteps == {"check", "umount"}

\* NodePublishVolume gets as far as the config file.
Publishable(v) == Options[v].url /\ NewChdfsConfig(v)

\* The config file f may hold volume v.
Configured(v, f) == \E u \in Targets : v = VolumeOf(u) /\ Publishable(v) /\ ConfigName(v) = f

\* A call that kubelet waits for is the one for its target; while the pod is
\* wanted it is a publish.
KubeletOK(t) ==
    kubelet[t].call # None =>
        /\ call[kubelet[t].call].target = t
        /\ kubelet[t].answer = "none"
        /\ kubelet[t].pod => call[kubelet[t].call].pc \in PublishSteps
        /\ ~ kubelet[t].pod => call[kubelet[t].call].pc \in UnpublishSteps

\* A publish has a url and arguments, and an unpublish that goes on, also one that
\* was given up, excludes that the volume is published again.
CallOK(c) ==
    /\ call[c].pc = "idle" <=> call[c].target = None
    /\ call[c].pc \in PublishSteps => Options[VolumeOf(call[c].target)].url
    /\ call[c].pc \in {"write", "exec", "poll"} => NewChdfsConfig(VolumeOf(call[c].target))
    /\ call[c].pc \in UnpublishSteps =>
          /\ ~ kubelet[call[c].target].pod
          /\ kubelet[call[c].target].answer # "published"

FileOK(f) == file[f] \in Volumes => Configured(file[f], f)

ProcOK(p) ==
    /\ proc[p].pc = "exited" <=> proc[p].target = None
    /\ proc[p].pc # "exited" =>
          /\ Publishable(VolumeOf(proc[p].target))
          /\ proc[p].reads = ConfigName(VolumeOf(proc[p].target))
    /\ proc[p].pc \in {"mounts", "serves"} => Configured(proc[p].volume, proc[p].reads)

\* What is mounted at a target.
LayersOK(t) ==
    /\ Mounted(t) => t \in dir /\ Publishable(VolumeOf(t))
    /\ \A i \in DOMAIN mnt[t] : Configured(mnt[t][i].volume, ConfigName(VolumeOf(t)))
    /\ \A i \in DOMAIN mnt[t] : mnt[t][i].by # None =>
          proc[mnt[t][i].by].pc = "serves" /\ proc[mnt[t][i].by].target = t
    /\ \A i, j \in DOMAIN mnt[t] : mnt[t][i].by # None /\ mnt[t][i].by = mnt[t][j].by => i = j

AnswerOK(t) ==
    /\ kubelet[t].answer = "published" => Mounted(t)
    /\ kubelet[t].answer = "unpublished" /\ t \notin late => ~ Mounted(t)

\* Where nothing was given up: one call, one process and one layer at a time, and
\* a process that has not mounted yet has its call waiting for it.
AloneAt(t) ==
    /\ \A c \in Calls : call[c].target = t => kubelet[t].call = c
    /\ \A c \in Calls : call[c].target = t /\ call[c].pc \in {"config", "write", "exec"} =>
          /\ t \in dir /\ ~ Mounted(t)
          /\ \A p \in Procs : proc[p].target # t
    /\ \A c \in Calls : call[c].target = t /\ call[c].pc = "poll" => t \in dir
    /\ \A p, q \in Procs : proc[p].target = t /\ proc[q].target = t => p = q
    /\ Len(mnt[t]) <= 1
    /\ \A p \in Procs : proc[p].target = t =>
          \/ /\ proc[p].pc \in {"starts", "mounts"} /\ ~ Mounted(t)
             /\ \E c \in Calls : call[c].target = t /\ call[c].pc = "poll"
          \/ proc[p].pc = "serves" /\ Mounted(t) /\ mnt[t][1].by = p

ClaimInv == \E claim \in Claims : \A t \in Targets : VolumeOf(t) = claim[t]
KubeletInv == \A t \in Targets : KubeletOK(t)
CallInv == \A c \in Calls : CallOK(c)
FileInv == \A f \in Files : FileOK(f)
ProcInv == \A p \in Procs : ProcOK(p)
LayersInv == \A t \in Targets : LayersOK(t)
AnswerInv == \A t \in Targets : AnswerOK(t)
AloneInv == \A t \in Targets : t \notin late => AloneAt(t)

Inv ==
    /\ StateTypeOK /\ ClaimInv
    /\ KubeletInv /\ CallInv
    /\ FileInv /\ ProcInv /\ LayersInv
    /\ AnswerInv /\ AloneInv

-----------------------------------------------------------------------------
(* The records.                                                             *)

LEMMA ConstantFacts ==
    /\ Idle \in CallRecord /\ Idle.pc = "idle" /\ Idle.target = None
    /\ Exited \in ProcRecord /\ Exited.pc = "exited" /\ Exited.target = None
    /\ None \notin Volumes /\ None \notin Targets /\ None \notin Calls /\ None \notin Procs
    /\ \A v \in Volumes : ConfigName(v) \in Files /\ v # "empty"
<1>1. Idle \in CallRecord /\ Idle.pc = "idle" /\ Idle.target = None
  BY DEF Idle, CallRecord
<1>2. Exited \in ProcRecord /\ Exited.pc = "exited" /\ Exited.target = None
  BY DEF Exited, ProcRecord
<1>3. None \notin Volumes /\ None \notin Targets /\ None \notin Calls /\ None \notin Procs
  BY ConstantsAssumption
<1>4. \A v \in Volumes : ConfigName(v) \in Files /\ v # "empty"
  BY ConstantsAssumption DEF Files
<1> QED
  BY <1>1, <1>2, <1>3, <1>4

\* A call that runs has a target.
LEMMA RunningCall ==
    ASSUME Inv, NEW c \in Calls, call[c].pc # "idle"
    PROVE  call[c].target \in Targets /\ call[c] \in CallRecord /\ CallOK(c)
<1>1. call[c] \in CallRecord /\ CallOK(c)
  BY DEF Inv, StateTypeOK, CallInv
<1> QED
  BY <1>1 DEF CallRecord, CallOK

LEMMA RunningProc ==
    ASSUME Inv, NEW p \in Procs, proc[p].pc # "exited"
    PROVE  proc[p].target \in Targets /\ proc[p] \in ProcRecord /\ ProcOK(p)
<1>1. proc[p] \in ProcRecord /\ ProcOK(p)
  BY DEF Inv, StateTypeOK, ProcInv
<1> QED
  BY <1>1 DEF ProcRecord, ProcOK

-----------------------------------------------------------------------------
(* What does not depend on calls: volumes never change at a target.         *)

SameVolumes == \A t \in Targets : VolumeOf(t)' = VolumeOf(t)

LEMMA ConfiguredStays ==
    ASSUME SameVolumes, NEW v, NEW f
    PROVE  Configured(v, f)' <=> Configured(v, f)
  BY DEF SameVolumes, Configured

LEMMA ClaimStays ==
    ASSUME ClaimInv, SameVolumes
    PROVE  ClaimInv'
  BY DEF ClaimInv, SameVolumes

\* The config file f becomes v, or nothing becomes of it.
LEMMA FilesStep ==
    ASSUME FileInv, SameVolumes, StateTypeOK, NEW f \in Files, NEW v,
           file' = [file EXCEPT ![f] = v],
           v \in Volumes => Configured(v, f)
    PROVE  FileInv'
<1> SUFFICES ASSUME NEW g \in Files, file'[g] \in Volumes PROVE Configured(file[g], g)'
  BY DEF FileInv, FileOK
<1>1. PICK w : w = file'[g]
  OBVIOUS
<1>2. Configured(w, g)
  <2>1. CASE g = f
    BY <1>1, <2>1 DEF StateTypeOK
  <2>2. CASE g # f
    BY <1>1, <2>2 DEF StateTypeOK, FileInv, FileOK
  <2> QED
    BY <2>1, <2>2
<1>3. Configured(w, g)'
  BY <1>2, ConfiguredStays
<1> QED
  BY <1>1, <1>3 DEF Configured

LEMMA FilesStay ==
    ASSUME FileInv, SameVolumes, file' = file
    PROVE  FileInv'
<1> SUFFICES ASSUME NEW g \in Files, file[g] \in Volumes PROVE Configured(file[g], g)'
  BY DEF FileInv, FileOK
<1>1. PICK w : w = file[g]
  OBVIOUS
<1>2. Configured(w, g)'
  BY <1>1, ConfiguredStays DEF FileInv, FileOK
<1> QED
  BY <1>1, <1>2 DEF Configured

\* What makes a process right, as a predicate of its record.
ProcRight(r) ==
    /\ r.pc = "exited" <=> r.target = None
    /\ r.pc # "exited" =>
          /\ Publishable(VolumeOf(r.target))
          /\ r.reads = ConfigName(VolumeOf(r.target))
    /\ r.pc \in {"mounts", "serves"} => Configured(r.volume, r.reads)

LEMMA ProcRightStays ==
    ASSUME SameVolumes, NEW r \in ProcRecord, ProcRight(r)
    PROVE  ProcRight(r)'
<1>1. r.target \in Targets \/ r.target = None
  BY DEF ProcRecord
<1>2. r.pc \in {"mounts", "serves"} => Configured(r.volume, r.reads)'
  BY ConfiguredStays DEF ProcRight
<1>3. r.pc # "exited" => /\ Publishable(VolumeOf(r.target)')
                         /\ r.reads = ConfigName(VolumeOf(r.target)')
  BY <1>1 DEF ProcRight, SameVolumes
<1> QED
  BY <1>2, <1>3 DEF ProcRight

\* The processes become right ones, each for itself or as before.
LEMMA ProcsStep ==
    ASSUME StateTypeOK, ProcInv, SameVolumes, proc' \in [Procs -> ProcRecord],
           \A p \in Procs : proc'[p] = proc[p] \/ ProcRight(proc'[p])
    PROVE  ProcInv'
<1> SUFFICES ASSUME NEW p \in Procs PROVE ProcOK(p)'
  BY DEF ProcInv
<1>1. PICK r \in ProcRecord : r = proc'[p] /\ ProcRight(r)
  BY DEF ProcInv, ProcOK, ProcRight
<1>2. ProcRight(r)'
  BY <1>1, ProcRightStays
<1> QED
  BY <1>1, <1>2 DEF ProcOK, ProcRight

\* The layers stay as they are at target t.
LEMMA LayersOKStays ==
    ASSUME StateTypeOK, SameVolumes, NEW t \in Targets, LayersOK(t),
           mnt'[t] = mnt[t], Mounted(t) => t \in dir',
           \A p \in Procs : proc[p].pc = "serves" /\ proc[p].target = t => proc'[p] = proc[p]
    PROVE  LayersOK(t)'
<1>1. PICK s \in Seq(Layer) : s = mnt[t] /\ s = mnt'[t]
  BY DEF StateTypeOK
<1>2. PICK v : v = VolumeOf(t) /\ v = VolumeOf(t)'
  BY DEF SameVolumes
<1>3. \A i \in DOMAIN s : s[i] \in Layer
  OBVIOUS
<1>4. Mounted(t)' => t \in dir' /\ Publishable(VolumeOf(t)')
  BY <1>1, <1>2 DEF LayersOK, Mounted
<1>5. ASSUME NEW i \in DOMAIN s PROVE Configured(s[i].volume, ConfigName(v))'
  BY <1>1, <1>2, <1>5, ConfiguredStays DEF LayersOK
<1>6. ASSUME NEW i \in DOMAIN s, s[i].by # None
      PROVE  proc'[s[i].by].pc = "serves" /\ proc'[s[i].by].target = t
  <2>1. s[i].by \in Procs
    BY <1>3, <1>6 DEF Layer
  <2>2. proc[s[i].by].pc = "serves" /\ proc[s[i].by].target = t
    BY <1>1, <1>6 DEF LayersOK
  <2> QED
    BY <2>1, <2>2
<1>7. \A i, j \in DOMAIN s : s[i].by # None /\ s[i].by = s[j].by => i = j
  BY <1>1 DEF LayersOK
<1>8. \A i \in DOMAIN mnt'[t] : Configured(mnt[t][i].volume, ConfigName(VolumeOf(t)))'
  BY <1>1, <1>2, <1>5 DEF Configured
<1> QED
  BY <1>1, <1>4, <1>6, <1>7, <1>8 DEF LayersOK

LEMMA LayersStay ==
    ASSUME StateTypeOK, SameVolumes, LayersInv, mnt' = mnt,
           \A t \in Targets : Mounted(t) => t \in dir',
           \A p \in Procs : proc[p].pc = "serves" => proc'[p] = proc[p]
    PROVE  LayersInv'
  BY LayersOKStays DEF LayersInv

-----------------------------------------------------------------------------
(* Calls and kubelet.                                                       *)

TalkType == call' \in [Calls -> CallRecord] /\ kubelet' \in [Targets -> KubeletRecord]

TalkInv == KubeletInv /\ CallInv

\* A call goes on with its next step.
LEMMA GotoTalk ==
    ASSUME Inv, NEW c \in Calls, NEW t \in Targets, t = call[c].target,
           NEW pc \in PublishSteps \cup UnpublishSteps, Goto(c, pc),
           call[c].pc \in PublishSteps <=> pc \in PublishSteps, call[c].pc # "idle",
           pc \in {"write", "exec", "poll"} => NewChdfsConfig(VolumeOf(t))
    PROVE  /\ TalkType /\ TalkInv' /\ SameVolumes
           /\ kubelet' = kubelet
           /\ call'[c].pc = pc /\ call'[c].target = t
           /\ \A b \in Calls : b # c => call'[b] = call[b]
<1>1. call \in [Calls -> CallRecord] /\ call[c] \in CallRecord
  BY DEF Inv, StateTypeOK
<1>2. kubelet' = kubelet /\ call' = [call EXCEPT ![c].pc = pc]
  BY DEF Goto
<1>3. PICK r : r = [call[c] EXCEPT !.pc = pc]
  OBVIOUS
<1>4. r \in CallRecord /\ r.pc = pc /\ r.target = t
  BY <1>1, <1>3 DEF CallRecord, PublishSteps, UnpublishSteps
<1>5. /\ call' \in [Calls -> CallRecord] /\ call'[c] = r
      /\ \A b \in Calls : b # c => call'[b] = call[b]
  BY <1>1, <1>2, <1>3, <1>4
<1>6. SameVolumes
  BY <1>2 DEF SameVolumes, VolumeOf
<1>7. call[c].pc \in PublishSteps \cup UnpublishSteps
  BY <1>1 DEF CallRecord, PublishSteps, UnpublishSteps
<1>8. KubeletInv'
  <2> SUFFICES ASSUME NEW u \in Targets, kubelet[u].call # None PROVE KubeletOK(u)'
    BY <1>2 DEF KubeletInv, KubeletOK
  <2>1. PICK b \in Calls : b = kubelet[u].call
    BY DEF Inv, StateTypeOK, KubeletRecord
  <2>2. KubeletOK(u)
    BY DEF Inv, KubeletInv
  <2>3. CASE b = c
    BY <1>2, <1>4, <1>5, <1>7, <2>1, <2>2, <2>3 DEF KubeletOK, PublishSteps, UnpublishSteps
  <2>4. CASE b # c
    BY <1>2, <1>5, <2>1, <2>2, <2>4 DEF KubeletOK
  <2> QED
    BY <2>3, <2>4
<1>9. CallInv'
  <2> SUFFICES ASSUME NEW b \in Calls PROVE CallOK(b)'
    BY DEF CallInv
  <2>1. CallOK(b)
    BY DEF Inv, CallInv
  <2>2. CASE b = c
    <3>1. t # None
      BY ConstantFacts
    <3> QED
      BY <1>2, <1>4, <1>5, <1>7, <2>1, <2>2, <3>1
         DEF CallOK, VolumeOf, PublishSteps, UnpublishSteps
  <2>3. CASE b # c
    BY <1>2, <1>5, <2>1, <2>3 DEF CallOK, VolumeOf
  <2> QED
    BY <2>2, <2>3
<1> QED
  BY <1>2, <1>4, <1>5, <1>6, <1>8, <1>9 DEF TalkType, TalkInv, Inv, StateTypeOK

\* A call is answered.  Only a publish is answered as published.
LEMMA ReplyTalk ==
    ASSUME Inv, NEW c \in Calls, NEW t \in Targets, t = call[c].target,
           NEW a \in Answers, Reply(c, a),
           a = "published" => call[c].pc \in PublishSteps
    PROVE  /\ TalkType /\ TalkInv' /\ SameVolumes
           /\ call' = [call EXCEPT ![c] = Idle]
           /\ \A u \in Targets : u # t => kubelet'[u] = kubelet[u]
           /\ kubelet[t].call # c => kubelet'[t] = kubelet[t]
           /\ kubelet[t].call = c => kubelet'[t].call = None /\ kubelet'[t].answer = a
           /\ kubelet'[t].pod = kubelet[t].pod
<1>1. /\ call \in [Calls -> CallRecord] /\ kubelet \in [Targets -> KubeletRecord]
  BY DEF Inv, StateTypeOK
<1>2. call' = [call EXCEPT ![c] = Idle]
  BY DEF Reply
<1>3. PICK r : r = [kubelet[t] EXCEPT !.call = None, !.answer = a]
  OBVIOUS
<1>4. /\ r \in KubeletRecord /\ r.call = None /\ r.answer = a
      /\ r.pod = kubelet[t].pod /\ r.volume = kubelet[t].volume
  <2>1. kubelet[t] \in KubeletRecord
    BY <1>1
  <2> QED
    BY <1>3, <2>1 DEF KubeletRecord
<1>5. kubelet' = IF kubelet[t].call = c THEN [kubelet EXCEPT ![t] = r] ELSE kubelet
  BY <1>1, <1>3 DEF Reply
<1>6. /\ kubelet' \in [Targets -> KubeletRecord]
      /\ \A u \in Targets : u # t => kubelet'[u] = kubelet[u]
      /\ kubelet[t].call # c => kubelet'[t] = kubelet[t]
      /\ kubelet[t].call = c => kubelet'[t] = r
  BY <1>1, <1>4, <1>5
<1>7. /\ call' \in [Calls -> CallRecord] /\ call'[c] = Idle
      /\ \A b \in Calls : b # c => call'[b] = call[b]
  BY <1>1, <1>2, ConstantFacts
<1>8. \A u \in Targets : /\ kubelet'[u].volume = kubelet[u].volume
                         /\ kubelet'[u].pod = kubelet[u].pod
                         /\ \/ kubelet'[u] = kubelet[u]
                            \/ u = t /\ kubelet[t].call = c /\ kubelet'[u] = r
  BY <1>4, <1>6
<1>9. SameVolumes
  BY <1>8 DEF SameVolumes, VolumeOf
<1>10. KubeletInv'
  <2> SUFFICES ASSUME NEW u \in Targets, kubelet'[u].call # None PROVE KubeletOK(u)'
    BY DEF KubeletInv, KubeletOK
  <2>1. kubelet'[u] = kubelet[u]
    BY <1>4, <1>8
  <2>2. KubeletOK(u)
    BY DEF Inv, KubeletInv
  <2>3. PICK b \in Calls : b = kubelet[u].call
    BY <1>1, <2>1 DEF KubeletRecord
  <2>4. b # c
    <3>1. ASSUME b = c PROVE FALSE
      <4>1. u = t
        BY <2>1, <2>2, <2>3, <3>1 DEF KubeletOK
      <4> QED
        BY <1>4, <1>6, <2>1, <2>3, <3>1, <4>1, ConstantFacts
    <3> QED
      BY <3>1
  <2>5. call'[b] = call[b]
    BY <1>7, <2>4
  <2> QED
    BY <2>1, <2>2, <2>3, <2>5 DEF KubeletOK
<1>11. CallInv'
  <2> SUFFICES ASSUME NEW b \in Calls PROVE CallOK(b)'
    BY DEF CallInv
  <2>1. CASE b = c
    BY <1>7, <2>1, ConstantFacts DEF CallOK, PublishSteps, UnpublishSteps
  <2>2. CASE b # c
    <3>1. CallOK(b) /\ call'[b] = call[b] /\ call[b] \in CallRecord
      BY <1>1, <1>7, <2>2 DEF Inv, CallInv
    <3>2. PICK u : u = call[b].target
      OBVIOUS
    <3>3. CASE call[b].pc = "idle"
      BY <3>1, <3>3 DEF CallOK, PublishSteps, UnpublishSteps
    <3>4. CASE call[b].pc # "idle"
      <4>1. u \in Targets
        BY <3>1, <3>2, <3>4 DEF CallOK, CallRecord
      <4>2. call[b].pc \in UnpublishSteps => kubelet'[u].answer # "published"
        <5>1. ASSUME call[b].pc \in UnpublishSteps, kubelet'[u].answer = "published" PROVE FALSE
          <6>1. ~ kubelet[u].pod /\ kubelet[u].answer # "published"
            BY <3>1, <3>2, <5>1 DEF CallOK
          <6>2. u = t /\ kubelet[t].call = c /\ a = "published"
            BY <1>4, <1>8, <4>1, <5>1, <6>1
          <6>3. KubeletOK(t) /\ c # None
            BY ConstantFacts DEF Inv, KubeletInv
          <6>4. call[c].pc \in UnpublishSteps /\ call[c].pc \in PublishSteps
            BY <6>1, <6>2, <6>3 DEF KubeletOK
          <6> QED
            BY <6>4 DEF PublishSteps, UnpublishSteps
        <5> QED
          BY <5>1
      <4>3. kubelet'[u].pod = kubelet[u].pod /\ kubelet'[u].volume = kubelet[u].volume
        BY <1>8, <4>1
      <4> QED
        BY <3>1, <3>2, <4>2, <4>3 DEF CallOK, VolumeOf
    <3> QED
      BY <3>3, <3>4
  <2> QED
    BY <2>1, <2>2
<1> QED
  BY <1>2, <1>4, <1>6, <1>7, <1>8, <1>9, <1>10, <1>11 DEF TalkType, TalkInv

-----------------------------------------------------------------------------
(* Targets where nothing was given up.                                      *)

\* A step that does not concern target u.
LEMMA AloneElsewhere ==
    ASSUME NEW u \in Targets, AloneAt(u), mnt'[u] = mnt[u], u \in dir => u \in dir',
           kubelet'[u].call = kubelet[u].call,
           \A b \in Calls : call[b].target = u \/ call'[b].target = u => call'[b] = call[b],
           \A p \in Procs : proc[p].target = u \/ proc'[p].target = u => proc'[p] = proc[p]
    PROVE  AloneAt(u)'
<1>1. Mounted(u)' <=> Mounted(u)
  BY DEF Mounted
<1>2. \A c \in Calls : call'[c].target = u => kubelet'[u].call = c
  BY DEF AloneAt
<1>3. \A c \in Calls : call'[c].target = u /\ call'[c].pc \in {"config", "write", "exec"} =>
          /\ u \in dir' /\ ~ Mounted(u)'
          /\ \A p \in Procs : proc'[p].target # u
  BY <1>1 DEF AloneAt
<1>4. \A c \in Calls : call'[c].target = u /\ call'[c].pc = "poll" => u \in dir'
  BY DEF AloneAt
<1>5. \A p, q \in Procs : proc'[p].target = u /\ proc'[q].target = u => p = q
  BY DEF AloneAt
<1>6. Len(mnt'[u]) <= 1
  BY DEF AloneAt
<1>7. \A p \in Procs : proc'[p].target = u =>
          \/ /\ proc'[p].pc \in {"starts", "mounts"} /\ ~ Mounted(u)'
             /\ \E c \in Calls : call'[c].target = u /\ call'[c].pc = "poll"
          \/ proc'[p].pc = "serves" /\ Mounted(u)' /\ mnt'[u][1].by = p
  BY <1>1 DEF AloneAt
<1> QED
  BY <1>2, <1>3, <1>4, <1>5, <1>6, <1>7 DEF AloneAt

\* There is only one call for target t, and it ends.
LEMMA AloneReply ==
    ASSUME NEW c \in Calls, NEW t \in Targets, t = call[c].target, AloneAt(t),
           call \in [Calls -> CallRecord], call' = [call EXCEPT ![c] = Idle],
           \A p, q \in Procs : proc'[p].target = t /\ proc'[q].target = t => p = q,
           Len(mnt'[t]) <= 1,
           \A p \in Procs : proc'[p].target = t =>
               proc'[p].pc = "serves" /\ Mounted(t)' /\ mnt'[t][1].by = p
    PROVE  AloneAt(t)'
<1>1. \A b \in Calls : call'[b].target # t
  <2> SUFFICES ASSUME NEW b \in Calls, call'[b].target = t PROVE FALSE
    OBVIOUS
  <2>1. CASE b = c
    BY <2>1, ConstantFacts
  <2>2. CASE b # c
    BY <2>2 DEF AloneAt
  <2> QED
    BY <2>1, <2>2
<1> QED
  BY <1>1 DEF AloneAt

\* Where a process serves alone, it is the one of the only layer.
LEMMA AloneServes ==
    ASSUME NEW t \in Targets, AloneAt(t),
           \A c \in Calls : call[c].target = t => call[c].pc # "poll"
    PROVE  \A p \in Procs : proc[p].target = t =>
               proc[p].pc = "serves" /\ Mounted(t) /\ mnt[t][1].by = p
  BY DEF AloneAt

\* A call is answered, and mounts and processes stay as they are.
LEMMA QuietReply ==
    ASSUME Inv, NEW c \in Calls, NEW t \in Targets, t = call[c].target, call[c].pc # "idle",
           NEW a \in Answers, Reply(c, a),
           a = "published" => call[c].pc \in PublishSteps /\ Mounted(t),
           a = "unpublished" => ~ Mounted(t),
           UNCHANGED <<mnt, proc, file>>, dir' = dir \/ dir' = dir \cup {t},
           late' = late \/ late' = late \cup {t},
           t \notin late' => \A p \in Procs : proc[p].target = t => proc[p].pc = "serves"
    PROVE  Inv'
<1>1. /\ TalkType /\ TalkInv' /\ SameVolumes
      /\ call' = [call EXCEPT ![c] = Idle]
      /\ \A u \in Targets : u # t => kubelet'[u] = kubelet[u]
      /\ kubelet[t].call # c => kubelet'[t] = kubelet[t]
      /\ kubelet[t].call = c => kubelet'[t].call = None /\ kubelet'[t].answer = a
  BY ReplyTalk
<1>2. call \in [Calls -> CallRecord] /\ StateTypeOK
  BY DEF Inv, StateTypeOK
<1>3. StateTypeOK' /\ ClaimInv'
  BY <1>1, ClaimStays DEF Inv, StateTypeOK, TalkType
<1>4. FileInv' /\ ProcInv'
  BY <1>1, <1>3, FilesStay, ProcsStep DEF Inv, StateTypeOK
<1>5. LayersInv'
  <2>1. \A u \in Targets : Mounted(u) => u \in dir'
    BY DEF Inv, LayersInv, LayersOK
  <2> QED
    BY <1>1, <1>2, <2>1, LayersStay DEF Inv
<1>6. AnswerInv'
  <2> SUFFICES ASSUME NEW u \in Targets PROVE AnswerOK(u)'
    BY DEF AnswerInv
  <2>1. AnswerOK(u) /\ (Mounted(u)' <=> Mounted(u)) /\ (u \notin late' => u \notin late)
    BY DEF Inv, AnswerInv, Mounted
  <2>2. CASE kubelet'[u] = kubelet[u]
    BY <2>1, <2>2 DEF AnswerOK
  <2>3. CASE u = t /\ kubelet'[t].answer = a
    BY <2>1, <2>3 DEF AnswerOK
  <2> QED
    BY <1>1, <2>2, <2>3
<1>7. AloneInv'
  <2> SUFFICES ASSUME NEW u \in Targets, u \notin late' PROVE AloneAt(u)'
    BY DEF AloneInv
  <2>1. AloneAt(u)
    BY DEF Inv, AloneInv
  <2>2. CASE u # t
    <3>1. \A b \in Calls : call[b].target = u \/ call'[b].target = u => call'[b] = call[b]
      BY <1>1, <1>2, <2>2, ConstantFacts
    <3> QED
      BY <1>1, <2>1, <2>2, <3>1, AloneElsewhere
  <2>3. CASE u = t
    <3>1. \A p \in Procs : proc[p].target = t => Mounted(t) /\ mnt[t][1].by = p
      BY <2>1, <2>3 DEF AloneAt
    <3>2. \A p \in Procs : proc'[p].target = t =>
             proc'[p].pc = "serves" /\ Mounted(t)' /\ mnt'[t][1].by = p
      BY <2>3, <3>1 DEF Mounted
    <3>3. Len(mnt'[t]) <= 1
      BY <2>1, <2>3 DEF AloneAt
    <3>4. \A p, q \in Procs : proc'[p].target = t /\ proc'[q].target = t => p = q
      BY <2>1, <2>3 DEF AloneAt
    <3> QED
      BY <1>1, <1>2, <2>1, <2>3, <3>2, <3>3, <3>4, AloneReply
  <2> QED
    BY <2>2, <2>3
<1> QED
  BY <1>1, <1>3, <1>4, <1>5, <1>6, <1>7 DEF Inv, TalkInv

\* An answer to a call that does not wait for a process.
LEMMA PlainReply ==
    ASSUME Inv, NEW c \in Calls, NEW t \in Targets, t = call[c].target,
           call[c].pc \notin {"idle", "poll"},
           NEW a \in Answers, Reply(c, a),
           a = "published" => call[c].pc \in PublishSteps /\ Mounted(t),
           a = "unpublished" => ~ Mounted(t),
           UNCHANGED <<mnt, proc, file, late>>, dir' = dir \/ dir' = dir \cup {t}
    PROVE  Inv'
<1>1. ASSUME t \notin late PROVE \A p \in Procs : proc[p].target = t => proc[p].pc = "serves"
  <2>1. AloneAt(t)
    BY <1>1 DEF Inv, AloneInv
  <2>2. \A b \in Calls : call[b].target = t => call[b].pc # "poll"
    BY <2>1 DEF AloneAt
  <2> QED
    BY <2>1, <2>2, AloneServes
<1> QED
  BY <1>1, QuietReply

\* A call goes on before it has a process, or on its way to unmount.
LEMMA QuietGoto ==
    ASSUME Inv, NEW c \in Calls, NEW t \in Targets, t = call[c].target,
           call[c].pc \notin {"idle", "poll"},
           NEW pc \in (PublishSteps \cup UnpublishSteps) \ {"poll"}, Goto(c, pc),
           call[c].pc \in PublishSteps <=> pc \in PublishSteps,
           pc \in {"write", "exec"} => NewChdfsConfig(VolumeOf(t)),
           UNCHANGED <<mnt, proc, late>>, dir' = dir \/ dir' = dir \cup {t},
           file' \in [Files -> Volumes \cup {"empty", None}], FileInv',
           t \notin late /\ pc \in {"config", "write", "exec"} =>
               t \in dir' /\ ~ Mounted(t) /\ \A p \in Procs : proc[p].target # t
    PROVE  Inv'
<1>1. /\ TalkType /\ TalkInv' /\ SameVolumes /\ kubelet' = kubelet
      /\ call'[c].pc = pc /\ call'[c].target = t
      /\ \A b \in Calls : b # c => call'[b] = call[b]
  BY GotoTalk
<1>2. StateTypeOK
  BY DEF Inv
<1>3. StateTypeOK' /\ ClaimInv'
  BY <1>1, ClaimStays DEF Inv, StateTypeOK, TalkType
<1>4. ProcInv'
  BY <1>1, <1>3, ProcsStep DEF Inv, StateTypeOK
<1>5. LayersInv'
  <2>1. \A u \in Targets : Mounted(u) => u \in dir'
    BY DEF Inv, LayersInv, LayersOK
  <2> QED
    BY <1>1, <1>2, <2>1, LayersStay DEF Inv
<1>6. AnswerInv'
  BY <1>1 DEF Inv, AnswerInv, AnswerOK, Mounted
<1>7. AloneInv'
  <2> SUFFICES ASSUME NEW u \in Targets, u \notin late PROVE AloneAt(u)'
    BY DEF AloneInv
  <2>1. AloneAt(u)
    BY DEF Inv, AloneInv
  <2>2. CASE u # t
    <3>1. \A b \in Calls : call[b].target = u \/ call'[b].target = u => call'[b] = call[b]
      BY <1>1, <2>2
    <3> QED
      BY <1>1, <2>1, <2>2, <3>1, AloneElsewhere
  <2>3. CASE u = t
    <3>1. \A b \in Calls : call'[b].target = t => b = c
      BY <1>1, <2>1, <2>3 DEF AloneAt
    <3>2. \A b \in Calls : call[b].target = t => call[b].pc # "poll"
      BY <2>1, <2>3 DEF AloneAt
    <3>3. \A p \in Procs : proc'[p].target = t =>
             proc'[p].pc = "serves" /\ Mounted(t)' /\ mnt'[t][1].by = p
      BY <2>1, <2>3, <3>2, AloneServes DEF Mounted
    <3>4. kubelet'[t].call = c
      BY <1>1, <2>1, <2>3 DEF AloneAt
    <3>5. /\ \A p, q \in Procs : proc'[p].target = t /\ proc'[q].target = t => p = q
          /\ Len(mnt'[t]) <= 1
      BY <2>1, <2>3 DEF AloneAt
    <3>6. pc \in {"config", "write", "exec"} =>
             t \in dir' /\ ~ Mounted(t)' /\ \A p \in Procs : proc'[p].target # t
      BY <2>3 DEF Mounted
    <3>7. \A b \in Calls : call'[b].target = t => kubelet'[t].call = b /\ call'[b].pc = pc
      BY <1>1, <3>1, <3>4
    <3>8. AloneAt(t)'
      BY <3>3, <3>5, <3>6, <3>7 DEF AloneAt
    <3> QED
      BY <2>3, <3>8
  <2> QED
    BY <2>2, <2>3
<1> QED
  BY <1>1, <1>3, <1>4, <1>5, <1>6, <1>7 DEF Inv, TalkInv

-----------------------------------------------------------------------------
(* NodePublishVolume.                                                       *)

LEMMA createMountPointKeepsInv == \A c \in Calls : Inv /\ createMountPoint(c) => Inv'
<1> SUFFICES ASSUME NEW c \in Calls, Inv, createMountPoint(c) PROVE Inv'
  OBVIOUS
<1>1. call[c].pc = "create" /\ UNCHANGED <<mnt, file, proc, late>>
  BY DEF createMountPoint
<1>2. PICK t \in Targets : t = call[c].target
  BY <1>1, RunningCall
<1>3. dir' = dir \/ dir' = dir \cup {t}
  BY <1>2 DEF createMountPoint
<1>4. "none" \in Answers /\ "published" \in Answers /\ "create" \in PublishSteps
  BY DEF Answers, PublishSteps
<1>5. CASE Reply(c, "none")
  BY <1>1, <1>2, <1>3, <1>4, <1>5, PlainReply
<1>6. CASE Mounted(t) /\ Reply(c, "published")
  BY <1>1, <1>2, <1>3, <1>4, <1>6, PlainReply
<1>7. CASE ~ Mounted(t) /\ Goto(c, "config") /\ dir' = dir \cup {t}
  <2>1. /\ "config" \in (PublishSteps \cup UnpublishSteps) \ {"poll"}
        /\ "config" \in PublishSteps
    BY DEF PublishSteps
  <2>2. file' \in [Files -> Volumes \cup {"empty", None}]
    BY <1>1 DEF Inv, StateTypeOK
  <2>3. FileInv'
    <3>1. SameVolumes
      BY <1>7 DEF Goto, SameVolumes, VolumeOf
    <3> QED
      BY <1>1, <3>1, FilesStay DEF Inv
  <2>4. ASSUME t \notin late PROVE \A p \in Procs : proc[p].target # t
    <3>1. AloneAt(t)
      BY <2>4 DEF Inv, AloneInv
    <3>2. \A b \in Calls : call[b].target = t => call[b].pc # "poll"
      BY <1>1, <1>2, <3>1 DEF AloneAt
    <3> QED
      BY <1>7, <3>1, <3>2, AloneServes
  <2>5. t \in dir'
    BY <1>7
  <2> QED
    BY <1>1, <1>2, <1>3, <1>4, <1>7, <2>1, <2>2, <2>3, <2>4, <2>5, QuietGoto
<1> QED
  BY <1>2, <1>5, <1>6, <1>7 DEF createMountPoint

\* The step before has left the target to this call.
LEMMA StillAlone ==
    ASSUME Inv, NEW c \in Calls, NEW t \in Targets, t = call[c].target,
           call[c].pc \in {"config", "write", "exec"}, t \notin late
    PROVE  t \in dir /\ ~ Mounted(t) /\ \A p \in Procs : proc[p].target # t
  BY DEF Inv, AloneInv, AloneAt

LEMMA prepareConfigKeepsInv == \A c \in Calls : Inv /\ prepareConfig(c) => Inv'
<1> SUFFICES ASSUME NEW c \in Calls, Inv, prepareConfig(c) PROVE Inv'
  OBVIOUS
<1>1. call[c].pc = "config" /\ UNCHANGED <<dir, mnt, proc, late>>
  BY DEF prepareConfig
<1>2. PICK t \in Targets : t = call[c].target
  BY <1>1, RunningCall
<1>3. PICK v \in Volumes : v = VolumeOf(t)
  BY DEF VolumeOf, Inv, StateTypeOK, KubeletRecord
<1>4. "none" \in Answers
  BY DEF Answers
<1>5. CASE Reply(c, "none") /\ file' = file
  BY <1>1, <1>2, <1>4, <1>5, PlainReply
<1>6. CASE /\ NewChdfsConfig(v) /\ file' = [file EXCEPT ![ConfigName(v)] = "empty"]
           /\ Goto(c, "write")
  <2>1. /\ "write" \in (PublishSteps \cup UnpublishSteps) \ {"poll"}
        /\ "write" \in PublishSteps /\ "config" \in PublishSteps
    BY DEF PublishSteps
  <2>2. PICK f \in Files : f = ConfigName(v)
    BY ConstantFacts
  <2>3. file' = [file EXCEPT ![f] = "empty"]
    BY <1>6, <2>2
  <2>4. file' \in [Files -> Volumes \cup {"empty", None}]
    BY <2>3 DEF Inv, StateTypeOK
  <2>5. FileInv'
    <3>1. SameVolumes
      BY <1>6 DEF Goto, SameVolumes, VolumeOf
    <3>2. "empty" \notin Volumes
      BY ConstantsAssumption
    <3> QED
      BY <2>3, <3>1, <3>2, FilesStep DEF Inv
  <2> QED
    BY <1>1, <1>2, <1>3, <1>6, <2>1, <2>4, <2>5, StillAlone, QuietGoto
<1> QED
  BY <1>2, <1>3, <1>5, <1>6 DEF prepareConfig

LEMMA WriteFileKeepsInv == \A c \in Calls : Inv /\ WriteFile(c) => Inv'
<1> SUFFICES ASSUME NEW c \in Calls, Inv, WriteFile(c) PROVE Inv'
  OBVIOUS
<1>1. call[c].pc = "write" /\ UNCHANGED <<dir, mnt, proc, late>>
  BY DEF WriteFile
<1>2. PICK t \in Targets : t = call[c].target
  BY <1>1, RunningCall
<1>3. PICK v \in Volumes : v = VolumeOf(t)
  BY DEF VolumeOf, Inv, StateTypeOK, KubeletRecord
<1>4. "none" \in Answers
  BY DEF Answers
<1>5. CASE Reply(c, "none") /\ file' = file
  BY <1>1, <1>2, <1>4, <1>5, PlainReply
<1>6. CASE file' = [file EXCEPT ![ConfigName(v)] = v] /\ Goto(c, "exec")
  <2>1. /\ "exec" \in (PublishSteps \cup UnpublishSteps) \ {"poll"}
        /\ "exec" \in PublishSteps /\ "write" \in PublishSteps
    BY DEF PublishSteps
  <2>2. PICK f \in Files : f = ConfigName(v)
    BY ConstantFacts
  <2>3. file' = [file EXCEPT ![f] = v]
    BY <1>6, <2>2
  <2>4. file' \in [Files -> Volumes \cup {"empty", None}]
    BY <2>3 DEF Inv, StateTypeOK
  <2>5. Options[v].url /\ NewChdfsConfig(v)
    BY <1>1, <1>2, <1>3, <2>1, RunningCall DEF CallOK
  <2>6. Configured(v, f)
    BY <1>3, <2>2, <2>5 DEF Configured, Publishable
  <2>7. FileInv'
    <3>1. SameVolumes
      BY <1>6 DEF Goto, SameVolumes, VolumeOf
    <3> QED
      BY <2>3, <2>6, <3>1, FilesStep DEF Inv
  <2> QED
    BY <1>1, <1>2, <1>3, <1>6, <2>1, <2>4, <2>5, <2>7, StillAlone, QuietGoto
<1> QED
  BY <1>2, <1>3, <1>5, <1>6 DEF WriteFile

LEMMA PollKeepsInv == \A c \in Calls : Inv /\ Poll(c) => Inv'
<1> SUFFICES ASSUME NEW c \in Calls, Inv, Poll(c) PROVE Inv'
  OBVIOUS
<1>1. call[c].pc = "poll" /\ UNCHANGED <<dir, mnt, file, proc, late>>
  BY DEF Poll
<1>2. PICK t \in Targets : t = call[c].target
  BY <1>1, RunningCall
<1>3. PICK a \in Answers : Reply(c, a) /\ (a = "published" => Mounted(t)) /\ a # "unpublished"
                           /\ (Mounted(t) \/ t \notin dir)
  BY <1>2 DEF Poll, Answers, Dead
<1>4. "poll" \in PublishSteps
  BY DEF PublishSteps
<1>5. ASSUME t \notin late PROVE \A p \in Procs : proc[p].target = t => proc[p].pc = "serves"
  <2>1. AloneAt(t)
    BY <1>5 DEF Inv, AloneInv
  <2>2. Mounted(t)
    BY <1>1, <1>2, <1>3, <2>1 DEF AloneAt
  <2> QED
    BY <2>1, <2>2 DEF AloneAt
<1> QED
  BY <1>1, <1>2, <1>3, <1>4, <1>5, QuietReply

\* Where a process is left to itself, the target is marked.
LEMMA MountTimeoutKeepsInv == \A c \in Calls : Inv /\ MountTimeout(c) => Inv'
<1> SUFFICES ASSUME NEW c \in Calls, Inv, MountTimeout(c) PROVE Inv'
  OBVIOUS
<1>1. /\ call[c].pc = "poll" /\ UNCHANGED <<dir, mnt, file, proc>> /\ Reply(c, "none")
  BY DEF MountTimeout, GiveUp, Deadline
<1>2. PICK t \in Targets : t = call[c].target
  BY <1>1, RunningCall
<1>3. late' = IF \E p \in Procs : proc[p].target = t THEN late \cup {t} ELSE late
  BY <1>2 DEF MountTimeout, GiveUp
<1>4. "none" \in Answers
  BY DEF Answers
<1> QED
  BY <1>1, <1>2, <1>3, <1>4, QuietReply

LEMMA execCmdKeepsInv == \A c \in Calls, p \in Procs : Inv /\ execCmd(c, p) => Inv'
<1> SUFFICES ASSUME NEW c \in Calls, NEW p \in Procs, Inv, execCmd(c, p) PROVE Inv'
  OBVIOUS
<1>1. /\ call[c].pc = "exec" /\ UNCHANGED <<dir, mnt, file, late>> /\ Goto(c, "poll")
      /\ proc[p].pc = "exited" /\ proc \in [Procs -> ProcRecord] /\ StateTypeOK
  BY DEF execCmd, Inv, StateTypeOK
<1>2. PICK t \in Targets : t = call[c].target
  BY <1>1, RunningCall
<1>3. PICK v \in Volumes : v = VolumeOf(t)
  BY DEF VolumeOf, Inv, StateTypeOK, KubeletRecord
<1>4. Options[v].url /\ NewChdfsConfig(v)
  BY <1>1, <1>2, <1>3, RunningCall DEF CallOK, PublishSteps
<1>5. /\ TalkType /\ TalkInv' /\ SameVolumes /\ kubelet' = kubelet
      /\ call'[c].pc = "poll" /\ call'[c].target = t
      /\ \A b \in Calls : b # c => call'[b] = call[b]
  <2>1. "poll" \in PublishSteps /\ "exec" \in PublishSteps
    BY DEF PublishSteps
  <2> QED
    BY <1>1, <1>2, <1>3, <1>4, <2>1, GotoTalk
<1>6. PICK r : r = [pc |-> "starts", target |-> t, reads |-> ConfigName(v), volume |-> None]
  OBVIOUS
<1>7. /\ r \in ProcRecord /\ r.pc = "starts" /\ r.target = t /\ r.reads = ConfigName(v)
  BY <1>6, ConstantFacts DEF ProcRecord
<1>8. /\ proc' \in [Procs -> ProcRecord] /\ proc'[p] = r
      /\ \A q \in Procs : q # p => proc'[q] = proc[q]
  <2>1. proc' = [proc EXCEPT ![p] = r]
    BY <1>2, <1>3, <1>6 DEF execCmd
  <2> QED
    BY <1>1, <1>7, <2>1
<1>9. ProcInv'
  <2>1. ProcRight(r)
    BY <1>3, <1>4, <1>7, ConstantFacts DEF ProcRight, Publishable
  <2> QED
    BY <1>1, <1>5, <1>8, <2>1, ProcsStep DEF Inv
<1>10. StateTypeOK' /\ ClaimInv' /\ FileInv'
  BY <1>1, <1>5, <1>8, ClaimStays, FilesStay DEF Inv, StateTypeOK, TalkType
<1>11. LayersInv'
  <2>1. \A u \in Targets : Mounted(u) => u \in dir'
    BY <1>1 DEF Inv, LayersInv, LayersOK
  <2>2. \A q \in Procs : proc[q].pc = "serves" => proc'[q] = proc[q]
    BY <1>1, <1>8
  <2> QED
    BY <1>1, <1>5, <2>1, <2>2, LayersStay DEF Inv
<1>12. AnswerInv'
  BY <1>1, <1>5 DEF Inv, AnswerInv, AnswerOK, Mounted
<1>13. AloneInv'
  <2> SUFFICES ASSUME NEW u \in Targets, u \notin late PROVE AloneAt(u)'
    BY <1>1 DEF AloneInv
  <2>1. AloneAt(u)
    BY DEF Inv, AloneInv
  <2>2. CASE u # t
    <3>1. \A b \in Calls : call[b].target = u \/ call'[b].target = u => call'[b] = call[b]
      BY <1>2, <1>5, <2>2
    <3>2. \A q \in Procs : proc[q].target = u \/ proc'[q].target = u => proc'[q] = proc[q]
      <4>1. proc[p].target = None
        BY <1>1 DEF Inv, ProcInv, ProcOK
      <4> QED
        BY <1>7, <1>8, <2>2, <4>1, ConstantFacts
    <3> QED
      BY <1>1, <1>5, <2>1, <2>2, <3>1, <3>2, AloneElsewhere
  <2>3. CASE u = t
    <3>1. t \in dir /\ ~ Mounted(t) /\ \A q \in Procs : proc[q].target # t
      BY <1>1, <1>2, <2>3, StillAlone
    <3>2. \A b \in Calls : call'[b].target = t => b = c /\ kubelet'[t].call = b
      BY <1>2, <1>5, <2>1, <2>3 DEF AloneAt
    <3>3. \A q \in Procs : proc'[q].target = t => q = p
      BY <1>8, <3>1
    <3>4. ~ Mounted(t)' /\ t \in dir' /\ Len(mnt'[t]) <= 1
      BY <1>1, <2>1, <2>3, <3>1 DEF Mounted, AloneAt
    <3>5. AloneAt(t)'
      BY <1>5, <1>7, <1>8, <3>2, <3>3, <3>4 DEF AloneAt
    <3> QED
      BY <2>3, <3>5
  <2> QED
    BY <2>2, <2>3
<1> QED
  BY <1>5, <1>9, <1>10, <1>11, <1>12, <1>13 DEF Inv, TalkInv

-----------------------------------------------------------------------------
(* Layers that come and go.                                                 *)

LEMMA TailFacts ==
    ASSUME NEW S, NEW s \in Seq(S), s # <<>>
    PROVE  /\ Tail(s) \in Seq(S) /\ Len(Tail(s)) = Len(s) - 1 /\ Len(s) \in Nat
           /\ 1 \in DOMAIN s /\ Head(s) = s[1]
           /\ \A i \in DOMAIN Tail(s) : i + 1 \in DOMAIN s /\ Tail(s)[i] = s[i + 1]
                                        /\ i + 1 # 1 /\ i \in Nat
  OBVIOUS

LEMMA ConsFacts ==
    ASSUME NEW S, NEW s \in Seq(S), NEW x \in S
    PROVE  /\ <<x>> \o s \in Seq(S) /\ Len(<<x>> \o s) = Len(s) + 1 /\ Len(s) \in Nat
           /\ <<x>> \o s # <<>> /\ (<<x>> \o s)[1] = x
           /\ \A i \in DOMAIN (<<x>> \o s) :
                 i = 1 \/ (i - 1 \in DOMAIN s /\ (<<x>> \o s)[i] = s[i - 1] /\ i \in Nat)
  OBVIOUS

\* The layers o are the layers s without the processes of P.
Orphans(o, s, P) ==
    /\ o \in Seq(Layer) /\ Len(o) = Len(s)
    /\ DOMAIN o = DOMAIN s
    /\ o = <<>> <=> s = <<>>
    /\ \A i \in DOMAIN s :
          /\ o[i].volume = s[i].volume
          /\ s[i].by \notin P => o[i].by = s[i].by
          /\ s[i].by \in P => o[i].by = None

LEMMA OrphanedFacts ==
    ASSUME NEW s \in Seq(Layer), NEW P, NEW o, o = Orphaned(s, P)
    PROVE  Orphans(o, s, P)
<1>1. Len(s) \in Nat /\ DOMAIN s = 1 .. Len(s) /\ \A i \in DOMAIN s : s[i] \in Layer
  OBVIOUS
<1>2. DOMAIN o = DOMAIN s
  BY DEF Orphaned
<1>3. \A i \in DOMAIN s : o[i] = IF s[i].by \in P THEN [s[i] EXCEPT !.by = None] ELSE s[i]
  BY DEF Orphaned
<1>4. \A i \in DOMAIN s : /\ o[i] \in Layer /\ o[i].volume = s[i].volume
                          /\ s[i].by \notin P => o[i].by = s[i].by
                          /\ s[i].by \in P => o[i].by = None
  BY <1>1, <1>3 DEF Layer
<1>5. o \in [1 .. Len(s) -> Layer]
  BY <1>1, <1>4 DEF Orphaned
<1>6. o \in Seq(Layer) /\ Len(o) = Len(s)
  BY <1>1, <1>5
<1>7. o = <<>> <=> s = <<>>
  BY <1>6
<1> QED
  BY <1>2, <1>4, <1>6, <1>7 DEF Orphans

\* The layers of target t are s from now on.
LEMMA LayersFrom ==
    ASSUME SameVolumes, NEW t \in Targets, NEW s, s = mnt'[t],
           s # <<>> => t \in dir' /\ Publishable(VolumeOf(t)),
           \A i \in DOMAIN s : Configured(s[i].volume, ConfigName(VolumeOf(t))),
           \A i \in DOMAIN s : s[i].by # None =>
               proc'[s[i].by].pc = "serves" /\ proc'[s[i].by].target = t,
           \A i, j \in DOMAIN s : s[i].by # None /\ s[i].by = s[j].by => i = j
    PROVE  LayersOK(t)'
<1>1. PICK v : v = VolumeOf(t) /\ v = VolumeOf(t)'
  BY DEF SameVolumes
<1>2. Mounted(t)' => t \in dir' /\ Publishable(VolumeOf(t)')
  BY <1>1 DEF Mounted
<1>3. ASSUME NEW i \in DOMAIN s PROVE Configured(s[i].volume, ConfigName(v))'
  BY <1>1, <1>3, ConfiguredStays
<1>4. \A i \in DOMAIN mnt'[t] : Configured(mnt[t][i].volume, ConfigName(VolumeOf(t)))'
  BY <1>1, <1>3 DEF Configured
<1> QED
  BY <1>2, <1>4 DEF LayersOK

-----------------------------------------------------------------------------
(* NodeUnpublishVolume.                                                     *)

LEMMA UnpublishCheckKeepsInv == \A c \in Calls : Inv /\ UnpublishCheck(c) => Inv'
<1> SUFFICES ASSUME NEW c \in Calls, Inv, UnpublishCheck(c) PROVE Inv'
  OBVIOUS
<1>1. call[c].pc = "check" /\ UNCHANGED <<dir, mnt, file, proc, late>>
  BY DEF UnpublishCheck
<1>2. PICK t \in Targets : t = call[c].target
  BY <1>1, RunningCall
<1>3. "unpublished" \in Answers
  BY DEF Answers
<1>4. CASE ~ Mounted(t) /\ Reply(c, "unpublished")
  BY <1>1, <1>2, <1>3, <1>4, PlainReply
<1>5. CASE Goto(c, "umount")
  <2>1. /\ "umount" \in (PublishSteps \cup UnpublishSteps) \ {"poll"}
        /\ "umount" \notin PublishSteps /\ "check" \notin PublishSteps
    BY DEF PublishSteps, UnpublishSteps
  <2>2. file' \in [Files -> Volumes \cup {"empty", None}]
    BY <1>1 DEF Inv, StateTypeOK
  <2>3. FileInv'
    <3>1. SameVolumes
      BY <1>5 DEF Goto, SameVolumes, VolumeOf
    <3> QED
      BY <1>1, <3>1, FilesStay DEF Inv
  <2> QED
    BY <1>1, <1>2, <1>5, <2>1, <2>2, <2>3, QuietGoto
<1> QED
  BY <1>2, <1>4, <1>5 DEF UnpublishCheck

\* Unmount takes the visible layer away and ends its process.
TakesVisible(t) ==
    /\ mnt' = [mnt EXCEPT ![t] = Tail(mnt[t])]
    /\ proc' = [p \in Procs |-> IF p = Head(mnt[t]).by THEN Exited ELSE proc[p]]

LEMMA UnmountsKeepsInv ==
    ASSUME Inv, NEW c \in Calls, call[c].pc = "umount", NEW t \in Targets, t = call[c].target,
           Mounted(t), TakesVisible(t),
           Reply(c, "unpublished"), UNCHANGED <<dir, file, late>>
    PROVE  Inv'
<1>1. /\ StateTypeOK /\ mnt \in [Targets -> Seq(Layer)] /\ proc \in [Procs -> ProcRecord]
      /\ call \in [Calls -> CallRecord]
  BY DEF Inv, StateTypeOK
<1>2. /\ TalkType /\ TalkInv' /\ SameVolumes
      /\ call' = [call EXCEPT ![c] = Idle]
      /\ \A u \in Targets : u # t => kubelet'[u] = kubelet[u]
      /\ kubelet[t].call # c => kubelet'[t] = kubelet[t]
      /\ kubelet[t].call = c => kubelet'[t].call = None /\ kubelet'[t].answer = "unpublished"
  <2>1. "unpublished" \in Answers
    BY DEF Answers
  <2> QED
    BY <2>1, ReplyTalk
<1>3. PICK s \in Seq(Layer) : s = mnt[t] /\ s # <<>>
  BY <1>1 DEF Mounted
<1>4. PICK h : h = Head(s).by
  OBVIOUS
<1>5. PICK w \in Seq(Layer) : w = Tail(s)
  BY <1>3, TailFacts
<1>6. /\ mnt' \in [Targets -> Seq(Layer)] /\ mnt'[t] = w
      /\ \A u \in Targets : u # t => mnt'[u] = mnt[u]
  BY <1>1, <1>3, <1>5 DEF TakesVisible
<1>7. /\ proc' \in [Procs -> ProcRecord]
      /\ \A p \in Procs : p = h => proc'[p] = Exited
      /\ \A p \in Procs : p # h => proc'[p] = proc[p]
  BY <1>1, <1>3, <1>4, ConstantFacts DEF TakesVisible
<1>8. StateTypeOK' /\ ClaimInv' /\ FileInv'
  BY <1>1, <1>2, <1>6, <1>7, ClaimStays, FilesStay DEF Inv, StateTypeOK, TalkType
<1>9. ProcInv'
  <2>1. ProcRight(Exited)
    BY ConstantFacts DEF ProcRight
  <2> QED
    BY <1>1, <1>2, <1>7, <2>1, ProcsStep DEF Inv
<1>10. LayersOK(t)
  BY DEF Inv, LayersInv
<1>11. h # None => h \in Procs /\ proc[h].target = t
  <2>1. 1 \in DOMAIN s /\ Head(s) = s[1] /\ s[1] \in Layer
    BY <1>3, TailFacts
  <2> QED
    BY <1>3, <1>4, <1>10, <2>1 DEF LayersOK, Layer
<1>12. LayersInv'
  <2> SUFFICES ASSUME NEW u \in Targets PROVE LayersOK(u)'
    BY DEF LayersInv
  <2>1. CASE u # t
    <3>1. \A p \in Procs : proc[p].pc = "serves" /\ proc[p].target = u => proc'[p] = proc[p]
      BY <1>7, <1>11, <2>1, ConstantFacts
    <3>2. LayersOK(u) /\ (Mounted(u) => u \in dir')
      BY DEF Inv, LayersInv, LayersOK
    <3> QED
      BY <1>1, <1>2, <1>6, <2>1, <3>1, <3>2, LayersOKStays
  <2>2. CASE u = t
    <3>1. \A i \in DOMAIN w : i + 1 \in DOMAIN s /\ w[i] = s[i + 1] /\ i + 1 # 1 /\ i \in Nat
      BY <1>3, <1>5, TailFacts
    <3>2. 1 \in DOMAIN s /\ Head(s) = s[1]
      BY <1>3, TailFacts
    <3>3. \A i, j \in DOMAIN s : s[i].by # None /\ s[i].by = s[j].by => i = j
      BY <1>3, <1>10 DEF LayersOK
    <3>4. t \in dir' /\ Publishable(VolumeOf(t))
      BY <1>10 DEF LayersOK
    <3>5. \A i \in DOMAIN w : Configured(w[i].volume, ConfigName(VolumeOf(t)))
      BY <1>3, <1>10, <3>1 DEF LayersOK
    <3>6. ASSUME NEW i \in DOMAIN w, w[i].by # None
          PROVE  proc'[w[i].by].pc = "serves" /\ proc'[w[i].by].target = t
      <4>1. PICK k \in DOMAIN s : w[i] = s[k] /\ k # 1
        BY <3>1
      <4>2. s[k].by \in Procs /\ s[k].by # h
        <5>1. s[k] \in Layer
          BY <1>3
        <5> QED
          BY <1>4, <3>2, <3>3, <3>6, <4>1, <5>1 DEF Layer
      <4>3. proc[s[k].by].pc = "serves" /\ proc[s[k].by].target = t
        BY <1>3, <1>10, <3>6, <4>1 DEF LayersOK
      <4> QED
        BY <1>7, <4>1, <4>2, <4>3
    <3>7. \A i, j \in DOMAIN w : w[i].by # None /\ w[i].by = w[j].by => i = j
      <4> SUFFICES ASSUME NEW i \in DOMAIN w, NEW j \in DOMAIN w,
                          w[i].by # None, w[i].by = w[j].by
                   PROVE  i = j
        OBVIOUS
      <4>1. i + 1 = j + 1
        BY <3>1, <3>3
      <4> QED
        BY <3>1, <4>1
    <3>8. SameVolumes /\ w = mnt'[t]
      BY <1>2, <1>6
    <3>9. \A i \in DOMAIN w : w[i].by # None =>
              proc'[w[i].by].pc = "serves" /\ proc'[w[i].by].target = t
      BY <3>6
    <3>10. LayersOK(t)'
      BY <3>4, <3>5, <3>7, <3>8, <3>9, LayersFrom
    <3> QED
      BY <2>2, <3>10
  <2> QED
    BY <2>1, <2>2
<1>13. t \notin late => w = <<>>
  <2>1. t \notin late => Len(s) <= 1
    BY <1>3 DEF Inv, AloneInv, AloneAt
  <2>2. Len(w) = Len(s) - 1 /\ Len(s) \in Nat
    BY <1>3, <1>5, TailFacts
  <2>3. Len(w) \in Nat /\ (Len(w) = 0 => w = <<>>)
    BY EmptySeq
  <2> QED
    BY <2>1, <2>2, <2>3
<1>14. AnswerInv'
  <2> SUFFICES ASSUME NEW u \in Targets PROVE AnswerOK(u)'
    BY DEF AnswerInv
  <2>1. AnswerOK(u)
    BY DEF Inv, AnswerInv
  <2>2. CASE u # t
    BY <1>2, <1>6, <2>1, <2>2 DEF AnswerOK, Mounted
  <2>3. CASE u = t
    <3>1. CallOK(c)
      BY RunningCall
    <3>2. kubelet[t].answer # "published"
      BY <3>1 DEF CallOK, UnpublishSteps
    <3>3. kubelet'[t].answer # "published"
      BY <1>2, <3>2
    <3> QED
      BY <1>6, <1>13, <2>3, <3>3 DEF AnswerOK, Mounted
  <2> QED
    BY <2>2, <2>3
<1>15. AloneInv'
  <2> SUFFICES ASSUME NEW u \in Targets, u \notin late PROVE AloneAt(u)'
    BY DEF AloneInv
  <2>1. AloneAt(u)
    BY DEF Inv, AloneInv
  <2>2. CASE u # t
    <3>1. \A b \in Calls : call[b].target = u \/ call'[b].target = u => call'[b] = call[b]
      BY <1>1, <1>2, <2>2, ConstantFacts
    <3>2. \A p \in Procs : proc[p].target = u \/ proc'[p].target = u => proc'[p] = proc[p]
      BY <1>7, <1>11, <2>2, ConstantFacts
    <3> QED
      BY <1>2, <1>6, <2>1, <2>2, <3>1, <3>2, AloneElsewhere
  <2>3. CASE u = t
    <3>1. \A b \in Calls : call[b].target = t => call[b].pc # "poll"
      BY <2>1, <2>3 DEF AloneAt
    <3>2. \A p \in Procs : proc[p].target = t => p = h
      <4>1. \A p \in Procs : proc[p].target = t => mnt[t][1].by = p
        BY <2>1, <2>3, <3>1, AloneServes
      <4> QED
        BY <1>3, <1>4, <4>1, TailFacts
    <3>3. \A p \in Procs : proc'[p].target # t
      BY <1>7, <3>2, ConstantFacts
    <3>4. Len(mnt'[t]) <= 1
      <4>1. mnt'[t] = <<>>
        BY <1>6, <1>13, <2>3
      <4> QED
        BY <4>1
    <3>5. call \in [Calls -> CallRecord] /\ call' = [call EXCEPT ![c] = Idle]
      BY <1>1, <1>2
    <3> QED
      BY <2>1, <2>3, <3>3, <3>4, <3>5, AloneReply
  <2> QED
    BY <2>2, <2>3
<1> QED
  BY <1>2, <1>8, <1>9, <1>12, <1>14, <1>15 DEF Inv, TalkInv

LEMMA UnpublishUmountKeepsInv == \A c \in Calls : Inv /\ UnpublishUmount(c) => Inv'
<1> SUFFICES ASSUME NEW c \in Calls, Inv, UnpublishUmount(c) PROVE Inv'
  OBVIOUS
<1>1. call[c].pc = "umount" /\ UNCHANGED <<dir, file, late>>
  BY DEF UnpublishUmount
<1>2. PICK t \in Targets : t = call[c].target
  BY <1>1, RunningCall
<1>3. "none" \in Answers
  BY DEF Answers
<1>4. CASE Reply(c, "none") /\ UNCHANGED <<mnt, proc>>
  BY <1>1, <1>2, <1>3, <1>4, PlainReply
<1>5. CASE Mounted(t) /\ TakesVisible(t) /\ Reply(c, "unpublished")
  BY <1>1, <1>2, <1>5, UnmountsKeepsInv
<1> QED
  BY <1>2, <1>4, <1>5 DEF UnpublishUmount, TakesVisible

-----------------------------------------------------------------------------
(* kubelet.                                                                 *)

\* The pod is deleted, or kubelet forgets the call and marks the target.
LEMMA KubeletForgets ==
    ASSUME Inv, NEW t \in Targets, NEW k \in KubeletRecord, kubelet' = [kubelet EXCEPT ![t] = k],
           k.volume = kubelet[t].volume, k.answer = kubelet[t].answer, k.call = None,
           k.pod => kubelet[t].pod, UNCHANGED <<dir, mnt, file, proc, call>>,
           late' = late \cup {t} \/ (late' = late /\ kubelet[t].call = None)
    PROVE  Inv'
<1>1. StateTypeOK /\ kubelet \in [Targets -> KubeletRecord] /\ call \in [Calls -> CallRecord]
  BY DEF Inv, StateTypeOK
<1>2. /\ kubelet' \in [Targets -> KubeletRecord] /\ kubelet'[t] = k
      /\ \A u \in Targets : u # t => kubelet'[u] = kubelet[u]
  BY <1>1
<1>3. SameVolumes
  BY <1>2 DEF SameVolumes, VolumeOf
<1>4. StateTypeOK' /\ ClaimInv' /\ FileInv'
  BY <1>1, <1>2, <1>3, ClaimStays, FilesStay DEF Inv, StateTypeOK
<1>5. ProcInv' /\ LayersInv'
  <2>1. \A u \in Targets : Mounted(u) => u \in dir'
    BY DEF Inv, LayersInv, LayersOK
  <2>2. proc' \in [Procs -> ProcRecord]
    BY <1>4 DEF StateTypeOK
  <2> QED
    BY <1>1, <1>3, <2>1, <2>2, LayersStay, ProcsStep DEF Inv
<1>6. KubeletInv'
  <2> SUFFICES ASSUME NEW u \in Targets PROVE KubeletOK(u)'
    BY DEF KubeletInv
  <2>1. KubeletOK(u)
    BY DEF Inv, KubeletInv
  <2> QED
    BY <1>2, <2>1 DEF KubeletOK
<1>7. CallInv'
  <2> SUFFICES ASSUME NEW c \in Calls PROVE CallOK(c)'
    BY DEF CallInv
  <2>1. CallOK(c) /\ call[c] \in CallRecord
    BY <1>1 DEF Inv, CallInv
  <2>2. call[c].pc # "idle" => call[c].target \in Targets
    BY <2>1 DEF CallOK, CallRecord
  <2>3. call[c].pc # "idle" =>
           /\ kubelet'[call[c].target].volume = kubelet[call[c].target].volume
           /\ kubelet'[call[c].target].answer = kubelet[call[c].target].answer
           /\ kubelet'[call[c].target].pod => kubelet[call[c].target].pod
    BY <1>2, <2>2
  <2> QED
    BY <2>1, <2>3 DEF CallOK, VolumeOf, PublishSteps, UnpublishSteps
<1>8. AnswerInv'
  <2> SUFFICES ASSUME NEW u \in Targets PROVE AnswerOK(u)'
    BY DEF AnswerInv
  <2>1. AnswerOK(u) /\ kubelet'[u].answer = kubelet[u].answer /\ (u \notin late' => u \notin late)
    BY <1>2 DEF Inv, AnswerInv
  <2> QED
    BY <2>1 DEF AnswerOK, Mounted
<1>9. AloneInv'
  <2> SUFFICES ASSUME NEW u \in Targets, u \notin late' PROVE AloneAt(u)'
    BY DEF AloneInv
  <2>1. AloneAt(u)
    BY DEF Inv, AloneInv
  <2>2. kubelet'[u].call = kubelet[u].call
    BY <1>2
  <2> QED
    BY <2>1, <2>2, AloneElsewhere
<1> QED
  BY <1>4, <1>5, <1>6, <1>7, <1>8, <1>9 DEF Inv

LEMMA PodDeletedKeepsInv == \A t \in Targets : Inv /\ PodDeleted(t) => Inv'
<1> SUFFICES ASSUME NEW t \in Targets, Inv, PodDeleted(t) PROVE Inv'
  OBVIOUS
<1>1. kubelet \in [Targets -> KubeletRecord] /\ kubelet[t] \in KubeletRecord
  BY DEF Inv, StateTypeOK
<1>2. PICK k : k = [kubelet[t] EXCEPT !.pod = FALSE]
  OBVIOUS
<1>3. /\ k \in KubeletRecord /\ k.volume = kubelet[t].volume /\ k.answer = kubelet[t].answer
      /\ k.call = kubelet[t].call /\ ~ k.pod
  BY <1>1, <1>2 DEF KubeletRecord
<1>4. kubelet' = [kubelet EXCEPT ![t] = k]
  BY <1>1, <1>2 DEF PodDeleted
<1>5. kubelet[t].call = None /\ UNCHANGED <<dir, mnt, file, proc, call, late>>
  BY DEF PodDeleted
<1> QED
  BY <1>3, <1>4, <1>5, KubeletForgets

LEMMA AbandonKeepsInv == \A t \in Targets : Inv /\ Abandon(t) => Inv'
<1> SUFFICES ASSUME NEW t \in Targets, Inv, Abandon(t) PROVE Inv'
  OBVIOUS
<1>1. kubelet \in [Targets -> KubeletRecord] /\ kubelet[t] \in KubeletRecord
  BY DEF Inv, StateTypeOK
<1>2. PICK k : k = [kubelet[t] EXCEPT !.call = None]
  OBVIOUS
<1>3. /\ k \in KubeletRecord /\ k.volume = kubelet[t].volume /\ k.answer = kubelet[t].answer
      /\ k.call = None /\ k.pod = kubelet[t].pod
  BY <1>1, <1>2 DEF KubeletRecord
<1>4. kubelet' = [kubelet EXCEPT ![t] = k]
  BY <1>1, <1>2 DEF Abandon
<1>5. late' = late \cup {t} /\ UNCHANGED <<dir, mnt, file, proc, call>>
  BY DEF Abandon
<1> QED
  BY <1>3, <1>4, <1>5, KubeletForgets

\* Where nothing was given up, no call runs once it was answered.
LEMMA RemoveDirKeepsInv == \A t \in Targets : Inv /\ RemoveDir(t) => Inv'
<1> SUFFICES ASSUME NEW t \in Targets, Inv, RemoveDir(t) PROVE Inv'
  OBVIOUS
<1>1. /\ kubelet[t].answer = "unpublished" /\ ~ Mounted(t) /\ dir' = dir \ {t}
      /\ UNCHANGED <<mnt, file, proc, call, kubelet, late>> /\ StateTypeOK
  BY DEF RemoveDir, Inv
<1>2. SameVolumes
  BY <1>1 DEF SameVolumes, VolumeOf
<1>3. StateTypeOK' /\ ClaimInv' /\ FileInv'
  BY <1>1, <1>2, ClaimStays, FilesStay DEF Inv, StateTypeOK
<1>4. ProcInv' /\ LayersInv'
  <2>1. \A u \in Targets : Mounted(u) => u \in dir'
    BY <1>1 DEF Inv, LayersInv, LayersOK
  <2>2. proc' \in [Procs -> ProcRecord]
    BY <1>3 DEF StateTypeOK
  <2> QED
    BY <1>1, <1>2, <2>1, <2>2, LayersStay, ProcsStep DEF Inv
<1>5. KubeletInv' /\ CallInv' /\ AnswerInv'
  BY <1>1 DEF Inv, KubeletInv, KubeletOK, CallInv, CallOK, AnswerInv, AnswerOK, VolumeOf, Mounted
<1>6. AloneInv'
  <2> SUFFICES ASSUME NEW u \in Targets, u \notin late PROVE AloneAt(u)'
    BY <1>1 DEF AloneInv
  <2>1. AloneAt(u)
    BY DEF Inv, AloneInv
  <2>2. CASE u # t
    BY <1>1, <2>1, <2>2, AloneElsewhere
  <2>3. CASE u = t
    <3>1. kubelet[t].call = None
      <4>1. KubeletOK(t)
        BY DEF Inv, KubeletInv
      <4> QED
        BY <1>1, <4>1 DEF KubeletOK
    <3>2. \A c \in Calls : call[c].target # t
      BY <2>1, <2>3, <3>1, ConstantFacts DEF AloneAt
    <3>3. \A p \in Procs : proc[p].target # t
      BY <1>1, <2>1, <2>3, <3>2 DEF AloneAt
    <3>4. Len(mnt'[t]) <= 1
      BY <1>1, <2>1, <2>3 DEF AloneAt
    <3>5. AloneAt(t)'
      BY <1>1, <3>2, <3>3, <3>4 DEF AloneAt
    <3> QED
      BY <2>3, <3>5
  <2> QED
    BY <2>2, <2>3
<1> QED
  BY <1>3, <1>4, <1>5, <1>6 DEF Inv

\* A new call: a publish of a wanted volume, or an unpublish.
LEMMA RequestKeepsInv ==
    ASSUME Inv, NEW c \in Calls, NEW t \in Targets, NEW pc \in {"create", "check"},
           Request(c, t, pc), UNCHANGED <<dir, mnt, file, proc, late>>,
           pc = "create" => kubelet[t].pod /\ Options[VolumeOf(t)].url,
           pc = "check" => ~ kubelet[t].pod
    PROVE  Inv'
<1>1. /\ StateTypeOK /\ kubelet \in [Targets -> KubeletRecord] /\ call \in [Calls -> CallRecord]
      /\ kubelet[t] \in KubeletRecord
  BY DEF Inv, StateTypeOK
<1>2. call[c].pc = "idle" /\ call[c].target = None /\ kubelet[t].call = None
  BY DEF Request, Inv, CallInv, CallOK
<1>3. PICK r : r = [pc |-> pc, target |-> t]
  OBVIOUS
<1>4. r \in CallRecord /\ r.pc = pc /\ r.target = t
  BY <1>3 DEF CallRecord
<1>5. /\ call' \in [Calls -> CallRecord] /\ call'[c] = r
      /\ \A b \in Calls : b # c => call'[b] = call[b]
  BY <1>1, <1>3, <1>4 DEF Request
<1>6. PICK k : k = [kubelet[t] EXCEPT !.call = c, !.answer = "none"]
  OBVIOUS
<1>7. /\ k \in KubeletRecord /\ k.volume = kubelet[t].volume /\ k.answer = "none"
      /\ k.call = c /\ k.pod = kubelet[t].pod
  BY <1>1, <1>6 DEF KubeletRecord, Answers
<1>8. /\ kubelet' \in [Targets -> KubeletRecord] /\ kubelet'[t] = k
      /\ \A u \in Targets : u # t => kubelet'[u] = kubelet[u]
  <2>1. kubelet' = [kubelet EXCEPT ![t] = k]
    BY <1>1, <1>6 DEF Request
  <2> QED
    BY <1>1, <1>7, <2>1
<1>9. SameVolumes
  BY <1>7, <1>8 DEF SameVolumes, VolumeOf
<1>10. StateTypeOK' /\ ClaimInv' /\ FileInv'
  BY <1>1, <1>5, <1>8, <1>9, ClaimStays, FilesStay DEF Inv, StateTypeOK
<1>11. ProcInv' /\ LayersInv'
  <2>1. \A u \in Targets : Mounted(u) => u \in dir'
    BY DEF Inv, LayersInv, LayersOK
  <2>2. proc' \in [Procs -> ProcRecord]
    BY <1>10 DEF StateTypeOK
  <2> QED
    BY <1>1, <1>9, <2>1, <2>2, LayersStay, ProcsStep DEF Inv
<1>12. KubeletInv'
  <2> SUFFICES ASSUME NEW u \in Targets, kubelet'[u].call # None PROVE KubeletOK(u)'
    BY DEF KubeletInv, KubeletOK
  <2>1. CASE u = t
    BY <1>4, <1>5, <1>7, <1>8, <2>1 DEF KubeletOK, PublishSteps, UnpublishSteps
  <2>2. CASE u # t
    <3>1. KubeletOK(u) /\ kubelet'[u] = kubelet[u]
      BY <1>8, <2>2 DEF Inv, KubeletInv
    <3>2. PICK b \in Calls : b = kubelet[u].call
      BY <1>1, <3>1 DEF KubeletRecord
    <3>3. call[b].target = u
      BY <3>1, <3>2 DEF KubeletOK
    <3>4. b # c
      BY <1>2, <3>3, ConstantFacts
    <3>5. call'[b] = call[b]
      BY <1>5, <3>4
    <3> QED
      BY <3>1, <3>2, <3>5 DEF KubeletOK
  <2> QED
    BY <2>1, <2>2
<1>13. CallInv'
  <2> SUFFICES ASSUME NEW b \in Calls PROVE CallOK(b)'
    BY DEF CallInv
  <2>1. CASE b = c
    BY <1>4, <1>5, <1>7, <1>8, <2>1, ConstantFacts
       DEF CallOK, VolumeOf, PublishSteps, UnpublishSteps
  <2>2. CASE b # c
    <3>1. CallOK(b) /\ call[b] \in CallRecord /\ call'[b] = call[b]
      BY <1>1, <1>5, <2>2 DEF Inv, CallInv
    <3>2. call[b].pc # "idle" => call[b].target \in Targets
      BY <3>1 DEF CallOK, CallRecord
    <3>3. call[b].pc # "idle" =>
             /\ kubelet'[call[b].target].volume = kubelet[call[b].target].volume
             /\ kubelet'[call[b].target].answer \in {"none", kubelet[call[b].target].answer}
             /\ kubelet'[call[b].target].pod = kubelet[call[b].target].pod
      BY <1>7, <1>8, <3>2
    <3> QED
      BY <3>1, <3>3 DEF CallOK, VolumeOf, PublishSteps, UnpublishSteps
  <2> QED
    BY <2>1, <2>2
<1>14. AnswerInv'
  <2> SUFFICES ASSUME NEW u \in Targets PROVE AnswerOK(u)'
    BY DEF AnswerInv
  <2>1. AnswerOK(u)
    BY DEF Inv, AnswerInv
  <2> QED
    BY <1>7, <1>8, <2>1 DEF AnswerOK, Mounted
<1>15. AloneInv'
  <2> SUFFICES ASSUME NEW u \in Targets, u \notin late PROVE AloneAt(u)'
    BY DEF AloneInv
  <2>1. AloneAt(u)
    BY DEF Inv, AloneInv
  <2>2. CASE u # t
    <3>1. \A b \in Calls : call[b].target = u \/ call'[b].target = u => call'[b] = call[b]
      BY <1>2, <1>4, <1>5, <2>2, ConstantFacts
    <3>2. kubelet'[u].call = kubelet[u].call
      BY <1>8, <2>2
    <3> QED
      BY <2>1, <3>1, <3>2, AloneElsewhere
  <2>3. CASE u = t
    <3>1. \A b \in Calls : call[b].target # t
      BY <1>2, <2>1, <2>3, ConstantFacts DEF AloneAt
    <3>2. \A b \in Calls : call'[b].target = t => b = c
      BY <1>5, <3>1
    <3>3. \A p \in Procs : proc[p].target = t =>
             proc[p].pc = "serves" /\ Mounted(t) /\ mnt[t][1].by = p
      BY <2>1, <2>3, <3>1, AloneServes
    <3>4. /\ \A p \in Procs : proc'[p].target = t =>
                proc'[p].pc = "serves" /\ Mounted(t)' /\ mnt'[t][1].by = p
          /\ \A p, q \in Procs : proc'[p].target = t /\ proc'[q].target = t => p = q
          /\ Len(mnt'[t]) <= 1
      BY <2>1, <2>3, <3>3 DEF AloneAt, Mounted
    <3>5. call'[c].pc \in {"create", "check"} /\ kubelet'[t].call = c
      BY <1>4, <1>5, <1>7, <1>8
    <3>6. AloneAt(t)'
      BY <3>2, <3>4, <3>5 DEF AloneAt
    <3> QED
      BY <2>3, <3>6
  <2> QED
    BY <2>2, <2>3
<1> QED
  BY <1>10, <1>11, <1>12, <1>13, <1>14, <1>15 DEF Inv

LEMMA RequestsKeepInv ==
    \A c \in Calls, t \in Targets :
        Inv /\ (NodePublishVolume(c, t) \/ NodeUnpublishVolume(c, t)) => Inv'
<1> SUFFICES ASSUME NEW c \in Calls, NEW t \in Targets, Inv,
                    NodePublishVolume(c, t) \/ NodeUnpublishVolume(c, t)
             PROVE  Inv'
  OBVIOUS
<1>1. CASE NodePublishVolume(c, t)
  BY <1>1, RequestKeepsInv DEF NodePublishVolume
<1>2. CASE NodeUnpublishVolume(c, t)
  BY <1>2, RequestKeepsInv DEF NodeUnpublishVolume
<1> QED
  BY <1>1, <1>2

-----------------------------------------------------------------------------
(* chdfs-fuse.                                                              *)

\* What calls and kubelet know is not touched by a process.
LEMMA FuseTalk ==
    ASSUME Inv, UNCHANGED <<call, kubelet, file>>
    PROVE  SameVolumes /\ KubeletInv' /\ CallInv' /\ ClaimInv' /\ FileInv'
<1>1. SameVolumes
  BY DEF SameVolumes, VolumeOf
<1>2. ClaimInv' /\ FileInv'
  BY <1>1, ClaimStays, FilesStay DEF Inv
<1>3. KubeletInv' /\ CallInv'
  BY DEF Inv, KubeletInv, KubeletOK, CallInv, CallOK, VolumeOf
<1> QED
  BY <1>1, <1>2, <1>3

\* A process that has not mounted yet goes on, or ends.
LEMMA ProcMoves ==
    ASSUME Inv, NEW p \in Procs, NEW r \in ProcRecord, proc' = [proc EXCEPT ![p] = r],
           proc[p].pc \in {"starts", "mounts"}, ProcRight(r),
           r = Exited \/ (r.pc = "mounts" /\ r.target = proc[p].target),
           UNCHANGED <<dir, mnt, file, call, kubelet, late>>
    PROVE  Inv'
<1>1. StateTypeOK /\ proc \in [Procs -> ProcRecord]
  BY DEF Inv, StateTypeOK
<1>2. /\ proc' \in [Procs -> ProcRecord] /\ proc'[p] = r
      /\ \A q \in Procs : q # p => proc'[q] = proc[q]
  BY <1>1
<1>3. SameVolumes /\ KubeletInv' /\ CallInv' /\ ClaimInv' /\ FileInv'
  BY FuseTalk
<1>4. StateTypeOK'
  BY <1>1, <1>2 DEF StateTypeOK
<1>5. ProcInv'
  BY <1>1, <1>2, <1>3, ProcsStep DEF Inv
<1>6. LayersInv'
  <2>1. \A u \in Targets : Mounted(u) => u \in dir'
    BY DEF Inv, LayersInv, LayersOK
  <2>2. \A q \in Procs : proc[q].pc = "serves" => proc'[q] = proc[q]
    BY <1>2
  <2> QED
    BY <1>1, <1>3, <2>1, <2>2, LayersStay DEF Inv
<1>7. AnswerInv'
  BY DEF Inv, AnswerInv, AnswerOK, Mounted
<1>8. AloneInv'
  <2> SUFFICES ASSUME NEW u \in Targets, u \notin late PROVE AloneAt(u)'
    BY DEF AloneInv
  <2>1. AloneAt(u)
    BY DEF Inv, AloneInv
  <2>2. \A q \in Procs : proc'[q].target = u => proc[q].target = u
    BY <1>2, ConstantFacts
  <2>3. \A q \in Procs : proc'[q].target = u =>
           proc'[q].pc = proc[q].pc \/ (proc[q].pc \in {"starts", "mounts"} /\ proc'[q].pc = "mounts")
    BY <1>2, ConstantFacts
  <2>4. Mounted(u)' <=> Mounted(u)
    BY DEF Mounted
  <2>5. \A q \in Procs : proc'[q].target = u =>
          \/ /\ proc'[q].pc \in {"starts", "mounts"} /\ ~ Mounted(u)'
             /\ \E c \in Calls : call'[c].target = u /\ call'[c].pc = "poll"
          \/ proc'[q].pc = "serves" /\ Mounted(u)' /\ mnt'[u][1].by = q
    BY <2>1, <2>2, <2>3, <2>4 DEF AloneAt
  <2>6. \A c \in Calls : call'[c].target = u /\ call'[c].pc \in {"config", "write", "exec"} =>
          /\ u \in dir' /\ ~ Mounted(u)'
          /\ \A q \in Procs : proc'[q].target # u
    BY <2>1, <2>2, <2>4 DEF AloneAt
  <2>7. /\ \A c \in Calls : call'[c].target = u => kubelet'[u].call = c
        /\ \A c \in Calls : call'[c].target = u /\ call'[c].pc = "poll" => u \in dir'
        /\ Len(mnt'[u]) <= 1
    BY <2>1 DEF AloneAt
  <2>8. \A q, o \in Procs : proc'[q].target = u /\ proc'[o].target = u => q = o
    BY <2>1, <2>2 DEF AloneAt
  <2> QED
    BY <2>5, <2>6, <2>7, <2>8 DEF AloneAt
<1> QED
  BY <1>3, <1>4, <1>5, <1>6, <1>7, <1>8 DEF Inv

LEMMA ReadConfigKeepsInv == \A p \in Procs : Inv /\ ReadConfig(p) => Inv'
<1> SUFFICES ASSUME NEW p \in Procs, Inv, ReadConfig(p) PROVE Inv'
  OBVIOUS
<1>1. /\ proc[p].pc = "starts" /\ UNCHANGED <<dir, mnt, file, call, kubelet, late>>
      /\ proc \in [Procs -> ProcRecord]
  BY DEF ReadConfig, Inv, StateTypeOK
<1>2. proc[p].target \in Targets /\ proc[p] \in ProcRecord /\ ProcOK(p)
  BY <1>1, RunningProc
<1>3. PICK v \in Volumes : v = VolumeOf(proc[p].target)
  BY <1>2 DEF VolumeOf, Inv, StateTypeOK, KubeletRecord
<1>4. PICK f \in Files : f = proc[p].reads /\ f = ConfigName(v)
  BY <1>1, <1>2, <1>3, ConstantFacts DEF ProcOK
<1>5. CASE file[f] \in Volumes
  <2>1. PICK r : r = [proc[p] EXCEPT !.pc = "mounts", !.volume = file[f]]
    OBVIOUS
  <2>2. /\ r \in ProcRecord /\ r.pc = "mounts" /\ r.volume = file[f]
        /\ r.target = proc[p].target /\ r.reads = f
    BY <1>2, <1>4, <1>5, <2>1 DEF ProcRecord
  <2>3. proc' = [proc EXCEPT ![p] = r]
    BY <1>1, <1>4, <1>5, <2>1 DEF ReadConfig
  <2>4. Configured(file[f], f)
    BY <1>5 DEF Inv, FileInv, FileOK
  <2>5. ProcRight(r)
    BY <1>1, <1>2, <1>4, <2>2, <2>4, ConstantFacts DEF ProcRight, ProcOK
  <2> QED
    BY <1>1, <2>2, <2>3, <2>5, ProcMoves
<1>6. CASE file[f] \notin Volumes
  <2>1. proc' = [proc EXCEPT ![p] = Exited]
    BY <1>4, <1>6 DEF ReadConfig
  <2>2. ProcRight(Exited)
    BY ConstantFacts DEF ProcRight
  <2> QED
    BY <1>1, <2>1, <2>2, ConstantFacts, ProcMoves
<1> QED
  BY <1>5, <1>6

AddsLayer(p, t, l, r) ==
    mnt' = [mnt EXCEPT ![t] = <<l>> \o mnt[t]] /\ proc' = [proc EXCEPT ![p] = r]

\* A process mounts: its layer is a new one, and where nothing was given up it is
\* the only one and its call still waits for it.
LEMMA FuseMounts ==
    ASSUME Inv, NEW p \in Procs, NEW t \in Targets, t = proc[p].target, proc[p].pc = "mounts",
           t \in dir, NEW l \in Layer, l.volume = proc[p].volume, l.by = p,
           NEW r \in ProcRecord, r.pc = "serves", r.target = t, ProcRight(r),
           AddsLayer(p, t, l, r), UNCHANGED <<dir, file, call, kubelet, late>>
    PROVE  Inv'
<1>1. StateTypeOK /\ proc \in [Procs -> ProcRecord] /\ mnt \in [Targets -> Seq(Layer)]
  BY DEF Inv, StateTypeOK
<1>2. /\ proc' \in [Procs -> ProcRecord] /\ proc'[p] = r
      /\ \A q \in Procs : q # p => proc'[q] = proc[q]
  BY <1>1 DEF AddsLayer
<1>3. PICK s \in Seq(Layer) : s = mnt[t]
  BY <1>1
<1>4. PICK w \in Seq(Layer) : w = <<l>> \o s
  BY <1>3, ConsFacts
<1>5. /\ mnt' \in [Targets -> Seq(Layer)] /\ mnt'[t] = w
      /\ \A u \in Targets : u # t => mnt'[u] = mnt[u]
  BY <1>1, <1>3, <1>4 DEF AddsLayer
<1>6. SameVolumes /\ KubeletInv' /\ CallInv' /\ ClaimInv' /\ FileInv'
  BY FuseTalk
<1>7. StateTypeOK'
  BY <1>1, <1>2, <1>5 DEF StateTypeOK
<1>8. ProcInv'
  BY <1>1, <1>2, <1>6, ProcsStep DEF Inv
<1>9. /\ w # <<>> /\ Len(w) = Len(s) + 1 /\ Len(s) \in Nat /\ w[1] = l
      /\ \A i \in DOMAIN w : i = 1 \/ (i - 1 \in DOMAIN s /\ w[i] = s[i - 1] /\ i \in Nat)
  BY <1>3, <1>4, ConsFacts
<1>10. LayersOK(t) /\ ProcOK(p)
  BY DEF Inv, LayersInv, ProcInv
<1>11. /\ \A i \in DOMAIN s : s[i].by # p
       /\ \A i \in DOMAIN s : s[i].by # None =>
             proc'[s[i].by].pc = "serves" /\ proc'[s[i].by].target = t
  <2> SUFFICES ASSUME NEW i \in DOMAIN s
               PROVE  /\ s[i].by # p
                      /\ s[i].by # None =>
                            proc'[s[i].by].pc = "serves" /\ proc'[s[i].by].target = t
    OBVIOUS
  <2>1. s[i] \in Layer
    BY <1>3
  <2>2. s[i].by \in Procs \cup {None}
    BY <2>1 DEF Layer
  <2>3. s[i].by # None => proc[s[i].by].pc = "serves" /\ proc[s[i].by].target = t
    BY <1>3, <1>10 DEF LayersOK
  <2>4. s[i].by # p
    BY <2>3, ConstantFacts
  <2> QED
    BY <1>2, <2>2, <2>3, <2>4
<1>12. LayersInv'
  <2> SUFFICES ASSUME NEW u \in Targets PROVE LayersOK(u)'
    BY DEF LayersInv
  <2>1. CASE u # t
    <3>1. LayersOK(u) /\ (Mounted(u) => u \in dir')
      BY DEF Inv, LayersInv, LayersOK
    <3>2. \A q \in Procs : proc[q].pc = "serves" /\ proc[q].target = u => proc'[q] = proc[q]
      BY <1>2
    <3>3. mnt'[u] = mnt[u]
      BY <1>5, <2>1
    <3> QED
      BY <1>1, <1>6, <3>1, <3>2, <3>3, LayersOKStays
  <2>2. CASE u = t
    <3>1. t \in dir' /\ Publishable(VolumeOf(t)) /\ Configured(l.volume, ConfigName(VolumeOf(t)))
      BY <1>10 DEF ProcOK
    <3>2. \A i \in DOMAIN w : Configured(w[i].volume, ConfigName(VolumeOf(t)))
      BY <1>3, <1>9, <1>10, <3>1 DEF LayersOK
    <3>3. \A i \in DOMAIN w : w[i].by # None =>
             proc'[w[i].by].pc = "serves" /\ proc'[w[i].by].target = t
      BY <1>2, <1>9, <1>11
    <3>4. \A i, j \in DOMAIN w : w[i].by # None /\ w[i].by = w[j].by => i = j
      <4>1. \A i, j \in DOMAIN s : s[i].by # None /\ s[i].by = s[j].by => i = j
        BY <1>3, <1>10 DEF LayersOK
      <4> SUFFICES ASSUME NEW i \in DOMAIN w, NEW j \in DOMAIN w,
                          w[i].by # None, w[i].by = w[j].by
                   PROVE  i = j
        OBVIOUS
      <4>2. CASE i = 1 \/ j = 1
        BY <1>9, <1>11, <4>2
      <4>3. CASE i # 1 /\ j # 1
        <5>1. i - 1 \in DOMAIN s /\ w[i] = s[i - 1] /\ i \in Nat
          BY <1>9, <4>3
        <5>2. j - 1 \in DOMAIN s /\ w[j] = s[j - 1] /\ j \in Nat
          BY <1>9, <4>3
        <5>3. i - 1 = j - 1
          BY <4>1, <5>1, <5>2
        <5> QED
          BY <5>1, <5>2, <5>3
      <4> QED
        BY <4>2, <4>3
    <3>5. SameVolumes /\ w = mnt'[t]
      BY <1>5, <1>6
    <3>6. LayersOK(t)'
      BY <3>1, <3>2, <3>3, <3>4, <3>5, LayersFrom
    <3> QED
      BY <2>2, <3>6
  <2> QED
    BY <2>1, <2>2
<1>13. ASSUME t \notin late
       PROVE  /\ AloneAt(t) /\ s = <<>> /\ kubelet[t].answer = "none"
              /\ \A q \in Procs : proc[q].target = t => q = p
  <2>1. AloneAt(t)
    BY <1>13 DEF Inv, AloneInv
  <2>2. PICK c \in Calls : call[c].target = t /\ call[c].pc = "poll"
    BY <2>1 DEF AloneAt
  <2>3. kubelet[t].call = c /\ c # None
    BY <2>1, <2>2, ConstantFacts DEF AloneAt
  <2>4. kubelet[t].answer = "none"
    BY <2>3 DEF Inv, KubeletInv, KubeletOK
  <2>5. ~ Mounted(t)
    BY <2>1 DEF AloneAt
  <2>6. \A q \in Procs : proc[q].target = t => q = p
    BY <2>1 DEF AloneAt
  <2> QED
    BY <1>3, <2>1, <2>4, <2>5, <2>6 DEF Mounted
<1>14. AnswerInv'
  <2> SUFFICES ASSUME NEW u \in Targets PROVE AnswerOK(u)'
    BY DEF AnswerInv
  <2>1. AnswerOK(u)
    BY DEF Inv, AnswerInv
  <2>2. CASE u # t
    BY <1>5, <2>1, <2>2 DEF AnswerOK, Mounted
  <2>3. CASE u = t
    BY <1>5, <1>9, <1>13, <2>3 DEF AnswerOK, Mounted
  <2> QED
    BY <2>2, <2>3
<1>15. AloneInv'
  <2> SUFFICES ASSUME NEW u \in Targets, u \notin late PROVE AloneAt(u)'
    BY DEF AloneInv
  <2>1. AloneAt(u)
    BY DEF Inv, AloneInv
  <2>2. CASE u # t
    <3>1. \A q \in Procs : proc[q].target = u \/ proc'[q].target = u => proc'[q] = proc[q]
      BY <1>2, <2>2
    <3>2. mnt'[u] = mnt[u]
      BY <1>5, <2>2
    <3> QED
      BY <2>1, <3>1, <3>2, AloneElsewhere
  <2>3. CASE u = t
    <3>1. /\ AloneAt(t) /\ s = <<>> /\ \A q \in Procs : proc[q].target = t => q = p
      BY <1>13, <2>3
    <3>2. Len(mnt'[t]) <= 1 /\ Mounted(t)' /\ mnt'[t][1].by = p
      <4>1. Len(w) <= 1
        BY <1>9, <3>1
      <4> QED
        BY <1>5, <1>9, <4>1 DEF Mounted
    <3>3. \A q \in Procs : proc'[q].target = t => q = p /\ proc'[q].pc = "serves"
      BY <1>2, <3>1
    <3>4. /\ \A c \in Calls : call'[c].target = t => kubelet'[t].call = c
          /\ \A c \in Calls : call'[c].target = t => call'[c].pc \notin {"config", "write", "exec"}
          /\ t \in dir'
      BY <3>1 DEF AloneAt
    <3>5. AloneAt(t)'
      BY <3>2, <3>3, <3>4 DEF AloneAt
    <3> QED
      BY <2>3, <3>5
  <2> QED
    BY <2>2, <2>3
<1> QED
  BY <1>6, <1>7, <1>8, <1>12, <1>14, <1>15 DEF Inv

LEMMA FuseMountKeepsInv == \A p \in Procs : Inv /\ FuseMount(p) => Inv'
<1> SUFFICES ASSUME NEW p \in Procs, Inv, FuseMount(p) PROVE Inv'
  OBVIOUS
<1>1. /\ proc[p].pc = "mounts" /\ UNCHANGED <<dir, file, call, kubelet, late>>
      /\ proc \in [Procs -> ProcRecord] /\ mnt \in [Targets -> Seq(Layer)]
  BY DEF FuseMount, Inv, StateTypeOK
<1>2. proc[p] \in ProcRecord /\ ProcOK(p)
  BY <1>1, RunningProc
<1>3. PICK t \in Targets : t = proc[p].target
  BY <1>1, RunningProc
<1>4. CASE proc' = [proc EXCEPT ![p] = Exited] /\ mnt' = mnt
  <2>1. ProcRight(Exited)
    BY ConstantFacts DEF ProcRight
  <2> QED
    BY <1>1, <1>4, <2>1, ConstantFacts, ProcMoves
<1>5. CASE /\ t \in dir
           /\ mnt' = [mnt EXCEPT ![t] = <<[volume |-> proc[p].volume, by |-> p]>> \o @]
           /\ proc' = [proc EXCEPT ![p].pc = "serves"]
  <2>1. PICK v \in Volumes : v = proc[p].volume
    <3>1. \A u \in Targets : VolumeOf(u) \in Volumes
      BY DEF VolumeOf, Inv, StateTypeOK, KubeletRecord
    <3> QED
      BY <1>1, <1>2, <3>1 DEF ProcOK, Configured
  <2>2. PICK l : l = [volume |-> v, by |-> p]
    OBVIOUS
  <2>3. l \in Layer /\ l.volume = proc[p].volume /\ l.by = p
    BY <2>1, <2>2 DEF Layer
  <2>4. PICK r : r = [proc[p] EXCEPT !.pc = "serves"]
    OBVIOUS
  <2>5. /\ r \in ProcRecord /\ r.pc = "serves" /\ r.target = t
        /\ r.reads = proc[p].reads /\ r.volume = proc[p].volume
    BY <1>2, <1>3, <2>4 DEF ProcRecord
  <2>6. AddsLayer(p, t, l, r)
    BY <1>1, <1>5, <2>1, <2>2, <2>4 DEF AddsLayer
  <2>7. ProcRight(r)
    BY <1>1, <1>2, <1>3, <2>5, ConstantFacts DEF ProcRight, ProcOK
  <2> QED
    BY <1>1, <1>3, <1>5, <2>3, <2>5, <2>6, <2>7, FuseMounts
<1> QED
  BY <1>3, <1>4, <1>5 DEF FuseMount

\* The processes of P end, and their layers stay without one.
ProcsEnd(P) ==
    /\ mnt' = [t \in Targets |-> Orphaned(mnt[t], P)]
    /\ proc' = [p \in Procs |-> IF p \in P THEN Exited ELSE proc[p]]

LEMMA ProcsEndFacts ==
    ASSUME StateTypeOK, NEW P, ProcsEnd(P)
    PROVE  /\ mnt' \in [Targets -> Seq(Layer)] /\ proc' \in [Procs -> ProcRecord]
           /\ \A t \in Targets : Mounted(t)' <=> Mounted(t)
           /\ \A p \in P \cap Procs : proc'[p] = Exited
           /\ \A p \in Procs : p \notin P => proc'[p] = proc[p]
           /\ \A t \in Targets : mnt'[t] = Orphaned(mnt[t], P)
<1>1. /\ \A t \in Targets : mnt[t] \in Seq(Layer) /\ mnt'[t] = Orphaned(mnt[t], P)
      /\ DOMAIN mnt' = Targets /\ mnt' = [t \in Targets |-> mnt'[t]]
  BY DEF StateTypeOK, ProcsEnd
<1>2. \A t \in Targets : mnt'[t] \in Seq(Layer) /\ (mnt'[t] = <<>> <=> mnt[t] = <<>>)
  BY <1>1, OrphanedFacts DEF Orphans
<1>3. mnt' \in [Targets -> Seq(Layer)]
  BY <1>1, <1>2
<1>4. /\ proc' \in [Procs -> ProcRecord]
      /\ \A p \in P \cap Procs : proc'[p] = Exited
      /\ \A p \in Procs : p \notin P => proc'[p] = proc[p]
  BY ConstantFacts DEF StateTypeOK, ProcsEnd
<1>5. \A t \in Targets : Mounted(t)' <=> Mounted(t)
  BY <1>2 DEF Mounted
<1> QED
  BY <1>1, <1>3, <1>4, <1>5

LEMMA ProcsEndKeep ==
    ASSUME Inv, NEW P \in SUBSET Procs, ProcsEnd(P), SameVolumes, dir' = dir
    PROVE  ProcInv' /\ LayersInv'
<1>1. /\ mnt' \in [Targets -> Seq(Layer)] /\ proc' \in [Procs -> ProcRecord]
      /\ \A p \in P : proc'[p] = Exited
      /\ \A p \in Procs : p \notin P => proc'[p] = proc[p]
      /\ \A t \in Targets : mnt'[t] = Orphaned(mnt[t], P)
  BY ProcsEndFacts DEF Inv
<1>2. ProcInv'
  <2>1. ProcRight(Exited)
    BY ConstantFacts DEF ProcRight
  <2> QED
    BY <1>1, <2>1, ProcsStep DEF Inv
<1>3. ASSUME NEW t \in Targets PROVE LayersOK(t)'
  <2>1. PICK s \in Seq(Layer) : s = mnt[t]
    BY DEF Inv, StateTypeOK
  <2>2. PICK w \in Seq(Layer) : w = Orphaned(s, P) /\ w = mnt'[t]
    BY <1>1, <2>1
  <2>3. /\ DOMAIN w = DOMAIN s /\ (w = <<>> <=> s = <<>>)
        /\ \A i \in DOMAIN s : /\ w[i].volume = s[i].volume
                               /\ s[i].by \notin P => w[i].by = s[i].by
                               /\ s[i].by \in P => w[i].by = None
    <3>1. Orphans(w, s, P)
      BY <2>2, OrphanedFacts
    <3> QED
      BY <3>1 DEF Orphans
  <2>4. LayersOK(t)
    BY DEF Inv, LayersInv
  <2>5. w # <<>> => t \in dir' /\ Publishable(VolumeOf(t))
    BY <2>1, <2>3, <2>4 DEF LayersOK, Mounted
  <2>6. \A i \in DOMAIN w : Configured(w[i].volume, ConfigName(VolumeOf(t)))
    BY <2>1, <2>3, <2>4 DEF LayersOK
  <2>7. ASSUME NEW i \in DOMAIN w, w[i].by # None
        PROVE  proc'[w[i].by].pc = "serves" /\ proc'[w[i].by].target = t
    <3>1. s[i].by \notin P /\ w[i].by = s[i].by
      BY <2>3, <2>7
    <3>2. s[i] \in Layer
      BY <2>1, <2>3
    <3>3. s[i].by \in Procs
      BY <2>7, <3>1, <3>2 DEF Layer
    <3>4. proc[s[i].by].pc = "serves" /\ proc[s[i].by].target = t
      BY <2>1, <2>3, <2>4, <2>7, <3>1 DEF LayersOK
    <3> QED
      BY <1>1, <3>1, <3>3, <3>4
  <2>8. \A i \in DOMAIN w : w[i].by # None =>
           proc'[w[i].by].pc = "serves" /\ proc'[w[i].by].target = t
    BY <2>7
  <2>9. \A i, j \in DOMAIN w : w[i].by # None /\ w[i].by = w[j].by => i = j
    BY <2>1, <2>3, <2>4 DEF LayersOK
  <2> QED
    BY <2>2, <2>5, <2>6, <2>8, <2>9, LayersFrom
<1> QED
  BY <1>2, <1>3 DEF LayersInv

\* A process that serves on is still the one of the visible layer.
LEMMA ProcsEndFirst ==
    ASSUME Inv, NEW P \in SUBSET Procs, ProcsEnd(P), NEW t \in Targets
    PROVE  /\ Len(mnt'[t]) = Len(mnt[t])
           /\ Mounted(t) /\ mnt[t][1].by \notin P => mnt'[t][1].by = mnt[t][1].by
<1>1. PICK s \in Seq(Layer) : s = mnt[t]
  BY DEF Inv, StateTypeOK
<1>2. PICK w \in Seq(Layer) : w = Orphaned(s, P) /\ w = mnt'[t]
  BY <1>1, ProcsEndFacts DEF Inv
<1>3. Len(w) = Len(s) /\ \A i \in DOMAIN s : s[i].by \notin P => w[i].by = s[i].by
  <2>1. Orphans(w, s, P)
    BY <1>2, OrphanedFacts
  <2> QED
    BY <2>1 DEF Orphans
<1>4. s # <<>> => 1 \in DOMAIN s
  BY <1>1, TailFacts
<1> QED
  <2>1. Len(mnt'[t]) = Len(mnt[t])
    BY <1>1, <1>2, <1>3
  <2>2. Mounted(t) /\ s[1].by \notin P => w[1].by = s[1].by
    BY <1>1, <1>3, <1>4 DEF Mounted
  <2> QED
    BY <1>1, <1>2, <2>1, <2>2

LEMMA FuseCrashKeepsInv == \A p \in Procs : Inv /\ FuseCrash(p) => Inv'
<1> SUFFICES ASSUME NEW p \in Procs, Inv, FuseCrash(p) PROVE Inv'
  OBVIOUS
<1>1. /\ UNCHANGED <<dir, file, call, kubelet, late>> /\ StateTypeOK
  BY DEF FuseCrash, Inv
<1>2. PICK P \in SUBSET Procs : P = {p}
  OBVIOUS
<1>3. ProcsEnd(P)
  BY <1>2 DEF FuseCrash, ProcsEnd, Inv, StateTypeOK
<1>4. /\ mnt' \in [Targets -> Seq(Layer)] /\ proc' \in [Procs -> ProcRecord]
      /\ \A t \in Targets : Mounted(t)' <=> Mounted(t)
      /\ \A q \in P : proc'[q] = Exited
      /\ \A q \in Procs : q \notin P => proc'[q] = proc[q]
  BY <1>1, <1>3, ProcsEndFacts
<1>5. SameVolumes /\ KubeletInv' /\ CallInv' /\ ClaimInv' /\ FileInv'
  BY <1>1, FuseTalk
<1>6. StateTypeOK'
  BY <1>1, <1>4 DEF StateTypeOK
<1>7. ProcInv' /\ LayersInv'
  BY <1>1, <1>3, <1>5, ProcsEndKeep
<1>8. AnswerInv'
  BY <1>1, <1>4 DEF Inv, AnswerInv, AnswerOK
<1>9. AloneInv'
  <2> SUFFICES ASSUME NEW u \in Targets, u \notin late PROVE AloneAt(u)'
    BY <1>1 DEF AloneInv
  <2>1. AloneAt(u)
    BY DEF Inv, AloneInv
  <2>2. \A q \in Procs : proc'[q].target = u => proc'[q] = proc[q] /\ q \notin P
    BY <1>4, ConstantFacts
  <2>3. Len(mnt'[u]) <= 1 /\ (Mounted(u) /\ mnt[u][1].by \notin P => mnt'[u][1].by = mnt[u][1].by)
    BY <1>3, <2>1, ProcsEndFirst DEF AloneAt
  <2>4. Mounted(u)' <=> Mounted(u)
    BY <1>4
  <2>5. \A q \in Procs : proc'[q].target = u =>
          \/ /\ proc'[q].pc \in {"starts", "mounts"} /\ ~ Mounted(u)'
             /\ \E c \in Calls : call'[c].target = u /\ call'[c].pc = "poll"
          \/ proc'[q].pc = "serves" /\ Mounted(u)' /\ mnt'[u][1].by = q
    <3> SUFFICES ASSUME NEW q \in Procs, proc'[q].target = u
                 PROVE  \/ /\ proc'[q].pc \in {"starts", "mounts"} /\ ~ Mounted(u)'
                           /\ \E c \in Calls : call'[c].target = u /\ call'[c].pc = "poll"
                        \/ proc'[q].pc = "serves" /\ Mounted(u)' /\ mnt'[u][1].by = q
      OBVIOUS
    <3>1. proc'[q] = proc[q] /\ q \notin P
      BY <2>2
    <3>2. \/ /\ proc[q].pc \in {"starts", "mounts"} /\ ~ Mounted(u)
             /\ \E c \in Calls : call[c].target = u /\ call[c].pc = "poll"
          \/ proc[q].pc = "serves" /\ Mounted(u) /\ mnt[u][1].by = q
      BY <2>1, <3>1 DEF AloneAt
    <3> QED
      BY <1>1, <2>3, <2>4, <3>1, <3>2
  <2>6. \A c \in Calls : call'[c].target = u /\ call'[c].pc \in {"config", "write", "exec"} =>
          /\ u \in dir' /\ ~ Mounted(u)'
          /\ \A q \in Procs : proc'[q].target # u
    BY <1>1, <2>1, <2>2, <2>4 DEF AloneAt
  <2>7. /\ \A c \in Calls : call'[c].target = u => kubelet'[u].call = c
        /\ \A c \in Calls : call'[c].target = u /\ call'[c].pc = "poll" => u \in dir'
    BY <1>1, <2>1 DEF AloneAt
  <2>8. \A q, o \in Procs : proc'[q].target = u /\ proc'[o].target = u => q = o
    BY <2>1, <2>2 DEF AloneAt
  <2> QED
    BY <2>3, <2>5, <2>6, <2>7, <2>8 DEF AloneAt
<1> QED
  BY <1>5, <1>6, <1>7, <1>8, <1>9 DEF Inv

LEMMA RestartKeepsInv == Inv /\ Restart => Inv'
<1> SUFFICES ASSUME Inv, Restart PROVE Inv'
  OBVIOUS
<1>1. /\ StateTypeOK /\ kubelet \in [Targets -> KubeletRecord] /\ UNCHANGED <<dir, late>>
  BY DEF Restart, Inv, StateTypeOK
<1>2. PICK P \in SUBSET Procs : P = Procs
  OBVIOUS
<1>3. ProcsEnd(P)
  BY <1>2 DEF Restart, ProcsEnd
<1>4. /\ mnt' \in [Targets -> Seq(Layer)] /\ proc' \in [Procs -> ProcRecord]
      /\ \A t \in Targets : Mounted(t)' <=> Mounted(t)
      /\ \A q \in Procs : proc'[q] = Exited
  BY <1>1, <1>2, <1>3, ProcsEndFacts
<1>5. call' \in [Calls -> CallRecord] /\ \A c \in Calls : call'[c] = Idle
  BY ConstantFacts DEF Restart
<1>6. /\ kubelet' \in [Targets -> KubeletRecord]
      /\ \A t \in Targets : /\ kubelet'[t].call = None /\ kubelet'[t].pod = kubelet[t].pod
                            /\ kubelet'[t].volume = kubelet[t].volume
                            /\ kubelet'[t].answer = kubelet[t].answer
  <2>1. \A t \in Targets : kubelet'[t] = [kubelet[t] EXCEPT !.call = None] /\ kubelet[t] \in KubeletRecord
    BY <1>1 DEF Restart
  <2>2. \A t \in Targets : /\ kubelet'[t] \in KubeletRecord
                            /\ kubelet'[t].call = None /\ kubelet'[t].pod = kubelet[t].pod
                            /\ kubelet'[t].volume = kubelet[t].volume
                            /\ kubelet'[t].answer = kubelet[t].answer
    BY <2>1 DEF KubeletRecord
  <2>3. kubelet' = [t \in Targets |-> kubelet'[t]]
    BY DEF Restart
  <2> QED
    BY <2>2, <2>3
<1>7. file' \in [Files -> Volumes \cup {"empty", None}] /\ \A f \in Files : file'[f] = None
  BY DEF Restart
<1>8. SameVolumes
  BY <1>6 DEF SameVolumes, VolumeOf
<1>9. StateTypeOK' /\ ClaimInv'
  BY <1>1, <1>4, <1>5, <1>6, <1>7, <1>8, ClaimStays DEF StateTypeOK, Inv
<1>10. FileInv'
  BY <1>7, ConstantFacts DEF FileInv, FileOK
<1>11. ProcInv' /\ LayersInv'
  BY <1>1, <1>3, <1>8, ProcsEndKeep
<1>12. KubeletInv'
  BY <1>6 DEF KubeletInv, KubeletOK
<1>13. CallInv'
  BY <1>5, ConstantFacts DEF CallInv, CallOK, PublishSteps, UnpublishSteps
<1>14. AnswerInv'
  BY <1>1, <1>4, <1>6 DEF Inv, AnswerInv, AnswerOK
<1>15. AloneInv'
  <2> SUFFICES ASSUME NEW u \in Targets, u \notin late PROVE AloneAt(u)'
    BY <1>1 DEF AloneInv
  <2>1. Len(mnt'[u]) <= 1
    BY <1>3, ProcsEndFirst DEF Inv, AloneInv, AloneAt
  <2>2. \A c \in Calls : call'[c].target # u
    BY <1>5, ConstantFacts
  <2>3. \A q \in Procs : proc'[q].target # u
    BY <1>4, ConstantFacts
  <2> QED
    BY <2>1, <2>2, <2>3 DEF AloneAt
<1> QED
  BY <1>9, <1>10, <1>11, <1>12, <1>13, <1>14, <1>15 DEF Inv

-----------------------------------------------------------------------------
(* The invariant.                                                           *)

LEMMA InitInv == Init => Inv
<1> SUFFICES ASSUME Init PROVE Inv
  OBVIOUS
<1>1. PICK claim \in Claims :
        kubelet = [t \in Targets |-> [pod |-> TRUE, volume |-> claim[t], call |-> None,
                                      answer |-> "none"]]
  BY DEF Init
<1>2. claim \in [Targets -> Volumes]
  BY ConstantsAssumption
<1>3. /\ kubelet \in [Targets -> KubeletRecord]
      /\ \A t \in Targets : /\ kubelet[t].call = None /\ kubelet[t].answer = "none"
                            /\ kubelet[t].volume = claim[t]
  BY <1>1, <1>2 DEF KubeletRecord, Answers
<1>4. /\ mnt \in [Targets -> Seq(Layer)]
      /\ \A t \in Targets : mnt[t] = <<>> /\ Len(mnt[t]) = 0 /\ DOMAIN mnt[t] = {}
  BY DEF Init
<1>5. /\ file \in [Files -> Volumes \cup {"empty", None}] /\ \A f \in Files : file[f] = None
      /\ proc \in [Procs -> ProcRecord] /\ \A p \in Procs : proc[p] = Exited
      /\ call \in [Calls -> CallRecord] /\ \A c \in Calls : call[c] = Idle
      /\ dir = {} /\ late = {}
  BY ConstantFacts DEF Init
<1>6. StateTypeOK
  BY <1>3, <1>4, <1>5 DEF StateTypeOK
<1>7. ClaimInv /\ KubeletInv /\ AnswerInv
  BY <1>3, <1>4 DEF ClaimInv, VolumeOf, KubeletInv, KubeletOK, AnswerInv, AnswerOK
<1>8. CallInv
  BY <1>5, ConstantFacts DEF CallInv, CallOK, PublishSteps, UnpublishSteps
<1>9. FileInv /\ ProcInv
  BY <1>5, ConstantFacts DEF FileInv, FileOK, ProcInv, ProcOK
<1>10. LayersInv
  BY <1>4 DEF LayersInv, LayersOK, Mounted
<1>11. AloneInv
  BY <1>4, <1>5, ConstantFacts DEF AloneInv, AloneAt
<1> QED
  BY <1>6, <1>7, <1>8, <1>9, <1>10, <1>11 DEF Inv

LEMMA StutterKeepsInv == Inv /\ UNCHANGED vars => Inv'
  BY DEF vars, Inv, StateTypeOK, ClaimInv, KubeletInv, CallInv, FileInv, ProcInv, LayersInv,
         AnswerInv, AloneInv, KubeletOK, CallOK, FileOK, ProcOK, LayersOK, AnswerOK, AloneAt,
         Configured, VolumeOf, Mounted

LEMMA NextKeepsInv == Inv /\ [Next]_vars => Inv'
<1> SUFFICES ASSUME Inv, [Next]_vars PROVE Inv'
  OBVIOUS
<1>1. ASSUME NEW t \in Targets, PodDeleted(t) \/ Abandon(t) \/ RemoveDir(t) PROVE Inv'
  BY <1>1, PodDeletedKeepsInv, AbandonKeepsInv, RemoveDirKeepsInv
<1>2. ASSUME NEW c \in Calls, NEW t \in Targets,
             NodePublishVolume(c, t) \/ NodeUnpublishVolume(c, t)
      PROVE  Inv'
  BY <1>2, RequestsKeepInv
<1>3. ASSUME NEW c \in Calls, Step(c) PROVE Inv'
  BY <1>3, createMountPointKeepsInv, prepareConfigKeepsInv, WriteFileKeepsInv, PollKeepsInv,
     MountTimeoutKeepsInv, execCmdKeepsInv, UnpublishCheckKeepsInv, UnpublishUmountKeepsInv
     DEF Step
<1>4. ASSUME NEW p \in Procs, Fuse(p) \/ FuseCrash(p) PROVE Inv'
  BY <1>4, ReadConfigKeepsInv, FuseMountKeepsInv, FuseCrashKeepsInv DEF Fuse
<1>5. CASE UNCHANGED vars
  BY <1>5, StutterKeepsInv
<1> QED
  BY <1>1, <1>2, <1>3, <1>4, <1>5, RestartKeepsInv DEF Next

(***************************************************************************)
(* The invariant holds whatever is slow, crashes, fails or is given up.    *)
(***************************************************************************)
THEOREM Invariance == Spec => []Inv
  BY InitInv, NextKeepsInv, PTL DEF Spec

-----------------------------------------------------------------------------
(* Volumes that share a config file.  It holds the volume of every target  *)
(* whose chdfs-fuse is about to read it, unless publishes overlapped.      *)

HistoryOK == crossed \subseteq Targets /\ faults \in Faults

\* A chdfs-fuse of target t is to read the config file.
Reading(t) ==
    \/ \E c \in Calls : call[c].target = t /\ call[c].pc = "exec"
    \/ \E p \in Procs : proc[p].target = t /\ proc[p].pc = "starts"

\* What the file of volume v may hold then.
Fits(v) == {v, "empty", None}

OverlapsSeen ==
    \A t, u \in Targets :
        /\ Configuring(t) /\ Configuring(u)
        /\ VolumeOf(t) # VolumeOf(u) /\ ConfigName(VolumeOf(t)) = ConfigName(VolumeOf(u))
        => t \in crossed

FilesFit ==
    \A t \in Targets \ crossed : Reading(t) => file[ConfigName(VolumeOf(t))] \in Fits(VolumeOf(t))

ProcsFit ==
    \A p \in Procs : \A t \in Targets \ crossed :
        proc[p].pc \in {"mounts", "serves"} /\ proc[p].target = t => proc[p].volume = VolumeOf(t)

CrossInv == HistoryOK /\ OverlapsSeen /\ FilesFit /\ ProcsFit /\ MountedAsAsked

\* No publish begins, no file is written, and processes and layers come from those
\* before the step.
LEMMA CrossStays ==
    ASSUME Inv, CrossInv, SameVolumes, crossed' = crossed, faults' = faults,
           \A t \in Targets : Configuring(t)' => Configuring(t),
           \A t \in Targets : Reading(t)' => Reading(t),
           \A f \in Files : file'[f] \in {file[f], "empty", None},
           \A p \in Procs : proc'[p].pc \in {"mounts", "serves"} =>
               /\ proc[p].pc \in {"mounts", "serves"}
               /\ proc'[p].target = proc[p].target /\ proc'[p].volume = proc[p].volume,
           \A t \in Targets : \A i \in DOMAIN mnt'[t] :
               \E j \in DOMAIN mnt[t] : mnt'[t][i].volume = mnt[t][j].volume
    PROVE  CrossInv'
<1>1. HistoryOK' /\ OverlapsSeen'
  BY DEF CrossInv, HistoryOK, OverlapsSeen, SameVolumes
<1>2. FilesFit'
  <2> SUFFICES ASSUME NEW t \in Targets, t \notin crossed, Reading(t)'
               PROVE  file'[ConfigName(VolumeOf(t))'] \in Fits(VolumeOf(t)')
    BY DEF FilesFit, Fits
  <2>1. VolumeOf(t)' = VolumeOf(t) /\ ConfigName(VolumeOf(t))' = ConfigName(VolumeOf(t))
    BY DEF SameVolumes, ConfigName
  <2>2. ConfigName(VolumeOf(t)) \in Files
    BY ConstantFacts DEF Inv, StateTypeOK, KubeletRecord, VolumeOf
  <2>3. file[ConfigName(VolumeOf(t))] \in Fits(VolumeOf(t))
    BY DEF CrossInv, FilesFit
  <2> QED
    BY <2>1, <2>2, <2>3 DEF Fits
<1>3. ProcsFit'
  BY DEF CrossInv, ProcsFit, SameVolumes
<1>4. MountedAsAsked'
  BY DEF CrossInv, MountedAsAsked, SameVolumes
<1> QED
  BY <1>1, <1>2, <1>3, <1>4 DEF CrossInv

\* The call of a publish goes on or ends, and the answer may reach kubelet.
LEMMA TalkVolumes ==
    ASSUME Inv, NEW c \in Calls, call[c].pc # "idle",
           (\E a : Reply(c, a)) \/ (\E pc : Goto(c, pc))
    PROVE  /\ SameVolumes
           /\ call \in [Calls -> CallRecord] /\ call[c].target \in Targets
           /\ \A b \in Calls : b # c => call'[b] = call[b]
           /\ (\E a : Reply(c, a)) => call'[c] = Idle
           /\ \A pc : Goto(c, pc) => call'[c].pc = pc /\ call'[c].target = call[c].target
<1>1. /\ call \in [Calls -> CallRecord] /\ call[c].target \in Targets
      /\ kubelet \in [Targets -> KubeletRecord]
  BY RunningCall DEF Inv, StateTypeOK
<1>2. SameVolumes
  <2>1. CASE \E pc : Goto(c, pc)
    BY <2>1 DEF Goto, SameVolumes, VolumeOf
  <2>2. ASSUME NEW a, Reply(c, a) PROVE SameVolumes
    <3>1. PICK t \in Targets : t = call[c].target
      BY <1>1
    <3>2. kubelet' = kubelet \/ kubelet' = [kubelet EXCEPT ![t].call = None, ![t].answer = a]
      BY <2>2, <3>1 DEF Reply
    <3>3. kubelet[t] \in KubeletRecord
      BY <1>1
    <3>4. \A u \in Targets : kubelet'[u].volume = kubelet[u].volume
      BY <1>1, <3>2, <3>3 DEF KubeletRecord
    <3> QED
      BY <3>4 DEF SameVolumes, VolumeOf
  <2> QED
    BY <2>1, <2>2
<1>3. ASSUME NEW a, Reply(c, a) PROVE call' = [call EXCEPT ![c] = Idle]
  BY <1>3 DEF Reply
<1>4. ASSUME NEW pc, Goto(c, pc) PROVE call' = [call EXCEPT ![c].pc = pc]
  BY <1>4 DEF Goto
<1> QED
  BY <1>1, <1>2, <1>3, <1>4 DEF CallRecord

\* A call ends, or goes on to where it uses the config file no more than before.
CallLeaves(c) ==
    \/ \E a : Reply(c, a)
    \/ Goto(c, "config") /\ call[c].pc = "create"
    \/ Goto(c, "write") /\ call[c].pc = "config"
    \/ Goto(c, "umount")

LEMMA CallLeavesCross ==
    ASSUME Inv, CrossInv, NEW c \in Calls, call[c].pc # "idle", CallLeaves(c),
           UNCHANGED <<crossed, faults>>,
           \A f \in Files : file'[f] \in {file[f], "empty", None},
           \A p \in Procs : proc'[p] = proc[p] \/ proc'[p] = Exited,
           \A t \in Targets : \A i \in DOMAIN mnt'[t] :
               \E j \in DOMAIN mnt[t] : mnt'[t][i].volume = mnt[t][j].volume
    PROVE  CrossInv'
<1>1. (\E a : Reply(c, a)) \/ (\E pc : Goto(c, pc))
  BY DEF CallLeaves
<1>2. \A b \in Calls : b # c => call'[b] = call[b]
  BY <1>1, TalkVolumes
<1>3. SameVolumes
  BY <1>1, TalkVolumes
<1>4. \/ call'[c] = Idle
      \/ /\ call'[c].target = call[c].target
         /\ \/ call'[c].pc = "umount"
            \/ call'[c].pc \in {"config", "write"} /\ call[c].pc \in {"create", "config"}
  BY <1>1, TalkVolumes DEF CallLeaves
<1>5. \A t \in Targets : Configuring(t)' => Configuring(t)
  BY <1>2, <1>4, ConstantFacts DEF Configuring
<1>6. \A t \in Targets : Reading(t)' => Reading(t)
  BY <1>2, <1>4, ConstantFacts DEF Reading
<1>7. \A p \in Procs : proc'[p].pc \in {"mounts", "serves"} => proc'[p] = proc[p]
  BY ConstantFacts
<1> QED
  BY <1>3, <1>5, <1>6, <1>7, CrossStays

LEMMA SameLayers ==
    ASSUME mnt' = mnt
    PROVE  \A t \in Targets : \A i \in DOMAIN mnt'[t] :
               \E j \in DOMAIN mnt[t] : mnt'[t][i].volume = mnt[t][j].volume
OBVIOUS

LEMMA WriteFileCross == \A c \in Calls : Inv /\ CrossInv /\ WriteFile(c) => CrossInv'
<1> SUFFICES ASSUME NEW c \in Calls, Inv, CrossInv, WriteFile(c) PROVE CrossInv'
  OBVIOUS
<1>1. call[c].pc = "write" /\ UNCHANGED <<dir, mnt, proc, late, crossed, faults>>
  BY DEF WriteFile
<1>2. CASE Reply(c, "none") /\ file' = file
  BY <1>1, <1>2, CallLeavesCross, SameLayers DEF CallLeaves
<1>3. CASE /\ file' = [file EXCEPT ![ConfigName(VolumeOf(call[c].target))] = VolumeOf(call[c].target)]
           /\ Goto(c, "exec")
  <2>1. PICK t \in Targets : t = call[c].target
    BY <1>1, RunningCall
  <2>2. PICK v \in Volumes : v = VolumeOf(t)
    BY DEF Inv, StateTypeOK, KubeletRecord, VolumeOf
  <2>3. PICK f \in Files : f = ConfigName(v)
    BY ConstantFacts
  <2>4. file \in [Files -> Volumes \cup {"empty", None}] /\ file' = [file EXCEPT ![f] = v]
    BY <1>3, <2>1, <2>2, <2>3 DEF Inv, StateTypeOK
  <2>5. /\ SameVolumes
        /\ \A b \in Calls : b # c => call'[b] = call[b]
        /\ call'[c].pc = "exec" /\ call'[c].target = t
    BY <1>1, <1>3, <2>1, TalkVolumes
  <2>6. \A u \in Targets : Configuring(u)' => Configuring(u)
    BY <1>1, <2>1, <2>5 DEF Configuring
  <2>7. Configuring(t)
    BY <1>1, <2>1 DEF Configuring
  <2>8. HistoryOK' /\ OverlapsSeen'
    BY <1>1, <2>5, <2>6 DEF CrossInv, HistoryOK, OverlapsSeen, SameVolumes
  <2>9. FilesFit'
    <3> SUFFICES ASSUME NEW u \in Targets, u \notin crossed, Reading(u)'
                 PROVE  file'[ConfigName(VolumeOf(u))'] \in Fits(VolumeOf(u)')
      BY <1>1 DEF FilesFit, Fits
    <3>1. PICK w \in Volumes : w = VolumeOf(u) /\ w = VolumeOf(u)'
      BY <2>5 DEF SameVolumes, Inv, StateTypeOK, KubeletRecord, VolumeOf
    <3>2. ConfigName(w)' = ConfigName(w) /\ ConfigName(w) \in Files
      BY ConstantFacts DEF ConfigName
    <3>3. CASE w = v
      BY <2>3, <2>4, <3>1, <3>2, <3>3 DEF Fits
    <3>4. CASE w # v
      <4>1. Reading(u)
        BY <1>1, <2>2, <2>5, <3>1, <3>4 DEF Reading
      <4>2. Configuring(u)
        BY <4>1 DEF Reading, Configuring
      <4>3. ConfigName(w) # f
        BY <2>2, <2>3, <2>7, <3>1, <3>4, <4>2 DEF CrossInv, OverlapsSeen
      <4>4. file[ConfigName(w)] \in Fits(w)
        BY <3>1, <4>1 DEF CrossInv, FilesFit
      <4> QED
        BY <2>4, <3>1, <3>2, <4>3, <4>4 DEF Fits
    <3> QED
      BY <3>3, <3>4
  <2>10. ProcsFit'
    BY <1>1, <2>5 DEF CrossInv, ProcsFit, SameVolumes
  <2>11. MountedAsAsked'
    BY <1>1, <2>5 DEF CrossInv, MountedAsAsked, SameVolumes
  <2> QED
    BY <2>8, <2>9, <2>10, <2>11 DEF CrossInv
<1> QED
  BY <1>2, <1>3 DEF WriteFile

LEMMA execCmdCross ==
    \A c \in Calls, p \in Procs : Inv /\ CrossInv /\ execCmd(c, p) => CrossInv'
<1> SUFFICES ASSUME NEW c \in Calls, NEW p \in Procs, Inv, CrossInv, execCmd(c, p)
             PROVE  CrossInv'
  OBVIOUS
<1>1. /\ call[c].pc = "exec" /\ Goto(c, "poll")
      /\ UNCHANGED <<dir, mnt, file, late, crossed, faults>>
  BY DEF execCmd
<1>2. PICK t \in Targets : t = call[c].target
  BY <1>1, RunningCall
<1>3. /\ SameVolumes
      /\ \A b \in Calls : b # c => call'[b] = call[b]
      /\ call'[c].pc = "poll" /\ call'[c].target = t
  BY <1>1, <1>2, TalkVolumes
<1>4. /\ \A q \in Procs : q # p => proc'[q] = proc[q]
      /\ proc'[p].pc = "starts" /\ proc'[p].target = t
  BY <1>2 DEF execCmd, Inv, StateTypeOK
<1>5. Configuring(t) /\ Reading(t)
  BY <1>1, <1>2 DEF Configuring, Reading
<1>6. \A u \in Targets : Configuring(u)' => Configuring(u)
  BY <1>3, <1>4, <1>5 DEF Configuring
<1>7. \A u \in Targets : Reading(u)' => Reading(u)
  BY <1>3, <1>4, <1>5 DEF Reading
<1> QED
  BY <1>1, <1>3, <1>4, <1>6, <1>7, CrossStays, SameLayers

\* chdfs-fuse reads the config file.
LEMMA ReadConfigCross == \A p \in Procs : Inv /\ CrossInv /\ ReadConfig(p) => CrossInv'
<1> SUFFICES ASSUME NEW p \in Procs, Inv, CrossInv, ReadConfig(p) PROVE CrossInv'
  OBVIOUS
<1>1. /\ proc[p].pc = "starts"
      /\ UNCHANGED <<dir, mnt, file, call, kubelet, late, crossed, faults>>
  BY DEF ReadConfig
<1>2. PICK t \in Targets : t = proc[p].target
  BY <1>1, RunningProc
<1>3. PICK read : read = file[proc[p].reads]
  OBVIOUS
<1>4. proc[p].reads = ConfigName(VolumeOf(t)) /\ Reading(t)
  BY <1>1, <1>2 DEF Inv, ProcInv, ProcOK, Reading
<1>5. \A q \in Procs : q # p => proc'[q] = proc[q]
  BY DEF ReadConfig, Inv, StateTypeOK
<1>6. \/ proc'[p] = Exited
      \/ /\ read \in Volumes /\ proc'[p].pc = "mounts"
         /\ proc'[p].target = t /\ proc'[p].volume = read
  <2>1. proc[p] \in ProcRecord
    BY DEF Inv, StateTypeOK
  <2>2. proc' = IF read \in Volumes
                THEN [proc EXCEPT ![p].pc = "mounts", ![p].volume = read]
                ELSE [proc EXCEPT ![p] = Exited]
    BY <1>3 DEF ReadConfig
  <2> QED
    BY <1>2, <2>1, <2>2 DEF ProcRecord, Inv, StateTypeOK
<1>7. t \notin crossed /\ read \in Volumes => read = VolumeOf(t)
  <2>1. t \notin crossed => read \in Fits(VolumeOf(t))
    BY <1>3, <1>4 DEF CrossInv, FilesFit
  <2> QED
    BY <2>1, ConstantFacts DEF Fits
<1>8. \A u \in Targets : VolumeOf(u)' = VolumeOf(u)
  BY <1>1 DEF VolumeOf
<1>9. \A u \in Targets : (Configuring(u)' => Configuring(u)) /\ (Reading(u)' => Reading(u))
  BY <1>1, <1>5, <1>6, ConstantFacts DEF Configuring, Reading
<1>10. HistoryOK' /\ OverlapsSeen'
  BY <1>1, <1>8, <1>9 DEF CrossInv, HistoryOK, OverlapsSeen
<1>11. FilesFit'
  <2> SUFFICES ASSUME NEW u \in Targets, u \notin crossed, Reading(u)'
               PROVE  file[ConfigName(VolumeOf(u))'] \in Fits(VolumeOf(u)')
    BY <1>1 DEF FilesFit, Fits
  <2>1. ConfigName(VolumeOf(u))' = ConfigName(VolumeOf(u))
    BY <1>8 DEF ConfigName
  <2> QED
    BY <1>8, <1>9, <2>1 DEF CrossInv, FilesFit
<1>12. ProcsFit'
  <2> SUFFICES ASSUME NEW q \in Procs, NEW u \in Targets, u \notin crossed,
                      proc'[q].pc \in {"mounts", "serves"}, proc'[q].target = u
               PROVE  proc'[q].volume = VolumeOf(u)'
    BY <1>1 DEF ProcsFit
  <2>1. CASE q = p
    BY <1>6, <1>7, <1>8, <2>1, ConstantFacts
  <2>2. CASE q # p
    BY <1>5, <1>8, <2>2 DEF CrossInv, ProcsFit
  <2> QED
    BY <2>1, <2>2
<1>13. MountedAsAsked'
  BY <1>1, <1>8 DEF CrossInv, MountedAsAsked
<1> QED
  BY <1>10, <1>11, <1>12, <1>13 DEF CrossInv

LEMMA FuseMountCross == \A p \in Procs : Inv /\ CrossInv /\ FuseMount(p) => CrossInv'
<1> SUFFICES ASSUME NEW p \in Procs, Inv, CrossInv, FuseMount(p) PROVE CrossInv'
  OBVIOUS
<1>1. proc[p].pc = "mounts" /\ UNCHANGED <<dir, file, call, kubelet, late, crossed, faults>>
  BY DEF FuseMount
<1>2. PICK t \in Targets : t = proc[p].target
  BY <1>1, RunningProc
<1>3. \A u \in Targets : VolumeOf(u)' = VolumeOf(u)
  BY <1>1 DEF VolumeOf
<1>4. /\ \A q \in Procs : q # p => proc'[q] = proc[q]
      /\ \/ proc'[p] = Exited
         \/ /\ proc'[p].pc = "serves" /\ proc'[p].target = t
            /\ proc'[p].volume = proc[p].volume
  BY <1>2 DEF FuseMount, Inv, StateTypeOK, ProcRecord
<1>5. \A u \in Targets : (Configuring(u)' => Configuring(u)) /\ (Reading(u)' => Reading(u))
  BY <1>1, <1>4, ConstantFacts DEF Configuring, Reading
<1>6. HistoryOK' /\ OverlapsSeen'
  BY <1>1, <1>3, <1>5 DEF CrossInv, HistoryOK, OverlapsSeen
<1>7. FilesFit'
  <2> SUFFICES ASSUME NEW u \in Targets, u \notin crossed, Reading(u)'
               PROVE  file[ConfigName(VolumeOf(u))'] \in Fits(VolumeOf(u)')
    BY <1>1 DEF FilesFit, Fits
  <2>1. ConfigName(VolumeOf(u))' = ConfigName(VolumeOf(u))
    BY <1>3 DEF ConfigName
  <2> QED
    BY <1>3, <1>5, <2>1 DEF CrossInv, FilesFit
<1>8. ProcsFit'
  <2>1. \A q \in Procs : proc'[q].pc \in {"mounts", "serves"} =>
            /\ proc[q].pc \in {"mounts", "serves"}
            /\ proc'[q].target = proc[q].target /\ proc'[q].volume = proc[q].volume
    BY <1>1, <1>2, <1>4, ConstantFacts
  <2> QED
    BY <1>1, <1>3, <2>1 DEF CrossInv, ProcsFit
<1>9. MountedAsAsked'
  <2> SUFFICES ASSUME NEW u \in Targets, u \notin crossed, NEW i \in DOMAIN mnt'[u]
               PROVE  mnt'[u][i].volume = VolumeOf(u)
    BY <1>1, <1>3 DEF MountedAsAsked
  <2>1. CASE mnt'[u] = mnt[u]
    BY <2>1 DEF CrossInv, MountedAsAsked
  <2>2. CASE mnt'[u] # mnt[u]
    <3>1. PICK s \in Seq(Layer) : s = mnt[u]
      BY DEF Inv, StateTypeOK
    <3>2. PICK l : l = [volume |-> proc[p].volume, by |-> p]
      OBVIOUS
    <3>3. u = t /\ mnt'[u] = <<l>> \o s
      BY <1>2, <2>2, <3>1, <3>2 DEF FuseMount, Inv, StateTypeOK
    <3>4. l \in Layer
      <4>1. proc[p].volume \in Volumes
        BY <1>1 DEF Inv, ProcInv, ProcOK, Configured, StateTypeOK, KubeletRecord, VolumeOf
      <4> QED
        BY <3>2, <4>1 DEF Layer
    <3>5. l.volume = VolumeOf(u)
      BY <1>1, <1>2, <3>2, <3>3 DEF CrossInv, ProcsFit
    <3>6. \A j \in DOMAIN (<<l>> \o s) :
             \/ (<<l>> \o s)[j] = l
             \/ j - 1 \in DOMAIN s /\ (<<l>> \o s)[j] = s[j - 1]
      BY <3>4, ConsFacts
    <3> QED
      BY <3>1, <3>3, <3>5, <3>6 DEF CrossInv, MountedAsAsked
  <2> QED
    BY <2>1, <2>2
<1> QED
  BY <1>6, <1>7, <1>8, <1>9 DEF CrossInv

\* A publish that begins beside one of another volume with the same config file is
\* noticed at both targets.
LEMMA PublishCross ==
    \A c \in Calls, t \in Targets : Inv /\ CrossInv /\ NodePublishVolume(c, t) => CrossInv'
<1> SUFFICES ASSUME NEW c \in Calls, NEW t \in Targets, Inv, CrossInv, NodePublishVolume(c, t)
             PROVE  CrossInv'
  OBVIOUS
<1>1. /\ UNCHANGED <<dir, mnt, file, proc, late, faults>>
      /\ crossed' = IF Rivals(t) = {} THEN crossed ELSE crossed \cup Rivals(t) \cup {t}
      /\ call' = [call EXCEPT ![c] = [pc |-> "create", target |-> t]]
      /\ kubelet' = [kubelet EXCEPT ![t].call = c, ![t].answer = "none"]
  BY DEF NodePublishVolume, Request
<1>2. \A u \in Targets : VolumeOf(u)' = VolumeOf(u)
  BY <1>1 DEF Inv, StateTypeOK, KubeletRecord, VolumeOf
<1>3. /\ \A b \in Calls : b # c => call'[b] = call[b]
      /\ call'[c].pc = "create" /\ call'[c].target = t
  BY <1>1 DEF Inv, StateTypeOK
<1>4. \A u \in Targets : u # t /\ Configuring(u)' => Configuring(u)
  BY <1>1, <1>3 DEF Configuring
<1>5. \A u \in Targets : Reading(u)' => Reading(u)
  BY <1>1, <1>3 DEF Reading
<1>6. crossed \subseteq crossed' /\ crossed' \subseteq Targets
  BY <1>1 DEF CrossInv, HistoryOK, Rivals
<1>7. OverlapsSeen'
  <2> SUFFICES ASSUME NEW u \in Targets, NEW w \in Targets, Configuring(u)', Configuring(w)',
                      VolumeOf(u)' # VolumeOf(w)',
                      ConfigName(VolumeOf(u))' = ConfigName(VolumeOf(w))'
               PROVE  u \in crossed'
    BY DEF OverlapsSeen
  <2>1. /\ VolumeOf(u) # VolumeOf(w) /\ u # w
        /\ ConfigName(VolumeOf(u)) = ConfigName(VolumeOf(w))
    BY <1>2 DEF ConfigName
  <2>2. CASE u # t /\ w # t
    BY <1>4, <1>6, <2>1, <2>2 DEF CrossInv, OverlapsSeen
  <2>3. CASE u = t
    <3>1. w \in Rivals(t)
      BY <1>4, <2>1, <2>3 DEF Rivals
    <3> QED
      BY <1>1, <2>3, <3>1
  <2>4. CASE w = t
    <3>1. u \in Rivals(t)
      BY <1>4, <2>1, <2>4 DEF Rivals
    <3> QED
      BY <1>1, <3>1
  <2> QED
    BY <2>2, <2>3, <2>4
<1>8. HistoryOK'
  BY <1>1, <1>6 DEF CrossInv, HistoryOK
<1>9. FilesFit'
  <2> SUFFICES ASSUME NEW u \in Targets, u \notin crossed', Reading(u)'
               PROVE  file[ConfigName(VolumeOf(u))'] \in Fits(VolumeOf(u)')
    BY <1>1 DEF FilesFit, Fits
  <2>1. ConfigName(VolumeOf(u))' = ConfigName(VolumeOf(u))
    BY <1>2 DEF ConfigName
  <2> QED
    BY <1>2, <1>5, <1>6, <2>1 DEF CrossInv, FilesFit
<1>10. ProcsFit'
  BY <1>1, <1>2, <1>6 DEF CrossInv, ProcsFit
<1>11. MountedAsAsked'
  BY <1>1, <1>2, <1>6 DEF CrossInv, MountedAsAsked
<1> QED
  BY <1>7, <1>8, <1>9, <1>10, <1>11 DEF CrossInv

LEMMA UnpublishCross ==
    \A c \in Calls, t \in Targets : Inv /\ CrossInv /\ NodeUnpublishVolume(c, t) => CrossInv'
<1> SUFFICES ASSUME NEW c \in Calls, NEW t \in Targets, Inv, CrossInv, NodeUnpublishVolume(c, t)
             PROVE  CrossInv'
  OBVIOUS
<1>1. /\ UNCHANGED <<dir, mnt, file, proc, late, crossed, faults>>
      /\ call' = [call EXCEPT ![c] = [pc |-> "check", target |-> t]]
      /\ kubelet' = [kubelet EXCEPT ![t].call = c, ![t].answer = "none"]
  BY DEF NodeUnpublishVolume, Request
<1>2. SameVolumes
  BY <1>1 DEF SameVolumes, Inv, StateTypeOK, KubeletRecord, VolumeOf
<1>3. (\A b \in Calls : b # c => call'[b] = call[b]) /\ call'[c].pc = "check"
  BY <1>1 DEF Inv, StateTypeOK
<1>4. \A u \in Targets : (Configuring(u)' => Configuring(u)) /\ (Reading(u)' => Reading(u))
  BY <1>1, <1>3 DEF Configuring, Reading
<1> QED
  BY <1>1, <1>2, <1>4, CrossStays, SameLayers

\* Unmount takes a layer away.
LEMMA UmountCross == \A c \in Calls : Inv /\ CrossInv /\ UnpublishUmount(c) => CrossInv'
<1> SUFFICES ASSUME NEW c \in Calls, Inv, CrossInv, UnpublishUmount(c) PROVE CrossInv'
  OBVIOUS
<1>1. call[c].pc = "umount" /\ CallLeaves(c) /\ UNCHANGED <<file, crossed, faults>>
  BY DEF UnpublishUmount, CallLeaves
<1>2. PICK t \in Targets : t = call[c].target
  BY <1>1, RunningCall
<1>3. \A p \in Procs : proc'[p] = proc[p] \/ proc'[p] = Exited
  BY DEF UnpublishUmount
<1>4. \A u \in Targets : mnt'[u] = mnt[u] \/ (mnt[u] # <<>> /\ mnt'[u] = Tail(mnt[u]))
  BY <1>2 DEF UnpublishUmount, Mounted, Inv, StateTypeOK
<1>5. ASSUME NEW u \in Targets, NEW i \in DOMAIN mnt'[u]
      PROVE  \E j \in DOMAIN mnt[u] : mnt'[u][i].volume = mnt[u][j].volume
  <2>1. PICK s \in Seq(Layer) : s = mnt[u]
    BY DEF Inv, StateTypeOK
  <2>2. s # <<>> => \A k \in DOMAIN Tail(s) : k + 1 \in DOMAIN s /\ Tail(s)[k] = s[k + 1]
    BY TailFacts
  <2> QED
    BY <1>4, <1>5, <2>1, <2>2
<1> QED
  BY <1>1, <1>3, <1>5, CallLeavesCross

LEMMA StepCross == \A c \in Calls : Inv /\ CrossInv /\ Step(c) => CrossInv'
<1> SUFFICES ASSUME NEW c \in Calls, Inv, CrossInv, Step(c) PROVE CrossInv'
  OBVIOUS
<1>1. CASE createMountPoint(c) \/ Poll(c) \/ MountTimeout(c) \/ UnpublishCheck(c)
  <2>1. call[c].pc # "idle" /\ CallLeaves(c) /\ UNCHANGED <<mnt, file, proc, crossed, faults>>
    BY <1>1 DEF createMountPoint, Poll, MountTimeout, GiveUp, Deadline, UnpublishCheck, CallLeaves
  <2> QED
    BY <2>1, CallLeavesCross, SameLayers
<1>2. CASE prepareConfig(c)
  <2>1. call[c].pc # "idle" /\ CallLeaves(c) /\ UNCHANGED <<mnt, proc, crossed, faults>>
    BY <1>2 DEF prepareConfig, CallLeaves
  <2>2. \A f \in Files : file'[f] \in {file[f], "empty", None}
    BY <1>2 DEF prepareConfig, Inv, StateTypeOK
  <2> QED
    BY <2>1, <2>2, CallLeavesCross, SameLayers
<1> QED
  BY <1>1, <1>2, WriteFileCross, execCmdCross, UmountCross DEF Step

\* Processes end, all of them with the driver, its calls and its files.
LEMMA EndCross ==
    Inv /\ CrossInv /\ (Restart \/ \E p \in Procs : FuseCrash(p)) => CrossInv'
<1> SUFFICES ASSUME Inv, CrossInv, Restart \/ \E p \in Procs : FuseCrash(p) PROVE CrossInv'
  OBVIOUS
<1>1. PICK P : mnt' = [t \in Targets |-> Orphaned(mnt[t], P)]
  BY DEF Restart, FuseCrash
<1>2. UNCHANGED <<crossed, faults>>
  BY DEF Restart, FuseCrash
<1>3. SameVolumes
  BY DEF SameVolumes, VolumeOf, Restart, FuseCrash, Inv, StateTypeOK, KubeletRecord
<1>4. \A c \in Calls : call'[c] = call[c] \/ call'[c] = Idle
  BY DEF Restart, FuseCrash
<1>5. \A q \in Procs : proc'[q] = proc[q] \/ proc'[q] = Exited
  BY DEF Restart, FuseCrash, Inv, StateTypeOK
<1>6. \A u \in Targets : (Configuring(u)' => Configuring(u)) /\ (Reading(u)' => Reading(u))
  BY <1>4, <1>5, ConstantFacts DEF Configuring, Reading
<1>7. \A f \in Files : file'[f] \in {file[f], "empty", None}
  BY DEF Restart, FuseCrash
<1>8. ASSUME NEW t \in Targets, NEW i \in DOMAIN mnt'[t]
      PROVE  \E j \in DOMAIN mnt[t] : mnt'[t][i].volume = mnt[t][j].volume
  <2>1. mnt[t] \in Seq(Layer) /\ mnt'[t] = Orphaned(mnt[t], P)
    BY <1>1 DEF Inv, StateTypeOK
  <2>2. Orphans(mnt'[t], mnt[t], P)
    BY <2>1, OrphanedFacts
  <2> QED
    BY <1>8, <2>2 DEF Orphans
<1>9. \A q \in Procs : proc'[q].pc \in {"mounts", "serves"} => proc'[q] = proc[q]
  BY <1>5, ConstantFacts
<1> QED
  BY <1>2, <1>3, <1>6, <1>7, <1>8, <1>9, CrossStays

LEMMA KubeletCross ==
    \A t \in Targets :
        Inv /\ CrossInv /\ (PodDeleted(t) \/ Abandon(t) \/ RemoveDir(t)) => CrossInv'
<1> SUFFICES ASSUME NEW t \in Targets, Inv, CrossInv, PodDeleted(t) \/ Abandon(t) \/ RemoveDir(t)
             PROVE  CrossInv'
  OBVIOUS
<1>1. UNCHANGED <<mnt, file, proc, call, crossed, faults>>
  BY DEF PodDeleted, Abandon, RemoveDir
<1>2. SameVolumes
  <2>1. kubelet \in [Targets -> KubeletRecord]
    BY DEF Inv, StateTypeOK
  <2>2. \/ kubelet' = kubelet
        \/ kubelet' = [kubelet EXCEPT ![t].pod = FALSE]
        \/ kubelet' = [kubelet EXCEPT ![t].call = None]
    BY DEF PodDeleted, Abandon, RemoveDir
  <2>3. \A u \in Targets : kubelet'[u].volume = kubelet[u].volume
    BY <2>1, <2>2 DEF KubeletRecord
  <2> QED
    BY <2>3 DEF SameVolumes, VolumeOf
<1>3. \A u \in Targets : (Configuring(u)' => Configuring(u)) /\ (Reading(u)' => Reading(u))
  BY <1>1 DEF Configuring, Reading
<1> QED
  BY <1>1, <1>2, <1>3, CrossStays, SameLayers

LEMMA NextCross == Inv /\ CrossInv /\ [Next]_vars => CrossInv'
<1> SUFFICES ASSUME Inv, CrossInv, [Next]_vars PROVE CrossInv'
  OBVIOUS
<1>1. CASE UNCHANGED vars
  <2>1. UNCHANGED <<mnt, file, proc, call, kubelet, crossed, faults>>
    BY <1>1 DEF vars
  <2>2. SameVolumes
    BY <2>1 DEF SameVolumes, VolumeOf
  <2>3. \A u \in Targets : (Configuring(u)' => Configuring(u)) /\ (Reading(u)' => Reading(u))
    BY <2>1 DEF Configuring, Reading
  <2> QED
    BY <2>1, <2>2, <2>3, CrossStays, SameLayers
<1>2. ASSUME NEW p \in Procs, Fuse(p) \/ FuseCrash(p) PROVE CrossInv'
  BY <1>2, ReadConfigCross, FuseMountCross, EndCross DEF Fuse
<1> QED
  BY <1>1, <1>2, KubeletCross, PublishCross, UnpublishCross, StepCross, EndCross DEF Next

LEMMA InitCross == Init => CrossInv
<1> SUFFICES ASSUME Init PROVE CrossInv
  OBVIOUS
<1>1. /\ \A c \in Calls : call[c] = Idle
      /\ \A p \in Procs : proc[p] = Exited
      /\ \A t \in Targets : mnt[t] = <<>> /\ DOMAIN mnt[t] = {}
      /\ crossed = {} /\ faults \in Faults
  BY DEF Init
<1>2. \A t \in Targets : ~ Configuring(t) /\ ~ Reading(t)
  BY <1>1, ConstantFacts DEF Configuring, Reading
<1> QED
  BY <1>1, <1>2, ConstantFacts
     DEF CrossInv, HistoryOK, OverlapsSeen, FilesFit, ProcsFit, MountedAsAsked

LEMMA CrossInvariance == Spec => []CrossInv
  BY InitInv, InitCross, NextKeepsInv, NextCross, PTL DEF Spec

(***************************************************************************)
(* The variables have their types, every live layer belongs to a process   *)
(* that serves its target, and no process serves two layers, also when     *)
(* processes that were given up mount over each other.                     *)
(***************************************************************************)
THEOREM TypeCorrect == Spec => []TypeOK
<1>1. ASSUME Inv, CrossInv PROVE TypeOK
  <2>1. \A t \in Targets : Mounted(t) => t \in dir
    BY <1>1 DEF Inv, LayersInv, LayersOK
  <2>2. ASSUME NEW t \in Targets, NEW i \in DOMAIN mnt[t], NEW j \in DOMAIN mnt[t]
        PROVE  /\ mnt[t][i].volume \in Volumes
               /\ mnt[t][i].by # None =>
                     /\ proc[mnt[t][i].by].pc = "serves" /\ proc[mnt[t][i].by].target = t
                     /\ mnt[t][j].by = mnt[t][i].by => i = j
    <3>1. mnt[t] \in Seq(Layer)
      BY <1>1 DEF Inv, StateTypeOK
    <3>2. mnt[t][i] \in Layer
      BY <3>1
    <3>3. LayersOK(t)
      BY <1>1 DEF Inv, LayersInv
    <3> QED
      BY <3>2, <3>3 DEF LayersOK, Layer
  <2> QED
    BY <1>1, <2>1, <2>2
       DEF TypeOK, Inv, StateTypeOK, ProcRecord, CallRecord, KubeletRecord, CrossInv, HistoryOK
<1> QED
  BY <1>1, Invariance, CrossInvariance, PTL

(***************************************************************************)
(* A volume that NodePublishVolume answered as mounted is mounted until it *)
(* is unpublished, and after a successful NodeUnpublishVolume nothing is   *)
(* mounted where no call or process was given up.                          *)
(***************************************************************************)
THEOREM AnswersHold == Spec => []AnswersAreTrue
<1>1. Inv => AnswersAreTrue
  BY DEF Inv, AnswerInv, AnswerOK, AnswersAreTrue
<1> QED
  BY <1>1, Invariance, PTL

\* What is mounted at a target is a volume that was configured at some target, and
\* by the file with the name of this target's volume.
MountedByName ==
    \A t \in Targets : \A i \in DOMAIN mnt[t] :
        /\ ConfigName(mnt[t][i].volume) = ConfigName(VolumeOf(t))
        /\ \E u \in Targets : mnt[t][i].volume = VolumeOf(u)

(***************************************************************************)
(* However late chdfs-fuse reads its config file, it mounts a volume whose *)
(* file has the same name (prepareConfig): the name is all that keeps the  *)
(* volumes of a node apart.                                                *)
(***************************************************************************)
THEOREM ByName == Spec => []MountedByName
<1>1. Inv => MountedByName
  BY DEF Inv, LayersInv, LayersOK, Configured, MountedByName
<1> QED
  BY <1>1, Invariance, PTL

(***************************************************************************)
(* Every target shows its own volume, however late chdfs-fuse reads its    *)
(* config file and although volumes of one directory with other arguments  *)
(* write the same file, except at targets where such publishes overlapped: *)
(* every publish writes the file anew (prepareConfig), and none of them    *)
(* reads what an earlier one left.                                         *)
(***************************************************************************)
THEOREM OwnVolume == Spec => []MountedAsAsked
<1>1. CrossInv => MountedAsAsked
  BY DEF CrossInv
<1> QED
  BY <1>1, CrossInvariance, PTL

-----------------------------------------------------------------------------
(* The driver and chdfs-fuse implement PodMount.                            *)

\* The answer that counts: what was given up and went on may mount after an unpublish.
Told(t) == IF kubelet[t].answer = "unpublished" /\ t \in late THEN "none" ELSE kubelet[t].answer

Pod == INSTANCE PodMount WITH
    wanted  <- {t \in Targets : kubelet[t].pod},
    mounted <- {t \in Targets : Mounted(t)},
    answer  <- [t \in Targets |-> Told(t)]

\* The driver and chdfs-fuse do what kubelet counts on, however late chdfs-fuse mounts.
ImplementsPodMount == Pod!Spec

\* What PodMount knows of a target stays.
AnswerKept(t) == Told(t)' = Told(t) /\ (kubelet'[t].pod <=> kubelet[t].pod)
Kept(t) == AnswerKept(t) /\ (Mounted(t)' <=> Mounted(t))

\* One target changes as PodMount allows.  That what is told of it is so afterwards
\* is in the invariant.
ChangesAt(t) ==
    \/ AnswerKept(t) /\ (Mounted(t) /\ ~ Mounted(t)' => ~ kubelet[t].pod)
    \/ /\ (kubelet'[t].pod <=> kubelet[t].pod) /\ Told(t)' = "none" /\ (Mounted(t)' <=> Mounted(t))
    \/ /\ kubelet[t].pod /\ kubelet'[t].pod /\ Told(t)' = "published" /\ (Mounted(t)' <=> Mounted(t))
    \/ /\ ~ kubelet[t].pod /\ ~ kubelet'[t].pod /\ Told(t) # "published" /\ Told(t)' = "unpublished"
    \/ Told(t)' = Told(t) /\ ~ kubelet'[t].pod /\ (Mounted(t)' <=> Mounted(t))

Wanted == {t \in Targets : kubelet[t].pod}
MountPoints == {t \in Targets : Mounted(t)}
AllTold == [t \in Targets |-> Told(t)]

LEMMA PodActions ==
    /\ UNCHANGED <<Wanted, MountPoints, AllTold>> => UNCHANGED Pod!vars
    /\ \A t : Pod!Mount(t) <=>
          /\ AllTold[t] # "unpublished" /\ MountPoints' = MountPoints \cup {t}
          /\ Wanted' = Wanted /\ AllTold' = AllTold
    /\ \A t : Pod!Published(t) <=>
          /\ t \in Wanted \cap MountPoints /\ AllTold' = [AllTold EXCEPT ![t] = "published"]
          /\ Wanted' = Wanted /\ MountPoints' = MountPoints
    /\ \A t : Pod!Deleted(t) <=>
          Wanted' = Wanted \ {t} /\ MountPoints' = MountPoints /\ AllTold' = AllTold
    /\ \A t : Pod!Unmount(t) <=>
          /\ t \notin Wanted /\ AllTold[t] # "published" /\ MountPoints' = MountPoints \ {t}
          /\ AllTold' \in {AllTold, [AllTold EXCEPT ![t] = "unpublished"]}
          /\ Wanted' = Wanted
    /\ \A F : Pod!Forget(F) <=>
          /\ AllTold' = [t \in Targets |-> IF t \in F THEN "none" ELSE AllTold[t]]
          /\ Wanted' = Wanted /\ MountPoints' = MountPoints
BY DEF Pod!vars, Pod!Mount, Pod!Published, Pod!Deleted, Pod!Unmount, Pod!Forget,
       Wanted, MountPoints, AllTold

LEMMA ToldAfter ==
    ASSUME Inv', NEW t \in Targets
    PROVE  /\ Told(t)' = "published" => Mounted(t)'
           /\ Told(t)' = "unpublished" => ~ Mounted(t)'
BY DEF Inv, AnswerInv, AnswerOK, Told

LEMMA KeptPod ==
    ASSUME \A t \in Targets : Kept(t)
    PROVE  UNCHANGED Pod!vars
<1>1. AllTold' = AllTold
  BY DEF AllTold, Kept, AnswerKept
<1>2. Wanted' = Wanted /\ MountPoints' = MountPoints
  BY DEF Wanted, MountPoints, Kept, AnswerKept
<1> QED
  BY <1>1, <1>2, PodActions

\* Answers are only forgotten, at any number of targets.
LEMMA ForgetPod ==
    ASSUME \A t \in Targets :
             /\ kubelet'[t].pod <=> kubelet[t].pod
             /\ Mounted(t)' <=> Mounted(t)
             /\ Told(t)' \in {Told(t), "none"}
    PROVE  Pod!Next
<1> DEFINE F == {t \in Targets : Told(t)' = "none"}
<1>1. AllTold' = [t \in Targets |-> IF t \in F THEN "none" ELSE AllTold[t]]
  BY DEF AllTold
<1>2. Wanted' = Wanted /\ MountPoints' = MountPoints
  BY DEF Wanted, MountPoints
<1>3. Pod!Forget(F)
  BY <1>1, <1>2, PodActions
<1> QED
  BY <1>3 DEF Pod!Next

LEMMA TargetPod ==
    ASSUME Inv', NEW u \in Targets, \A t \in Targets : t # u => Kept(t), ChangesAt(u)
    PROVE  [Pod!Next]_(Pod!vars)
<1>1. \A t \in Targets : t # u =>
         Told(t)' = Told(t) /\ (kubelet'[t].pod <=> kubelet[t].pod) /\ (Mounted(t)' <=> Mounted(t))
  BY DEF Kept, AnswerKept
<1>2. /\ Told(u)' = "published" => Mounted(u)'
      /\ Told(u)' = "unpublished" => ~ Mounted(u)'
  BY ToldAfter
<1>3. CASE AnswerKept(u) /\ (Mounted(u) /\ ~ Mounted(u)' => ~ kubelet[u].pod)
  <2>1. AllTold' = AllTold /\ Wanted' = Wanted
    BY <1>1, <1>3 DEF AllTold, Wanted, AnswerKept
  <2>2. AllTold[u] = Told(u) /\ AllTold[u] = Told(u)'
    BY <1>3 DEF AllTold, AnswerKept
  <2>3. CASE Mounted(u)'
    <3>1. MountPoints' = MountPoints \cup {u}
      BY <1>1, <2>3 DEF MountPoints
    <3>2. Pod!Mount(u)
      BY <1>2, <2>1, <2>2, <2>3, <3>1, PodActions
    <3> QED
      BY <3>2 DEF Pod!Next
  <2>4. CASE ~ Mounted(u)' /\ ~ Mounted(u)
    <3>1. MountPoints' = MountPoints
      BY <1>1, <2>4 DEF MountPoints
    <3> QED
      BY <2>1, <3>1, PodActions
  <2>5. CASE ~ Mounted(u)' /\ Mounted(u)
    <3>1. MountPoints' = MountPoints \ {u}
      BY <1>1, <2>5 DEF MountPoints
    <3>2. u \notin Wanted
      BY <1>3, <2>5 DEF Wanted
    <3>3. Pod!Unmount(u)
      BY <1>2, <2>1, <2>2, <2>5, <3>1, <3>2, PodActions
    <3> QED
      BY <3>3 DEF Pod!Next
  <2> QED
    BY <2>3, <2>4, <2>5
<1>4. CASE /\ (kubelet'[u].pod <=> kubelet[u].pod) /\ Told(u)' = "none" /\ (Mounted(u)' <=> Mounted(u))
  BY <1>1, <1>4, ForgetPod
<1>5. CASE /\ kubelet[u].pod /\ kubelet'[u].pod /\ Told(u)' = "published" /\ (Mounted(u)' <=> Mounted(u))
  <2>1. AllTold' = [AllTold EXCEPT ![u] = "published"]
    BY <1>1, <1>5 DEF AllTold
  <2>2. Wanted' = Wanted /\ MountPoints' = MountPoints
    BY <1>1, <1>5 DEF Wanted, MountPoints
  <2>3. u \in Wanted \cap MountPoints
    BY <1>2, <1>5 DEF Wanted, MountPoints
  <2>4. Pod!Published(u)
    BY <2>1, <2>2, <2>3, PodActions
  <2> QED
    BY <2>4 DEF Pod!Next
<1>6. CASE /\ ~ kubelet[u].pod /\ ~ kubelet'[u].pod /\ Told(u) # "published" /\ Told(u)' = "unpublished"
  <2>1. AllTold' = [AllTold EXCEPT ![u] = "unpublished"]
    BY <1>1, <1>6 DEF AllTold
  <2>2. Wanted' = Wanted /\ u \notin Wanted /\ AllTold[u] # "published"
    BY <1>1, <1>6 DEF Wanted, AllTold
  <2>3. MountPoints' = MountPoints \ {u}
    BY <1>1, <1>2, <1>6 DEF MountPoints
  <2>4. Pod!Unmount(u)
    BY <2>1, <2>2, <2>3, PodActions
  <2> QED
    BY <2>4 DEF Pod!Next
<1>7. CASE Told(u)' = Told(u) /\ ~ kubelet'[u].pod /\ (Mounted(u)' <=> Mounted(u))
  <2>1. AllTold' = AllTold /\ MountPoints' = MountPoints
    BY <1>1, <1>7 DEF AllTold, MountPoints
  <2>2. Wanted' = Wanted \ {u}
    BY <1>1, <1>7 DEF Wanted
  <2>3. Pod!Deleted(u)
    BY <2>1, <2>2, PodActions
  <2> QED
    BY <2>3 DEF Pod!Next
<1> QED
  BY <1>3, <1>4, <1>5, <1>6, <1>7 DEF ChangesAt

LEMMA SameTold ==
    ASSUME late' = late, NEW t \in Targets, kubelet'[t].answer = kubelet[t].answer
    PROVE  Told(t)' = Told(t)
BY DEF Told

\* Nothing is mounted or unmounted, and answers are only forgotten.
LEMMA NonePod ==
    ASSUME late \subseteq late',
           \A t \in Targets :
               /\ kubelet'[t].pod = kubelet[t].pod
               /\ kubelet'[t].answer \in {kubelet[t].answer, "none"}
               /\ Mounted(t)' <=> Mounted(t)
    PROVE  [Pod!Next]_(Pod!vars)
<1>1. \A t \in Targets : Told(t)' \in {Told(t), "none"}
  BY DEF Told
<1> QED
  BY <1>1, ForgetPod

LEMMA QuietPod ==
    ASSUME mnt' = mnt, kubelet' = kubelet, late \subseteq late'
    PROVE  [Pod!Next]_(Pod!vars)
BY NonePod DEF Mounted

\* An answer reaches kubelet if it waits for this call.
LEMMA ReplyFrame ==
    ASSUME Inv, NEW c \in Calls, call[c].pc # "idle", NEW a \in Answers, Reply(c, a)
    PROVE  /\ call[c].target \in Targets
           /\ \A t \in Targets :
                 /\ kubelet'[t].pod = kubelet[t].pod
                 /\ kubelet'[t].answer # kubelet[t].answer =>
                       t = call[c].target /\ kubelet[t].call = c /\ kubelet'[t].answer = a
<1>1. kubelet \in [Targets -> KubeletRecord] /\ call[c].target \in Targets
  BY RunningCall DEF Inv, StateTypeOK
<1> QED
  BY <1>1 DEF Reply, KubeletRecord

LEMMA ReplyNonePod ==
    ASSUME Inv, NEW c \in Calls, call[c].pc # "idle", Reply(c, "none"), mnt' = mnt, late \subseteq late'
    PROVE  [Pod!Next]_(Pod!vars)
<1>1. "none" \in Answers
  BY DEF Answers
<1> QED
  BY <1>1, ReplyFrame, NonePod DEF Mounted

LEMMA ReplyPublishedPod ==
    ASSUME Inv, Inv', NEW c \in Calls, call[c].pc \in PublishSteps, Reply(c, "published"),
           mnt' = mnt, late' = late
    PROVE  [Pod!Next]_(Pod!vars)
<1>1. "published" \in Answers /\ call[c].pc # "idle"
  BY DEF Answers, PublishSteps
<1>2. PICK u \in Targets : u = call[c].target
  BY <1>1, ReplyFrame
<1>3. \A t \in Targets :
         /\ kubelet'[t].pod = kubelet[t].pod
         /\ kubelet'[t].answer # kubelet[t].answer =>
               t = u /\ kubelet[t].call = c /\ kubelet'[t].answer = "published"
  BY <1>1, <1>2, ReplyFrame
<1>4. \A t \in Targets : t # u => Kept(t)
  BY <1>3, SameTold DEF Kept, AnswerKept, Mounted
<1>5. CASE kubelet'[u].answer = kubelet[u].answer
  BY <1>3, <1>5, NonePod DEF Mounted
<1>6. CASE kubelet'[u].answer # kubelet[u].answer
  <2>1. kubelet[u].call = c /\ kubelet'[u].answer = "published"
    BY <1>3, <1>6
  <2>2. kubelet[u].pod
    BY <2>1, ConstantFacts DEF Inv, KubeletInv, KubeletOK, PublishSteps, UnpublishSteps
  <2>3. Told(u)' = "published" /\ kubelet'[u].pod /\ (Mounted(u)' <=> Mounted(u))
    BY <1>3, <2>1, <2>2 DEF Told, Mounted
  <2> QED
    BY <1>4, <2>2, <2>3, TargetPod DEF ChangesAt
<1> QED
  BY <1>5, <1>6

\* The visible layer is taken, or there was none, and kubelet is told so.
LEMMA ReplyUnpublishedPod ==
    ASSUME Inv, Inv', NEW c \in Calls, call[c].pc \in UnpublishSteps, Reply(c, "unpublished"),
           \A t \in Targets : t # call[c].target => mnt'[t] = mnt[t], late' = late
    PROVE  [Pod!Next]_(Pod!vars)
<1>1. "unpublished" \in Answers /\ call[c].pc # "idle"
  BY DEF Answers, UnpublishSteps
<1>2. PICK u \in Targets : u = call[c].target
  BY <1>1, ReplyFrame
<1>3. \A t \in Targets :
         /\ kubelet'[t].pod = kubelet[t].pod
         /\ kubelet'[t].answer # kubelet[t].answer => t = u /\ kubelet'[t].answer = "unpublished"
  BY <1>1, <1>2, ReplyFrame
<1>4. \A t \in Targets : t # u => Kept(t)
  BY <1>2, <1>3, SameTold DEF Kept, AnswerKept, Mounted
<1>5. ~ kubelet[u].pod /\ kubelet[u].answer # "published"
  BY <1>2 DEF Inv, CallInv, CallOK
<1>6. CASE Told(u)' = Told(u)
  <2>1. AnswerKept(u)
    BY <1>3, <1>6 DEF AnswerKept
  <2> QED
    BY <1>4, <1>5, <2>1, TargetPod DEF ChangesAt
<1>7. CASE Told(u)' # Told(u)
  <2>1. kubelet'[u].answer = "unpublished"
    BY <1>3, <1>7, SameTold
  <2>2. kubelet[u] \in KubeletRecord
    BY DEF Inv, StateTypeOK
  <2>3. u \notin late
    BY <1>5, <1>7, <2>1, <2>2 DEF Told, KubeletRecord, Answers
  <2>4. Told(u)' = "unpublished" /\ Told(u) # "published"
    BY <1>5, <2>1, <2>3 DEF Told
  <2>5. ~ kubelet'[u].pod
    BY <1>3, <1>5
  <2> QED
    BY <1>4, <1>5, <2>4, <2>5, TargetPod DEF ChangesAt
<1> QED
  BY <1>6, <1>7

LEMMA StepPod == \A c \in Calls : Inv /\ Inv' /\ Step(c) => [Pod!Next]_(Pod!vars)
<1> SUFFICES ASSUME NEW c \in Calls, Inv, Inv', Step(c) PROVE [Pod!Next]_(Pod!vars)
  OBVIOUS
<1>1. CASE createMountPoint(c)
  <2>1. call[c].pc = "create" /\ UNCHANGED <<mnt, late>>
    BY <1>1 DEF createMountPoint
  <2>2. Reply(c, "none") \/ Reply(c, "published") \/ kubelet' = kubelet
    BY <1>1 DEF createMountPoint, Goto
  <2> QED
    BY <2>1, <2>2, ReplyNonePod, ReplyPublishedPod, QuietPod DEF PublishSteps
<1>2. CASE prepareConfig(c) \/ WriteFile(c)
  <2>1. call[c].pc # "idle" /\ UNCHANGED <<mnt, late>> /\ (Reply(c, "none") \/ kubelet' = kubelet)
    BY <1>2 DEF prepareConfig, WriteFile, Goto
  <2> QED
    BY <2>1, ReplyNonePod, QuietPod
<1>3. CASE \E p \in Procs : execCmd(c, p)
  <2>1. UNCHANGED <<mnt, late>> /\ kubelet' = kubelet
    BY <1>3 DEF execCmd, Goto
  <2> QED
    BY <2>1, QuietPod
<1>4. CASE Poll(c)
  <2>1. call[c].pc = "poll" /\ UNCHANGED <<mnt, late>> /\ (Reply(c, "none") \/ Reply(c, "published"))
    BY <1>4 DEF Poll
  <2> QED
    BY <2>1, ReplyNonePod, ReplyPublishedPod DEF PublishSteps
<1>5. CASE MountTimeout(c)
  <2>1. call[c].pc = "poll" /\ mnt' = mnt /\ late \subseteq late' /\ Reply(c, "none")
    BY <1>5 DEF MountTimeout, GiveUp, Deadline
  <2> QED
    BY <2>1, ReplyNonePod
<1>6. CASE UnpublishCheck(c)
  <2>1. call[c].pc = "check" /\ UNCHANGED <<mnt, late>>
    BY <1>6 DEF UnpublishCheck
  <2>2. Reply(c, "unpublished") \/ kubelet' = kubelet
    BY <1>6 DEF UnpublishCheck, Goto
  <2> QED
    BY <2>1, <2>2, ReplyUnpublishedPod, QuietPod DEF UnpublishSteps
<1>7. CASE UnpublishUmount(c)
  <2>1. call[c].pc = "umount" /\ late' = late
    BY <1>7 DEF UnpublishUmount
  <2>2. CASE Reply(c, "none") /\ mnt' = mnt
    BY <2>1, <2>2, ReplyNonePod
  <2>3. CASE Reply(c, "unpublished") /\ mnt' = [mnt EXCEPT ![call[c].target] = Tail(@)]
    <3>1. \A t \in Targets : t # call[c].target => mnt'[t] = mnt[t]
      BY <2>3 DEF Inv, StateTypeOK
    <3> QED
      BY <2>1, <2>3, <3>1, ReplyUnpublishedPod DEF UnpublishSteps
  <2> QED
    BY <1>7, <2>2, <2>3 DEF UnpublishUmount
<1> QED
  BY <1>1, <1>2, <1>3, <1>4, <1>5, <1>6, <1>7 DEF Step

\* A new call clears the answer of its target.
LEMMA RequestPod ==
    \A c \in Calls, t \in Targets :
        Inv /\ (NodePublishVolume(c, t) \/ NodeUnpublishVolume(c, t)) => [Pod!Next]_(Pod!vars)
<1> SUFFICES ASSUME NEW c \in Calls, NEW t \in Targets, Inv,
                    NodePublishVolume(c, t) \/ NodeUnpublishVolume(c, t)
             PROVE  [Pod!Next]_(Pod!vars)
  OBVIOUS
<1>1. kubelet \in [Targets -> KubeletRecord] /\ UNCHANGED <<mnt, late>>
  BY DEF Inv, StateTypeOK, NodePublishVolume, NodeUnpublishVolume
<1>2. kubelet' = [kubelet EXCEPT ![t].call = c, ![t].answer = "none"]
  BY DEF NodePublishVolume, NodeUnpublishVolume, Request
<1>3. \A u \in Targets :
         kubelet'[u].pod = kubelet[u].pod /\ kubelet'[u].answer \in {kubelet[u].answer, "none"}
  BY <1>1, <1>2 DEF KubeletRecord
<1> QED
  BY <1>1, <1>3, NonePod DEF Mounted

\* chdfs-fuse mounts when it likes; that kubelet was not told "unpublished" before
\* is in the invariant.
LEMMA FusePod == \A p \in Procs : Inv /\ Inv' /\ Fuse(p) => [Pod!Next]_(Pod!vars)
<1> SUFFICES ASSUME NEW p \in Procs, Inv, Inv', Fuse(p) PROVE [Pod!Next]_(Pod!vars)
  OBVIOUS
<1>1. kubelet' = kubelet /\ late' = late
  BY DEF Fuse, ReadConfig, FuseMount
<1>2. CASE mnt' = mnt
  BY <1>1, <1>2, QuietPod
<1>3. CASE FuseMount(p) /\ mnt' # mnt
  <2>1. PICK u \in Targets : u = proc[p].target
    BY <1>3, RunningProc DEF FuseMount
  <2>2. mnt \in [Targets -> Seq(Layer)]
    BY DEF Inv, StateTypeOK
  <2>3. PICK l : l = [volume |-> proc[p].volume, by |-> p]
    OBVIOUS
  <2>4. mnt' = [mnt EXCEPT ![u] = <<l>> \o @]
    BY <1>3, <2>1, <2>3 DEF FuseMount
  <2>5. mnt'[u] = <<l>> \o mnt[u] /\ \A t \in Targets : t # u => mnt'[t] = mnt[t]
    BY <2>2, <2>4
  <2>6. Mounted(u)'
    <3>1. mnt'[u] \in Seq(Layer)
      BY DEF Inv, StateTypeOK
    <3>2. proc[p].volume \in Volumes
      <4>1. \A t \in Targets : VolumeOf(t) \in Volumes
        BY DEF VolumeOf, Inv, StateTypeOK, KubeletRecord
      <4>2. ProcOK(p) /\ proc[p].pc = "mounts"
        BY <1>3 DEF Inv, ProcInv, FuseMount
      <4> QED
        BY <4>1, <4>2 DEF ProcOK, Configured
    <3>3. l \in Layer
      BY <2>3, <3>2 DEF Layer
    <3> QED
      BY <2>2, <2>5, <3>3, ConsFacts DEF Mounted
  <2>7. \A t \in Targets : AnswerKept(t)
    BY <1>1, SameTold DEF AnswerKept
  <2>8. \A t \in Targets : t # u => Kept(t)
    BY <2>5, <2>7 DEF Kept, Mounted
  <2> QED
    BY <2>6, <2>7, <2>8, TargetPod DEF ChangesAt
<1> QED
  BY <1>2, <1>3 DEF Fuse, ReadConfig

\* Processes end, all of them with the driver: the mount points stay.
LEMMA OrphansPod ==
    ASSUME Inv, NEW P, mnt' = [t \in Targets |-> Orphaned(mnt[t], P)]
    PROVE  \A t \in Targets : Mounted(t)' <=> Mounted(t)
<1>1. \A t \in Targets : mnt[t] \in Seq(Layer) /\ mnt'[t] = Orphaned(mnt[t], P)
  BY DEF Inv, StateTypeOK
<1> QED
  BY <1>1, OrphanedFacts DEF Orphans, Mounted

LEMMA EndPod == Inv /\ (Restart \/ \E p \in Procs : FuseCrash(p)) => [Pod!Next]_(Pod!vars)
<1> SUFFICES ASSUME Inv, Restart \/ \E p \in Procs : FuseCrash(p) PROVE [Pod!Next]_(Pod!vars)
  OBVIOUS
<1>1. late' = late /\ \E P : mnt' = [t \in Targets |-> Orphaned(mnt[t], P)]
  BY DEF Restart, FuseCrash
<1>2. \A t \in Targets : Mounted(t)' <=> Mounted(t)
  BY <1>1, OrphansPod
<1>3. kubelet \in [Targets -> KubeletRecord]
  BY DEF Inv, StateTypeOK
<1>4. \A t \in Targets : kubelet'[t].pod = kubelet[t].pod /\ kubelet'[t].answer = kubelet[t].answer
  BY <1>3 DEF Restart, FuseCrash, KubeletRecord
<1> QED
  BY <1>1, <1>2, <1>4, NonePod

LEMMA KubeletPod ==
    \A t \in Targets : Inv /\ Inv' /\ (PodDeleted(t) \/ Abandon(t) \/ RemoveDir(t)) => [Pod!Next]_(Pod!vars)
<1> SUFFICES ASSUME NEW t \in Targets, Inv, Inv', PodDeleted(t) \/ Abandon(t) \/ RemoveDir(t)
             PROVE  [Pod!Next]_(Pod!vars)
  OBVIOUS
<1>1. kubelet \in [Targets -> KubeletRecord] /\ mnt' = mnt
  BY DEF Inv, StateTypeOK, PodDeleted, Abandon, RemoveDir
<1>2. CASE PodDeleted(t)
  <2>1. /\ late' = late /\ ~ kubelet'[t].pod /\ kubelet'[t].answer = kubelet[t].answer
        /\ \A u \in Targets : u # t => kubelet'[u] = kubelet[u]
    BY <1>1, <1>2 DEF PodDeleted, KubeletRecord
  <2>2. \A u \in Targets : u # t => Kept(u)
    BY <1>1, <2>1, SameTold DEF Kept, AnswerKept, Mounted
  <2>3. Told(t)' = Told(t) /\ (Mounted(t)' <=> Mounted(t))
    BY <1>1, <2>1, SameTold DEF Mounted
  <2> QED
    BY <2>1, <2>2, <2>3, TargetPod DEF ChangesAt
<1>3. CASE Abandon(t)
  <2>1. late \subseteq late' /\ \A u \in Targets :
            kubelet'[u].pod = kubelet[u].pod /\ kubelet'[u].answer = kubelet[u].answer
    BY <1>1, <1>3 DEF Abandon, KubeletRecord
  <2> QED
    BY <1>1, <2>1, NonePod DEF Mounted
<1>4. CASE RemoveDir(t)
  BY <1>4, QuietPod DEF RemoveDir
<1> QED
  BY <1>2, <1>3, <1>4

LEMMA NextPod == Inv /\ Inv' /\ [Next]_vars => [Pod!Next]_(Pod!vars)
<1> SUFFICES ASSUME Inv, Inv', [Next]_vars PROVE [Pod!Next]_(Pod!vars)
  OBVIOUS
<1>1. CASE UNCHANGED vars
  <2>1. mnt' = mnt /\ kubelet' = kubelet /\ late' = late
    BY <1>1 DEF vars
  <2> QED
    BY <2>1, QuietPod
<1>2. ASSUME NEW p \in Procs, Fuse(p) \/ FuseCrash(p) PROVE [Pod!Next]_(Pod!vars)
  BY <1>2, FusePod, EndPod
<1> QED
  BY <1>1, <1>2, KubeletPod, RequestPod, StepPod, EndPod DEF Next

LEMMA InitPod == Init => Pod!Init
<1> SUFFICES ASSUME Init PROVE Pod!Init
  OBVIOUS
<1>1. \A t \in Targets : kubelet[t].pod /\ kubelet[t].answer = "none" /\ mnt[t] = <<>>
  <2>1. PICK claim \in Claims :
            kubelet = [t \in Targets |-> [pod |-> TRUE, volume |-> claim[t], call |-> None,
                                           answer |-> "none"]]
    BY DEF Init
  <2>2. mnt = [t \in Targets |-> <<>>]
    BY DEF Init
  <2> QED
    BY <2>1, <2>2
<1>2. \A t \in Targets : Told(t) = "none" /\ ~ Mounted(t)
  BY <1>1 DEF Told, Mounted
<1> QED
  BY <1>1, <1>2 DEF Pod!Init

(***************************************************************************)
(* The driver and chdfs-fuse implement PodMount: every step of theirs is a *)
(* step of it or changes nothing there.  In particular no call unmounts a  *)
(* target whose pod is not deleted, not even one that kubelet gave up, and *)
(* where nothing was given up chdfs-fuse does not mount after a successful *)
(* NodeUnpublishVolume.                                                    *)
(***************************************************************************)
THEOREM Refinement == Spec => ImplementsPodMount
BY InitPod, NextPod, Invariance, PTL DEF Spec, ImplementsPodMount, Pod!Spec
=============================================================================
