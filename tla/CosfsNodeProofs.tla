--------------------------- MODULE CosfsNodeProofs ---------------------------
(***************************************************************************)
(* Proofs about the COS node server and the launcher, for any pods,        *)
(* targets, volumes, calls and requests, and any faults: what kubelet was  *)
(* told about a target is so, cosfs mounts with the secret of its own      *)
(* volume, and goosefs-lite with that of some volume of the pod.           *)
(***************************************************************************)
EXTENDS CosfsNode, SequenceTheorems, TLAPS

Answers == {"none", "published", "unpublished"}

\* The contents of a goosefs-lite.properties.
Properties == [Keys -> {Options[v].properties[k] : v \in Volumes, k \in Keys} \cup {None}]

LayerRecord == [secret : Secrets, properties : Properties, up : BOOLEAN]

DriverSteps == {"stat", "open", "write", "viper", "save", "launch"}
PublishJobs == {"create", "mount", "clean"}
UnpublishJobs == {"check", "umount"}

CallRecord == [pc : {"idle", "wait"} \cup DriverSteps, target : Targets \cup {None}]

JobRecord ==
    [pc : {"done"} \cup PublishJobs \cup UnpublishJobs, target : Targets \cup {None},
     for : Calls \cup {None}]

KubeletRecord ==
    [pod : BOOLEAN, volume : Volumes, call : Calls \cup {None}, answer : Answers, tried : BOOLEAN]

HostTypeOK ==
    /\ dir \subseteq Targets
    /\ mnt \in [Targets -> Seq(LayerRecord)]
    /\ restarted \subseteq Faults

FilesTypeOK ==
    /\ passwd \in [Pods -> [PasswdNames -> Secrets \cup {"none", "empty"}]]
    /\ site \in [Pods -> Volumes \cup {"empty", None}]
    /\ lite \in [Pods -> Properties \cup {None}]
    /\ viper \in Properties

CallsTypeOK ==
    /\ call \in [Calls -> CallRecord]
    /\ job \in [Jobs -> JobRecord]
    /\ kubelet \in [Targets -> KubeletRecord]

Publishable(t) == Mounter(VolumeOf(t)) \in {"cosfs", "goosefs-lite"}

-----------------------------------------------------------------------------
(* Who waits for whom.                                                      *)

CallOK(c) ==
    /\ call[c].pc = "idle" <=> call[c].target = None
    /\ call[c].pc \in DriverSteps => Publishable(call[c].target)
    /\ call[c].pc = "wait" => \E j \in Jobs : job[j].for = c

\* A request that unmounts is for a pod that is gone and was not told that its
\* volume is published.
JobOK(j) ==
    /\ job[j].pc = "done" <=> job[j].target = None
    /\ job[j].pc = "done" => job[j].for = None
    /\ job[j].for # None => call[job[j].for] = [pc |-> "wait", target |-> job[j].target]
    /\ job[j].pc \in PublishJobs => Publishable(job[j].target)
    /\ job[j].pc \in UnpublishJobs =>
          ~ kubelet[job[j].target].pod /\ kubelet[job[j].target].answer # "published"

OwnJob == \A i, j \in Jobs : job[i].for = job[j].for /\ job[i].for # None => i = j

\* The call that kubelet waits for; it is an unpublish when the pod is gone.
KubeletOK(t) ==
    /\ kubelet[t].call # None =>
          /\ call[kubelet[t].call].target = t
          /\ kubelet[t].answer = "none"
          /\ ~ kubelet[t].pod => call[kubelet[t].call].pc = "wait"
    /\ \A j \in Jobs : job[j].for # None /\ job[j].for = kubelet[t].call /\ ~ kubelet[t].pod =>
          job[j].pc \in UnpublishJobs

WaitInv ==
    /\ \A c \in Calls : CallOK(c)
    /\ \A j \in Jobs : JobOK(j)
    /\ OwnJob
    /\ \A t \in Targets : KubeletOK(t)

CallsInv == CallsTypeOK /\ WaitInv

-----------------------------------------------------------------------------
(* What is mounted.                                                         *)

MountedOK(t) ==
    /\ Mounted(t) => t \in dir
    /\ kubelet[t].answer = "published" => Mounted(t)
    /\ \A j \in Jobs : job[j].pc = "clean" /\ job[j].target = t /\ kubelet[t].pod => Mounted(t)

\* Unless kubelet or the driver started anew, nothing runs for a target but the call
\* that kubelet waits for, and there is one layer at most.
AloneAt(t) ==
    /\ \A c \in Calls : call[c].target = t => kubelet[t].call = c
    /\ \A j \in Jobs : job[j].target = t => job[j].for # None
    /\ \A c \in Calls : call[c].target = t /\ call[c].pc \in DriverSteps => ~ Mounted(t)
    /\ \A j \in Jobs : job[j].target = t /\ job[j].pc = "mount" => ~ Mounted(t)
    /\ Len(mnt[t]) <= 1
    /\ kubelet[t].answer = "unpublished" => ~ Mounted(t)

MountInv == \A t \in Targets : MountedOK(t)
AloneInv == restarted \subseteq {"launcher"} => \A t \in Targets : AloneAt(t)

-----------------------------------------------------------------------------
(* What is in the files.                                                    *)

\* core-site.xml of pod p may be for volume v.
OfPod(p, v) ==
    \E t \in Targets : PodOf[t] = p /\ Mounter(VolumeOf(t)) = "goosefs-lite" /\ v = VolumeOf(t)

\* The file system at t may have secret s.
MayUse(t, s) ==
    IF Mounter(VolumeOf(t)) = "cosfs" THEN s = Options[VolumeOf(t)].secret
    ELSE \E v \in Volumes : OfPod(PodOf[t], v) /\ s = Options[v].secret

ClaimInv == \E claim \in Claims : \A t \in Targets : VolumeOf(t) = claim[t]

PasswdInv ==
    \A p \in Pods, v \in Volumes : passwd[p][PasswdName(v)] \in {"none", "empty", Options[v].secret}

SiteInv == \A p \in Pods : site[p] \in Volumes => OfPod(p, site[p])

SecretInv ==
    \A t \in Targets :
        /\ Mounted(t) => Publishable(t)
        /\ \A i \in DOMAIN mnt[t] : MayUse(t, mnt[t][i].secret)

FileInv == PasswdInv /\ SiteInv

Inv ==
    /\ HostTypeOK /\ CallsInv /\ MountInv /\ AloneInv
    /\ FilesTypeOK /\ FileInv /\ ClaimInv /\ SecretInv

-----------------------------------------------------------------------------
(* The records.                                                             *)

LEMMA ConstantFacts ==
    /\ Idle \in CallRecord /\ Idle.pc = "idle" /\ Idle.target = None
    /\ NoJob \in JobRecord /\ NoJob.pc = "done" /\ NoJob.target = None /\ NoJob.for = None
    /\ None \notin Volumes /\ None \notin Targets /\ None \notin Calls
<1>1. Idle \in CallRecord /\ Idle.pc = "idle" /\ Idle.target = None
  BY DEF Idle, CallRecord
<1>2. NoJob \in JobRecord /\ NoJob.pc = "done" /\ NoJob.target = None /\ NoJob.for = None
  BY DEF NoJob, JobRecord
<1>3. None \notin Volumes /\ None \notin Targets /\ None \notin Calls
  BY ConstantsAssumption
<1> QED
  BY <1>1, <1>2, <1>3

\* A step gives one call, one request or the view of one target a new record.
CallIs(c, r) ==
    /\ call' \in [Calls -> CallRecord]
    /\ call'[c] = r
    /\ \A d \in Calls : d # c => call'[d] = call[d]

JobIs(j, r) ==
    /\ job' \in [Jobs -> JobRecord]
    /\ job'[j] = r
    /\ \A i \in Jobs : i # j => job'[i] = job[i]

KubeletIs(t, r) ==
    /\ kubelet' \in [Targets -> KubeletRecord]
    /\ kubelet'[t] = r
    /\ \A u \in Targets : u # t => kubelet'[u] = kubelet[u]

LEMMA SetCall ==
    ASSUME CallsTypeOK, NEW c \in Calls, NEW r \in CallRecord, call' = [call EXCEPT ![c] = r]
    PROVE  CallIs(c, r)
BY DEF CallsTypeOK, CallIs

LEMMA SetJob ==
    ASSUME CallsTypeOK, NEW j \in Jobs, NEW r \in JobRecord, job' = [job EXCEPT ![j] = r]
    PROVE  JobIs(j, r)
BY DEF CallsTypeOK, JobIs

LEMMA SetKubelet ==
    ASSUME CallsTypeOK, NEW t \in Targets, NEW r \in KubeletRecord, kubelet' = [kubelet EXCEPT ![t] = r]
    PROVE  KubeletIs(t, r)
BY DEF CallsTypeOK, KubeletIs

\* What kubelet knows once it has the answer to its call at t.
Answered(t, answer) == [kubelet[t] EXCEPT !.call = None, !.answer = answer]

LEMMA AnsweredFacts ==
    ASSUME CallsTypeOK, NEW t \in Targets, NEW a \in Answers
    PROVE  /\ Answered(t, a) \in KubeletRecord
           /\ Answered(t, a).pod = kubelet[t].pod
           /\ Answered(t, a).volume = kubelet[t].volume
           /\ Answered(t, a).call = None
           /\ Answered(t, a).answer = a
<1>1. kubelet[t] \in KubeletRecord
  BY DEF CallsTypeOK
<1> QED
  BY <1>1 DEF Answered, KubeletRecord

\* The call that runs has a target, and so has the request.
LEMMA RunningCall ==
    ASSUME CallsTypeOK, NEW c \in Calls, CallOK(c), call[c].pc # "idle"
    PROVE  call[c] \in CallRecord /\ call[c].target \in Targets
<1>1. call[c] \in CallRecord
  BY DEF CallsTypeOK
<1> QED
  BY <1>1 DEF CallRecord, CallOK

LEMMA RunningJob ==
    ASSUME CallsTypeOK, NEW j \in Jobs, JobOK(j), job[j].pc # "done"
    PROVE  job[j] \in JobRecord /\ job[j].target \in Targets
<1>1. job[j] \in JobRecord
  BY DEF CallsTypeOK
<1> QED
  BY <1>1 DEF JobRecord, JobOK

-----------------------------------------------------------------------------
(* The kinds of steps, by what they do to the calls and the requests.       *)

VolumesKept == \A t \in Targets : kubelet'[t].volume = kubelet[t].volume

LEMMA PublishableKept ==
    ASSUME VolumesKept
    PROVE  \A t \in Targets : Publishable(t)' <=> Publishable(t)
BY DEF VolumesKept, Publishable, VolumeOf

\* Nothing happens to calls and requests.
Rests == UNCHANGED <<call, job, kubelet>>

\* Call c goes on.
Goes(c, pc) ==
    /\ CallIs(c, [pc |-> pc, target |-> call[c].target])
    /\ job' = job /\ kubelet' = kubelet

\* Call c ends, and kubelet has the answer if it waits for it.
Ends(c, answer) ==
    /\ CallIs(c, Idle)
    /\ \/ /\ kubelet[call[c].target].call = c
          /\ KubeletIs(call[c].target, Answered(call[c].target, answer))
       \/ kubelet[call[c].target].call # c /\ kubelet' = kubelet

\* Request j ends.
Responds(j, answer) ==
    /\ JobIs(j, NoJob)
    /\ \/ job[j].for \in Calls /\ Ends(job[j].for, answer)
       \/ job[j].for = None /\ call' = call /\ kubelet' = kubelet

LEMMA GotoGoes ==
    ASSUME CallsTypeOK, NEW c \in Calls, NEW pc \in DriverSteps \cup {"wait"}, Goto(c, pc)
    PROVE  CallIs(c, [pc |-> pc, target |-> call[c].target]) /\ kubelet' = kubelet
<1>1. call[c] \in CallRecord
  BY DEF CallsTypeOK
<1>2. [call[c] EXCEPT !.pc = pc] = [pc |-> pc, target |-> call[c].target]
  BY <1>1 DEF CallRecord
<1>3. [pc |-> pc, target |-> call[c].target] \in CallRecord
  BY <1>1 DEF CallRecord
<1>4. call' = [call EXCEPT ![c] = [pc |-> pc, target |-> call[c].target]]
  BY <1>2 DEF Goto
<1> QED
  BY <1>3, <1>4, SetCall DEF Goto

LEMMA ReplyEnds ==
    ASSUME CallsTypeOK, NEW c \in Calls, call[c].target \in Targets, NEW a \in Answers, Reply(c, a)
    PROVE  Ends(c, a)
<1> DEFINE t == call[c].target
<1>1. CallIs(c, Idle)
  BY ConstantFacts, SetCall DEF Reply
<1>2. CASE kubelet[t].call = c
  <2>1. kubelet' = [kubelet EXCEPT ![t] = Answered(t, a)]
    BY <1>2 DEF Reply, Answered, CallsTypeOK
  <2> QED
    BY <1>1, <1>2, <2>1, AnsweredFacts, SetKubelet DEF Ends
<1>3. CASE kubelet[t].call # c
  BY <1>1, <1>3 DEF Reply, Ends
<1> QED
  BY <1>2, <1>3

LEMMA RespondResponds ==
    ASSUME CallsInv, NEW j \in Jobs, job[j].pc # "done", NEW a \in Answers, Respond(j, a)
    PROVE  Responds(j, a)
<1>1. JobIs(j, NoJob)
  BY ConstantFacts, SetJob DEF Respond, CallsInv
<1>2. JobOK(j)
  BY DEF CallsInv, WaitInv
<1>3. job[j] \in JobRecord /\ job[j].target \in Targets
  BY <1>2, RunningJob DEF CallsInv
<1>4. CASE job[j].for # None
  <2>1. job[j].for \in Calls
    BY <1>3, <1>4 DEF JobRecord
  <2>2. call[job[j].for].target \in Targets
    BY <1>2, <1>3, <1>4 DEF JobOK
  <2>3. Reply(job[j].for, a)
    BY <1>4 DEF Respond
  <2> QED
    BY <1>1, <2>1, <2>2, <2>3, ReplyEnds DEF Responds, CallsInv
<1>5. CASE job[j].for = None
  BY <1>1, <1>5 DEF Respond, Responds
<1> QED
  BY <1>4, <1>5

\* A call that does not wait has no request, and an idle one no kubelet.
LEMMA NotWaiting ==
    ASSUME CallsInv, NEW c \in Calls, call[c].pc # "wait"
    PROVE  \A j \in Jobs : job[j].for # c
<1> SUFFICES ASSUME NEW j \in Jobs, job[j].for = c PROVE FALSE
  OBVIOUS
<1>1. JobOK(j)
  BY DEF CallsInv, WaitInv
<1>2. call[c] = [pc |-> "wait", target |-> job[j].target]
  BY <1>1, ConstantFacts DEF JobOK
<1> QED
  BY <1>2

LEMMA IdleFacts ==
    ASSUME CallsInv, NEW c \in Calls, call[c].pc = "idle"
    PROVE  /\ \A j \in Jobs : job[j].for # c
           /\ \A t \in Targets : kubelet[t].call # c
<1>1. CallOK(c) /\ \A t \in Targets : KubeletOK(t)
  BY DEF CallsInv, WaitInv
<1> QED
  BY <1>1, NotWaiting, ConstantFacts DEF CallOK, KubeletOK

-----------------------------------------------------------------------------
(* Every kind of step keeps the bookkeeping.                                *)

LEMMA GoesKeepsCalls ==
    ASSUME CallsInv, NEW c \in Calls, call[c].pc \in DriverSteps,
           NEW pc \in DriverSteps, Goes(c, pc)
    PROVE  CallsInv' /\ VolumesKept
<1>1. CallOK(c) /\ \A j \in Jobs : job[j].for # c
  BY NotWaiting DEF CallsInv, WaitInv, DriverSteps
<1>2. call[c].target \in Targets
  BY <1>1, RunningCall DEF CallsInv, DriverSteps
<1>3. VolumesKept
  BY DEF VolumesKept, Goes
<1>4. CallsTypeOK'
  BY DEF CallsInv, CallsTypeOK, Goes, CallIs
<1>5. \A d \in Calls : CallOK(d)'
  <2> SUFFICES ASSUME NEW d \in Calls PROVE CallOK(d)'
    OBVIOUS
  <2>1. CallOK(d)
    BY DEF CallsInv, WaitInv
  <2>2. Publishable(call[d].target)' <=> Publishable(call'[d].target)
    BY DEF Publishable, VolumeOf, Goes
  <2>3. CASE d = c
    <3>1. call'[d].pc = pc /\ call'[d].target = call[c].target /\ pc \notin {"idle", "wait"}
      BY <2>3 DEF Goes, CallIs, DriverSteps
    <3>2. Publishable(call[c].target)
      BY <1>1 DEF CallOK
    <3> QED
      BY <1>2, <2>2, <3>1, <3>2, ConstantFacts DEF CallOK
  <2>4. CASE d # c
    BY <2>1, <2>2, <2>4 DEF CallOK, Goes, CallIs
  <2> QED
    BY <2>3, <2>4
<1>6. \A j \in Jobs : JobOK(j)'
  <2> SUFFICES ASSUME NEW j \in Jobs PROVE JobOK(j)'
    OBVIOUS
  <2>1. JobOK(j) /\ job[j] \in JobRecord /\ job[j].for # c
    BY <1>1 DEF CallsInv, WaitInv, CallsTypeOK
  <2>2. Publishable(job[j].target)' <=> Publishable(job[j].target)
    BY DEF Publishable, VolumeOf, Goes
  <2> QED
    BY <2>1, <2>2 DEF JobOK, Goes, CallIs, JobRecord
<1>7. OwnJob'
  BY DEF CallsInv, WaitInv, OwnJob, Goes
<1>8. \A t \in Targets : KubeletOK(t)'
  <2> SUFFICES ASSUME NEW t \in Targets PROVE KubeletOK(t)'
    OBVIOUS
  <2>1. KubeletOK(t) /\ kubelet[t] \in KubeletRecord
    BY DEF CallsInv, WaitInv, CallsTypeOK
  <2> QED
    BY <2>1 DEF KubeletOK, Goes, CallIs, KubeletRecord, DriverSteps
<1> QED
  BY <1>3, <1>4, <1>5, <1>6, <1>7, <1>8 DEF CallsInv, WaitInv

\* A call ends while the requests stay, or its own request ends with it.
LEMMA EndsKeepsCalls ==
    ASSUME CallsInv, NEW c \in Calls, call[c].target \in Targets, NEW a \in Answers, Ends(c, a),
           job' \in [Jobs -> JobRecord],
           \A j \in Jobs : job'[j] = IF job[j].for = c THEN NoJob ELSE job[j],
           a = "published" /\ kubelet[call[c].target].call = c => kubelet[call[c].target].pod
    PROVE  CallsInv' /\ VolumesKept
<1> DEFINE t == call[c].target
<1>1. VolumesKept
  BY AnsweredFacts DEF VolumesKept, Ends, KubeletIs, CallsInv
<1>2. CallsTypeOK'
  BY DEF CallsInv, CallsTypeOK, Ends, CallIs, KubeletIs
<1>3. \A u \in Targets : Publishable(u)' <=> Publishable(u)
  BY <1>1, PublishableKept
<1>4. \A u \in Targets :
        /\ kubelet'[u].pod = kubelet[u].pod
        /\ kubelet'[u].call = IF kubelet[u].call = c /\ u = t THEN None ELSE kubelet[u].call
        /\ kubelet'[u].answer = IF kubelet[u].call = c /\ u = t THEN a ELSE kubelet[u].answer
  BY AnsweredFacts DEF Ends, KubeletIs, CallsInv
<1>5. CallIs(c, Idle)
  BY DEF Ends
<1>6. \A d \in Calls : CallOK(d)'
  <2> SUFFICES ASSUME NEW d \in Calls PROVE CallOK(d)'
    OBVIOUS
  <2>1. CallOK(d) /\ call[d] \in CallRecord
    BY DEF CallsInv, WaitInv, CallsTypeOK
  <2>2. CASE d = c
    BY <1>5, <2>2, ConstantFacts DEF CallOK, CallIs, DriverSteps
  <2>3. CASE d # c
    <3>1. call'[d] = call[d]
      BY <1>5, <2>3 DEF CallIs
    <3>2. call[d].pc \in DriverSteps => Publishable(call[d].target)'
      <4>1. call[d].pc \in DriverSteps => call[d].target \in Targets
        BY <2>1 DEF CallOK, CallRecord, DriverSteps
      <4> QED
        BY <1>3, <2>1, <3>1, <4>1 DEF CallOK, Publishable, VolumeOf
    <3>3. call[d].pc = "wait" => \E j \in Jobs : job'[j].for = d
      <4> SUFFICES ASSUME call[d].pc = "wait" PROVE \E j \in Jobs : job'[j].for = d
        OBVIOUS
      <4>1. PICK j \in Jobs : job[j].for = d
        BY <2>1 DEF CallOK
      <4> QED
        BY <4>1, <2>3
    <3> QED
      BY <2>1, <3>1, <3>2, <3>3 DEF CallOK, Publishable, VolumeOf
  <2> QED
    BY <2>2, <2>3
<1>7. \A j \in Jobs : JobOK(j)'
  <2> SUFFICES ASSUME NEW j \in Jobs PROVE JobOK(j)'
    OBVIOUS
  <2>1. JobOK(j) /\ job[j] \in JobRecord
    BY DEF CallsInv, WaitInv, CallsTypeOK
  <2>2. CASE job[j].for = c
    BY <2>2, ConstantFacts DEF JobOK, PublishJobs, UnpublishJobs
  <2>3. CASE job[j].for # c
    <3>1. job'[j] = job[j]
      BY <2>3
    <3>2. job[j].pc \in PublishJobs => Publishable(job[j].target)'
      <4>1. job[j].pc \in PublishJobs => job[j].target \in Targets
        BY <2>1 DEF JobOK, JobRecord, PublishJobs
      <4> QED
        BY <1>3, <2>1, <3>1, <4>1 DEF JobOK, Publishable, VolumeOf
    <3>3. job[j].for # None => call'[job[j].for] = call[job[j].for]
      BY <1>5, <2>1, <2>3 DEF CallIs, JobRecord
    <3>4. job[j].pc \in UnpublishJobs =>
             ~ kubelet'[job[j].target].pod /\ kubelet'[job[j].target].answer # "published"
      <4>1. job[j].pc \in UnpublishJobs => job[j].target \in Targets
        BY <2>1 DEF JobOK, JobRecord, UnpublishJobs
      <4> QED
        BY <4>1, <1>4, <2>1 DEF JobOK
    <3> QED
      BY <2>1, <3>1, <3>2, <3>3, <3>4 DEF JobOK, Publishable, VolumeOf
  <2> QED
    BY <2>2, <2>3
<1>8. OwnJob'
  BY ConstantFacts DEF CallsInv, WaitInv, OwnJob
<1>9. \A u \in Targets : KubeletOK(u)'
  <2> SUFFICES ASSUME NEW u \in Targets PROVE KubeletOK(u)'
    OBVIOUS
  <2>1. KubeletOK(u) /\ kubelet[u] \in KubeletRecord
    BY DEF CallsInv, WaitInv, CallsTypeOK
  <2>2. CASE kubelet'[u].call = None
    BY <2>2 DEF KubeletOK
  <2>3. CASE kubelet'[u].call # None
    <3>1. kubelet[u].call \in Calls /\ kubelet[u].call # c /\ kubelet'[u].call = kubelet[u].call
      BY <1>4, <2>1, <2>3 DEF KubeletOK, KubeletRecord
    <3>2. call'[kubelet[u].call] = call[kubelet[u].call] /\ kubelet'[u].answer = kubelet[u].answer
      BY <1>4, <1>5, <3>1 DEF CallIs
    <3> QED
      BY <1>4, <2>1, <2>3, <3>1, <3>2, ConstantFacts DEF KubeletOK
  <2> QED
    BY <2>2, <2>3
<1> QED
  BY <1>1, <1>2, <1>6, <1>7, <1>8, <1>9 DEF CallsInv, WaitInv

\* Call c waits for the new request j at t; kubelet may be the one who asks.
Posts(c, j, t, pc) ==
    /\ CallIs(c, [pc |-> "wait", target |-> t])
    /\ JobIs(j, [pc |-> pc, target |-> t, for |-> c])
    /\ kubelet' \in [Targets -> KubeletRecord]
    /\ \A u \in Targets :
          /\ kubelet'[u].pod = kubelet[u].pod
          /\ kubelet'[u].volume = kubelet[u].volume
          /\ \/ kubelet'[u] = kubelet[u] /\ (kubelet[u].call = c => u = t)
             \/ u = t /\ kubelet'[u].call = c /\ kubelet'[u].answer = "none"
    /\ kubelet'[t].call = c /\ ~ kubelet[t].pod => pc \in UnpublishJobs

LEMMA PostsKeepsCalls ==
    ASSUME CallsInv, NEW c \in Calls, NEW j \in Jobs, NEW t \in Targets,
           call[c].pc # "wait", job[j].pc = "done",
           NEW pc \in PublishJobs \cup UnpublishJobs, Posts(c, j, t, pc),
           pc \in PublishJobs => Publishable(t),
           pc \in UnpublishJobs => ~ kubelet[t].pod /\ kubelet'[t].answer # "published"
    PROVE  CallsInv' /\ VolumesKept
<1>1. VolumesKept
  BY DEF VolumesKept, Posts
<1>2. CallsTypeOK'
  BY DEF CallsInv, CallsTypeOK, Posts, CallIs, JobIs
<1>3. \A u \in Targets : Publishable(u)' <=> Publishable(u)
  BY <1>1, PublishableKept
<1>4. call'[c].pc = "wait" /\ call'[c].target = t /\ \A d \in Calls : d # c => call'[d] = call[d]
  BY DEF Posts, CallIs
<1>5. /\ job'[j].pc = pc /\ job'[j].target = t /\ job'[j].for = c
      /\ \A i \in Jobs : i # j => job'[i] = job[i]
  BY DEF Posts, JobIs
<1>6. \A i \in Jobs : job[i].for # c
  BY NotWaiting
<1>7. job[j].for = None
  BY DEF CallsInv, WaitInv, JobOK
<1>8. \A d \in Calls : CallOK(d)'
  <2> SUFFICES ASSUME NEW d \in Calls PROVE CallOK(d)'
    OBVIOUS
  <2>1. CallOK(d) /\ call[d] \in CallRecord
    BY DEF CallsInv, WaitInv, CallsTypeOK
  <2>2. CASE d = c
    BY <1>4, <1>5, <2>2, ConstantFacts DEF CallOK, DriverSteps
  <2>3. CASE d # c
    <3>1. call'[d] = call[d]
      BY <1>4, <2>3
    <3>2. call[d].pc \in DriverSteps => Publishable(call[d].target)'
      <4>1. call[d].pc \in DriverSteps => call[d].target \in Targets
        BY <2>1 DEF CallOK, CallRecord, DriverSteps
      <4> QED
        BY <1>3, <2>1, <3>1, <4>1 DEF CallOK, Publishable, VolumeOf
    <3>3. call[d].pc = "wait" => \E i \in Jobs : job'[i].for = d
      <4> SUFFICES ASSUME call[d].pc = "wait" PROVE \E i \in Jobs : job'[i].for = d
        OBVIOUS
      <4>1. PICK i \in Jobs : job[i].for = d
        BY <2>1 DEF CallOK
      <4> QED
        BY <1>5, <1>7, <4>1, ConstantFacts
    <3> QED
      BY <2>1, <3>1, <3>2, <3>3 DEF CallOK, Publishable, VolumeOf
  <2> QED
    BY <2>2, <2>3
<1>9. \A i \in Jobs : JobOK(i)'
  <2> SUFFICES ASSUME NEW i \in Jobs PROVE JobOK(i)'
    OBVIOUS
  <2>1. JobOK(i) /\ job[i] \in JobRecord
    BY DEF CallsInv, WaitInv, CallsTypeOK
  <2>2. CASE i = j
    <3>1. call'[c] = [pc |-> "wait", target |-> t]
      BY DEF Posts, CallIs
    <3>2. pc # "done"
      BY DEF PublishJobs, UnpublishJobs
    <3>3. ~ kubelet'[t].pod <=> ~ kubelet[t].pod
      BY DEF Posts
    <3>4. pc \in PublishJobs => Mounter(kubelet'[t].volume) \in {"cosfs", "goosefs-lite"}
      BY <1>3 DEF Publishable, VolumeOf
    <3> QED
      BY <1>5, <2>2, <3>1, <3>2, <3>3, <3>4, ConstantFacts DEF JobOK, Publishable, VolumeOf
  <2>3. CASE i # j
    <3>1. job'[i] = job[i]
      BY <1>5, <2>3
    <3>2. job[i].pc \in PublishJobs => Publishable(job[i].target)'
      <4>1. job[i].pc \in PublishJobs => job[i].target \in Targets
        BY <2>1 DEF JobOK, JobRecord, PublishJobs
      <4> QED
        BY <1>3, <2>1, <3>1, <4>1 DEF JobOK, Publishable, VolumeOf
    <3>3. job[i].for # None => call'[job[i].for] = call[job[i].for]
      BY <1>4, <1>6, <2>1 DEF JobRecord
    <3>4. job[i].pc \in UnpublishJobs =>
             ~ kubelet'[job[i].target].pod /\ kubelet'[job[i].target].answer # "published"
      <4>1. job[i].pc \in UnpublishJobs => job[i].target \in Targets
        BY <2>1 DEF JobOK, JobRecord, UnpublishJobs
      <4> QED
        BY <4>1, <2>1 DEF JobOK, Posts
    <3> QED
      BY <2>1, <3>1, <3>2, <3>3, <3>4 DEF JobOK, Publishable, VolumeOf
  <2> QED
    BY <2>2, <2>3
<1>10. OwnJob'
  BY <1>5, <1>6, ConstantFacts DEF CallsInv, WaitInv, OwnJob
<1>11. \A u \in Targets : KubeletOK(u)'
  <2> SUFFICES ASSUME NEW u \in Targets PROVE KubeletOK(u)'
    OBVIOUS
  <2>1. KubeletOK(u) /\ kubelet[u] \in KubeletRecord /\ kubelet'[u].pod = kubelet[u].pod
    BY DEF CallsInv, WaitInv, CallsTypeOK, Posts
  <2>2. CASE kubelet'[u].call = c
    <3>1. u = t
      BY <2>2 DEF Posts
    <3>2. kubelet'[u].answer = "none"
      BY <2>1, <2>2, ConstantFacts DEF Posts, KubeletOK
    <3>3. \A i \in Jobs : job'[i].for = c => i = j
      BY <1>5, <1>6
    <3>4. ~ kubelet[u].pod => pc \in UnpublishJobs
      BY <2>2, <3>1 DEF Posts
    <3> QED
      BY <1>4, <1>5, <2>1, <2>2, <3>1, <3>2, <3>3, <3>4 DEF KubeletOK
  <2>3. CASE kubelet'[u].call # c
    <3>1. kubelet'[u] = kubelet[u]
      BY <2>3 DEF Posts
    <3>2. kubelet[u].call # None => call'[kubelet[u].call] = call[kubelet[u].call]
      BY <1>4, <2>1, <2>3, <3>1 DEF KubeletRecord
    <3> QED
      BY <1>5, <2>1, <2>3, <3>1, <3>2 DEF KubeletOK
  <2> QED
    BY <2>2, <2>3
<1> QED
  BY <1>1, <1>2, <1>8, <1>9, <1>10, <1>11 DEF CallsInv, WaitInv

\* Request j goes on, from mounting to cleaning or from looking to unmounting.
Turns(j, pc) ==
    /\ JobIs(j, [pc |-> pc, target |-> job[j].target, for |-> job[j].for])
    /\ call' = call /\ kubelet' = kubelet

LEMMA TurnsKeepsCalls ==
    ASSUME CallsInv, NEW j \in Jobs, NEW pc, Turns(j, pc),
           \/ job[j].pc \in PublishJobs /\ pc \in PublishJobs
           \/ job[j].pc \in UnpublishJobs /\ pc \in UnpublishJobs
    PROVE  CallsInv' /\ VolumesKept
<1>1. VolumesKept
  BY DEF VolumesKept, Turns
<1>2. CallsTypeOK'
  BY DEF CallsInv, CallsTypeOK, Turns, JobIs
<1>3. /\ job'[j].pc = pc /\ job'[j].target = job[j].target /\ job'[j].for = job[j].for
      /\ \A i \in Jobs : i # j => job'[i] = job[i]
  BY DEF Turns, JobIs
<1>4. \A i \in Jobs : job'[i].for = job[i].for
  BY <1>3
<1>5. pc # "done" /\ job[j].pc # "done"
  BY DEF PublishJobs, UnpublishJobs
<1>6. \A d \in Calls : CallOK(d)'
  <2> SUFFICES ASSUME NEW d \in Calls PROVE CallOK(d)'
    OBVIOUS
  <2>1. CallOK(d)
    BY DEF CallsInv, WaitInv
  <2> QED
    BY <1>4, <2>1 DEF CallOK, Publishable, VolumeOf, Turns
<1>7. \A i \in Jobs : JobOK(i)'
  <2> SUFFICES ASSUME NEW i \in Jobs PROVE JobOK(i)'
    OBVIOUS
  <2>1. JobOK(i)
    BY DEF CallsInv, WaitInv
  <2>2. CASE i = j
    BY <1>3, <1>5, <2>1, <2>2 DEF JobOK, Publishable, VolumeOf, Turns, PublishJobs, UnpublishJobs
  <2>3. CASE i # j
    BY <1>3, <2>1, <2>3 DEF JobOK, Publishable, VolumeOf, Turns
  <2> QED
    BY <2>2, <2>3
<1>8. OwnJob'
  BY <1>4 DEF CallsInv, WaitInv, OwnJob
<1>9. \A t \in Targets : KubeletOK(t)'
  <2> SUFFICES ASSUME NEW t \in Targets PROVE KubeletOK(t)'
    OBVIOUS
  <2>1. KubeletOK(t)
    BY DEF CallsInv, WaitInv
  <2>2. \A i \in Jobs : job[i].pc \in UnpublishJobs => job'[i].pc \in UnpublishJobs
    BY <1>3 DEF PublishJobs, UnpublishJobs
  <2> QED
    BY <1>4, <2>1, <2>2 DEF KubeletOK, Turns
<1> QED
  BY <1>1, <1>2, <1>6, <1>7, <1>8, <1>9 DEF CallsInv, WaitInv

\* Nobody waits for request j.
LEMMA OrphanKeepsCalls ==
    ASSUME CallsInv, NEW j \in Jobs, job[j].for = None, JobIs(j, NoJob), call' = call, kubelet' = kubelet
    PROVE  CallsInv' /\ VolumesKept
<1>1. VolumesKept
  BY DEF VolumesKept
<1>2. CallsTypeOK'
  BY DEF CallsInv, CallsTypeOK, JobIs
<1>3. \A i \in Jobs : job'[i].for = job[i].for
  BY ConstantFacts DEF JobIs
<1>4. \A d \in Calls : CallOK(d)'
  <2> SUFFICES ASSUME NEW d \in Calls PROVE CallOK(d)'
    OBVIOUS
  <2>1. CallOK(d)
    BY DEF CallsInv, WaitInv
  <2> QED
    BY <1>3, <2>1 DEF CallOK, Publishable, VolumeOf
<1>5. \A i \in Jobs : JobOK(i)'
  <2> SUFFICES ASSUME NEW i \in Jobs PROVE JobOK(i)'
    OBVIOUS
  <2>1. JobOK(i)
    BY DEF CallsInv, WaitInv
  <2>2. CASE i = j
    <3>1. job'[i] = NoJob
      BY <2>2 DEF JobIs
    <3> QED
      BY <3>1, ConstantFacts DEF JobOK, PublishJobs, UnpublishJobs
  <2>3. CASE i # j
    <3>1. job'[i] = job[i]
      BY <2>3 DEF JobIs
    <3> QED
      BY <2>1, <3>1 DEF JobOK, Publishable, VolumeOf
  <2> QED
    BY <2>2, <2>3
<1>6. OwnJob'
  BY <1>3 DEF CallsInv, WaitInv, OwnJob
<1>7. \A t \in Targets : KubeletOK(t)'
  <2> SUFFICES ASSUME NEW t \in Targets PROVE KubeletOK(t)'
    OBVIOUS
  <2>1. KubeletOK(t)
    BY DEF CallsInv, WaitInv
  <2>2. \A i \in Jobs : job'[i].for # None => job'[i] = job[i]
    BY ConstantFacts DEF JobIs
  <2> QED
    BY <2>1, <2>2 DEF KubeletOK
<1> QED
  BY <1>1, <1>2, <1>4, <1>5, <1>6, <1>7 DEF CallsInv, WaitInv

\* The request of the call that kubelet waits for.
LEMMA AskedFor ==
    ASSUME CallsInv, NEW j \in Jobs, job[j].for \in Calls
    PROVE  /\ job[j].pc # "done" /\ job[j].target \in Targets
           /\ call[job[j].for] = [pc |-> "wait", target |-> job[j].target]
           /\ call[job[j].for].pc = "wait" /\ call[job[j].for].target = job[j].target
           /\ \A i \in Jobs : job[i].for = job[j].for => i = j
           /\ kubelet[job[j].target].call = job[j].for /\ ~ kubelet[job[j].target].pod =>
                 job[j].pc \in UnpublishJobs
<1>1. JobOK(j) /\ job[j] \in JobRecord /\ job[j].for # None
  BY ConstantFacts DEF CallsInv, WaitInv, CallsTypeOK
<1>2. job[j].pc # "done" /\ job[j].target \in Targets
  BY <1>1 DEF JobOK, JobRecord
<1>3. call[job[j].for] = [pc |-> "wait", target |-> job[j].target]
  BY <1>1 DEF JobOK
<1>4. call[job[j].for].pc = "wait" /\ call[job[j].for].target = job[j].target
  BY <1>3
<1>5. \A i \in Jobs : job[i].for = job[j].for => i = j
  BY <1>1 DEF CallsInv, WaitInv, OwnJob
<1>6. KubeletOK(job[j].target)
  BY <1>2 DEF CallsInv, WaitInv
<1> QED
  BY <1>1, <1>2, <1>3, <1>4, <1>5, <1>6 DEF KubeletOK

LEMMA RespondsKeepsCalls ==
    ASSUME CallsInv, NEW j \in Jobs, NEW a \in Answers, Responds(j, a),
           a = "published" => job[j].pc \in PublishJobs
    PROVE  CallsInv' /\ VolumesKept
<1>1. CASE job[j].for = None
  BY <1>1, OrphanKeepsCalls, ConstantFacts DEF Responds
<1>2. CASE job[j].for \in Calls
  <2>1. Ends(job[j].for, a)
    BY <1>2, ConstantFacts DEF Responds
  <2>2. call[job[j].for].target = job[j].target /\ job[j].target \in Targets
    BY <1>2, AskedFor
  <2>3. job' \in [Jobs -> JobRecord]
    BY DEF Responds, JobIs
  <2>4. \A i \in Jobs : job'[i] = IF job[i].for = job[j].for THEN NoJob ELSE job[i]
    BY <1>2, AskedFor DEF Responds, JobIs
  <2>5. a = "published" /\ kubelet[job[j].target].call = job[j].for => kubelet[job[j].target].pod
    BY <1>2, AskedFor DEF PublishJobs, UnpublishJobs
  <2> QED
    BY <1>2, <2>1, <2>2, <2>3, <2>4, <2>5, EndsKeepsCalls
<1> QED
  BY <1>1, <1>2 DEF Responds

\* The driver has the answer that the directory is there.
Creates(j) ==
    /\ JobIs(j, NoJob)
    /\ kubelet' = kubelet
    /\ \/ job[j].for \in Calls /\ CallIs(job[j].for, [pc |-> "stat", target |-> job[j].target])
       \/ job[j].for = None /\ call' = call

LEMMA CreatedCreates ==
    ASSUME CallsInv, NEW j \in Jobs, job[j].pc # "done", Created(j)
    PROVE  Creates(j)
<1>1. JobIs(j, NoJob)
  BY ConstantFacts, SetJob DEF Created, CallsInv
<1>2. job[j] \in JobRecord
  BY DEF CallsInv, CallsTypeOK
<1>3. CASE job[j].for # None
  <2>1. job[j].for \in Calls
    BY <1>2, <1>3 DEF JobRecord
  <2>2. call[job[j].for].target = job[j].target
    BY <2>1, AskedFor
  <2>3. Goto(job[j].for, "stat")
    BY <1>3 DEF Created
  <2>4. CallIs(job[j].for, [pc |-> "stat", target |-> job[j].target]) /\ kubelet' = kubelet
    BY <2>1, <2>2, <2>3, GotoGoes DEF CallsInv, DriverSteps
  <2> QED
    BY <1>1, <2>1, <2>4 DEF Creates
<1>4. CASE job[j].for = None
  BY <1>1, <1>4 DEF Created, Creates
<1> QED
  BY <1>3, <1>4

LEMMA CreatesKeepsCalls ==
    ASSUME CallsInv, NEW j \in Jobs, job[j].pc = "create", Creates(j)
    PROVE  CallsInv' /\ VolumesKept
<1>1. CASE job[j].for = None
  BY <1>1, OrphanKeepsCalls, ConstantFacts DEF Creates
<1>2. CASE job[j].for \in Calls
  <2> DEFINE c == job[j].for
  <2> DEFINE t == job[j].target
  <2>1. VolumesKept
    BY DEF VolumesKept, Creates
  <2>2. CallsTypeOK'
    BY <1>2, ConstantFacts DEF CallsInv, CallsTypeOK, Creates, JobIs, CallIs
  <2>3. /\ t \in Targets /\ call[c] = [pc |-> "wait", target |-> t]
        /\ \A i \in Jobs : job[i].for = c => i = j
        /\ kubelet[t].call = c => kubelet[t].pod
    BY <1>2, AskedFor DEF UnpublishJobs
  <2>4. call'[c].pc = "stat" /\ call'[c].target = t /\ \A d \in Calls : d # c => call'[d] = call[d]
    BY <1>2, ConstantFacts DEF Creates, CallIs
  <2>5. job'[j] = NoJob /\ \A i \in Jobs : i # j => job'[i] = job[i]
    BY DEF Creates, JobIs
  <2>6. Publishable(t)
    BY DEF CallsInv, WaitInv, JobOK, PublishJobs
  <2>7. \A d \in Calls : CallOK(d)'
    <3> SUFFICES ASSUME NEW d \in Calls PROVE CallOK(d)'
      OBVIOUS
    <3>1. CallOK(d)
      BY DEF CallsInv, WaitInv
    <3>2. CASE d = c
      BY <2>3, <2>4, <2>6, <3>2, ConstantFacts DEF CallOK, Publishable, VolumeOf, Creates
    <3>3. CASE d # c
      <4>1. call'[d] = call[d]
        BY <2>4, <3>3
      <4>2. call[d].pc = "wait" => \E i \in Jobs : job'[i].for = d
        BY <2>5, <3>1, <3>3 DEF CallOK
      <4> QED
        BY <3>1, <4>1, <4>2 DEF CallOK, Publishable, VolumeOf, Creates
    <3> QED
      BY <3>2, <3>3
  <2>8. \A i \in Jobs : JobOK(i)'
    <3> SUFFICES ASSUME NEW i \in Jobs PROVE JobOK(i)'
      OBVIOUS
    <3>1. JobOK(i) /\ job[i] \in JobRecord
      BY DEF CallsInv, WaitInv, CallsTypeOK
    <3>2. CASE i = j
      BY <2>5, <3>2, ConstantFacts DEF JobOK, PublishJobs, UnpublishJobs
    <3>3. CASE i # j
      <4>1. job'[i] = job[i]
        BY <2>5, <3>3
      <4>2. job[i].for # None => call'[job[i].for] = call[job[i].for]
        BY <2>3, <2>4, <3>1, <3>3 DEF JobRecord
      <4> QED
        BY <3>1, <4>1, <4>2 DEF JobOK, Publishable, VolumeOf, Creates
    <3> QED
      BY <3>2, <3>3
  <2>9. OwnJob'
    BY <2>5, ConstantFacts DEF CallsInv, WaitInv, OwnJob
  <2>10. \A u \in Targets : KubeletOK(u)'
    <3> SUFFICES ASSUME NEW u \in Targets PROVE KubeletOK(u)'
      OBVIOUS
    <3>1. KubeletOK(u) /\ kubelet[u] \in KubeletRecord
      BY DEF CallsInv, WaitInv, CallsTypeOK
    <3>2. \A i \in Jobs : job'[i].for # None => job'[i] = job[i]
      BY <2>5, ConstantFacts
    <3>3. CASE kubelet[u].call = c
      <4>1. u = t
        BY <1>2, <2>3, <3>1, <3>3, ConstantFacts DEF KubeletOK
      <4> QED
        BY <2>3, <2>4, <3>1, <3>2, <3>3, <4>1 DEF KubeletOK, Creates
    <3>4. CASE kubelet[u].call # c
      <4>1. kubelet[u].call # None => call'[kubelet[u].call] = call[kubelet[u].call]
        BY <2>4, <3>1, <3>4 DEF KubeletRecord
      <4> QED
        BY <3>1, <3>2, <4>1 DEF KubeletOK, Creates
    <3> QED
      BY <3>3, <3>4
  <2> QED
    BY <2>1, <2>2, <2>7, <2>8, <2>9, <2>10 DEF CallsInv, WaitInv
<1> QED
  BY <1>1, <1>2 DEF Creates

LEMMA RestsKeepsCalls ==
    ASSUME CallsInv, Rests
    PROVE  CallsInv' /\ VolumesKept
BY DEF CallsInv, CallsTypeOK, WaitInv, CallOK, JobOK, OwnJob, KubeletOK, Publishable, VolumeOf,
       VolumesKept, Rests

\* kubelet calls the driver.
Asks(c, t) == Request(c, t, TRUE)

LEMMA RequestPosts ==
    ASSUME CallsInv, NEW c \in Calls, NEW j \in Jobs, NEW t \in Targets, NEW pc \in {"create", "check"},
           Asks(c, t), Post(c, j, t, pc), kubelet[t].pod \/ pc = "check"
    PROVE  Posts(c, j, t, pc) /\ kubelet'[t].answer = "none" /\ kubelet'[t].call = c
<1> DEFINE r == [kubelet[t] EXCEPT !.call = c, !.answer = "none", !.tried = TRUE]
<1>1. kubelet[t] \in KubeletRecord
  BY DEF CallsInv, CallsTypeOK
<1>2. /\ r \in KubeletRecord /\ r.pod = kubelet[t].pod /\ r.volume = kubelet[t].volume
      /\ r.call = c /\ r.answer = "none"
  BY <1>1 DEF KubeletRecord, Answers
<1>3. kubelet' = [kubelet EXCEPT ![t] = r]
  BY DEF Asks, Request, CallsInv, CallsTypeOK
<1> HIDE DEF r
<1>4. KubeletIs(t, r)
  BY <1>2, <1>3, SetKubelet DEF CallsInv
<1>5. [pc |-> "wait", target |-> t] \in CallRecord
  BY DEF CallRecord
<1>6. CallIs(c, [pc |-> "wait", target |-> t])
  BY <1>5, SetCall DEF Asks, Request, CallsInv
<1>7. [pc |-> pc, target |-> t, for |-> c] \in JobRecord
  BY DEF JobRecord, PublishJobs, UnpublishJobs
<1>8. JobIs(j, [pc |-> pc, target |-> t, for |-> c])
  BY <1>7, SetJob DEF Post, CallsInv
<1>9. \A u \in Targets : kubelet[u].call # c
  BY IdleFacts DEF Asks, Request
<1>10. /\ kubelet' \in [Targets -> KubeletRecord]
       /\ \A u \in Targets :
             /\ kubelet'[u].pod = kubelet[u].pod
             /\ kubelet'[u].volume = kubelet[u].volume
             /\ \/ kubelet'[u] = kubelet[u] /\ (kubelet[u].call = c => u = t)
                \/ u = t /\ kubelet'[u].call = c /\ kubelet'[u].answer = "none"
  BY <1>2, <1>4, <1>9 DEF KubeletIs
<1>11. ~ kubelet[t].pod => pc \in UnpublishJobs
  BY DEF UnpublishJobs
<1>12. kubelet'[t].answer = "none" /\ kubelet'[t].call = c
  BY <1>2, <1>4 DEF KubeletIs
<1> QED
  BY <1>6, <1>8, <1>10, <1>11, <1>12 DEF Posts

LEMMA LaunchPosts ==
    ASSUME CallsInv, NEW c \in Calls, NEW j \in Jobs, Launch(c, j)
    PROVE  /\ Posts(c, j, call[c].target, "mount") /\ call[c].target \in Targets
           /\ Publishable(call[c].target)
<1>1. CallOK(c)
  BY DEF CallsInv, WaitInv
<1> DEFINE t == call[c].target
<1>2. t \in Targets
  BY <1>1, RunningCall DEF CallsInv, Launch
<1>3. CallIs(c, [pc |-> "wait", target |-> t]) /\ kubelet' = kubelet
  BY GotoGoes DEF Launch, CallsInv
<1>4. [pc |-> "mount", target |-> t, for |-> c] \in JobRecord
  BY <1>2 DEF JobRecord, PublishJobs
<1>5. JobIs(j, [pc |-> "mount", target |-> t, for |-> c])
  BY <1>4, SetJob DEF Launch, Post, CallsInv
<1>6. \A u \in Targets : KubeletOK(u)
  BY DEF CallsInv, WaitInv
<1>7. \A u \in Targets : kubelet[u].call = c => u = t /\ kubelet[u].pod
  BY <1>6, ConstantFacts DEF KubeletOK, Launch
<1>8. kubelet' \in [Targets -> KubeletRecord]
  BY <1>3 DEF CallsInv, CallsTypeOK
<1>9. Publishable(t)
  BY <1>1 DEF CallOK, Launch, DriverSteps
<1> HIDE DEF t
<1>10. Posts(c, j, t, "mount")
  BY <1>2, <1>3, <1>5, <1>7, <1>8 DEF Posts
<1> QED
  BY <1>2, <1>9, <1>10 DEF t

LEMMA PodDeletedKeepsCalls ==
    ASSUME CallsInv, NEW t \in Targets, PodDeleted(t)
    PROVE  CallsInv' /\ VolumesKept /\ KubeletIs(t, [kubelet[t] EXCEPT !.pod = FALSE])
<1> DEFINE r == [kubelet[t] EXCEPT !.pod = FALSE]
<1>1. kubelet[t] \in KubeletRecord
  BY DEF CallsInv, CallsTypeOK
<1>2. /\ r \in KubeletRecord /\ r.pod = FALSE /\ r.volume = kubelet[t].volume
      /\ r.call = kubelet[t].call /\ r.answer = kubelet[t].answer
  BY <1>1 DEF KubeletRecord
<1>3. kubelet' = [kubelet EXCEPT ![t] = r]
  BY DEF PodDeleted
<1> HIDE DEF r
<1>4. KubeletIs(t, r)
  BY <1>2, <1>3, SetKubelet DEF CallsInv
<1>5. \A u \in Targets :
         /\ kubelet'[u].volume = kubelet[u].volume /\ kubelet'[u].call = kubelet[u].call
         /\ kubelet'[u].answer = kubelet[u].answer /\ (u # t => kubelet'[u].pod = kubelet[u].pod)
  BY <1>2, <1>4 DEF KubeletIs
<1>6. VolumesKept
  BY <1>5 DEF VolumesKept
<1>7. \A u \in Targets : Publishable(u)' <=> Publishable(u)
  BY <1>6, PublishableKept
<1>8. kubelet'[t].pod = FALSE /\ kubelet[t].call = None /\ call' = call /\ job' = job
  BY <1>2, <1>4 DEF KubeletIs, PodDeleted
<1>9. CallsTypeOK'
  BY <1>4, <1>8 DEF CallsInv, CallsTypeOK, KubeletIs
<1>10. \A d \in Calls : CallOK(d)'
  <2> SUFFICES ASSUME NEW d \in Calls PROVE CallOK(d)'
    OBVIOUS
  <2>1. CallOK(d) /\ call[d] \in CallRecord
    BY DEF CallsInv, WaitInv, CallsTypeOK
  <2>2. call[d].pc \in DriverSteps => call[d].target \in Targets
    BY <2>1 DEF CallOK, CallRecord, DriverSteps
  <2> QED
    BY <1>7, <1>8, <2>1, <2>2 DEF CallOK, Publishable, VolumeOf
<1>11. \A i \in Jobs : JobOK(i)'
  <2> SUFFICES ASSUME NEW i \in Jobs PROVE JobOK(i)'
    OBVIOUS
  <2>1. JobOK(i) /\ job[i] \in JobRecord
    BY DEF CallsInv, WaitInv, CallsTypeOK
  <2>2. job[i].pc # "done" => job[i].target \in Targets
    BY <2>1 DEF JobOK, JobRecord
  <2> QED
    BY <1>5, <1>7, <1>8, <2>1, <2>2 DEF JobOK, Publishable, VolumeOf, PublishJobs, UnpublishJobs
<1>12. OwnJob'
  BY <1>8 DEF CallsInv, WaitInv, OwnJob
<1>13. \A u \in Targets : KubeletOK(u)'
  <2> SUFFICES ASSUME NEW u \in Targets PROVE KubeletOK(u)'
    OBVIOUS
  <2>1. KubeletOK(u)
    BY DEF CallsInv, WaitInv
  <2> QED
    BY <1>5, <1>8, <2>1 DEF KubeletOK
<1> QED
  BY <1>4, <1>6, <1>9, <1>10, <1>11, <1>12, <1>13 DEF CallsInv, WaitInv, r

LEMMA KubeletRestartKeepsCalls ==
    ASSUME CallsInv, KubeletRestart
    PROVE  /\ CallsInv' /\ VolumesKept
           /\ \A t \in Targets : kubelet'[t].pod = kubelet[t].pod /\ kubelet'[t].answer = "none"
<1>1. \A t \in Targets : kubelet'[t] = Answered(t, "none")
  BY DEF KubeletRestart, Answered
<1>2. \A t \in Targets :
         /\ kubelet'[t] \in KubeletRecord
         /\ kubelet'[t].pod = kubelet[t].pod
         /\ kubelet'[t].volume = kubelet[t].volume
         /\ kubelet'[t].call = None
         /\ kubelet'[t].answer = "none"
  BY <1>1, AnsweredFacts DEF CallsInv, Answers
<1>3. VolumesKept
  BY <1>2 DEF VolumesKept
<1>4. \A u \in Targets : Publishable(u)' <=> Publishable(u)
  BY <1>3, PublishableKept
<1>5. call' = call /\ job' = job /\ kubelet' \in [Targets -> KubeletRecord]
  BY <1>2 DEF KubeletRestart
<1>6. CallsTypeOK'
  BY <1>5 DEF CallsInv, CallsTypeOK
<1>7. \A d \in Calls : CallOK(d)'
  <2> SUFFICES ASSUME NEW d \in Calls PROVE CallOK(d)'
    OBVIOUS
  <2>1. CallOK(d) /\ call[d] \in CallRecord
    BY DEF CallsInv, WaitInv, CallsTypeOK
  <2>2. call[d].pc \in DriverSteps => call[d].target \in Targets
    BY <2>1 DEF CallOK, CallRecord, DriverSteps
  <2> QED
    BY <1>4, <1>5, <2>1, <2>2 DEF CallOK, Publishable, VolumeOf
<1>8. \A i \in Jobs : JobOK(i)'
  <2> SUFFICES ASSUME NEW i \in Jobs PROVE JobOK(i)'
    OBVIOUS
  <2>1. JobOK(i) /\ job[i] \in JobRecord
    BY DEF CallsInv, WaitInv, CallsTypeOK
  <2>2. job[i].pc # "done" => job[i].target \in Targets
    BY <2>1 DEF JobOK, JobRecord
  <2> QED
    BY <1>2, <1>4, <1>5, <2>1, <2>2 DEF JobOK, Publishable, VolumeOf, PublishJobs, UnpublishJobs
<1>9. OwnJob'
  BY <1>5 DEF CallsInv, WaitInv, OwnJob
<1>10. \A u \in Targets : KubeletOK(u)'
  BY <1>2 DEF KubeletOK
<1> QED
  BY <1>2, <1>3, <1>6, <1>7, <1>8, <1>9, <1>10 DEF CallsInv, WaitInv

LEMMA DriverRestartKeepsCalls ==
    ASSUME CallsInv, DriverRestart
    PROVE  /\ CallsInv' /\ VolumesKept
           /\ \A t \in Targets : kubelet'[t].pod = kubelet[t].pod /\ kubelet'[t].answer = kubelet[t].answer
           /\ \A j \in Jobs : job'[j].pc = job[j].pc /\ job'[j].target = job[j].target
<1>1. \A t \in Targets :
         /\ kubelet'[t] \in KubeletRecord
         /\ kubelet'[t].pod = kubelet[t].pod
         /\ kubelet'[t].volume = kubelet[t].volume
         /\ kubelet'[t].call = None
         /\ kubelet'[t].answer = kubelet[t].answer
  <2> SUFFICES ASSUME NEW t \in Targets
               PROVE  /\ kubelet'[t] \in KubeletRecord
                      /\ kubelet'[t].pod = kubelet[t].pod
                      /\ kubelet'[t].volume = kubelet[t].volume
                      /\ kubelet'[t].call = None
                      /\ kubelet'[t].answer = kubelet[t].answer
    OBVIOUS
  <2>1. kubelet[t] \in KubeletRecord
    BY DEF CallsInv, CallsTypeOK
  <2>2. kubelet'[t] = [kubelet[t] EXCEPT !.call = None]
    BY DEF DriverRestart
  <2> QED
    BY <2>1, <2>2 DEF KubeletRecord
<1>2. \A j \in Jobs :
         /\ job'[j] \in JobRecord
         /\ job'[j].pc = job[j].pc /\ job'[j].target = job[j].target /\ job'[j].for = None
  <2> SUFFICES ASSUME NEW j \in Jobs
               PROVE  /\ job'[j] \in JobRecord
                      /\ job'[j].pc = job[j].pc /\ job'[j].target = job[j].target /\ job'[j].for = None
    OBVIOUS
  <2>1. job[j] \in JobRecord
    BY DEF CallsInv, CallsTypeOK
  <2>2. job'[j] = [job[j] EXCEPT !.for = None]
    BY DEF DriverRestart
  <2> QED
    BY <2>1, <2>2 DEF JobRecord
<1>3. \A c \in Calls : call'[c] = Idle
  BY DEF DriverRestart
<1>4. VolumesKept
  BY <1>1 DEF VolumesKept
<1>5. \A u \in Targets : Publishable(u)' <=> Publishable(u)
  BY <1>4, PublishableKept
<1>6. CallsTypeOK'
  <2>1. call' \in [Calls -> CallRecord]
    BY ConstantFacts DEF DriverRestart
  <2>2. job' \in [Jobs -> JobRecord]
    BY <1>2 DEF DriverRestart
  <2>3. kubelet' \in [Targets -> KubeletRecord]
    BY <1>1 DEF DriverRestart
  <2> QED
    BY <2>1, <2>2, <2>3 DEF CallsTypeOK
<1>7. \A d \in Calls : CallOK(d)'
  BY <1>3, ConstantFacts DEF CallOK, DriverSteps
<1>8. \A i \in Jobs : JobOK(i)'
  <2> SUFFICES ASSUME NEW i \in Jobs PROVE JobOK(i)'
    OBVIOUS
  <2>1. JobOK(i) /\ job[i] \in JobRecord
    BY DEF CallsInv, WaitInv, CallsTypeOK
  <2>2. job[i].pc # "done" => job[i].target \in Targets
    BY <2>1 DEF JobOK, JobRecord
  <2> QED
    BY <1>1, <1>2, <1>5, <2>1, <2>2 DEF JobOK, Publishable, VolumeOf, PublishJobs, UnpublishJobs
<1>9. OwnJob'
  BY <1>2 DEF OwnJob
<1>10. \A u \in Targets : KubeletOK(u)'
  BY <1>1 DEF KubeletOK
<1> QED
  BY <1>1, <1>2, <1>4, <1>6, <1>7, <1>8, <1>9, <1>10 DEF CallsInv, WaitInv

LEMMA LauncherRestartKeepsCalls ==
    ASSUME CallsInv, LauncherRestart
    PROVE  /\ CallsInv' /\ VolumesKept
           /\ \A j \in Jobs : job'[j] = NoJob
           /\ \A c \in Calls : call'[c] = Idle \/ (call'[c] = call[c] /\ call[c].pc # "wait")
           /\ \A t \in Targets :
                 \/ kubelet'[t] = kubelet[t]
                 \/ /\ kubelet[t].call # None /\ call[kubelet[t].call].pc = "wait"
                    /\ kubelet'[t].answer = "none"
<1>1. \A t \in Targets :
         /\ kubelet'[t] \in KubeletRecord
         /\ kubelet'[t].pod = kubelet[t].pod
         /\ kubelet'[t].volume = kubelet[t].volume
         /\ \/ /\ kubelet'[t] = kubelet[t]
               /\ kubelet[t].call # None => call[kubelet[t].call].pc # "wait"
            \/ /\ kubelet[t].call # None /\ call[kubelet[t].call].pc = "wait"
               /\ kubelet'[t].call = None /\ kubelet'[t].answer = "none"
  <2> SUFFICES ASSUME NEW t \in Targets
               PROVE  /\ kubelet'[t] \in KubeletRecord
                      /\ kubelet'[t].pod = kubelet[t].pod
                      /\ kubelet'[t].volume = kubelet[t].volume
                      /\ \/ /\ kubelet'[t] = kubelet[t]
                            /\ kubelet[t].call # None => call[kubelet[t].call].pc # "wait"
                         \/ /\ kubelet[t].call # None /\ call[kubelet[t].call].pc = "wait"
                            /\ kubelet'[t].call = None /\ kubelet'[t].answer = "none"
    OBVIOUS
  <2>1. kubelet[t] \in KubeletRecord
    BY DEF CallsInv, CallsTypeOK
  <2>2. kubelet'[t] = IF kubelet[t].call # None /\ call[kubelet[t].call].pc = "wait"
                      THEN Answered(t, "none") ELSE kubelet[t]
    BY DEF LauncherRestart, Answered
  <2> QED
    BY <2>1, <2>2, AnsweredFacts DEF CallsInv, Answers
<1>2. \A j \in Jobs : job'[j] = NoJob
  BY DEF LauncherRestart
<1>3. \A c \in Calls : call'[c] = IF call[c].pc = "wait" THEN Idle ELSE call[c]
  BY DEF LauncherRestart
<1>4. VolumesKept
  BY <1>1 DEF VolumesKept
<1>5. \A u \in Targets : Publishable(u)' <=> Publishable(u)
  BY <1>4, PublishableKept
<1>6. CallsTypeOK'
  <2>1. call' \in [Calls -> CallRecord]
    BY <1>3, ConstantFacts DEF LauncherRestart, CallsInv, CallsTypeOK
  <2>2. job' \in [Jobs -> JobRecord]
    BY ConstantFacts DEF LauncherRestart
  <2>3. kubelet' \in [Targets -> KubeletRecord]
    BY <1>1 DEF LauncherRestart
  <2> QED
    BY <2>1, <2>2, <2>3 DEF CallsTypeOK
<1>7. \A d \in Calls : CallOK(d)'
  <2> SUFFICES ASSUME NEW d \in Calls PROVE CallOK(d)'
    OBVIOUS
  <2>1. CallOK(d) /\ call[d] \in CallRecord
    BY DEF CallsInv, WaitInv, CallsTypeOK
  <2>2. CASE call[d].pc = "wait"
    BY <1>3, <2>2, ConstantFacts DEF CallOK, DriverSteps
  <2>3. CASE call[d].pc # "wait"
    <3>1. call'[d] = call[d]
      BY <1>3, <2>3
    <3>2. call[d].pc \in DriverSteps => call[d].target \in Targets
      BY <2>1 DEF CallOK, CallRecord, DriverSteps
    <3> QED
      BY <1>5, <2>1, <2>3, <3>1, <3>2 DEF CallOK, Publishable, VolumeOf
  <2> QED
    BY <2>2, <2>3
<1>8. \A i \in Jobs : JobOK(i)'
  BY <1>2, ConstantFacts DEF JobOK, PublishJobs, UnpublishJobs
<1>9. OwnJob'
  BY <1>2, ConstantFacts DEF OwnJob
<1>10. \A u \in Targets : KubeletOK(u)'
  <2> SUFFICES ASSUME NEW u \in Targets PROVE KubeletOK(u)'
    OBVIOUS
  <2>1. KubeletOK(u) /\ kubelet[u] \in KubeletRecord
    BY DEF CallsInv, WaitInv, CallsTypeOK
  <2>2. \A j \in Jobs : job'[j].for = None
    BY <1>2, ConstantFacts
  <2>3. CASE kubelet'[u].call = None
    BY <2>2, <2>3 DEF KubeletOK
  <2>4. CASE kubelet'[u].call # None
    <3>1. kubelet'[u] = kubelet[u] /\ kubelet[u].call \in Calls /\ call[kubelet[u].call].pc # "wait"
      BY <1>1, <2>1, <2>4 DEF KubeletRecord
    <3>2. call'[kubelet[u].call] = call[kubelet[u].call]
      BY <1>3, <3>1
    <3> QED
      BY <2>1, <2>2, <3>1, <3>2 DEF KubeletOK
  <2> QED
    BY <2>3, <2>4
<1>11. \A c \in Calls : call'[c] = Idle \/ (call'[c] = call[c] /\ call[c].pc # "wait")
  BY <1>3
<1>12. \A t \in Targets :
          \/ kubelet'[t] = kubelet[t]
          \/ /\ kubelet[t].call # None /\ call[kubelet[t].call].pc = "wait"
             /\ kubelet'[t].answer = "none"
  BY <1>1
<1> QED
  BY <1>2, <1>4, <1>6, <1>7, <1>8, <1>9, <1>10, <1>11, <1>12 DEF CallsInv, WaitInv

-----------------------------------------------------------------------------
(* Every kind of step keeps what is known of the mounts.                    *)

\* Steps that mount and unmount nothing.
LEMMA SameMounts ==
    ASSUME MountInv, mnt' = mnt, dir \subseteq dir',
           \A t \in Targets : kubelet'[t].answer = "published" => Mounted(t),
           \A t \in Targets : kubelet'[t].pod => kubelet[t].pod,
           \A j \in Jobs : job'[j].pc = "clean" =>
               job[j].pc = "clean" /\ job'[j].target = job[j].target
    PROVE  MountInv'
<1> SUFFICES ASSUME NEW t \in Targets PROVE MountedOK(t)'
  BY DEF MountInv
<1>1. MountedOK(t)
  BY DEF MountInv
<1>2. Mounted(t)' <=> Mounted(t)
  BY DEF Mounted
<1> QED
  BY <1>1, <1>2 DEF MountedOK

\* No step but that of a file system adds a layer.
Shrinks ==
    \A t \in Targets :
        /\ Mounted(t)' => Mounted(t)
        /\ Len(mnt[t]) <= 1 => Len(mnt'[t]) <= 1

LEMMA SameShrinks ==
    ASSUME mnt' = mnt
    PROVE  Shrinks
BY DEF Shrinks, Mounted

LEMMA GoesKeepsAlone ==
    ASSUME NEW c \in Calls, call[c].pc \in DriverSteps, NEW pc \in DriverSteps,
           Goes(c, pc), Shrinks, NEW t \in Targets, AloneAt(t)
    PROVE  AloneAt(t)'
<1>1. \A d \in Calls : call'[d].target = call[d].target
  BY DEF Goes, CallIs
<1>2. \A d \in Calls : call'[d].pc \in DriverSteps => call[d].pc \in DriverSteps
  BY DEF Goes, CallIs
<1> QED
  BY <1>1, <1>2 DEF AloneAt, Goes, Shrinks

LEMMA EndsKeepsAlone ==
    ASSUME CallsInv, NEW c \in Calls, call[c].target \in Targets, NEW a \in Answers, Ends(c, a),
           \A j \in Jobs : job'[j] = IF job[j].for = c THEN NoJob ELSE job[j],
           Shrinks, NEW t \in Targets, AloneAt(t),
           a = "unpublished" /\ kubelet[t].call = c /\ t = call[c].target => ~ Mounted(t)'
    PROVE  AloneAt(t)'
<1>1. call'[c].target = None /\ call'[c].pc = "idle" /\ \A d \in Calls : d # c => call'[d] = call[d]
  BY ConstantFacts DEF Ends, CallIs
<1>2. \A u \in Targets :
        /\ kubelet'[u].call = IF kubelet[u].call = c /\ u = call[c].target THEN None ELSE kubelet[u].call
        /\ kubelet'[u].answer = IF kubelet[u].call = c /\ u = call[c].target THEN a ELSE kubelet[u].answer
  BY AnsweredFacts DEF Ends, KubeletIs, CallsInv
<1>3. \A d \in Calls : call'[d].target = t => d # c /\ call'[d] = call[d]
  BY <1>1, ConstantFacts
<1>4. \A d \in Calls : call'[d].target = t => kubelet'[t].call = d
  BY <1>2, <1>3 DEF AloneAt
<1>5. \A j \in Jobs : job'[j].target = t => job'[j] = job[j]
  BY ConstantFacts
<1>6. \A j \in Jobs : job'[j].target = t => job'[j].for # None /\ (job'[j].pc = "mount" => ~ Mounted(t)')
  BY <1>5 DEF AloneAt, Shrinks
<1>7. \A d \in Calls : call'[d].target = t /\ call'[d].pc \in DriverSteps => ~ Mounted(t)'
  BY <1>3 DEF AloneAt, Shrinks
<1>8. kubelet'[t].answer = "unpublished" => ~ Mounted(t)'
  BY <1>2 DEF AloneAt, Shrinks
<1>9. Len(mnt'[t]) <= 1
  BY DEF AloneAt, Shrinks
<1> QED
  BY <1>4, <1>6, <1>7, <1>8, <1>9 DEF AloneAt

LEMMA OrphanKeepsAlone ==
    ASSUME NEW j \in Jobs, JobIs(j, NoJob), call' = call, kubelet' = kubelet,
           Shrinks, NEW t \in Targets, AloneAt(t)
    PROVE  AloneAt(t)'
<1>1. \A i \in Jobs : job'[i].target = t => job'[i] = job[i]
  BY ConstantFacts DEF JobIs
<1> QED
  BY <1>1 DEF AloneAt, Shrinks

LEMMA RespondsKeepsAlone ==
    ASSUME CallsInv, NEW j \in Jobs, NEW a \in Answers, Responds(j, a),
           Shrinks, NEW t \in Targets, AloneAt(t),
           a = "unpublished" /\ t = job[j].target => ~ Mounted(t)'
    PROVE  AloneAt(t)'
<1>1. CASE job[j].for = None
  BY <1>1, OrphanKeepsAlone, ConstantFacts DEF Responds
<1>2. CASE job[j].for \in Calls
  <2>1. Ends(job[j].for, a)
    BY <1>2, ConstantFacts DEF Responds
  <2>2. call[job[j].for].target = job[j].target /\ job[j].target \in Targets
    BY <1>2, AskedFor
  <2>3. \A i \in Jobs : job'[i] = IF job[i].for = job[j].for THEN NoJob ELSE job[i]
    BY <1>2, AskedFor DEF Responds, JobIs
  <2> QED
    BY <1>2, <2>1, <2>2, <2>3, EndsKeepsAlone
<1> QED
  BY <1>1, <1>2 DEF Responds

LEMMA PostsKeepsAlone ==
    ASSUME CallsInv, NEW c \in Calls, NEW j \in Jobs, NEW t \in Targets, NEW pc, Posts(c, j, t, pc),
           Shrinks, NEW u \in Targets, AloneAt(u),
           \/ kubelet[t].call = None /\ kubelet'[t].call = c /\ kubelet'[t].answer = "none" /\ pc # "mount"
           \/ call[c].target = t /\ call[c].pc \in DriverSteps /\ kubelet' = kubelet
    PROVE  AloneAt(u)'
<1>1. call'[c].target = t /\ call'[c].pc = "wait" /\ \A d \in Calls : d # c => call'[d] = call[d]
  BY DEF Posts, CallIs
<1>2. /\ job'[j].pc = pc /\ job'[j].target = t /\ job'[j].for = c
      /\ \A i \in Jobs : i # j => job'[i] = job[i]
  BY DEF Posts, JobIs
<1>3. u # t => kubelet'[u] = kubelet[u]
  BY DEF Posts
<1>4. \A d \in Calls : call'[d].target = u => kubelet'[u].call = d
  <2> SUFFICES ASSUME NEW d \in Calls, call'[d].target = u PROVE kubelet'[u].call = d
    OBVIOUS
  <2>1. CASE d = c
    BY <1>1, <2>1 DEF AloneAt
  <2>2. CASE d # c
    <3>1. kubelet[u].call = d
      BY <1>1, <2>2 DEF AloneAt
    <3> QED
      BY <1>3, <2>2, <3>1, ConstantFacts DEF AloneAt
  <2> QED
    BY <2>1, <2>2
<1>5. \A i \in Jobs : job'[i].target = u => job'[i].for # None
  BY <1>2, ConstantFacts DEF AloneAt
<1>6. \A i \in Jobs : job'[i].target = u /\ job'[i].pc = "mount" => ~ Mounted(u)'
  BY <1>2 DEF AloneAt, Shrinks
<1>7. \A d \in Calls : call'[d].target = u /\ call'[d].pc \in DriverSteps => ~ Mounted(u)'
  BY <1>1 DEF AloneAt, Shrinks, DriverSteps
<1>8. kubelet'[u].answer = "unpublished" => ~ Mounted(u)'
  BY <1>3 DEF AloneAt, Shrinks
<1> QED
  BY <1>4, <1>5, <1>6, <1>7, <1>8 DEF AloneAt, Shrinks

LEMMA CreatesKeepsAlone ==
    ASSUME CallsInv, NEW j \in Jobs, Creates(j), ~ Mounted(job[j].target),
           Shrinks, NEW t \in Targets, AloneAt(t)
    PROVE  AloneAt(t)'
<1>1. CASE job[j].for = None
  BY <1>1, OrphanKeepsAlone, ConstantFacts DEF Creates
<1>2. CASE job[j].for \in Calls
  <2> DEFINE c == job[j].for
  <2>1. call[c].target = job[j].target
    BY <1>2, AskedFor
  <2>2. /\ call'[c].target = job[j].target
        /\ \A d \in Calls : d # c => call'[d] = call[d]
    BY <1>2, ConstantFacts DEF Creates, CallIs
  <2>3. \A d \in Calls : call'[d].target = call[d].target
    BY <2>1, <2>2
  <2>4. \A d \in Calls : call'[d].target = t /\ call'[d].pc \in DriverSteps => ~ Mounted(t)'
    BY <2>1, <2>2 DEF AloneAt, Shrinks
  <2>5. \A i \in Jobs : job'[i].target = t => job'[i] = job[i]
    BY ConstantFacts DEF JobIs, Creates
  <2> QED
    BY <2>3, <2>4, <2>5 DEF AloneAt, Shrinks, Creates
<1> QED
  BY <1>1, <1>2 DEF Creates

-----------------------------------------------------------------------------
(* What the files hold.                                                     *)

LEMMA VolumesStay ==
    ASSUME VolumesKept
    PROVE  /\ ClaimInv => ClaimInv'
           /\ \A p, v : OfPod(p, v)' <=> OfPod(p, v)
           /\ \A t \in Targets : \A s : MayUse(t, s)' <=> MayUse(t, s)
<1>1. ClaimInv => ClaimInv'
  BY DEF VolumesKept, ClaimInv, VolumeOf
<1>2. \A p, v : OfPod(p, v)' <=> OfPod(p, v)
  BY DEF VolumesKept, OfPod, VolumeOf
<1>3. \A t \in Targets : \A s : MayUse(t, s)' <=> MayUse(t, s)
  BY <1>2 DEF VolumesKept, MayUse, VolumeOf
<1> QED
  BY <1>1, <1>2, <1>3

LEMMA SiteKept ==
    ASSUME VolumesKept, \A p \in Pods : site'[p] \in Volumes => OfPod(p, site'[p])
    PROVE  SiteInv'
<1> SUFFICES ASSUME NEW p \in Pods, site'[p] \in Volumes PROVE OfPod(p, site[p])'
  BY DEF SiteInv
<1>1. PICK v : v = site'[p]
  OBVIOUS
<1>2. OfPod(p, v)'
  BY <1>1, VolumesStay
<1> QED
  BY <1>1, <1>2 DEF OfPod

\* What is mounted was mounted before, with the same secret.
LEMMA SecretsKept ==
    ASSUME VolumesKept, SecretInv,
           \A t \in Targets : Mounted(t)' => Mounted(t),
           \A t \in Targets : \A i \in DOMAIN mnt'[t] :
               \E k \in DOMAIN mnt[t] : mnt'[t][i].secret = mnt[t][k].secret
    PROVE  SecretInv'
<1> SUFFICES ASSUME NEW t \in Targets
             PROVE  (Mounted(t) => Publishable(t))' /\ \A i \in DOMAIN mnt'[t] : MayUse(t, mnt[t][i].secret)'
  BY DEF SecretInv
<1>1. (Mounted(t) => Publishable(t))'
  BY PublishableKept DEF SecretInv
<1>2. ASSUME NEW i \in DOMAIN mnt'[t] PROVE MayUse(t, mnt[t][i].secret)'
  <2>1. PICK s : s = mnt'[t][i].secret
    OBVIOUS
  <2>2. MayUse(t, s)
    BY <2>1 DEF SecretInv
  <2>3. MayUse(t, s)'
    BY <2>2, VolumesStay
  <2> QED
    BY <2>1, <2>3 DEF MayUse
<1> QED
  BY <1>1, <1>2

LEMMA SameSecrets ==
    ASSUME VolumesKept, SecretInv, mnt' = mnt
    PROVE  SecretInv'
BY SecretsKept DEF Mounted

LEMMA SetPasswd ==
    ASSUME FilesTypeOK, PasswdInv, NEW p \in Pods, NEW v \in Volumes,
           NEW x \in {"none", "empty", Options[v].secret},
           passwd' = [passwd EXCEPT ![p][PasswdName(v)] = x]
    PROVE  /\ passwd' \in [Pods -> [PasswdNames -> Secrets \cup {"none", "empty"}]]
           /\ PasswdInv'
<1>1. PasswdName(v) \in PasswdNames
  BY DEF PasswdNames
<1>2. x \in Secrets \cup {"none", "empty"}
  BY DEF Secrets
<1>3. passwd \in [Pods -> [PasswdNames -> Secrets \cup {"none", "empty"}]]
  BY DEF FilesTypeOK
<1>4. passwd' \in [Pods -> [PasswdNames -> Secrets \cup {"none", "empty"}]]
  BY <1>1, <1>2, <1>3
<1>5. ASSUME NEW q \in Pods, NEW w \in Volumes
      PROVE  passwd'[q][PasswdName(w)] \in {"none", "empty", Options[w].secret}
  <2>1. PasswdName(w) \in PasswdNames
    BY DEF PasswdNames
  <2>2. CASE q = p /\ PasswdName(w) = PasswdName(v)
    <3>1. Options[w].secret = Options[v].secret
      BY <2>2 DEF PasswdName
    <3>2. passwd'[q][PasswdName(w)] = x
      BY <1>1, <1>3, <2>2
    <3> QED
      BY <3>1, <3>2
  <2>3. CASE ~ (q = p /\ PasswdName(w) = PasswdName(v))
    <3>1. passwd'[q][PasswdName(w)] = passwd[q][PasswdName(w)]
      BY <1>1, <1>3, <2>1, <2>3
    <3> QED
      BY <3>1 DEF PasswdInv
  <2> QED
    BY <2>2, <2>3
<1>6. PasswdInv'
  BY <1>5 DEF PasswdInv
<1> QED
  BY <1>4, <1>6

LEMMA UnsetFacts == Unset \in Properties /\ None \notin Volumes /\ "empty" \notin Volumes
<1>1. Unset \in Properties
  BY DEF Unset, Properties
<1> QED
  BY <1>1, ConstantsAssumption

LEMMA NoPasswdFacts ==
    ASSUME FilesTypeOK, PasswdInv, NEW p \in Pods, passwd' = [passwd EXCEPT ![p] = NoPasswd]
    PROVE  /\ passwd' \in [Pods -> [PasswdNames -> Secrets \cup {"none", "empty"}]]
           /\ PasswdInv'
<1>1. NoPasswd \in [PasswdNames -> Secrets \cup {"none", "empty"}]
  BY DEF NoPasswd
<1>2. passwd' \in [Pods -> [PasswdNames -> Secrets \cup {"none", "empty"}]]
  BY <1>1 DEF FilesTypeOK
<1>3. \A q \in Pods : passwd'[q] = IF q = p THEN NoPasswd ELSE passwd[q]
  BY DEF FilesTypeOK
<1>4. \A v \in Volumes : NoPasswd[PasswdName(v)] = "none"
  BY DEF NoPasswd, PasswdNames
<1>5. PasswdInv'
  BY <1>3, <1>4 DEF PasswdInv
<1> QED
  BY <1>2, <1>5

-----------------------------------------------------------------------------
(* The steps of the driver.                                                 *)

\* The files are what the rest of the invariant needs them to be.
FilesGood ==
    FilesTypeOK' /\ PasswdInv' /\ \A p \in Pods : site'[p] \in Volumes => OfPod(p, site'[p])

LEMMA SameFiles ==
    ASSUME Inv, UNCHANGED <<passwd, site, lite, viper>>
    PROVE  FilesGood
BY DEF Inv, FileInv, FilesGood, FilesTypeOK, PasswdInv, SiteInv

LEMMA PublishedFacts ==
    ASSUME Inv
    PROVE  \A t \in Targets : kubelet[t].answer = "published" => Mounted(t)
BY DEF Inv, MountInv, MountedOK

\* What a step that mounts and unmounts nothing, starts nobody anew and leaves the
\* files good has to do.
LEMMA CalmStep ==
    ASSUME Inv, CallsInv', VolumesKept, FilesGood, mnt' = mnt, dir \subseteq dir', dir' \subseteq Targets,
           restarted' = restarted,
           \A t \in Targets : kubelet'[t].answer = "published" => Mounted(t),
           \A t \in Targets : kubelet'[t].pod => kubelet[t].pod,
           \A j \in Jobs : job'[j].pc = "clean" =>
               job[j].pc = "clean" /\ job'[j].target = job[j].target,
           \A t \in Targets : AloneAt(t) => AloneAt(t)'
    PROVE  Inv'
<1>1. HostTypeOK'
  BY DEF Inv, HostTypeOK
<1>2. MountInv'
  BY SameMounts DEF Inv
<1>3. AloneInv'
  BY DEF Inv, AloneInv
<1>4. FilesTypeOK' /\ FileInv'
  BY SiteKept DEF FilesGood, FileInv
<1>5. ClaimInv' /\ SecretInv'
  BY VolumesStay, SameSecrets DEF Inv
<1> QED
  BY <1>1, <1>2, <1>3, <1>4, <1>5 DEF Inv

LEMMA DriverGoes ==
    ASSUME Inv, NEW c \in Calls, call[c].pc \in DriverSteps, NEW pc \in DriverSteps, Goto(c, pc),
           FilesGood, UNCHANGED <<dir, mnt, job, restarted>>
    PROVE  Inv'
<1>1. CallsInv
  BY DEF Inv
<1>2. Goes(c, pc)
  BY <1>1, GotoGoes DEF Goes, CallsInv
<1>3. CallsInv' /\ VolumesKept
  BY <1>1, <1>2, GoesKeepsCalls
<1>4. \A t \in Targets : AloneAt(t) => AloneAt(t)'
  BY <1>2, GoesKeepsAlone, SameShrinks
<1>5. kubelet' = kubelet
  BY <1>2 DEF Goes
<1>6. \A t \in Targets : kubelet'[t].answer = "published" => Mounted(t)
  BY <1>5, PublishedFacts
<1> QED
  BY <1>3, <1>4, <1>5, <1>6, CalmStep DEF Inv, HostTypeOK

\* An answer "none" publishes nothing, and pods stay.
LEMMA EndsAnswers ==
    ASSUME CallsInv, NEW c \in Calls, call[c].target \in Targets, NEW a \in Answers, Ends(c, a)
    PROVE  \A t \in Targets :
             /\ kubelet'[t].pod = kubelet[t].pod
             /\ kubelet'[t].answer # kubelet[t].answer =>
                   t = call[c].target /\ kubelet[t].call = c /\ kubelet'[t].answer = a
BY AnsweredFacts DEF Ends, KubeletIs, CallsInv

LEMMA DriverFails ==
    ASSUME Inv, NEW c \in Calls, call[c].pc \in DriverSteps, Reply(c, "none"),
           FilesGood, UNCHANGED <<dir, mnt, job, restarted>>
    PROVE  Inv'
<1>1. CallsInv /\ CallOK(c)
  BY DEF Inv, CallsInv, WaitInv
<1>2. call[c].target \in Targets /\ "none" \in Answers
  BY <1>1, RunningCall DEF CallsInv, DriverSteps, Answers
<1>3. Ends(c, "none")
  BY <1>1, <1>2, ReplyEnds DEF CallsInv
<1>4. \A j \in Jobs : job[j].for # c
  BY <1>1, NotWaiting DEF DriverSteps
<1>5. job' \in [Jobs -> JobRecord] /\ \A j \in Jobs : job'[j] = IF job[j].for = c THEN NoJob ELSE job[j]
  BY <1>1, <1>4 DEF CallsInv, CallsTypeOK
<1>6. CallsInv' /\ VolumesKept
  BY <1>1, <1>2, <1>3, <1>5, EndsKeepsCalls
<1>7. \A t \in Targets : AloneAt(t) => AloneAt(t)'
  BY <1>1, <1>2, <1>3, <1>5, EndsKeepsAlone, SameShrinks
<1>8. \A t \in Targets :
         /\ kubelet'[t].pod = kubelet[t].pod
         /\ kubelet'[t].answer # kubelet[t].answer => kubelet'[t].answer = "none"
  BY <1>1, <1>2, <1>3, EndsAnswers
<1>9. \A t \in Targets : kubelet'[t].answer = "published" => Mounted(t)
  BY <1>8, PublishedFacts
<1> QED
  BY <1>6, <1>7, <1>8, <1>9, CalmStep DEF Inv, HostTypeOK

LEMMA RunningFacts ==
    ASSUME Inv, NEW c \in Calls, call[c].pc \in DriverSteps
    PROVE  /\ call[c].target \in Targets
           /\ PodOf[call[c].target] \in Pods
           /\ VolumeOf(call[c].target) \in Volumes
<1>1. CallsTypeOK /\ CallOK(c)
  BY DEF Inv, CallsInv, WaitInv
<1>2. call[c].target \in Targets
  BY <1>1, RunningCall DEF DriverSteps
<1>3. kubelet[call[c].target] \in KubeletRecord
  BY <1>1, <1>2 DEF CallsTypeOK
<1> QED
  BY <1>2, <1>3, ConstantsAssumption DEF KubeletRecord, VolumeOf

LEMMA StatPasswdKeepsInv == \A c \in Calls : Inv /\ StatPasswd(c) => Inv'
<1> SUFFICES ASSUME NEW c \in Calls, Inv, StatPasswd(c) PROVE Inv'
  OBVIOUS
<1>1. call[c].pc \in DriverSteps /\ UNCHANGED <<dir, mnt, job, restarted>>
  BY DEF StatPasswd, Driver, DriverSteps
<1>2. FilesGood
  BY SameFiles DEF StatPasswd, files
<1>3. \E pc \in DriverSteps : Goto(c, pc)
  BY DEF StatPasswd, DriverSteps
<1> QED
  BY <1>1, <1>2, <1>3, DriverGoes

LEMMA OpenPasswdKeepsInv == \A c \in Calls : Inv /\ OpenPasswd(c) => Inv'
<1> SUFFICES ASSUME NEW c \in Calls, Inv, OpenPasswd(c) PROVE Inv'
  OBVIOUS
<1>1. call[c].pc \in DriverSteps /\ UNCHANGED <<dir, mnt, job, restarted, site, lite, viper>>
  BY DEF OpenPasswd, Driver, DriverSteps
<1>2. CASE Reply(c, "none") /\ UNCHANGED passwd
  BY <1>1, <1>2, SameFiles, DriverFails
<1>3. CASE /\ passwd' = [passwd EXCEPT ![PodOf[call[c].target]][PasswdName(VolumeOf(call[c].target))] = "empty"]
           /\ Goto(c, "write")
  <2>1. FilesGood
    BY <1>1, <1>3, RunningFacts, SetPasswd DEF Inv, FileInv, FilesGood, FilesTypeOK, SiteInv
  <2> QED
    BY <1>1, <1>3, <2>1, DriverGoes DEF DriverSteps
<1> QED
  BY <1>2, <1>3 DEF OpenPasswd

LEMMA WritePasswdKeepsInv == \A c \in Calls : Inv /\ WritePasswd(c) => Inv'
<1> SUFFICES ASSUME NEW c \in Calls, Inv, WritePasswd(c) PROVE Inv'
  OBVIOUS
<1> DEFINE p == PodOf[call[c].target]
<1> DEFINE v == VolumeOf(call[c].target)
<1>1. call[c].pc \in DriverSteps /\ UNCHANGED <<dir, mnt, job, restarted, site, lite, viper>>
  BY DEF WritePasswd, Driver, DriverSteps
<1>2. CASE Reply(c, "none") /\ UNCHANGED passwd
  BY <1>1, <1>2, SameFiles, DriverFails
<1>3. CASE Goto(c, "launch") /\ UNCHANGED passwd
  BY <1>1, <1>3, SameFiles, DriverGoes DEF DriverSteps
<1>4. CASE /\ passwd' = [passwd EXCEPT ![p][PasswdName(v)] = IF @ = "none" THEN "none" ELSE Options[v].secret]
           /\ Goto(c, "launch")
  <2>1. PICK x : x = IF passwd[p][PasswdName(v)] = "none" THEN "none" ELSE Options[v].secret
    OBVIOUS
  <2>2. p \in Pods /\ v \in Volumes /\ PasswdName(v) \in PasswdNames
    BY <1>1, RunningFacts DEF PasswdNames
  <2> HIDE DEF p, v
  <2>3. passwd' = [passwd EXCEPT ![p][PasswdName(v)] = x]
    BY <1>4, <2>1, <2>2 DEF Inv, FilesTypeOK
  <2>4. x \in {"none", "empty", Options[v].secret}
    BY <2>1
  <2>5. /\ passwd' \in [Pods -> [PasswdNames -> Secrets \cup {"none", "empty"}]]
        /\ PasswdInv'
    BY <2>2, <2>3, <2>4, SetPasswd DEF Inv, FileInv
  <2>6. FilesGood
    BY <1>1, <2>5 DEF Inv, FileInv, FilesGood, FilesTypeOK, SiteInv
  <2> QED
    BY <1>1, <1>4, <2>6, DriverGoes DEF DriverSteps
<1> QED
  BY <1>2, <1>3, <1>4 DEF WritePasswd

LEMMA OpenCoreSiteKeepsInv == \A c \in Calls : Inv /\ OpenCoreSite(c) => Inv'
<1> SUFFICES ASSUME NEW c \in Calls, Inv, OpenCoreSite(c) PROVE Inv'
  OBVIOUS
<1>1. call[c].pc \in DriverSteps /\ UNCHANGED <<dir, mnt, job, restarted, passwd, lite, viper>>
  BY DEF OpenCoreSite, Driver, DriverSteps
<1>2. CASE Reply(c, "none") /\ UNCHANGED site
  BY <1>1, <1>2, SameFiles, DriverFails
<1>3. CASE site' = [site EXCEPT ![PodOf[call[c].target]] = "empty"] /\ Goto(c, "write")
  <2>1. site' \in [Pods -> Volumes \cup {"empty", None}]
    BY <1>3 DEF Inv, FilesTypeOK
  <2>2. \A p \in Pods : site'[p] \in Volumes => site'[p] = site[p]
    BY <1>3, UnsetFacts DEF Inv, FilesTypeOK
  <2>3. FilesGood
    BY <1>1, <2>1, <2>2 DEF Inv, FileInv, FilesGood, FilesTypeOK, SiteInv, PasswdInv
  <2> QED
    BY <1>1, <1>3, <2>3, DriverGoes DEF DriverSteps
<1> QED
  BY <1>2, <1>3 DEF OpenCoreSite

LEMMA WriteCoreSiteKeepsInv == \A c \in Calls : Inv /\ WriteCoreSite(c) => Inv'
<1> SUFFICES ASSUME NEW c \in Calls, Inv, WriteCoreSite(c) PROVE Inv'
  OBVIOUS
<1> DEFINE t == call[c].target
<1>1. call[c].pc \in DriverSteps /\ UNCHANGED <<dir, mnt, job, restarted, passwd, lite, viper>>
  BY DEF WriteCoreSite, Driver, DriverSteps
<1>2. CASE Reply(c, "none") /\ UNCHANGED site
  BY <1>1, <1>2, SameFiles, DriverFails
<1>3. CASE Goto(c, "viper") /\ UNCHANGED site
  BY <1>1, <1>3, SameFiles, DriverGoes DEF DriverSteps
<1>4. CASE /\ site' = [site EXCEPT ![PodOf[t]] = IF @ = None THEN None ELSE VolumeOf(t)]
           /\ Goto(c, "viper")
  <2>1. t \in Targets /\ PodOf[t] \in Pods /\ VolumeOf(t) \in Volumes
    BY <1>1, RunningFacts
  <2>2. site' \in [Pods -> Volumes \cup {"empty", None}]
    BY <1>4, <2>1 DEF Inv, FilesTypeOK
  <2>3. OfPod(PodOf[t], VolumeOf(t))
    BY <2>1 DEF OfPod, WriteCoreSite, Driver
  <2>4. \A p \in Pods : site'[p] \in Volumes =>
            site'[p] = site[p] \/ (p = PodOf[t] /\ site'[p] = VolumeOf(t))
    BY <1>4, <2>1, UnsetFacts DEF Inv, FilesTypeOK
  <2>5. \A p \in Pods : site'[p] \in Volumes => OfPod(p, site'[p])
    BY <2>3, <2>4 DEF Inv, FileInv, SiteInv
  <2>6. FilesGood
    BY <1>1, <2>2, <2>5 DEF Inv, FileInv, FilesGood, FilesTypeOK, PasswdInv
  <2> QED
    BY <1>1, <1>4, <2>6, DriverGoes DEF DriverSteps
<1> QED
  BY <1>2, <1>3, <1>4 DEF WriteCoreSite

LEMMA SetPropertiesKeepsInv == \A c \in Calls : Inv /\ SetProperties(c) => Inv'
<1> SUFFICES ASSUME NEW c \in Calls, Inv, SetProperties(c) PROVE Inv'
  OBVIOUS
<1>1. call[c].pc \in DriverSteps /\ UNCHANGED <<dir, mnt, job, restarted, passwd, site, lite>>
  BY DEF SetProperties, Driver, DriverSteps
<1>2. PICK v \in Volumes : v = VolumeOf(call[c].target)
  BY <1>1, RunningFacts
<1>3. viper' = [k \in Keys |-> IF Options[v].properties[k] = None THEN viper[k] ELSE Options[v].properties[k]]
  BY <1>2 DEF SetProperties
<1>4. viper \in Properties
  BY DEF Inv, FilesTypeOK
<1>5. viper' \in Properties
  BY <1>3, <1>4 DEF Properties
<1>6. FilesGood
  BY <1>1, <1>5 DEF Inv, FileInv, FilesGood, FilesTypeOK, SiteInv, PasswdInv
<1>7. Goto(c, "save")
  BY DEF SetProperties
<1> QED
  BY <1>1, <1>6, <1>7, DriverGoes DEF DriverSteps

LEMMA WritePropertiesKeepsInv == \A c \in Calls : Inv /\ WriteProperties(c) => Inv'
<1> SUFFICES ASSUME NEW c \in Calls, Inv, WriteProperties(c) PROVE Inv'
  OBVIOUS
<1>1. call[c].pc \in DriverSteps /\ UNCHANGED <<dir, mnt, job, restarted, passwd, site, viper>>
  BY DEF WriteProperties, Driver, DriverSteps
<1>2. CASE Reply(c, "none") /\ UNCHANGED lite
  BY <1>1, <1>2, SameFiles, DriverFails
<1>3. CASE lite' = [lite EXCEPT ![PodOf[call[c].target]] = viper] /\ Goto(c, "launch")
  <2>1. FilesGood
    BY <1>1, <1>3 DEF Inv, FileInv, FilesGood, FilesTypeOK, SiteInv, PasswdInv
  <2> QED
    BY <1>1, <1>3, <2>1, DriverGoes DEF DriverSteps
<1> QED
  BY <1>2, <1>3 DEF WriteProperties

-----------------------------------------------------------------------------
(* Requests to the launcher.                                                *)

\* Posting changes no answer to "published", no pod, and no request that cleans.
LEMMA PostsFrame ==
    ASSUME NEW c \in Calls, NEW j \in Jobs, NEW t \in Targets, NEW pc, pc # "clean", Posts(c, j, t, pc)
    PROVE  /\ \A u \in Targets : kubelet'[u].pod = kubelet[u].pod
           /\ \A u \in Targets : kubelet'[u].answer = "published" => kubelet[u].answer = "published"
           /\ \A i \in Jobs : job'[i].pc = "clean" =>
                 job[i].pc = "clean" /\ job'[i].target = job[i].target
<1>1. \A u \in Targets : kubelet'[u].pod = kubelet[u].pod
  BY DEF Posts
<1>2. \A u \in Targets : kubelet'[u].answer = "published" => kubelet[u].answer = "published"
  BY DEF Posts
<1>3. job'[j].pc = pc /\ \A i \in Jobs : i # j => job'[i] = job[i]
  BY DEF Posts, JobIs
<1> QED
  BY <1>1, <1>2, <1>3

LEMMA LaunchKeepsInv == \A c \in Calls, j \in Jobs : Inv /\ Launch(c, j) => Inv'
<1> SUFFICES ASSUME NEW c \in Calls, NEW j \in Jobs, Inv, Launch(c, j) PROVE Inv'
  OBVIOUS
<1>1. CallsInv
  BY DEF Inv
<1>2. PICK t \in Targets : t = call[c].target
  BY <1>1, LaunchPosts
<1>3. Posts(c, j, t, "mount") /\ Publishable(t)
  BY <1>1, <1>2, LaunchPosts
<1>4. call[c].pc = "launch" /\ job[j].pc = "done" /\ kubelet' = kubelet /\ UNCHANGED <<dir, mnt, files, restarted>>
  BY DEF Launch, Post, Goto
<1>5. CallsInv' /\ VolumesKept
  BY <1>1, <1>3, <1>4, PostsKeepsCalls DEF PublishJobs, UnpublishJobs
<1>6. \A u \in Targets : AloneAt(u) => AloneAt(u)'
  BY <1>1, <1>2, <1>3, <1>4, PostsKeepsAlone, SameShrinks DEF DriverSteps
<1>7. FilesGood
  BY <1>4, SameFiles DEF files
<1> QED
  BY <1>3, <1>4, <1>5, <1>6, <1>7, PostsFrame, PublishedFacts, CalmStep DEF Inv, HostTypeOK

LEMMA AskKeepsInv ==
    ASSUME Inv, NEW c \in Calls, NEW j \in Jobs, NEW t \in Targets, NEW pc \in {"create", "check"},
           Asks(c, t), Post(c, j, t, pc), UNCHANGED <<dir, mnt, files, restarted>>,
           pc = "create" => kubelet[t].pod /\ Publishable(t),
           pc = "check" => ~ kubelet[t].pod
    PROVE  Inv'
<1>1. CallsInv
  BY DEF Inv
<1>2. kubelet[t].pod \/ pc = "check"
  OBVIOUS
<1>3. Posts(c, j, t, pc) /\ kubelet'[t].answer = "none" /\ kubelet'[t].call = c
  BY <1>1, <1>2, RequestPosts
<1>4. call[c].pc = "idle" /\ job[j].pc = "done" /\ kubelet[t].call = None
  BY DEF Asks, Request, Post
<1>5. CallsInv' /\ VolumesKept
  BY <1>1, <1>3, <1>4, PostsKeepsCalls DEF PublishJobs, UnpublishJobs
<1>6. \A u \in Targets : AloneAt(u) => AloneAt(u)'
  BY <1>1, <1>3, <1>4, PostsKeepsAlone, SameShrinks
<1>7. FilesGood
  BY SameFiles DEF files
<1> QED
  BY <1>3, <1>5, <1>6, <1>7, PostsFrame, PublishedFacts, CalmStep DEF Inv, HostTypeOK

LEMMA NodePublishVolumeKeepsInv ==
    \A c \in Calls, j \in Jobs, t \in Targets : Inv /\ NodePublishVolume(c, j, t) => Inv'
BY AskKeepsInv DEF NodePublishVolume, Asks, Publishable

LEMMA NodeUnpublishVolumeKeepsInv ==
    \A c \in Calls, j \in Jobs, t \in Targets : Inv /\ NodeUnpublishVolume(c, j, t) => Inv'
BY AskKeepsInv DEF NodeUnpublishVolume, Asks

LEMMA RespondsFrame ==
    ASSUME CallsInv, NEW j \in Jobs, NEW a \in Answers, Responds(j, a)
    PROVE  /\ \A t \in Targets : kubelet'[t].pod = kubelet[t].pod
           /\ \A t \in Targets : kubelet'[t].answer # kubelet[t].answer =>
                 /\ t = job[j].target /\ kubelet'[t].answer = a
                 /\ ~ kubelet[t].pod => job[j].pc \in UnpublishJobs
           /\ \A i \in Jobs : job'[i].pc = "clean" =>
                 job[i].pc = "clean" /\ job'[i].target = job[i].target
<1>1. \A i \in Jobs : job'[i].pc = "clean" => job[i].pc = "clean" /\ job'[i].target = job[i].target
  BY ConstantFacts DEF Responds, JobIs
<1>2. CASE job[j].for = None
  BY <1>1, <1>2, ConstantFacts DEF Responds
<1>3. CASE job[j].for \in Calls
  <2>1. Ends(job[j].for, a)
    BY <1>3, ConstantFacts DEF Responds
  <2>2. call[job[j].for].target = job[j].target /\ job[j].target \in Targets
    BY <1>3, AskedFor
  <2>3. \A t \in Targets :
           /\ kubelet'[t].pod = kubelet[t].pod
           /\ kubelet'[t].answer # kubelet[t].answer =>
                 t = job[j].target /\ kubelet[t].call = job[j].for /\ kubelet'[t].answer = a
    BY <1>3, <2>1, <2>2, EndsAnswers
  <2>4. kubelet[job[j].target].call = job[j].for /\ ~ kubelet[job[j].target].pod => job[j].pc \in UnpublishJobs
    BY <1>3, AskedFor
  <2> QED
    BY <1>1, <2>3, <2>4
<1> QED
  BY <1>2, <1>3 DEF Responds

LEMMA RespondKeepsInv ==
    ASSUME Inv, NEW j \in Jobs, job[j].pc # "done", NEW a \in Answers, Respond(j, a), FilesGood,
           mnt' = mnt, dir \subseteq dir', dir' \subseteq Targets, restarted' = restarted,
           a = "published" =>
               job[j].pc \in PublishJobs /\ (kubelet[job[j].target].pod => Mounted(job[j].target)),
           a = "unpublished" => ~ Mounted(job[j].target)
    PROVE  Inv'
<1>1. CallsInv
  BY DEF Inv
<1>2. Responds(j, a)
  BY <1>1, RespondResponds
<1>3. CallsInv' /\ VolumesKept
  BY <1>1, <1>2, RespondsKeepsCalls
<1>4. Shrinks /\ \A t \in Targets : Mounted(t)' <=> Mounted(t)
  BY SameShrinks DEF Mounted
<1>5. \A t \in Targets : AloneAt(t) => AloneAt(t)'
  BY <1>1, <1>2, <1>4, RespondsKeepsAlone
<1>6. \A t \in Targets : kubelet'[t].answer = "published" => Mounted(t)
  <2> SUFFICES ASSUME NEW t \in Targets, kubelet'[t].answer = "published" PROVE Mounted(t)
    OBVIOUS
  <2>1. CASE kubelet[t].answer = "published"
    BY <2>1, PublishedFacts
  <2>2. CASE kubelet[t].answer # "published"
    <3>1. /\ t = job[j].target /\ a = "published"
          /\ ~ kubelet[t].pod => job[j].pc \in UnpublishJobs
      BY <1>1, <1>2, <2>2, RespondsFrame
    <3> QED
      BY <3>1 DEF PublishJobs, UnpublishJobs
  <2> QED
    BY <2>1, <2>2
<1> QED
  BY <1>1, <1>2, <1>3, <1>5, <1>6, RespondsFrame, CalmStep

LEMMA createHandlerKeepsInv == \A j \in Jobs : Inv /\ createHandler(j) => Inv'
<1> SUFFICES ASSUME NEW j \in Jobs, Inv, createHandler(j) PROVE Inv'
  OBVIOUS
<1>1. /\ job[j].pc = "create" /\ UNCHANGED <<mnt, restarted, passwd, site, lite, viper>>
  BY DEF createHandler, files
<1>2. FilesGood
  BY <1>1, SameFiles
<1>3. CallsInv /\ JobOK(j) /\ dir \subseteq Targets
  BY DEF Inv, CallsInv, WaitInv, HostTypeOK
<1>4. job[j].target \in Targets
  BY <1>1, <1>3, RunningJob DEF CallsInv
<1>5. dir \subseteq dir' /\ dir' \subseteq Targets
  BY <1>3, <1>4 DEF createHandler
<1>6. "none" \in Answers /\ "published" \in Answers /\ "create" \in PublishJobs
  BY DEF Answers, PublishJobs
<1>7. CASE Respond(j, "none")
  BY <1>1, <1>2, <1>5, <1>6, <1>7, RespondKeepsInv
<1>8. CASE Mounted(job[j].target) /\ Respond(j, "published")
  BY <1>1, <1>2, <1>5, <1>6, <1>8, RespondKeepsInv
<1>9. CASE ~ Mounted(job[j].target) /\ Created(j)
  <2>1. Creates(j)
    BY <1>1, <1>3, <1>9, CreatedCreates
  <2>2. CallsInv' /\ VolumesKept
    BY <1>1, <1>3, <2>1, CreatesKeepsCalls
  <2>3. \A t \in Targets : AloneAt(t) => AloneAt(t)'
    BY <1>1, <1>3, <1>9, <2>1, CreatesKeepsAlone, SameShrinks
  <2>4. kubelet' = kubelet /\ \A i \in Jobs : job'[i].pc = "clean" =>
            job[i].pc = "clean" /\ job'[i].target = job[i].target
    BY <2>1, ConstantFacts DEF Creates, JobIs
  <2> QED
    BY <1>1, <1>2, <1>5, <2>2, <2>3, <2>4, PublishedFacts, CalmStep
<1> QED
  BY <1>7, <1>8, <1>9 DEF createHandler

LEMMA RemoveConfigKeepsInv == \A j \in Jobs : Inv /\ RemoveConfig(j) => Inv'
<1> SUFFICES ASSUME NEW j \in Jobs, Inv, RemoveConfig(j) PROVE Inv'
  OBVIOUS
<1>1. job[j].pc = "clean" /\ Respond(j, "published") /\ UNCHANGED <<dir, mnt, viper, restarted>>
  BY DEF RemoveConfig
<1>2. CallsInv /\ JobOK(j) /\ dir \subseteq Targets
  BY DEF Inv, CallsInv, WaitInv, HostTypeOK
<1>3. PICK t \in Targets : t = job[j].target
  BY <1>1, <1>2, RunningJob DEF CallsInv
<1>4. PICK p \in Pods : p = PodOf[t]
  BY ConstantsAssumption
<1>5. FilesGood
  <2>1. CASE passwd' = [passwd EXCEPT ![p] = NoPasswd] /\ UNCHANGED <<site, lite>>
    BY <1>1, <2>1, NoPasswdFacts DEF Inv, FileInv, FilesGood, FilesTypeOK, SiteInv
  <2>2. CASE site' = [site EXCEPT ![p] = None] /\ lite' = [lite EXCEPT ![p] = None] /\ UNCHANGED passwd
    <3>1. site' \in [Pods -> Volumes \cup {"empty", None}] /\ lite' \in [Pods -> Properties \cup {None}]
      BY <2>2 DEF Inv, FilesTypeOK
    <3>2. \A q \in Pods : site'[q] \in Volumes => site'[q] = site[q]
      BY <2>2, UnsetFacts DEF Inv, FilesTypeOK
    <3> QED
      BY <1>1, <2>2, <3>1, <3>2 DEF Inv, FileInv, FilesGood, FilesTypeOK, SiteInv, PasswdInv
  <2>3. CASE UNCHANGED <<passwd, site, lite>>
    BY <1>1, <2>3, SameFiles
  <2> QED
    BY <1>3, <1>4, <2>1, <2>2, <2>3 DEF RemoveConfig
<1>6. kubelet[job[j].target].pod => Mounted(job[j].target)
  BY <1>1, <1>3 DEF Inv, MountInv, MountedOK
<1> QED
  BY <1>1, <1>2, <1>5, <1>6, RespondKeepsInv DEF Answers, PublishJobs

-----------------------------------------------------------------------------
(* The layers of a target.                                                  *)

LEMMA TailFacts ==
    ASSUME NEW S, NEW s \in Seq(S), s # <<>>
    PROVE  /\ Tail(s) \in Seq(S) /\ Len(Tail(s)) = Len(s) - 1 /\ Len(s) \in Nat /\ Len(s) >= 1
           /\ \A i \in DOMAIN Tail(s) : i + 1 \in DOMAIN s /\ Tail(s)[i] = s[i + 1]
  OBVIOUS

LEMMA ConsFacts ==
    ASSUME NEW S, NEW s \in Seq(S), NEW x \in S
    PROVE  /\ <<x>> \o s \in Seq(S) /\ Len(<<x>> \o s) = Len(s) + 1 /\ Len(s) \in Nat
           /\ <<x>> \o s # <<>> /\ (<<x>> \o s)[1] = x
           /\ \A i \in DOMAIN (<<x>> \o s) :
                 i = 1 \/ (i - 1 \in DOMAIN s /\ (<<x>> \o s)[i] = s[i - 1])
  OBVIOUS

LEMMA EmptyFacts ==
    ASSUME NEW S, NEW s \in Seq(S)
    PROVE  Len(s) \in Nat /\ (s = <<>> <=> Len(s) = 0) /\ DOMAIN s = 1 .. Len(s)
  OBVIOUS

\* Layers o are x on top of the layers s.
Topped(o, x, s) ==
    /\ o \in Seq(LayerRecord) /\ o # <<>> /\ o[1] = x
    /\ s = <<>> => Len(o) <= 1
    /\ \A i \in DOMAIN o : i # 1 => \E k \in DOMAIN s : o[i] = s[k]

LEMMA ConsTopped ==
    ASSUME NEW s \in Seq(LayerRecord), NEW x \in LayerRecord
    PROVE  Topped(<<x>> \o s, x, s)
<1>1. PICK o : o = <<x>> \o s
  OBVIOUS
<1>2. /\ o \in Seq(LayerRecord) /\ o # <<>> /\ o[1] = x /\ Len(o) = Len(s) + 1
      /\ \A i \in DOMAIN o : i = 1 \/ (i - 1 \in DOMAIN s /\ o[i] = s[i - 1])
  BY <1>1, ConsFacts
<1>3. s = <<>> => Len(s) = 0
  BY EmptyFacts
<1>4. s = <<>> => Len(o) <= 1
  BY <1>2, <1>3
<1>5. \A i \in DOMAIN o : i # 1 => \E k \in DOMAIN s : o[i] = s[k]
  BY <1>2
<1> QED
  BY <1>1, <1>2, <1>4, <1>5 DEF Topped

\* Layers o are among the layers s.
Among(o, s) ==
    /\ o \in Seq(LayerRecord)
    /\ o # <<>> => s # <<>>
    /\ Len(s) <= 1 => Len(o) <= 1
    /\ \A i \in DOMAIN o : \E k \in DOMAIN s : o[i].secret = s[k].secret

LEMMA SameAmong ==
    ASSUME NEW s \in Seq(LayerRecord)
    PROVE  Among(s, s)
BY DEF Among

LEMMA TailAmong ==
    ASSUME NEW s \in Seq(LayerRecord), s # <<>>
    PROVE  Among(Tail(s), s) /\ (Len(s) <= 1 => Tail(s) = <<>>)
<1>1. PICK o : o = Tail(s)
  OBVIOUS
<1>2. /\ o \in Seq(LayerRecord) /\ Len(o) = Len(s) - 1 /\ Len(s) \in Nat /\ Len(s) >= 1
      /\ \A i \in DOMAIN o : i + 1 \in DOMAIN s /\ o[i] = s[i + 1]
  BY <1>1, TailFacts
<1>3. Len(s) <= 1 => Len(o) <= 1 /\ Len(o) = 0
  BY <1>2
<1>4. Len(s) <= 1 => o = <<>>
  BY <1>2, <1>3, EmptyFacts
<1>5. \A i \in DOMAIN o : \E k \in DOMAIN s : o[i].secret = s[k].secret
  BY <1>2
<1>6. Among(o, s)
  BY <1>2, <1>3, <1>5 DEF Among
<1> QED
  BY <1>1, <1>4, <1>6

\* The same layers, some of them broken.
LEMMA BrokenAmong ==
    ASSUME NEW s \in Seq(LayerRecord), NEW o, DOMAIN o = DOMAIN s,
           o = [i \in DOMAIN s |-> o[i]],
           \A i \in DOMAIN s : o[i] \in LayerRecord /\ o[i].secret = s[i].secret
    PROVE  Among(o, s) /\ (s # <<>> => o # <<>>)
<1>1. Len(s) \in Nat /\ DOMAIN s = 1 .. Len(s)
  BY EmptyFacts
<1>2. o \in [1 .. Len(s) -> LayerRecord]
  BY <1>1
<1>3. o \in Seq(LayerRecord) /\ Len(o) = Len(s)
  BY <1>1, <1>2
<1>4. o = <<>> <=> s = <<>>
  BY <1>3, EmptyFacts
<1> QED
  BY <1>3, <1>4 DEF Among

\* No target gets a layer.
LEMMA AmongFacts ==
    ASSUME mnt' \in [Targets -> Seq(LayerRecord)], \A t \in Targets : Among(mnt'[t], mnt[t])
    PROVE  /\ Shrinks
           /\ VolumesKept /\ SecretInv => SecretInv'
<1>1. \A t \in Targets : Mounted(t)' => Mounted(t)
  BY DEF Among, Mounted
<1>2. \A t \in Targets : Len(mnt[t]) <= 1 => Len(mnt'[t]) <= 1
  BY DEF Among
<1>3. \A t \in Targets : \A i \in DOMAIN mnt'[t] :
         \E k \in DOMAIN mnt[t] : mnt'[t][i].secret = mnt[t][k].secret
  BY DEF Among
<1> QED
  BY <1>1, <1>2, <1>3, SecretsKept DEF Shrinks

-----------------------------------------------------------------------------
(* The file systems.                                                        *)

LEMMA TurnTurns ==
    ASSUME CallsInv, NEW j \in Jobs, NEW pc \in {"clean", "umount"},
           job' = [job EXCEPT ![j].pc = pc], UNCHANGED <<call, kubelet>>
    PROVE  Turns(j, pc)
<1>1. job[j] \in JobRecord
  BY DEF CallsInv, CallsTypeOK
<1>2. PICK r : r = [pc |-> pc, target |-> job[j].target, for |-> job[j].for]
  OBVIOUS
<1>3. r \in JobRecord /\ r = [job[j] EXCEPT !.pc = pc]
  BY <1>1, <1>2 DEF JobRecord, PublishJobs, UnpublishJobs
<1>4. job' = [job EXCEPT ![j] = r]
  BY <1>3
<1>5. JobIs(j, r)
  BY <1>3, <1>4, SetJob DEF CallsInv
<1> QED
  BY <1>2, <1>5 DEF Turns

LEMMA UmountCheckKeepsInv == \A j \in Jobs : Inv /\ UmountCheck(j) => Inv'
<1> SUFFICES ASSUME NEW j \in Jobs, Inv, UmountCheck(j) PROVE Inv'
  OBVIOUS
<1>1. job[j].pc = "check" /\ UNCHANGED <<dir, mnt, restarted, passwd, site, lite, viper>>
  BY DEF UmountCheck, files
<1>2. FilesGood
  BY <1>1, SameFiles
<1>3. CallsInv /\ dir \subseteq Targets /\ "none" \in Answers /\ "unpublished" \in Answers
  BY DEF Inv, HostTypeOK, Answers
<1>4. CASE Respond(j, "none")
  BY <1>1, <1>2, <1>3, <1>4, RespondKeepsInv
<1>5. CASE ~ Mounted(job[j].target) /\ Respond(j, "unpublished")
  BY <1>1, <1>2, <1>3, <1>5, RespondKeepsInv
<1>6. CASE job' = [job EXCEPT ![j].pc = "umount"] /\ UNCHANGED <<call, kubelet>>
  <2>1. Turns(j, "umount")
    BY <1>3, <1>6, TurnTurns
  <2>2. CallsInv' /\ VolumesKept
    BY <1>1, <1>3, <2>1, TurnsKeepsCalls DEF UnpublishJobs
  <2>3. /\ job'[j].pc = "umount" /\ job'[j].target = job[j].target /\ job'[j].for = job[j].for
        /\ \A i \in Jobs : i # j => job'[i] = job[i]
    BY <2>1 DEF Turns, JobIs
  <2>4. \A t \in Targets : AloneAt(t) => AloneAt(t)'
    BY <1>1, <1>6, <2>3 DEF AloneAt, Mounted
  <2> QED
    BY <1>1, <1>2, <1>3, <1>6, <2>2, <2>3, <2>4, PublishedFacts, CalmStep
<1> QED
  BY <1>4, <1>5, <1>6 DEF UmountCheck

LEMMA UmountKeepsInv ==
    ASSUME Inv, NEW j \in Jobs, job[j].pc = "umount", NEW t \in Targets, t = job[j].target,
           Mounted(t), mnt' = [mnt EXCEPT ![t] = Tail(@)], Respond(j, "unpublished"),
           UNCHANGED <<dir, restarted>>, FilesGood
    PROVE  Inv'
<1>1. CallsInv /\ JobOK(j) /\ mnt \in [Targets -> Seq(LayerRecord)] /\ "unpublished" \in Answers
  BY DEF Inv, CallsInv, WaitInv, HostTypeOK, Answers
<1>2. Responds(j, "unpublished")
  BY <1>1, RespondResponds
<1>3. CallsInv' /\ VolumesKept
  BY <1>1, <1>2, RespondsKeepsCalls
<1>4. Among(Tail(mnt[t]), mnt[t]) /\ (Len(mnt[t]) <= 1 => Tail(mnt[t]) = <<>>)
  BY <1>1, TailAmong DEF Mounted
<1>5. mnt'[t] = Tail(mnt[t]) /\ \A u \in Targets : u # t => mnt'[u] = mnt[u]
  BY <1>1
<1>6. \A u \in Targets : Among(mnt'[u], mnt[u])
  BY <1>1, <1>4, <1>5, SameAmong
<1>7. mnt' \in [Targets -> Seq(LayerRecord)]
  <2>1. Tail(mnt[t]) \in Seq(LayerRecord)
    BY <1>4 DEF Among
  <2> QED
    BY <1>1, <2>1
<1>8. Shrinks /\ SecretInv'
  BY <1>3, <1>6, <1>7, AmongFacts DEF Inv
<1>9. \A u \in Targets : AloneAt(u) => AloneAt(u)'
  <2> SUFFICES ASSUME NEW u \in Targets, AloneAt(u) PROVE AloneAt(u)'
    OBVIOUS
  <2>1. u = t => ~ Mounted(u)'
    BY <1>4, <1>5 DEF AloneAt, Mounted
  <2> QED
    BY <1>1, <1>2, <1>8, <2>1, RespondsKeepsAlone
<1>10. ~ kubelet[t].pod /\ kubelet[t].answer # "published"
  BY <1>1 DEF JobOK, UnpublishJobs
<1>11. /\ \A u \in Targets : kubelet'[u].pod = kubelet[u].pod
       /\ \A u \in Targets : kubelet'[u].answer # kubelet[u].answer => u = t /\ kubelet'[u].answer = "unpublished"
       /\ \A i \in Jobs : job'[i].pc = "clean" => job[i].pc = "clean" /\ job'[i].target = job[i].target
  BY <1>1, <1>2, RespondsFrame
<1>12. MountInv'
  <2> SUFFICES ASSUME NEW u \in Targets PROVE MountedOK(u)'
    BY DEF MountInv
  <2>1. MountedOK(u)
    BY DEF Inv, MountInv
  <2>2. CASE u = t
    <3>1. ~ kubelet'[u].pod /\ kubelet'[u].answer # "published"
      BY <1>10, <1>11, <2>2
    <3>2. Mounted(u)' => Mounted(u)
      BY <1>8 DEF Shrinks
    <3> QED
      BY <2>1, <3>1, <3>2 DEF MountedOK
  <2>3. CASE u # t
    <3>1. Mounted(u)' <=> Mounted(u)
      BY <1>5, <2>3 DEF Mounted
    <3>2. kubelet'[u].answer = kubelet[u].answer /\ kubelet'[u].pod = kubelet[u].pod
      BY <1>11, <2>3
    <3> QED
      BY <1>11, <2>1, <3>1, <3>2 DEF MountedOK
  <2> QED
    BY <2>2, <2>3
<1>13. HostTypeOK'
  BY <1>7 DEF Inv, HostTypeOK
<1>14. FilesTypeOK' /\ FileInv' /\ ClaimInv'
  BY <1>3, SiteKept, VolumesStay DEF Inv, FilesGood, FileInv
<1>15. AloneInv'
  BY <1>9 DEF Inv, AloneInv
<1> QED
  BY <1>3, <1>8, <1>12, <1>13, <1>14, <1>15 DEF Inv

LEMMA UmountCommandKeepsInv == \A j \in Jobs : Inv /\ UmountCommand(j) => Inv'
<1> SUFFICES ASSUME NEW j \in Jobs, Inv, UmountCommand(j) PROVE Inv'
  OBVIOUS
<1>1. job[j].pc = "umount" /\ UNCHANGED <<dir, restarted, passwd, site, lite, viper>>
  BY DEF UmountCommand, files
<1>2. FilesGood
  BY <1>1, SameFiles
<1>3. CallsInv /\ JobOK(j) /\ dir \subseteq Targets /\ "none" \in Answers
  BY DEF Inv, CallsInv, WaitInv, HostTypeOK, Answers
<1>4. PICK t \in Targets : t = job[j].target
  BY <1>1, <1>3, RunningJob DEF CallsInv
<1>5. CASE Respond(j, "none") /\ UNCHANGED mnt
  BY <1>1, <1>2, <1>3, <1>5, RespondKeepsInv
<1>6. CASE Mounted(t) /\ mnt' = [mnt EXCEPT ![t] = Tail(@)] /\ Respond(j, "unpublished")
  BY <1>1, <1>2, <1>4, <1>6, UmountKeepsInv
<1> QED
  BY <1>4, <1>5, <1>6 DEF UmountCommand

\* What a file system reads, it may use.
LEMMA LayerFacts ==
    ASSUME Inv, NEW t \in Targets, Publishable(t), Usable(t)
    PROVE  Layer(t) \in LayerRecord /\ MayUse(t, Layer(t).secret)
<1>1. kubelet[t] \in KubeletRecord
  BY DEF Inv, CallsInv, CallsTypeOK
<1>2. PICK v \in Volumes : v = VolumeOf(t)
  BY <1>1 DEF KubeletRecord, VolumeOf
<1>3. PICK p \in Pods : p = PodOf[t]
  BY ConstantsAssumption
<1>4. CASE Mounter(v) = "cosfs"
  <2>1. PICK s : s = passwd[p][PasswdName(v)]
    OBVIOUS
  <2>2. s \in Secrets /\ Layer(t) = [secret |-> s, properties |-> Unset, up |-> TRUE]
    BY <1>2, <1>3, <1>4, <2>1 DEF Usable, Layer
  <2>3. s \in {"none", "empty", Options[v].secret}
    BY <2>1 DEF Inv, FileInv, PasswdInv
  <2>4. s \notin {"none", "empty"}
    BY <2>2, ConstantsAssumption DEF Secrets
  <2>5. Layer(t) \in LayerRecord /\ Layer(t).secret = s
    BY <2>2, UnsetFacts DEF LayerRecord
  <2> QED
    BY <1>2, <1>4, <2>3, <2>4, <2>5 DEF MayUse
<1>5. CASE Mounter(v) # "cosfs"
  <2>1. PICK w : w = site[p]
    OBVIOUS
  <2>2. /\ w \in Volumes /\ lite[p] # None
        /\ Layer(t) = [secret |-> Options[w].secret, properties |-> lite[p], up |-> TRUE]
    BY <1>2, <1>3, <1>5, <2>1 DEF Usable, Layer
  <2>3. lite[p] \in Properties
    BY <2>2 DEF Inv, FilesTypeOK
  <2>4. Options[w].secret \in Secrets
    BY <2>2 DEF Secrets
  <2>5. Layer(t) \in LayerRecord /\ Layer(t).secret = Options[w].secret
    BY <2>2, <2>3, <2>4 DEF LayerRecord
  <2>6. OfPod(p, w)
    BY <2>1, <2>2 DEF Inv, FileInv, SiteInv
  <2> QED
    BY <1>2, <1>3, <1>5, <2>2, <2>5, <2>6 DEF MayUse
<1> QED
  BY <1>4, <1>5

LEMMA MountKeepsInv ==
    ASSUME Inv, NEW j \in Jobs, job[j].pc = "mount", NEW t \in Targets, t = job[j].target, Usable(t),
           mnt' = [mnt EXCEPT ![t] = <<Layer(t)>> \o @], job' = [job EXCEPT ![j].pc = "clean"],
           UNCHANGED <<dir, restarted, call, kubelet>>, FilesGood
    PROVE  Inv'
<1>1. CallsInv /\ JobOK(j) /\ mnt \in [Targets -> Seq(LayerRecord)]
  BY DEF Inv, CallsInv, WaitInv, HostTypeOK
<1>2. Publishable(t)
  BY <1>1 DEF JobOK, PublishJobs
<1>3. PICK x \in LayerRecord : x = Layer(t) /\ MayUse(t, x.secret)
  BY <1>2, LayerFacts
<1>4. PICK s \in Seq(LayerRecord) : s = mnt[t]
  BY <1>1
<1>5. PICK o : o = <<x>> \o s /\ Topped(o, x, s)
  BY ConsTopped
<1>6. mnt' = [mnt EXCEPT ![t] = o] /\ o \in Seq(LayerRecord) /\ o # <<>>
  BY <1>3, <1>4, <1>5 DEF Topped
<1>7. /\ mnt' \in [Targets -> Seq(LayerRecord)]
      /\ mnt'[t] = o /\ \A u \in Targets : u # t => mnt'[u] = mnt[u]
  BY <1>1, <1>6
<1>8. Mounted(t)' /\ \A u \in Targets : u # t => (Mounted(u)' <=> Mounted(u))
  BY <1>6, <1>7 DEF Mounted
<1>9. Turns(j, "clean")
  BY <1>1, TurnTurns
<1>10. CallsInv' /\ VolumesKept
  BY <1>1, <1>9, TurnsKeepsCalls DEF PublishJobs
<1>11. /\ job'[j].pc = "clean" /\ job'[j].target = t /\ job'[j].for = job[j].for
       /\ \A i \in Jobs : i # j => job'[i] = job[i]
  BY <1>9 DEF Turns, JobIs
<1>12. MountInv'
  <2> SUFFICES ASSUME NEW u \in Targets PROVE MountedOK(u)'
    BY DEF MountInv
  <2>1. MountedOK(u)
    BY DEF Inv, MountInv
  <2>2. CASE u = t
    <3>1. u \in dir
      BY <2>2 DEF Usable
    <3> QED
      BY <1>8, <2>2, <3>1 DEF MountedOK
  <2>3. CASE u # t
    <3>1. Mounted(u)' <=> Mounted(u)
      BY <1>8, <2>3
    <3> QED
      BY <1>11, <2>1, <2>3, <3>1 DEF MountedOK
  <2> QED
    BY <2>2, <2>3
<1>13. \A u \in Targets : u # t /\ AloneAt(u) => AloneAt(u)'
  <2> SUFFICES ASSUME NEW u \in Targets, u # t, AloneAt(u) PROVE AloneAt(u)'
    OBVIOUS
  <2>1. mnt'[u] = mnt[u] /\ (Mounted(u)' <=> Mounted(u))
    BY <1>7, <1>8
  <2>2. \A i \in Jobs : job'[i].target = u => i # j /\ job'[i] = job[i]
    BY <1>11
  <2> QED
    BY <2>1, <2>2 DEF AloneAt
<1>14. AloneAt(t) => AloneAt(t)'
  <2> SUFFICES ASSUME AloneAt(t) PROVE AloneAt(t)'
    OBVIOUS
  <2>1. job[j].for # None /\ ~ Mounted(t) /\ job[j] \in JobRecord
    BY <1>1 DEF AloneAt, CallsInv, CallsTypeOK
  <2>2. job[j].for \in Calls
    BY <2>1 DEF JobRecord
  <2>3. call[job[j].for].pc = "wait" /\ call[job[j].for].target = t
    BY <1>1, <2>2, AskedFor
  <2>4. kubelet[t].call = job[j].for
    BY <2>2, <2>3 DEF AloneAt
  <2>5. \A c \in Calls : call'[c].target = t => kubelet'[t].call = c /\ call'[c].pc \notin DriverSteps
    BY <2>3, <2>4 DEF AloneAt, DriverSteps
  <2>6. \A i \in Jobs : job'[i].target = t => job'[i].for # None /\ i = j
    <3> SUFFICES ASSUME NEW i \in Jobs, job'[i].target = t PROVE job'[i].for # None /\ i = j
      OBVIOUS
    <3>1. CASE i = j
      BY <1>11, <2>1, <3>1
    <3>2. CASE i # j
      <4>1. job[i].target = t /\ job[i].for # None /\ job[i] \in JobRecord
        BY <1>1, <1>11, <3>2 DEF AloneAt, CallsInv, CallsTypeOK
      <4>2. job[i].for \in Calls
        BY <4>1 DEF JobRecord
      <4>3. call[job[i].for].target = t
        BY <1>1, <4>1, <4>2, AskedFor
      <4>4. job[i].for = job[j].for
        BY <2>4, <4>2, <4>3 DEF AloneAt
      <4> QED
        BY <1>1, <2>2, <3>2, <4>4, AskedFor
    <3> QED
      BY <3>1, <3>2
  <2>7. Len(mnt'[t]) <= 1
    <3>1. s = <<>>
      BY <1>4, <2>1 DEF Mounted
    <3> QED
      BY <1>5, <1>7, <3>1 DEF Topped
  <2>8. kubelet'[t].answer # "unpublished"
    <3>1. KubeletOK(t)
      BY <1>1 DEF CallsInv, WaitInv
    <3> QED
      BY <2>1, <2>4, <3>1 DEF KubeletOK
  <2> QED
    BY <1>11, <2>5, <2>6, <2>7, <2>8 DEF AloneAt
<1>15. SecretInv'
  <2> SUFFICES ASSUME NEW u \in Targets
               PROVE  (Mounted(u) => Publishable(u))' /\ \A i \in DOMAIN mnt'[u] : MayUse(u, mnt[u][i].secret)'
    BY DEF SecretInv
  <2>1. (Mounted(u) => Publishable(u))'
    BY <1>2, <1>8, <1>10, PublishableKept DEF Inv, SecretInv
  <2>2. ASSUME NEW i \in DOMAIN mnt'[u] PROVE MayUse(u, mnt[u][i].secret)'
    <3>1. PICK y : y = mnt'[u][i].secret
      OBVIOUS
    <3>2. MayUse(u, y)
      <4>1. CASE u = t
        <5>1. i \in DOMAIN o /\ y = o[i].secret
          BY <1>7, <3>1, <4>1
        <5>2. CASE i = 1
          BY <1>3, <1>5, <4>1, <5>1, <5>2 DEF Topped
        <5>3. CASE i # 1
          BY <1>4, <1>5, <4>1, <5>1, <5>3 DEF Inv, SecretInv, Topped
        <5> QED
          BY <5>2, <5>3
      <4>2. CASE u # t
        BY <1>7, <3>1, <4>2 DEF Inv, SecretInv
      <4> QED
        BY <4>1, <4>2
    <3>3. MayUse(u, y)'
      BY <1>10, <3>2, VolumesStay
    <3> QED
      BY <3>1, <3>3 DEF MayUse
  <2> QED
    BY <2>1, <2>2
<1>16. HostTypeOK'
  BY <1>7 DEF Inv, HostTypeOK
<1>17. FilesTypeOK' /\ FileInv' /\ ClaimInv'
  BY <1>10, SiteKept, VolumesStay DEF Inv, FilesGood, FileInv
<1>18. AloneInv'
  BY <1>13, <1>14 DEF Inv, AloneInv
<1> QED
  BY <1>10, <1>12, <1>15, <1>16, <1>17, <1>18 DEF Inv

LEMMA MountCommandKeepsInv == \A j \in Jobs : Inv /\ MountCommand(j) => Inv'
<1> SUFFICES ASSUME NEW j \in Jobs, Inv, MountCommand(j) PROVE Inv'
  OBVIOUS
<1>1. job[j].pc = "mount" /\ UNCHANGED <<dir, restarted, passwd, site, lite, viper>>
  BY DEF MountCommand, files
<1>2. FilesGood
  BY <1>1, SameFiles
<1>3. CallsInv /\ JobOK(j) /\ dir \subseteq Targets /\ "none" \in Answers
  BY DEF Inv, CallsInv, WaitInv, HostTypeOK, Answers
<1>4. PICK t \in Targets : t = job[j].target
  BY <1>1, <1>3, RunningJob DEF CallsInv
<1>5. CASE Respond(j, "none") /\ UNCHANGED mnt
  BY <1>1, <1>2, <1>3, <1>5, RespondKeepsInv
<1>6. CASE /\ Usable(t) /\ mnt' = [mnt EXCEPT ![t] = <<Layer(t)>> \o @]
           /\ job' = [job EXCEPT ![j].pc = "clean"] /\ UNCHANGED <<call, kubelet>>
  BY <1>1, <1>2, <1>4, <1>6, MountKeepsInv
<1> QED
  BY <1>4, <1>5, <1>6 DEF MountCommand

\* The layers stay, though some are broken; nobody is told of it but by "none".
LEMMA BreakKeepsInv ==
    ASSUME Inv, CallsInv', VolumesKept, FilesGood, mnt' \in [Targets -> Seq(LayerRecord)],
           \A t \in Targets : Among(mnt'[t], mnt[t]) /\ (Mounted(t) => Mounted(t)'),
           dir' = dir, restarted' \subseteq Faults,
           \A t \in Targets : kubelet'[t].answer = "published" => kubelet[t].answer = "published",
           \A t \in Targets : kubelet'[t].pod => kubelet[t].pod,
           \A j \in Jobs : job'[j].pc = "clean" =>
               job[j].pc = "clean" /\ job'[j].target = job[j].target,
           restarted' \subseteq {"launcher"} =>
               restarted \subseteq {"launcher"} /\ \A t \in Targets : AloneAt(t) => AloneAt(t)'
    PROVE  Inv'
<1>1. HostTypeOK'
  BY DEF Inv, HostTypeOK
<1>2. Shrinks /\ SecretInv'
  BY AmongFacts DEF Inv
<1>3. MountInv'
  <2> SUFFICES ASSUME NEW t \in Targets PROVE MountedOK(t)'
    BY DEF MountInv
  <2>1. MountedOK(t)
    BY DEF Inv, MountInv
  <2>2. Mounted(t)' <=> Mounted(t)
    BY <1>2 DEF Shrinks
  <2> QED
    BY <2>1, <2>2 DEF MountedOK
<1>4. FilesTypeOK' /\ FileInv' /\ ClaimInv'
  BY SiteKept, VolumesStay DEF Inv, FilesGood, FileInv
<1>5. AloneInv'
  BY DEF Inv, AloneInv
<1> QED
  BY <1>1, <1>2, <1>3, <1>4, <1>5 DEF Inv

\* The same for steps that leave the layers alone.
LEMMA KeptMounts ==
    ASSUME Inv, mnt' = mnt
    PROVE  /\ mnt' \in [Targets -> Seq(LayerRecord)]
           /\ \A t \in Targets : Among(mnt'[t], mnt[t]) /\ (Mounted(t) => Mounted(t)')
<1>1. mnt \in [Targets -> Seq(LayerRecord)]
  BY DEF Inv, HostTypeOK
<1> QED
  BY <1>1, SameAmong DEF Mounted

LEMMA FuseCrashKeepsInv == \A t \in Targets : Inv /\ FuseCrash(t) => Inv'
<1> SUFFICES ASSUME NEW t \in Targets, Inv, FuseCrash(t) PROVE Inv'
  OBVIOUS
<1>1. mnt \in [Targets -> Seq(LayerRecord)] /\ restarted \subseteq Faults
  BY DEF Inv, HostTypeOK
<1>2. PICK s \in Seq(LayerRecord) : s = mnt[t] /\ s # <<>>
  BY <1>1 DEF FuseCrash, Mounted
<1>3. PICK o : o = [s EXCEPT ![1].up = FALSE]
  OBVIOUS
<1>4. /\ DOMAIN o = DOMAIN s /\ o = [i \in DOMAIN s |-> o[i]]
      /\ \A i \in DOMAIN s : o[i] \in LayerRecord /\ o[i].secret = s[i].secret
  <2>1. \A i \in DOMAIN s : s[i] \in LayerRecord
    OBVIOUS
  <2>2. DOMAIN o = DOMAIN s /\ o = [i \in DOMAIN s |-> o[i]]
    BY <1>3
  <2>3. ASSUME NEW i \in DOMAIN s PROVE o[i] \in LayerRecord /\ o[i].secret = s[i].secret
    <3>1. o[i] = IF i = 1 THEN [s[i] EXCEPT !.up = FALSE] ELSE s[i]
      BY <1>3
    <3> QED
      BY <2>1, <3>1 DEF LayerRecord
  <2> QED
    BY <2>2, <2>3
<1>5. Among(o, s) /\ o # <<>>
  BY <1>2, <1>4, BrokenAmong
<1>6. mnt' = [mnt EXCEPT ![t] = o] /\ o \in Seq(LayerRecord)
  BY <1>2, <1>3, <1>5 DEF FuseCrash, Among
<1>7. /\ mnt' \in [Targets -> Seq(LayerRecord)]
      /\ mnt'[t] = o /\ \A u \in Targets : u # t => mnt'[u] = mnt[u]
  BY <1>1, <1>6
<1>8. \A u \in Targets : Among(mnt'[u], mnt[u]) /\ (Mounted(u) => Mounted(u)')
  BY <1>1, <1>2, <1>5, <1>7, SameAmong DEF Mounted
<1>9. Rests /\ UNCHANGED <<dir, passwd, site, lite, viper, restarted>>
  BY DEF FuseCrash, Rests, files
<1>10. CallsInv' /\ VolumesKept /\ FilesGood
  BY <1>9, RestsKeepsCalls, SameFiles DEF Inv
<1>11. Shrinks
  BY <1>7, <1>8, AmongFacts
<1>12. \A u \in Targets : AloneAt(u) => AloneAt(u)'
  BY <1>9, <1>11 DEF AloneAt, Shrinks, Rests
<1> QED
  BY <1>1, <1>7, <1>8, <1>9, <1>10, <1>12, BreakKeepsInv DEF Rests

LEMMA PodDeletedKeepsInv == \A t \in Targets : Inv /\ PodDeleted(t) => Inv'
<1> SUFFICES ASSUME NEW t \in Targets, Inv, PodDeleted(t) PROVE Inv'
  OBVIOUS
<1>1. CallsInv' /\ VolumesKept /\ KubeletIs(t, [kubelet[t] EXCEPT !.pod = FALSE])
  BY PodDeletedKeepsCalls DEF Inv
<1>2. kubelet[t] \in KubeletRecord
  BY DEF Inv, CallsInv, CallsTypeOK
<1>3. \A u \in Targets :
         /\ kubelet'[u].call = kubelet[u].call /\ kubelet'[u].answer = kubelet[u].answer
         /\ kubelet'[u].pod => kubelet[u].pod
  BY <1>1, <1>2 DEF KubeletIs, KubeletRecord
<1>4. UNCHANGED <<dir, mnt, passwd, site, lite, viper, call, job, restarted>>
  BY DEF PodDeleted, files
<1>5. \A u \in Targets : AloneAt(u) => AloneAt(u)'
  BY <1>3, <1>4 DEF AloneAt, Mounted
<1>6. FilesGood
  BY <1>4, SameFiles
<1> QED
  BY <1>1, <1>3, <1>4, <1>5, <1>6, PublishedFacts, CalmStep DEF Inv, HostTypeOK

LEMMA RemoveDirKeepsInv == \A t \in Targets : Inv /\ RemoveDir(t) => Inv'
<1> SUFFICES ASSUME NEW t \in Targets, Inv, RemoveDir(t) PROVE Inv'
  OBVIOUS
<1>1. UNCHANGED <<mnt, passwd, site, lite, viper, call, job, kubelet, restarted>>
  BY DEF RemoveDir, files
<1>2. CallsInv' /\ VolumesKept /\ FilesGood
  BY <1>1, RestsKeepsCalls, SameFiles DEF Inv, Rests
<1>3. MountInv'
  <2> SUFFICES ASSUME NEW u \in Targets PROVE MountedOK(u)'
    BY DEF MountInv
  <2>1. MountedOK(u) /\ (Mounted(u)' <=> Mounted(u))
    BY <1>1 DEF Inv, MountInv, Mounted
  <2>2. Mounted(u) => u \in dir'
    BY <2>1 DEF MountedOK, RemoveDir
  <2> QED
    BY <1>1, <2>1, <2>2 DEF MountedOK
<1>4. AloneInv'
  BY <1>1 DEF Inv, AloneInv, AloneAt, Mounted
<1>5. HostTypeOK'
  BY <1>1 DEF Inv, HostTypeOK, RemoveDir
<1>6. FilesTypeOK' /\ FileInv' /\ ClaimInv' /\ SecretInv'
  BY <1>1, <1>2, SiteKept, VolumesStay, SameSecrets DEF Inv, FilesGood, FileInv
<1> QED
  BY <1>2, <1>3, <1>4, <1>5, <1>6 DEF Inv

LEMMA KubeletRestartKeepsInv == Inv /\ KubeletRestart => Inv'
<1> SUFFICES ASSUME Inv, KubeletRestart PROVE Inv'
  OBVIOUS
<1>1. /\ CallsInv' /\ VolumesKept
      /\ \A t \in Targets : kubelet'[t].pod = kubelet[t].pod /\ kubelet'[t].answer = "none"
  BY KubeletRestartKeepsCalls DEF Inv
<1>2. UNCHANGED <<dir, mnt, passwd, site, lite, viper, job>>
  BY DEF KubeletRestart, files
<1>3. restarted' \subseteq Faults /\ ~ (restarted' \subseteq {"launcher"})
  BY DEF KubeletRestart, Inv, HostTypeOK
<1>4. FilesGood
  BY <1>2, SameFiles
<1> QED
  BY <1>1, <1>2, <1>3, <1>4, KeptMounts, BreakKeepsInv

LEMMA DriverRestartKeepsInv == Inv /\ DriverRestart => Inv'
<1> SUFFICES ASSUME Inv, DriverRestart PROVE Inv'
  OBVIOUS
<1>1. /\ CallsInv' /\ VolumesKept
      /\ \A t \in Targets : kubelet'[t].pod = kubelet[t].pod /\ kubelet'[t].answer = kubelet[t].answer
      /\ \A j \in Jobs : job'[j].pc = job[j].pc /\ job'[j].target = job[j].target
  BY DriverRestartKeepsCalls DEF Inv
<1>2. UNCHANGED <<dir, mnt, passwd, site, lite>> /\ viper' = Unset
  BY DEF DriverRestart
<1>3. restarted' \subseteq Faults /\ ~ (restarted' \subseteq {"launcher"})
  BY DEF DriverRestart, Inv, HostTypeOK
<1>4. FilesGood
  BY <1>2, UnsetFacts DEF Inv, FileInv, FilesGood, FilesTypeOK, PasswdInv, SiteInv
<1> QED
  BY <1>1, <1>2, <1>3, <1>4, KeptMounts, BreakKeepsInv

LEMMA LauncherRestartKeepsInv == Inv /\ LauncherRestart => Inv'
<1> SUFFICES ASSUME Inv, LauncherRestart PROVE Inv'
  OBVIOUS
<1>1. /\ CallsInv' /\ VolumesKept
      /\ \A j \in Jobs : job'[j] = NoJob
      /\ \A c \in Calls : call'[c] = Idle \/ (call'[c] = call[c] /\ call[c].pc # "wait")
      /\ \A t \in Targets :
            \/ kubelet'[t] = kubelet[t]
            \/ /\ kubelet[t].call # None /\ call[kubelet[t].call].pc = "wait"
               /\ kubelet'[t].answer = "none"
  BY LauncherRestartKeepsCalls DEF Inv
<1>2. UNCHANGED <<dir, passwd, site, lite, viper>>
  BY DEF LauncherRestart, files
<1>3. FilesGood
  BY <1>2, SameFiles
<1>4. restarted' \subseteq Faults /\ (restarted' \subseteq {"launcher"} => restarted \subseteq {"launcher"})
  BY DEF LauncherRestart, Inv, HostTypeOK
<1>5. \A t \in Targets : Among(mnt'[t], mnt[t]) /\ (Mounted(t) => Mounted(t)')
  <2> SUFFICES ASSUME NEW t \in Targets PROVE Among(mnt'[t], mnt[t]) /\ (Mounted(t) => Mounted(t)')
    OBVIOUS
  <2>1. PICK s \in Seq(LayerRecord) : s = mnt[t]
    BY DEF Inv, HostTypeOK
  <2>2. PICK o : o = [i \in DOMAIN s |-> [s[i] EXCEPT !.up = FALSE]]
    OBVIOUS
  <2>3. mnt'[t] = o
    BY <2>1, <2>2 DEF LauncherRestart
  <2>4. \A i \in DOMAIN s : s[i] \in LayerRecord
    OBVIOUS
  <2>5. DOMAIN o = DOMAIN s /\ o = [i \in DOMAIN s |-> o[i]]
    BY <2>2
  <2>6. \A i \in DOMAIN s : o[i] \in LayerRecord /\ o[i].secret = s[i].secret
    BY <2>2, <2>4 DEF LayerRecord
  <2>7. Among(o, s) /\ (s # <<>> => o # <<>>)
    BY <2>5, <2>6, BrokenAmong
  <2> QED
    BY <2>1, <2>3, <2>7 DEF Mounted
<1>6. mnt' \in [Targets -> Seq(LayerRecord)]
  <2>1. mnt' = [t \in Targets |-> mnt'[t]]
    BY DEF LauncherRestart
  <2>2. \A t \in Targets : mnt'[t] \in Seq(LayerRecord)
    BY <1>5 DEF Among
  <2> QED
    BY <2>1, <2>2
<1>7. Shrinks
  BY <1>5, <1>6, AmongFacts
<1>8. \A t \in Targets : AloneAt(t) => AloneAt(t)'
  <2> SUFFICES ASSUME NEW t \in Targets, AloneAt(t) PROVE AloneAt(t)'
    OBVIOUS
  <2>1. \A c \in Calls : call'[c].target = t => call'[c] = call[c] /\ call[c].pc # "wait"
    BY <1>1, ConstantFacts
  <2>2. \A c \in Calls : call'[c].target = t => kubelet'[t].call = c
    BY <1>1, <2>1 DEF AloneAt
  <2>3. \A j \in Jobs : job'[j].target # t
    BY <1>1, ConstantFacts
  <2>4. kubelet'[t].answer = "unpublished" => kubelet[t].answer = "unpublished"
    BY <1>1
  <2> QED
    BY <1>7, <2>1, <2>2, <2>3, <2>4 DEF AloneAt, Shrinks
<1>9. \A t \in Targets : kubelet'[t].pod => kubelet[t].pod
  BY DEF LauncherRestart, Inv, CallsInv, CallsTypeOK, KubeletRecord
<1>10. \A t \in Targets : kubelet'[t].answer = "published" => kubelet[t].answer = "published"
  BY <1>1
<1>11. \A j \in Jobs : job'[j].pc # "clean"
  BY <1>1, ConstantFacts
<1> QED
  BY <1>1, <1>2, <1>3, <1>4, <1>5, <1>6, <1>8, <1>9, <1>10, <1>11, BreakKeepsInv

-----------------------------------------------------------------------------
(* The invariant is inductive.                                              *)

LEMMA InitInv == Init => Inv
<1> SUFFICES ASSUME Init PROVE Inv
  OBVIOUS
<1>1. /\ dir = {} /\ restarted = {} /\ mnt = [t \in Targets |-> <<>>]
      /\ call = [c \in Calls |-> Idle] /\ job = [j \in Jobs |-> NoJob]
  BY DEF Init
<1>2. PICK claim \in Claims :
          kubelet = [t \in Targets |-> [pod |-> TRUE, volume |-> claim[t], call |-> None,
                                         answer |-> "none", tried |-> FALSE]]
  BY DEF Init
<1>3. \A t \in Targets : claim[t] \in Volumes
  BY ConstantsAssumption
<1>4. /\ kubelet \in [Targets -> KubeletRecord]
      /\ \A t \in Targets : kubelet[t].pod /\ kubelet[t].call = None /\ kubelet[t].answer = "none"
                            /\ kubelet[t].volume = claim[t]
  BY <1>2, <1>3 DEF KubeletRecord, Answers
<1>5. HostTypeOK
  BY <1>1 DEF HostTypeOK
<1>6. CallsTypeOK
  BY <1>1, <1>4, ConstantFacts DEF CallsTypeOK
<1>7. /\ \A c \in Calls : call[c].pc = "idle" /\ call[c].target = None
      /\ \A j \in Jobs : job[j].pc = "done" /\ job[j].target = None /\ job[j].for = None
  BY <1>1, ConstantFacts
<1>8. WaitInv
  <2>1. \A c \in Calls : CallOK(c)
    BY <1>7 DEF CallOK, DriverSteps
  <2>2. \A j \in Jobs : JobOK(j)
    BY <1>7 DEF JobOK, PublishJobs, UnpublishJobs
  <2>3. OwnJob
    BY <1>7 DEF OwnJob
  <2>4. \A t \in Targets : KubeletOK(t)
    BY <1>4, <1>7 DEF KubeletOK
  <2> QED
    BY <2>1, <2>2, <2>3, <2>4 DEF WaitInv
<1>9. \A t \in Targets : ~ Mounted(t) /\ Len(mnt[t]) <= 1 /\ DOMAIN mnt[t] = {}
  <2>1. Len(<<>>) <= 1 /\ DOMAIN <<>> = {}
    OBVIOUS
  <2> QED
    BY <1>1, <2>1 DEF Mounted
<1>10. MountInv
  BY <1>4, <1>7, <1>9 DEF MountInv, MountedOK
<1>11. AloneInv
  BY <1>4, <1>7, <1>9, ConstantFacts DEF AloneInv, AloneAt
<1>12. FilesTypeOK
  <2>1. NoPasswd \in [PasswdNames -> Secrets \cup {"none", "empty"}]
    BY DEF NoPasswd
  <2> QED
    BY <2>1, UnsetFacts DEF Init, FilesTypeOK
<1>13. FileInv
  <2>1. \A v \in Volumes : NoPasswd[PasswdName(v)] = "none"
    BY DEF NoPasswd, PasswdNames
  <2>2. PasswdInv
    BY <2>1 DEF Init, PasswdInv
  <2>3. SiteInv
    BY ConstantFacts DEF Init, SiteInv
  <2> QED
    BY <2>2, <2>3 DEF FileInv
<1>14. ClaimInv
  BY <1>4 DEF ClaimInv, VolumeOf
<1>15. SecretInv
  BY <1>9 DEF SecretInv
<1> QED
  BY <1>5, <1>6, <1>8, <1>10, <1>11, <1>12, <1>13, <1>14, <1>15 DEF Inv, CallsInv

LEMMA StutterKeepsInv == Inv /\ UNCHANGED vars => Inv'
<1> SUFFICES ASSUME Inv, UNCHANGED vars PROVE Inv'
  OBVIOUS
<1>1. /\ dir' = dir /\ mnt' = mnt /\ restarted' = restarted
      /\ call' = call /\ job' = job /\ kubelet' = kubelet
      /\ passwd' = passwd /\ site' = site /\ lite' = lite /\ viper' = viper
  BY DEF vars
<1>2. CallsInv' /\ VolumesKept
  BY <1>1, RestsKeepsCalls DEF Inv, Rests
<1>3. FilesGood
  BY <1>1, SameFiles
<1>4. \A t \in Targets : AloneAt(t) => AloneAt(t)'
  BY <1>1 DEF AloneAt, Mounted
<1>5. dir \subseteq dir' /\ dir' \subseteq Targets
  BY <1>1 DEF Inv, HostTypeOK
<1> QED
  BY <1>1, <1>2, <1>3, <1>4, <1>5, PublishedFacts, CalmStep

LEMMA StepKeepsInv == \A c \in Calls : Inv /\ Step(c) => Inv'
BY StatPasswdKeepsInv, OpenPasswdKeepsInv, WritePasswdKeepsInv, OpenCoreSiteKeepsInv,
   WriteCoreSiteKeepsInv, SetPropertiesKeepsInv, WritePropertiesKeepsInv, LaunchKeepsInv
   DEF Step

LEMMA ServeKeepsInv == \A j \in Jobs : Inv /\ Serve(j) => Inv'
BY createHandlerKeepsInv, MountCommandKeepsInv, RemoveConfigKeepsInv, UmountCheckKeepsInv,
   UmountCommandKeepsInv DEF Serve

LEMMA NextKeepsInv == Inv /\ [Next]_vars => Inv'
<1>1. \A t \in Targets : Inv /\ (Publish(t) \/ Unpublish(t)) => Inv'
  BY NodePublishVolumeKeepsInv, NodeUnpublishVolumeKeepsInv DEF Publish, Unpublish
<1>2. \A t \in Targets : Inv /\ (PodDeleted(t) \/ RemoveDir(t) \/ FuseCrash(t)) => Inv'
  BY PodDeletedKeepsInv, RemoveDirKeepsInv, FuseCrashKeepsInv
<1>3. Inv /\ (KubeletRestart \/ DriverRestart \/ LauncherRestart) => Inv'
  BY KubeletRestartKeepsInv, DriverRestartKeepsInv, LauncherRestartKeepsInv
<1> QED
  BY <1>1, <1>2, <1>3, StepKeepsInv, ServeKeepsInv, StutterKeepsInv DEF Next

(***************************************************************************)
(* The invariant holds whatever fails and whoever starts anew.             *)
(***************************************************************************)
THEOREM Invariance == Spec => []Inv
BY InitInv, NextKeepsInv, PTL DEF Spec

LEMMA StateTypeOK == Inv => TypeOK
<1> SUFFICES ASSUME Inv PROVE TypeOK
  OBVIOUS
<1>1. dir \subseteq Targets /\ restarted \subseteq Faults
  BY DEF Inv, HostTypeOK
<1>2. \A t \in Targets : Mounted(t) => t \in dir
  BY DEF Inv, MountInv, MountedOK
<1>3. /\ passwd \in [Pods -> [PasswdNames -> Secrets \cup {"none", "empty"}]]
      /\ \A p \in Pods : site[p] \in Volumes \cup {"empty", None}
  BY DEF Inv, FilesTypeOK
<1>4. CallsTypeOK /\ WaitInv
  BY DEF Inv, CallsInv
<1>5. \A c \in Calls :
          /\ call[c].pc \in {"idle", "stat", "open", "write", "viper", "save", "launch", "wait"}
          /\ call[c].pc = "wait" => \E j \in Jobs : job[j].for = c
  BY <1>4 DEF CallsTypeOK, CallRecord, DriverSteps, WaitInv, CallOK
<1>6. \A j \in Jobs :
          /\ job[j].pc \in {"done", "create", "mount", "clean", "check", "umount"}
          /\ job[j].for # None => call[job[j].for] = [pc |-> "wait", target |-> job[j].target]
  BY <1>4 DEF CallsTypeOK, JobRecord, PublishJobs, UnpublishJobs, WaitInv, JobOK
<1>7. \A t \in Targets : kubelet[t].call # None => call[kubelet[t].call].target = t
  BY <1>4 DEF WaitInv, KubeletOK
<1> QED
  BY <1>1, <1>2, <1>3, <1>5, <1>6, <1>7 DEF TypeOK

(***************************************************************************)
(* The variables have their types, a call that waits has a request of the  *)
(* launcher that will answer it, and a mount point is a directory.         *)
(***************************************************************************)
THEOREM TypeCorrect == Spec => []TypeOK
BY Invariance, StateTypeOK, PTL

\* What kubelet was told is so.
AnswersAreTrue ==
    \A t \in Targets :
        /\ kubelet[t].answer = "published" => Mounted(t)
        /\ kubelet[t].answer = "unpublished" /\ restarted \subseteq {"launcher"} => ~Mounted(t)

(***************************************************************************)
(* What kubelet was told is so: a volume answered as published is mounted, *)
(* also when a call that kubelet forgot goes on in the launcher, and after *)
(* an answered NodeUnpublishVolume nothing is mounted, unless kubelet or   *)
(* the driver started anew.                                                *)
(***************************************************************************)
THEOREM AnswersHold == Spec => []AnswersAreTrue
<1>1. Inv => AnswersAreTrue
  BY DEF Inv, MountInv, MountedOK, AloneInv, AloneAt, AnswersAreTrue
<1> QED
  BY <1>1, Invariance, PTL

(***************************************************************************)
(* While nobody but the launcher started anew, there is never a second     *)
(* file system on top of the first: createHandler answers for the one that *)
(* is there, and no other request for the target runs.                     *)
(***************************************************************************)
THEOREM MountedOnce ==
    Spec => [](restarted \subseteq {"launcher"} => \A t \in Targets : Len(mnt[t]) <= 1)
<1>1. Inv => (restarted \subseteq {"launcher"} => \A t \in Targets : Len(mnt[t]) <= 1)
  BY DEF Inv, AloneInv, AloneAt
<1> QED
  BY <1>1, Invariance, PTL

(***************************************************************************)
(* The secret of a mount, for any volumes: cosfs has the one of its own    *)
(* volume, whichever of the volumes of the pod writes and removes password *)
(* files (createCosfsPasswdFile names them by their content); goosefs-lite *)
(* has the one of a goosefs-lite volume of the same pod, which need not be *)
(* its own (createCoreSiteXml).                                            *)
(***************************************************************************)
THEOREM SecretOfPod == Spec => []SecretInv
<1>1. Inv => SecretInv
  BY DEF Inv
<1> QED
  BY <1>1, Invariance, PTL

\* No pod has two goosefs-lite volumes with different secrets.
GoosefsApart ==
    \A claim \in Claims : \A t, u \in Targets :
        PodOf[t] = PodOf[u] /\ Mounter(claim[t]) = "goosefs-lite" /\ Mounter(claim[u]) = "goosefs-lite"
        => Options[claim[t]].secret = Options[claim[u]].secret

LEMMA ApartOwnSecret == GoosefsApart /\ Inv => OwnSecret
<1> SUFFICES ASSUME GoosefsApart, Inv, NEW t \in Targets, NEW i \in DOMAIN mnt[t]
             PROVE  mnt[t][i].secret = Options[VolumeOf(t)].secret
  BY DEF OwnSecret
<1>1. PICK claim \in Claims : \A u \in Targets : VolumeOf(u) = claim[u]
  BY DEF Inv, ClaimInv
<1>2. PICK s : s = mnt[t][i].secret
  OBVIOUS
<1>3. MayUse(t, s) /\ (Mounted(t) => Publishable(t))
  BY <1>2 DEF Inv, SecretInv
<1>4. Mounted(t)
  BY DEF Mounted
<1>5. CASE Mounter(VolumeOf(t)) = "cosfs"
  BY <1>2, <1>3, <1>5 DEF MayUse
<1>6. CASE Mounter(VolumeOf(t)) = "goosefs-lite"
  <2>1. PICK u \in Targets : /\ PodOf[u] = PodOf[t] /\ Mounter(VolumeOf(u)) = "goosefs-lite"
                             /\ s = Options[VolumeOf(u)].secret
    BY <1>3, <1>6 DEF MayUse, OfPod
  <2>2. Options[claim[u]].secret = Options[claim[t]].secret
    BY <1>1, <1>6, <2>1 DEF GoosefsApart
  <2> QED
    BY <1>1, <1>2, <2>1, <2>2
<1> QED
  BY <1>3, <1>4, <1>5, <1>6 DEF Publishable

(***************************************************************************)
(* If no pod has two goosefs-lite volumes with different secrets, every    *)
(* volume is mounted with its own secret, whoever fails or starts anew     *)
(* while the files are written, read and removed.  Nothing is asked of the *)
(* cosfs volumes.                                                          *)
(***************************************************************************)
THEOREM OwnSecretHolds == GoosefsApart => (Spec => []OwnSecret)
<1> SUFFICES ASSUME GoosefsApart PROVE Spec => []OwnSecret
  OBVIOUS
<1>1. Inv => OwnSecret
  BY ApartOwnSecret
<1> QED
  BY <1>1, Invariance, PTL

-----------------------------------------------------------------------------
(* The driver and the launcher implement PodMount.                          *)

\* What PodMount knows of a target stays.
AnswerKept(t) == Told(t)' = Told(t) /\ (kubelet'[t].pod <=> kubelet[t].pod)
Kept(t) == AnswerKept(t) /\ (Mounted(t)' <=> Mounted(t))

\* One target changes as PodMount allows.  That what is told of it is so afterwards
\* is in the invariant.
ChangesAt(t) ==
    \/ AnswerKept(t) /\ (Mounted(t) /\ ~ Mounted(t)' => ~ kubelet[t].pod)
    \/ /\ (kubelet'[t].pod <=> kubelet[t].pod) /\ Told(t)' = "none" /\ (Mounted(t)' <=> Mounted(t))
    \/ /\ kubelet[t].pod /\ kubelet'[t].pod /\ Told(t)' = "published" /\ (Mounted(t)' <=> Mounted(t))
    \/ /\ ~ kubelet[t].pod /\ ~ kubelet'[t].pod /\ Told(t) # "published" /\ Told(t)' = "unpublished"
    \/ Told(t)' = Told(t) /\ ~ kubelet'[t].pod /\ (Mounted(t)' <=> Mounted(t))

Wanted == {t \in Targets : kubelet[t].pod}
MountPoints == {t \in Targets : Mounted(t)}
AllTold == [t \in Targets |-> Told(t)]

LEMMA PodActions ==
    /\ UNCHANGED <<Wanted, MountPoints, AllTold>> => UNCHANGED Pod!vars
    /\ \A t : Pod!Mount(t) <=>
          /\ AllTold[t] # "unpublished" /\ MountPoints' = MountPoints \cup {t}
          /\ Wanted' = Wanted /\ AllTold' = AllTold
    /\ \A t : Pod!Published(t) <=>
          /\ t \in Wanted \cap MountPoints /\ AllTold' = [AllTold EXCEPT ![t] = "published"]
          /\ Wanted' = Wanted /\ MountPoints' = MountPoints
    /\ \A t : Pod!Deleted(t) <=>
          Wanted' = Wanted \ {t} /\ MountPoints' = MountPoints /\ AllTold' = AllTold
    /\ \A t : Pod!Unmount(t) <=>
          /\ t \notin Wanted /\ AllTold[t] # "published" /\ MountPoints' = MountPoints \ {t}
          /\ AllTold' \in {AllTold, [AllTold EXCEPT ![t] = "unpublished"]}
          /\ Wanted' = Wanted
    /\ \A F : Pod!Forget(F) <=>
          /\ AllTold' = [t \in Targets |-> IF t \in F THEN "none" ELSE AllTold[t]]
          /\ Wanted' = Wanted /\ MountPoints' = MountPoints
BY DEF Pod!vars, Pod!Mount, Pod!Published, Pod!Deleted, Pod!Unmount, Pod!Forget,
       Wanted, MountPoints, AllTold

LEMMA ToldAfter ==
    ASSUME Inv', NEW t \in Targets
    PROVE  /\ Told(t)' = "published" => Mounted(t)'
           /\ Told(t)' = "unpublished" => ~ Mounted(t)'
BY DEF Inv, MountInv, MountedOK, AloneInv, AloneAt, Told

LEMMA KeptPod ==
    ASSUME \A t \in Targets : Kept(t)
    PROVE  UNCHANGED Pod!vars
<1>1. AllTold' = AllTold
  BY DEF AllTold, Kept, AnswerKept
<1>2. Wanted' = Wanted /\ MountPoints' = MountPoints
  BY DEF Wanted, MountPoints, Kept, AnswerKept
<1> QED
  BY <1>1, <1>2, PodActions

\* Answers are only forgotten, at any number of targets.
LEMMA ForgetPod ==
    ASSUME \A t \in Targets :
             /\ kubelet'[t].pod <=> kubelet[t].pod
             /\ Mounted(t)' <=> Mounted(t)
             /\ Told(t)' \in {Told(t), "none"}
    PROVE  Pod!Next
<1> DEFINE F == {t \in Targets : Told(t)' = "none"}
<1>1. AllTold' = [t \in Targets |-> IF t \in F THEN "none" ELSE AllTold[t]]
  BY DEF AllTold
<1>2. Wanted' = Wanted /\ MountPoints' = MountPoints
  BY DEF Wanted, MountPoints
<1>3. Pod!Forget(F)
  BY <1>1, <1>2, PodActions
<1> QED
  BY <1>3 DEF Pod!Next

LEMMA TargetPod ==
    ASSUME Inv', NEW u \in Targets, \A t \in Targets : t # u => Kept(t), ChangesAt(u)
    PROVE  [Pod!Next]_(Pod!vars)
<1>1. \A t \in Targets : t # u =>
         Told(t)' = Told(t) /\ (kubelet'[t].pod <=> kubelet[t].pod) /\ (Mounted(t)' <=> Mounted(t))
  BY DEF Kept, AnswerKept
<1>2. /\ Told(u)' = "published" => Mounted(u)'
      /\ Told(u)' = "unpublished" => ~ Mounted(u)'
  BY ToldAfter
<1>3. CASE AnswerKept(u) /\ (Mounted(u) /\ ~ Mounted(u)' => ~ kubelet[u].pod)
  <2>1. AllTold' = AllTold /\ Wanted' = Wanted
    BY <1>1, <1>3 DEF AllTold, Wanted, AnswerKept
  <2>2. AllTold[u] = Told(u) /\ AllTold[u] = Told(u)'
    BY <1>3 DEF AllTold, AnswerKept
  <2>3. CASE Mounted(u)'
    <3>1. MountPoints' = MountPoints \cup {u}
      BY <1>1, <2>3 DEF MountPoints
    <3>2. Pod!Mount(u)
      BY <1>2, <2>1, <2>2, <2>3, <3>1, PodActions
    <3> QED
      BY <3>2 DEF Pod!Next
  <2>4. CASE ~ Mounted(u)' /\ ~ Mounted(u)
    <3>1. MountPoints' = MountPoints
      BY <1>1, <2>4 DEF MountPoints
    <3> QED
      BY <2>1, <3>1, PodActions
  <2>5. CASE ~ Mounted(u)' /\ Mounted(u)
    <3>1. MountPoints' = MountPoints \ {u}
      BY <1>1, <2>5 DEF MountPoints
    <3>2. u \notin Wanted
      BY <1>3, <2>5 DEF Wanted
    <3>3. Pod!Unmount(u)
      BY <1>2, <2>1, <2>2, <2>5, <3>1, <3>2, PodActions
    <3> QED
      BY <3>3 DEF Pod!Next
  <2> QED
    BY <2>3, <2>4, <2>5
<1>4. CASE /\ (kubelet'[u].pod <=> kubelet[u].pod) /\ Told(u)' = "none" /\ (Mounted(u)' <=> Mounted(u))
  BY <1>1, <1>4, ForgetPod
<1>5. CASE /\ kubelet[u].pod /\ kubelet'[u].pod /\ Told(u)' = "published" /\ (Mounted(u)' <=> Mounted(u))
  <2>1. AllTold' = [AllTold EXCEPT ![u] = "published"]
    BY <1>1, <1>5 DEF AllTold
  <2>2. Wanted' = Wanted /\ MountPoints' = MountPoints
    BY <1>1, <1>5 DEF Wanted, MountPoints
  <2>3. u \in Wanted \cap MountPoints
    BY <1>2, <1>5 DEF Wanted, MountPoints
  <2>4. Pod!Published(u)
    BY <2>1, <2>2, <2>3, PodActions
  <2> QED
    BY <2>4 DEF Pod!Next
<1>6. CASE /\ ~ kubelet[u].pod /\ ~ kubelet'[u].pod /\ Told(u) # "published" /\ Told(u)' = "unpublished"
  <2>1. AllTold' = [AllTold EXCEPT ![u] = "unpublished"]
    BY <1>1, <1>6 DEF AllTold
  <2>2. Wanted' = Wanted /\ u \notin Wanted /\ AllTold[u] # "published"
    BY <1>1, <1>6 DEF Wanted, AllTold
  <2>3. MountPoints' = MountPoints \ {u}
    BY <1>1, <1>2, <1>6 DEF MountPoints
  <2>4. Pod!Unmount(u)
    BY <2>1, <2>2, <2>3, PodActions
  <2> QED
    BY <2>4 DEF Pod!Next
<1>7. CASE Told(u)' = Told(u) /\ ~ kubelet'[u].pod /\ (Mounted(u)' <=> Mounted(u))
  <2>1. AllTold' = AllTold /\ MountPoints' = MountPoints
    BY <1>1, <1>7 DEF AllTold, MountPoints
  <2>2. Wanted' = Wanted \ {u}
    BY <1>1, <1>7 DEF Wanted
  <2>3. Pod!Deleted(u)
    BY <2>1, <2>2, PodActions
  <2> QED
    BY <2>3 DEF Pod!Next
<1> QED
  BY <1>3, <1>4, <1>5, <1>6, <1>7 DEF ChangesAt

\* While nobody starts anew, a target with the same answer keeps what was told.
LEMMA SameTold ==
    ASSUME restarted' = restarted, NEW t \in Targets, kubelet'[t].answer = kubelet[t].answer
    PROVE  Told(t)' = Told(t)
BY DEF Told

LEMMA QuietPod ==
    ASSUME UNCHANGED <<mnt, restarted>>, kubelet' = kubelet
    PROVE  [Pod!Next]_(Pod!vars)
<1>1. \A t \in Targets : Kept(t)
  BY SameTold DEF Kept, AnswerKept, Mounted
<1> QED
  BY <1>1, KeptPod

\* Answers "none", to a call or to a request, tell nothing.
LEMMA NonePod ==
    ASSUME UNCHANGED <<mnt, restarted>>,
           \A t \in Targets :
               /\ kubelet'[t].pod = kubelet[t].pod
               /\ kubelet'[t].answer # kubelet[t].answer => kubelet'[t].answer = "none"
    PROVE  [Pod!Next]_(Pod!vars)
<1>1. \A t \in Targets : Told(t)' \in {Told(t), "none"}
  BY SameTold DEF Told
<1>2. \A t \in Targets : (kubelet'[t].pod <=> kubelet[t].pod) /\ (Mounted(t)' <=> Mounted(t))
  BY DEF Mounted
<1> QED
  BY <1>1, <1>2, ForgetPod

LEMMA ReplyPod ==
    ASSUME Inv, NEW c \in Calls, call[c].pc \in DriverSteps, Reply(c, "none"), UNCHANGED <<mnt, restarted>>
    PROVE  [Pod!Next]_(Pod!vars)
<1>1. CallsInv /\ call[c].target \in Targets /\ "none" \in Answers
  BY RunningFacts DEF Inv, Answers
<1>2. Ends(c, "none")
  BY <1>1, ReplyEnds DEF CallsInv
<1> QED
  BY <1>1, <1>2, EndsAnswers, NonePod

\* The steps of the driver tell nothing new and mount nothing.
LEMMA StepPod == \A c \in Calls : Inv /\ Step(c) => [Pod!Next]_(Pod!vars)
<1> SUFFICES ASSUME NEW c \in Calls, Inv, Step(c) PROVE [Pod!Next]_(Pod!vars)
  OBVIOUS
<1>1. CASE StatPasswd(c) \/ SetProperties(c)
  <2>1. UNCHANGED <<mnt, restarted>> /\ kubelet' = kubelet
    BY <1>1 DEF StatPasswd, SetProperties, Goto
  <2> QED
    BY <2>1, QuietPod
<1>2. CASE OpenPasswd(c) \/ WritePasswd(c) \/ OpenCoreSite(c) \/ WriteCoreSite(c) \/ WriteProperties(c)
  <2>1. UNCHANGED <<mnt, restarted>> /\ call[c].pc \in DriverSteps
    BY <1>2 DEF OpenPasswd, WritePasswd, OpenCoreSite, WriteCoreSite, WriteProperties, Driver, DriverSteps
  <2>2. kubelet' = kubelet \/ Reply(c, "none")
    BY <1>2 DEF OpenPasswd, WritePasswd, OpenCoreSite, WriteCoreSite, WriteProperties, Goto
  <2> QED
    BY <2>1, <2>2, QuietPod, ReplyPod
<1>3. CASE \E j \in Jobs : Launch(c, j)
  <2>1. UNCHANGED <<mnt, restarted>> /\ kubelet' = kubelet
    BY <1>3 DEF Launch, Goto
  <2> QED
    BY <2>1, QuietPod
<1> QED
  BY <1>1, <1>2, <1>3 DEF Step

\* A new call clears the answer of its target.
LEMMA AskPod ==
    ASSUME Inv, NEW c \in Calls, NEW t \in Targets, Asks(c, t), UNCHANGED <<mnt, restarted>>
    PROVE  [Pod!Next]_(Pod!vars)
<1>1. kubelet \in [Targets -> KubeletRecord]
  BY DEF Inv, CallsInv, CallsTypeOK
<1>2. \A u \in Targets :
         /\ kubelet'[u].pod = kubelet[u].pod
         /\ kubelet'[u].answer # kubelet[u].answer => kubelet'[u].answer = "none"
  BY <1>1 DEF Asks, Request, KubeletRecord
<1> QED
  BY <1>2, NonePod

LEMMA RequestPod == \A t \in Targets : Inv /\ (Publish(t) \/ Unpublish(t)) => [Pod!Next]_(Pod!vars)
BY AskPod DEF Publish, Unpublish, NodePublishVolume, NodeUnpublishVolume, Asks

\* The launcher answers without touching a mount.
LEMMA RespondPod ==
    ASSUME Inv, Inv', NEW j \in Jobs, NEW a \in Answers, job[j].pc # "done", Respond(j, a),
           UNCHANGED <<mnt, restarted>>,
           a = "published" => job[j].pc \in PublishJobs,
           a = "unpublished" => job[j].pc \in UnpublishJobs
    PROVE  [Pod!Next]_(Pod!vars)
<1>1. CallsInv /\ JobOK(j)
  BY DEF Inv, CallsInv, WaitInv
<1>2. PICK u \in Targets : u = job[j].target
  BY <1>1, RunningJob DEF CallsInv
<1>3. Responds(j, a)
  BY <1>1, RespondResponds
<1>4. /\ \A t \in Targets : kubelet'[t].pod = kubelet[t].pod
      /\ \A t \in Targets : kubelet'[t].answer # kubelet[t].answer =>
            /\ t = u /\ kubelet'[t].answer = a
            /\ ~ kubelet[t].pod => job[j].pc \in UnpublishJobs
  BY <1>1, <1>2, <1>3, RespondsFrame
<1>5. \A t \in Targets : t # u => Kept(t)
  BY <1>4, SameTold DEF Kept, AnswerKept, Mounted
<1>6. CASE kubelet'[u].answer = kubelet[u].answer
  <2>1. Kept(u)
    BY <1>4, <1>6, SameTold DEF Kept, AnswerKept, Mounted
  <2> QED
    BY <1>5, <2>1, KeptPod
<1>7. CASE kubelet'[u].answer # kubelet[u].answer
  <2>1. kubelet'[u].answer = a /\ (~ kubelet[u].pod => job[j].pc \in UnpublishJobs)
    BY <1>4, <1>7
  <2>2. kubelet'[u].pod = kubelet[u].pod /\ (Mounted(u)' <=> Mounted(u))
    BY <1>4 DEF Mounted
  <2>3. CASE Told(u)' = "none"
    BY <1>5, <2>2, <2>3, TargetPod DEF ChangesAt
  <2>4. CASE a = "published"
    <3>1. kubelet[u].pod
      BY <2>1, <2>4 DEF PublishJobs, UnpublishJobs
    <3>2. Told(u)' = "published"
      BY <2>1, <2>4 DEF Told
    <3> QED
      BY <1>5, <2>2, <3>1, <3>2, TargetPod DEF ChangesAt
  <2>5. CASE a = "unpublished" /\ Told(u)' # "none"
    <3>1. ~ kubelet[u].pod /\ kubelet[u].answer # "published"
      BY <1>1, <1>2, <2>5 DEF JobOK
    <3>2. Told(u)' = "unpublished" /\ Told(u) # "published"
      BY <2>1, <2>5, <3>1 DEF Told
    <3> QED
      BY <1>5, <2>2, <3>1, <3>2, TargetPod DEF ChangesAt
  <2>6. a = "none" => Told(u)' = "none"
    BY <2>1 DEF Told
  <2> QED
    BY <2>3, <2>4, <2>5, <2>6 DEF Answers
<1> QED
  BY <1>6, <1>7

LEMMA MountPod == \A j \in Jobs : Inv /\ Inv' /\ MountCommand(j) => [Pod!Next]_(Pod!vars)
<1> SUFFICES ASSUME NEW j \in Jobs, Inv, Inv', MountCommand(j) PROVE [Pod!Next]_(Pod!vars)
  OBVIOUS
<1>1. job[j].pc = "mount" /\ restarted' = restarted
  BY DEF MountCommand
<1>2. CASE Respond(j, "none") /\ UNCHANGED mnt
  BY <1>1, <1>2, RespondPod DEF Answers
<1>3. CASE mnt' = [mnt EXCEPT ![job[j].target] = <<Layer(job[j].target)>> \o @] /\ kubelet' = kubelet
  <2>1. JobOK(j) /\ CallsTypeOK /\ mnt \in [Targets -> Seq(LayerRecord)]
    BY DEF Inv, CallsInv, WaitInv, HostTypeOK
  <2>2. PICK u \in Targets : u = job[j].target
    BY <1>1, <2>1, RunningJob
  <2>3. \A t \in Targets : AnswerKept(t)
    BY <1>1, <1>3, SameTold DEF AnswerKept
  <2>4. \A t \in Targets : t # u => mnt'[t] = mnt[t]
    BY <1>3, <2>1, <2>2
  <2>5. \A t \in Targets : t # u => Kept(t)
    BY <2>3, <2>4 DEF Kept, Mounted
  <2>6. Mounted(u)'
    <3>1. /\ Publishable(u) /\ Usable(u)
          /\ mnt' = [mnt EXCEPT ![u] = <<Layer(u)>> \o @]
      BY <1>1, <1>3, <2>1, <2>2 DEF JobOK, PublishJobs, MountCommand
    <3>2. Layer(u) \in LayerRecord
      BY <3>1, LayerFacts
    <3>3. mnt'[u] = <<Layer(u)>> \o mnt[u] /\ mnt[u] \in Seq(LayerRecord)
      BY <2>1, <3>1
    <3> QED
      BY <3>2, <3>3, ConsFacts DEF Mounted
  <2> QED
    BY <2>3, <2>5, <2>6, TargetPod DEF ChangesAt
<1> QED
  BY <1>2, <1>3 DEF MountCommand

\* A request to unmount, also one that was left behind, is for a pod that is deleted.
LEMMA UmountPod == \A j \in Jobs : Inv /\ Inv' /\ UmountCommand(j) => [Pod!Next]_(Pod!vars)
<1> SUFFICES ASSUME NEW j \in Jobs, Inv, Inv', UmountCommand(j) PROVE [Pod!Next]_(Pod!vars)
  OBVIOUS
<1>1. job[j].pc = "umount" /\ restarted' = restarted
  BY DEF UmountCommand
<1>2. CASE Respond(j, "none") /\ UNCHANGED mnt
  BY <1>1, <1>2, RespondPod DEF Answers
<1>3. CASE mnt' = [mnt EXCEPT ![job[j].target] = Tail(@)] /\ Respond(j, "unpublished")
  <2>1. JobOK(j) /\ CallsInv /\ mnt \in [Targets -> Seq(LayerRecord)] /\ "unpublished" \in Answers
    BY DEF Inv, CallsInv, WaitInv, HostTypeOK, Answers
  <2>2. PICK u \in Targets : u = job[j].target
    BY <1>1, <2>1, RunningJob DEF CallsInv
  <2>3. ~ kubelet[u].pod /\ kubelet[u].answer # "published"
    BY <1>1, <2>1, <2>2 DEF JobOK, UnpublishJobs
  <2>4. \A t \in Targets : t # u => mnt'[t] = mnt[t]
    BY <1>3, <2>1, <2>2
  <2>5. /\ \A t \in Targets : kubelet'[t].pod = kubelet[t].pod
        /\ \A t \in Targets : kubelet'[t].answer # kubelet[t].answer => t = u /\ kubelet'[t].answer = "unpublished"
    BY <1>1, <1>3, <2>1, <2>2, RespondResponds, RespondsFrame
  <2>6. \A t \in Targets : t # u => Kept(t)
    BY <1>1, <2>4, <2>5, SameTold DEF Kept, AnswerKept, Mounted
  <2>7. CASE Told(u)' = Told(u)
    <3>1. AnswerKept(u)
      BY <2>5, <2>7 DEF AnswerKept
    <3> QED
      BY <2>3, <2>6, <3>1, TargetPod DEF ChangesAt
  <2>8. CASE Told(u)' # Told(u)
    <3>1. kubelet'[u].answer = "unpublished"
      BY <1>1, <2>5, <2>8, SameTold
    <3>2. CASE restarted \subseteq {"launcher"}
      <4>1. Told(u)' = "unpublished" /\ Told(u) # "published"
        BY <1>1, <2>3, <3>1, <3>2 DEF Told
      <4>2. ~ kubelet'[u].pod
        BY <2>3, <2>5
      <4> QED
        BY <2>3, <2>6, <4>1, <4>2, TargetPod DEF ChangesAt
    <3>3. CASE ~ (restarted \subseteq {"launcher"})
      <4>1. Told(u)' = "none" /\ Told(u) = "none"
        <5>1. kubelet[u] \in KubeletRecord
          BY <2>1 DEF CallsInv, CallsTypeOK
        <5> QED
          BY <1>1, <2>3, <3>1, <3>3, <5>1 DEF Told, KubeletRecord, Answers
      <4> QED
        BY <2>8, <4>1
    <3> QED
      BY <3>2, <3>3
  <2> QED
    BY <2>7, <2>8
<1> QED
  BY <1>2, <1>3 DEF UmountCommand

LEMMA ServePod == \A j \in Jobs : Inv /\ Inv' /\ Serve(j) => [Pod!Next]_(Pod!vars)
<1> SUFFICES ASSUME NEW j \in Jobs, Inv, Inv', Serve(j) PROVE [Pod!Next]_(Pod!vars)
  OBVIOUS
<1>1. "none" \in Answers /\ "published" \in Answers /\ "unpublished" \in Answers
  BY DEF Answers
<1>2. CASE createHandler(j)
  <2>1. job[j].pc = "create" /\ UNCHANGED <<mnt, restarted>>
    BY <1>2 DEF createHandler
  <2>2. Respond(j, "none") \/ Respond(j, "published") \/ kubelet' = kubelet
    BY <1>2 DEF createHandler, Created, Goto
  <2> QED
    BY <1>1, <2>1, <2>2, RespondPod, QuietPod DEF PublishJobs
<1>3. CASE RemoveConfig(j)
  <2>1. job[j].pc = "clean" /\ UNCHANGED <<mnt, restarted>> /\ Respond(j, "published")
    BY <1>3 DEF RemoveConfig
  <2> QED
    BY <1>1, <2>1, RespondPod DEF PublishJobs
<1>4. CASE UmountCheck(j)
  <2>1. job[j].pc = "check" /\ UNCHANGED <<mnt, restarted>>
    BY <1>4 DEF UmountCheck
  <2>2. Respond(j, "none") \/ Respond(j, "unpublished") \/ kubelet' = kubelet
    BY <1>4 DEF UmountCheck
  <2> QED
    BY <1>1, <2>1, <2>2, RespondPod, QuietPod DEF UnpublishJobs
<1> QED
  BY <1>2, <1>3, <1>4, MountPod, UmountPod DEF Serve

\* The file system processes end, all of them with the launcher: the mount points stay.
LEMMA CrashPod == \A t \in Targets : Inv /\ FuseCrash(t) => [Pod!Next]_(Pod!vars)
<1> SUFFICES ASSUME NEW t \in Targets, Inv, FuseCrash(t) PROVE [Pod!Next]_(Pod!vars)
  OBVIOUS
<1>1. mnt \in [Targets -> Seq(LayerRecord)] /\ kubelet' = kubelet /\ restarted' = restarted
  BY DEF Inv, HostTypeOK, FuseCrash
<1>2. Mounted(t)' /\ Mounted(t)
  <2>1. PICK s \in Seq(LayerRecord) : s = mnt[t] /\ s # <<>>
    BY <1>1 DEF FuseCrash, Mounted
  <2>2. PICK o : o = [s EXCEPT ![1].up = FALSE]
    OBVIOUS
  <2>3. mnt'[t] = o
    BY <1>1, <2>1, <2>2 DEF FuseCrash
  <2>4. DOMAIN o = DOMAIN s
    BY <2>2
  <2>5. DOMAIN s # {} /\ DOMAIN <<>> = {}
    <3>1. Len(s) \in Nat /\ Len(s) # 0 /\ DOMAIN s = 1 .. Len(s)
      BY <2>1, EmptyFacts
    <3>2. 1 \in DOMAIN s
      BY <3>1
    <3>3. DOMAIN <<>> = {}
      OBVIOUS
    <3> QED
      BY <3>2, <3>3
  <2> QED
    BY <2>1, <2>3, <2>4, <2>5 DEF Mounted
<1>3. \A u \in Targets : u # t => mnt'[u] = mnt[u]
  BY <1>1 DEF FuseCrash
<1>4. \A u \in Targets : Kept(u)
  BY <1>1, <1>2, <1>3, SameTold DEF Kept, AnswerKept, Mounted
<1> QED
  BY <1>4, KeptPod

LEMMA LauncherRestartPod == Inv /\ LauncherRestart => [Pod!Next]_(Pod!vars)
<1> SUFFICES ASSUME Inv, LauncherRestart PROVE [Pod!Next]_(Pod!vars)
  OBVIOUS
<1>1. /\ mnt \in [Targets -> Seq(LayerRecord)] /\ kubelet \in [Targets -> KubeletRecord]
      /\ \A t \in Targets : KubeletOK(t)
  BY DEF Inv, HostTypeOK, CallsInv, CallsTypeOK, WaitInv
<1>2. restarted' \subseteq {"launcher"} <=> restarted \subseteq {"launcher"}
  BY DEF LauncherRestart
<1>3. \A t \in Targets : kubelet'[t].pod = kubelet[t].pod /\ kubelet'[t].answer = kubelet[t].answer
  <2> SUFFICES ASSUME NEW t \in Targets
               PROVE  kubelet'[t].pod = kubelet[t].pod /\ kubelet'[t].answer = kubelet[t].answer
    OBVIOUS
  <2>1. \/ kubelet'[t] = kubelet[t]
        \/ kubelet[t].call # None /\ kubelet'[t] = [kubelet[t] EXCEPT !.call = None, !.answer = "none"]
    BY DEF LauncherRestart
  <2>2. kubelet[t].call # None => kubelet[t].answer = "none"
    BY <1>1 DEF KubeletOK
  <2>3. kubelet[t] \in KubeletRecord
    BY <1>1
  <2> QED
    BY <2>1, <2>2, <2>3 DEF KubeletRecord
<1>4. \A t \in Targets : Mounted(t)' <=> Mounted(t)
  <2> SUFFICES ASSUME NEW t \in Targets PROVE Mounted(t)' <=> Mounted(t)
    OBVIOUS
  <2>1. PICK s \in Seq(LayerRecord) : s = mnt[t]
    BY <1>1
  <2>2. PICK o : o = [i \in DOMAIN s |-> [s[i] EXCEPT !.up = FALSE]]
    OBVIOUS
  <2>3. mnt'[t] = o /\ DOMAIN o = DOMAIN s
    BY <2>1, <2>2 DEF LauncherRestart
  <2>4. Among(o, s) /\ (s # <<>> => o # <<>>)
    <3>1. \A i \in DOMAIN s : s[i] \in LayerRecord
      OBVIOUS
    <3>2. o = [i \in DOMAIN s |-> o[i]]
      BY <2>2
    <3>3. \A i \in DOMAIN s : o[i] \in LayerRecord /\ o[i].secret = s[i].secret
      BY <2>2, <3>1 DEF LayerRecord
    <3> QED
      BY <2>3, <3>2, <3>3, BrokenAmong
  <2> QED
    BY <2>1, <2>3, <2>4 DEF Among, Mounted
<1>5. \A t \in Targets : Kept(t)
  BY <1>2, <1>3, <1>4 DEF Kept, AnswerKept, Told
<1> QED
  BY <1>5, KeptPod

\* The others that start anew only make answers count no longer.
LEMMA RestartPod == Inv /\ (KubeletRestart \/ DriverRestart) => [Pod!Next]_(Pod!vars)
<1> SUFFICES ASSUME Inv, KubeletRestart \/ DriverRestart PROVE [Pod!Next]_(Pod!vars)
  OBVIOUS
<1>1. kubelet \in [Targets -> KubeletRecord]
  BY DEF Inv, CallsInv, CallsTypeOK
<1>2. mnt' = mnt /\ ~ (restarted' \subseteq {"launcher"})
  BY DEF KubeletRestart, DriverRestart
<1>3. \A t \in Targets :
         kubelet'[t].pod = kubelet[t].pod /\ kubelet'[t].answer \in {kubelet[t].answer, "none"}
  BY <1>1 DEF KubeletRestart, DriverRestart, KubeletRecord
<1>4. \A t \in Targets : Told(t)' \in {Told(t), "none"}
  BY <1>2, <1>3 DEF Told
<1> QED
  BY <1>2, <1>3, <1>4, ForgetPod DEF Mounted

LEMMA PodDeletedPod == \A t \in Targets : Inv /\ Inv' /\ PodDeleted(t) => [Pod!Next]_(Pod!vars)
<1> SUFFICES ASSUME NEW t \in Targets, Inv, Inv', PodDeleted(t) PROVE [Pod!Next]_(Pod!vars)
  OBVIOUS
<1>1. kubelet \in [Targets -> KubeletRecord] /\ UNCHANGED <<mnt, restarted>>
  BY DEF Inv, CallsInv, CallsTypeOK, PodDeleted
<1>2. /\ ~ kubelet'[t].pod /\ kubelet'[t].answer = kubelet[t].answer
      /\ \A u \in Targets : u # t => kubelet'[u] = kubelet[u]
  BY <1>1 DEF PodDeleted, KubeletRecord
<1>3. \A u \in Targets : u # t => Kept(u)
  BY <1>1, <1>2, SameTold DEF Kept, AnswerKept, Mounted
<1>4. Told(t)' = Told(t) /\ (Mounted(t)' <=> Mounted(t))
  BY <1>1, <1>2, SameTold DEF Mounted
<1> QED
  BY <1>2, <1>3, <1>4, TargetPod DEF ChangesAt

LEMMA NextPod == Inv /\ Inv' /\ [Next]_vars => [Pod!Next]_(Pod!vars)
<1> SUFFICES ASSUME Inv, Inv', [Next]_vars PROVE [Pod!Next]_(Pod!vars)
  OBVIOUS
<1>1. ASSUME NEW t \in Targets, RemoveDir(t) PROVE [Pod!Next]_(Pod!vars)
  <2>1. UNCHANGED <<mnt, restarted>> /\ kubelet' = kubelet
    BY <1>1 DEF RemoveDir
  <2> QED
    BY <2>1, QuietPod
<1>2. CASE UNCHANGED vars
  <2>1. UNCHANGED <<mnt, restarted>> /\ kubelet' = kubelet
    BY <1>2 DEF vars
  <2> QED
    BY <2>1, QuietPod
<1>3. ASSUME NEW t \in Targets, Publish(t) \/ Unpublish(t) \/ PodDeleted(t) \/ FuseCrash(t)
      PROVE  [Pod!Next]_(Pod!vars)
  BY <1>3, RequestPod, PodDeletedPod, CrashPod
<1>4. CASE KubeletRestart \/ DriverRestart \/ LauncherRestart
  BY <1>4, RestartPod, LauncherRestartPod
<1> QED
  BY <1>1, <1>2, <1>3, <1>4, StepPod, ServePod DEF Next

LEMMA InitPod == Init => Pod!Init
<1> SUFFICES ASSUME Init PROVE Pod!Init
  OBVIOUS
<1>1. \A t \in Targets : kubelet[t].pod /\ kubelet[t].answer = "none" /\ mnt[t] = <<>>
  BY DEF Init
<1>2. \A t \in Targets : Told(t) = "none" /\ ~ Mounted(t)
  BY <1>1 DEF Told, Mounted
<1> QED
  BY <1>1, <1>2 DEF Pod!Init

(***************************************************************************)
(* Driver and launcher implement PodMount: every step of theirs, of the    *)
(* file systems and of the restarts is a step of it or changes nothing     *)
(* there.  In particular no request, however old, unmounts a target whose  *)
(* pod is not deleted.                                                     *)
(***************************************************************************)
THEOREM Refinement == Spec => ImplementsPodMount
BY InitPod, NextPod, Invariance, PTL DEF Spec, ImplementsPodMount, Pod!Spec
=============================================================================
