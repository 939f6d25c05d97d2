---------------------------- MODULE CbsNodeProofs ----------------------------
(***************************************************************************)
(* Proofs about the node plugin of CBS: for any volume, any pods and any   *)
(* number of calls beside each other, mkfs never runs on a disk with data, *)
(* an expansion that is acknowledged has grown the file system, and, as    *)
(* long as the kubelet waits for its calls, what it was told is so.        *)
(***************************************************************************)
EXTENDS CbsNode, FiniteSetTheorems, TLAPS

Sizes ==
    [cloud : 1..MaxSize, node : 1..MaxSize, lv : 0..MaxSize, fs : 0..MaxSize, kube : 1..MaxSize]

StateTypeOK ==
    /\ volume \in Volumes
    /\ gaveUp \in BOOLEAN
    /\ kube \in {"none", "maybe", "staged"}
    /\ pod \in [Pods -> {"none", "maybe", "published"}]
    /\ call \in [Calls -> CallRecord]
    /\ inflight \subseteq {"stage", "publish"}
    /\ disk \in {"blank", "formatted", "data"}
    /\ staging \in {"absent", "empty", "mounted"}
    /\ bound \in [Pods -> Nat]
    /\ hollow \subseteq Pods
    /\ lvm \in {"none", "pv", "vg", "lv"}
    /\ active \in BOOLEAN
    /\ size \in Sizes
    /\ legacy \subseteq {"target", "staging"}

(***************************************************************************)
(* The steps of a call, by its operation and the kind kd of the volume.    *)
(***************************************************************************)
BlockSteps == {"insert", "mkdir", "source", "mount", "tmpPath", "refCount", "target", "bind",
               "loop", "reply"}

Legal(kd, r) ==
    /\ r.op = "none" => r = NoCall
    /\ r.op = "stage" => r.pc \in StageSteps \cup {"reply"}
    /\ r.op = "unstage" => r.pc \in UnstageSteps \cup {"reply"}
    /\ r.op = "publish" => r.pc \in StageSteps \cup PublishSteps \cup {"reply"} /\ r.pod \in Pods
    /\ r.op = "unpublish" => r.pc \in UnpublishSteps \cup {"reply"} /\ r.pod \in Pods
    /\ r.op = "expand" => r.pc \in ExpandSteps \cup {"reply"} /\ r.pod \in Pods
    /\ kd = "block" => r.pc \in BlockSteps /\ (r.op = "publish" => r.pc \notin StageSteps)
    /\ r.pc # "reply" => r.resp = "none"

LegalInv == \A c \in Calls : Legal(Kind, call[c])

(***************************************************************************)
(* Idempotent: at most one call per origin is inside of NodeStageVolume.   *)
(***************************************************************************)
Inside(r) == r.op \in {"stage", "publish"} /\ r.pc \in StageSteps \ {"insert"}

InflightInv ==
    /\ \A c \in Calls : Inside(call[c]) => call[c].op \in inflight
    /\ \A c, d \in Calls : Inside(call[c]) /\ Inside(call[d]) /\ call[c].op = call[d].op => c = d

(***************************************************************************)
(* The disk: a call that is about to format it has found it blank, and it  *)
(* still is.  What is mounted, staged or published is not blank.           *)
(***************************************************************************)
DiskCall(kd, r, d) ==
    /\ r.pc = "format" => d = "blank"
    /\ kd # "block" =>
          /\ r.op = "publish" => d # "blank"
          /\ r.pc \in {"mount", "resize"} => d # "blank"
          /\ r.op = "stage" /\ r.resp = "ok" => d # "blank"

DiskInv ==
    /\ \A c \in Calls : DiskCall(Kind, call[c], disk)
    /\ Kind # "block" => (staging = "mounted" \/ kube = "staged" => disk # "blank")

(***************************************************************************)
(* Sizes: the file system never exceeds its device, and an expansion gets  *)
(* on only when the device is large enough.                                *)
(***************************************************************************)
Device(kd, s) == IF kd = "lvm" THEN s.lv ELSE s.node

SizeCall(kd, r, s) ==
    r.op = "expand" =>
        /\ r.req >= 1
        /\ r.pc \in {"pvresize", "lvextend", "resizefs"} => s.node >= r.req
        /\ r.pc = "resizefs" => Device(kd, s) >= r.req
        /\ r.resp = "ok" => s.fs >= r.req

SizeInv ==
    /\ size.lv <= size.node /\ size.node <= size.cloud /\ size.fs <= Device(Kind, size)
    /\ \A c \in Calls : SizeCall(Kind, call[c], size)

(***************************************************************************)
(* As long as the kubelet waits for its calls: one call at a time, or      *)
(* unpublish calls for different pods.                                     *)
(***************************************************************************)
Alone ==
    \A c, d \in Calls : c # d /\ call[c].op # "none" /\ call[d].op # "none" =>
        call[c].op = "unpublish" /\ call[d].op = "unpublish" /\ call[c].pod # call[d].pod

\* What a call has made sure of: k, pd, st and bd are kube, pod, staging and bound.
CalmCall(kd, r, k, pd, st, bd) ==
    /\ ~ r.late
    /\ r.op = "stage" =>
          /\ k = "maybe"
          /\ r.pc = "resize" => st = "mounted"
          /\ kd = "block" /\ r.resp = "ok" => st = "mounted"
    /\ r.op = "unstage" =>
          /\ k = "maybe"
          /\ \A p \in Pods : pd[p] = "none"
          /\ r.pc = "deactivate" \/ r.resp = "ok" => st # "mounted"
          /\ kd = "block" /\ r.pc = "refCount" => st # "mounted"
    /\ r.op = "publish" =>
          /\ k = "staged"
          /\ pd[r.pod] = "maybe"
          /\ r.pc \in {"resize", "target", "bind"} => st = "mounted"
          /\ r.resp = "ok" => bd[r.pod] > 0
    /\ r.op = "unpublish" =>
          /\ pd[r.pod] = "maybe"
          /\ r.resp = "ok" => bd[r.pod] = 0

\* What the kubelet knows.
CalmState(kd, k, pd, st, bd) ==
    /\ k = "none" => st # "mounted" /\ \A p \in Pods : pd[p] = "none"
    /\ \A p \in Pods : /\ pd[p] = "published" => bd[p] > 0
                       /\ pd[p] = "none" => bd[p] = 0
    /\ kd = "block" /\ k = "staged" => st = "mounted"

CalmInv ==
    ~ gaveUp =>
        /\ Alone
        /\ hollow = {}
        /\ CalmState(Kind, kube, pod, staging, bound)
        /\ \A c \in Calls : CalmCall(Kind, call[c], kube, pod, staging, bound)

(***************************************************************************)
(* Every mount on a target is one of a call that found none there.         *)
(***************************************************************************)
Binders(p) == {c \in Calls : call[c].pc = "bind" /\ call[c].pod = p}

BoundInv == \A p \in Pods : bound[p] + Cardinality(Binders(p)) <= Cardinality(Calls)

Inv == StateTypeOK /\ LegalInv /\ InflightInv /\ DiskInv /\ SizeInv /\ CalmInv /\ BoundInv

-----------------------------------------------------------------------------
(* Steps of one call.                                                       *)

Pcs == StageSteps \cup UnstageSteps \cup PublishSteps \cup UnpublishSteps \cup ExpandSteps
          \cup {"reply"}

\* Call c becomes r, which is the same request further on; the others stay.
Moved(c, r) ==
    /\ r \in CallRecord /\ call' \in [Calls -> CallRecord] /\ call'[c] = r
    /\ \A d \in Calls : d # c => call'[d] = call[d]
    /\ r.op = call[c].op /\ r.pod = call[c].pod /\ r.req = call[c].req /\ r.late = call[c].late

Then(c, r, pc, resp) == Moved(c, r) /\ r.pc = pc /\ r.resp = resp

LEMMA NoCallFacts ==
    /\ NoCall \in CallRecord
    /\ NoCall.op = "none" /\ NoCall.pc = "reply" /\ NoCall.resp = "none" /\ ~ NoCall.late
<1>1. 0 \in 0..MaxSize
  BY ConstantsAssumption
<1> QED
  BY <1>1 DEF NoCall, CallRecord

LEMMA GotoThen ==
    ASSUME Inv, NEW c \in Calls, call[c].pc # "reply", NEW s \in Pcs, Goto(c, s)
    PROVE  \E r : Then(c, r, s, "none")
<1>1. call \in [Calls -> CallRecord] /\ call[c] \in CallRecord /\ call[c].resp = "none"
  BY DEF Inv, StateTypeOK, LegalInv, Legal
<1>2. PICK r : r = [call[c] EXCEPT !.pc = s]
  OBVIOUS
<1>3. /\ r \in CallRecord /\ r.pc = s /\ r.resp = "none"
      /\ r.op = call[c].op /\ r.pod = call[c].pod /\ r.req = call[c].req /\ r.late = call[c].late
  BY <1>1, <1>2 DEF CallRecord, Pcs
<1>4. call' = [call EXCEPT ![c] = r]
  BY <1>1, <1>2 DEF Goto
<1>5. call' \in [Calls -> CallRecord] /\ call'[c] = r /\ \A d \in Calls : d # c => call'[d] = call[d]
  BY <1>1, <1>3, <1>4
<1> QED
  BY <1>3, <1>5 DEF Then, Moved

LEMMA AnswerThen ==
    ASSUME Inv, NEW c \in Calls, NEW a \in {"ok", "err"}, Answer(c, a)
    PROVE  \E r : Then(c, r, "reply", a)
<1>1. call \in [Calls -> CallRecord] /\ call[c] \in CallRecord
  BY DEF Inv, StateTypeOK
<1>2. PICK r : r = [call[c] EXCEPT !.pc = "reply", !.resp = a]
  OBVIOUS
<1>3. /\ r \in CallRecord /\ r.pc = "reply" /\ r.resp = a
      /\ r.op = call[c].op /\ r.pod = call[c].pod /\ r.req = call[c].req /\ r.late = call[c].late
  BY <1>1, <1>2 DEF CallRecord
<1>4. call' = [call EXCEPT ![c] = r]
  BY <1>1, <1>2 DEF Answer
<1>5. call' \in [Calls -> CallRecord] /\ call'[c] = r /\ \A d \in Calls : d # c => call'[d] = call[d]
  BY <1>1, <1>3, <1>4
<1> QED
  BY <1>3, <1>5 DEF Then, Moved

\* The calls that change are legal ones.
LEMMA LegalStep ==
    ASSUME LegalInv, volume' = volume,
           \A d \in Calls : call'[d] = call[d] \/ Legal(Kind, call'[d])
    PROVE  LegalInv'
<1>1. Kind' = Kind
  BY DEF Kind
<1> QED
  BY <1>1 DEF LegalInv

LEMMA DiskStep ==
    ASSUME DiskInv, volume' = volume, disk' = disk,
           \A d \in Calls : call'[d] = call[d] \/ DiskCall(Kind, call'[d], disk),
           Kind # "block" => (staging' = "mounted" => staging = "mounted" \/ disk # "blank"),
           Kind # "block" => (kube' = "staged" => kube = "staged" \/ disk # "blank")
    PROVE  DiskInv'
<1>1. Kind' = Kind
  BY DEF Kind
<1> QED
  BY <1>1 DEF DiskInv

\* Sizes only grow.
LEMMA SizeCallGrows ==
    ASSUME NEW kd, NEW r \in CallRecord, NEW s \in Sizes, NEW z \in Sizes, SizeCall(kd, r, s),
           s.lv <= z.lv, s.node <= z.node, s.fs <= z.fs
    PROVE  SizeCall(kd, r, z)
<1>1. r.req \in Nat
  BY ConstantsAssumption DEF CallRecord
<1>2. /\ s.lv \in Nat /\ s.node \in Nat /\ s.fs \in Nat
      /\ z.lv \in Nat /\ z.node \in Nat /\ z.fs \in Nat
  BY ConstantsAssumption DEF Sizes
<1> QED
  BY <1>1, <1>2 DEF SizeCall, Device

LEMMA SizeStep ==
    ASSUME StateTypeOK, SizeInv, volume' = volume, NEW z \in Sizes, size' = z,
           size.lv <= z.lv, size.node <= z.node, size.fs <= z.fs,
           z.lv <= z.node, z.node <= z.cloud, z.fs <= Device(Kind, z),
           \A d \in Calls : call'[d] = call[d] \/ SizeCall(Kind, call'[d], z)
    PROVE  SizeInv'
<1>1. Kind' = Kind
  BY DEF Kind
<1>2. \A d \in Calls : SizeCall(Kind, call[d], z)
  <2>1. size \in Sizes /\ \A d \in Calls : call[d] \in CallRecord /\ SizeCall(Kind, call[d], size)
    BY DEF StateTypeOK, SizeInv
  <2> QED
    BY <2>1, SizeCallGrows
<1>3. \A d \in Calls : SizeCall(Kind, call'[d], z)
  BY <1>2
<1> QED
  BY <1>1, <1>3 DEF SizeInv

LEMMA SizeStays ==
    ASSUME SizeInv, volume' = volume, size' = size,
           \A d \in Calls : call'[d] = call[d] \/ SizeCall(Kind, call'[d], size)
    PROVE  SizeInv'
<1>1. Kind' = Kind
  BY DEF Kind
<1> QED
  BY <1>1 DEF SizeInv

\* No call enters NodeStageVolume.
LEMMA InflightStays ==
    ASSUME InflightInv, inflight' = inflight,
           \A d \in Calls : Inside(call'[d]) => Inside(call[d]) /\ call'[d].op = call[d].op
    PROVE  InflightInv'
  BY DEF InflightInv

\* Call c enters it, or leaves it.
LEMMA InflightEnters ==
    ASSUME InflightInv, NEW c \in Calls, NEW r, Moved(c, r), call[c].op \notin inflight,
           inflight' = inflight \cup {call[c].op}
    PROVE  InflightInv'
<1>1. /\ call'[c].op = call[c].op
      /\ \A d \in Calls : d # c => call'[d] = call[d]
  BY DEF Moved
<1>2. \A d \in Calls : Inside(call'[d]) => call'[d].op \in inflight'
  BY <1>1 DEF InflightInv
<1>3. \A d, e \in Calls : Inside(call'[d]) /\ Inside(call'[e]) /\ call'[d].op = call'[e].op => d = e
  BY <1>1 DEF InflightInv
<1> QED
  BY <1>2, <1>3 DEF InflightInv, Inside

LEMMA InflightLeaves ==
    ASSUME InflightInv, NEW c \in Calls, NEW r, Moved(c, r), Inside(call[c]), ~ Inside(r),
           inflight' = inflight \ {call[c].op}
    PROVE  InflightInv'
<1>1. /\ ~ Inside(call'[c])
      /\ \A d \in Calls : d # c => call'[d] = call[d]
  BY DEF Moved
<1>2. \A d \in Calls : Inside(call'[d]) => d # c /\ call'[d].op \in inflight'
  BY <1>1 DEF InflightInv
<1>3. \A d, e \in Calls : Inside(call'[d]) /\ Inside(call'[e]) /\ call'[d].op = call'[e].op => d = e
  BY <1>1, <1>2 DEF InflightInv
<1> QED
  BY <1>2, <1>3 DEF InflightInv, Inside

\* The calls that run beside call c are unpublish calls for other pods.
LEMMA BesideCall ==
    ASSUME Inv, ~ gaveUp, NEW c \in Calls, call[c].op # "none", NEW d \in Calls, d # c
    PROVE  \/ call[d] = NoCall
           \/ call[c].op = "unpublish" /\ call[d].op = "unpublish" /\ call[d].pod # call[c].pod
<1>1. call[d].op = "none" => call[d] = NoCall
  BY DEF Inv, LegalInv, Legal
<1> QED
  BY <1>1 DEF Inv, CalmInv, Alone

LEMMA CalmNoCall ==
    ASSUME NEW kd, NEW k, NEW pd, NEW st, NEW bd
    PROVE  CalmCall(kd, NoCall, k, pd, st, bd)
  BY NoCallFacts DEF CalmCall

\* Call c goes on; the state that the kubelet cares for becomes st and bd.
LEMMA CalmStep ==
    ASSUME Inv, NEW c \in Calls, call[c].op # "none", NEW r, Moved(c, r),
           volume' = volume, gaveUp' = gaveUp,
           ~ gaveUp =>
               /\ hollow' = {}
               /\ CalmState(Kind, kube', pod', staging', bound')
               /\ CalmCall(Kind, r, kube', pod', staging', bound')
               /\ \A d \in Calls : d # c /\ call[c].op = "unpublish" /\ call[d].op = "unpublish"
                                         /\ call[d].pod # call[c].pod =>
                     CalmCall(Kind, call[d], kube', pod', staging', bound')
    PROVE  CalmInv'
<1> SUFFICES ASSUME ~ gaveUp
             PROVE  /\ Alone' /\ hollow' = {}
                    /\ CalmState(Kind, kube', pod', staging', bound')
                    /\ \A d \in Calls : CalmCall(Kind, call'[d], kube', pod', staging', bound')
  <2>1. Kind' = Kind
    BY DEF Kind
  <2> QED
    BY <2>1 DEF CalmInv
<1>1. /\ call'[c] = r /\ r.op = call[c].op /\ r.pod = call[c].pod
      /\ \A d \in Calls : d # c => call'[d] = call[d]
  BY DEF Moved
<1>2. Alone'
  <2>1. Alone
    BY DEF Inv, CalmInv
  <2>2. \A d \in Calls : call'[d].op = call[d].op /\ call'[d].pod = call[d].pod
    BY <1>1
  <2> QED
    BY <2>1, <2>2 DEF Alone
<1>3. ASSUME NEW d \in Calls PROVE CalmCall(Kind, call'[d], kube', pod', staging', bound')
  <2>1. CASE d = c
    BY <1>1, <2>1
  <2>2. CASE d # c
    BY <1>1, <2>2, BesideCall, CalmNoCall
  <2> QED
    BY <2>1, <2>2
<1> QED
  BY <1>2, <1>3

\* Only the call itself changes.
LEMMA CalmStays ==
    ASSUME Inv, NEW c \in Calls, call[c].op # "none", NEW r, Moved(c, r),
           UNCHANGED <<volume, gaveUp, kube, pod, staging, bound, hollow>>,
           ~ gaveUp => CalmCall(Kind, r, kube, pod, staging, bound)
    PROVE  CalmInv'
  BY CalmStep DEF Inv, CalmInv

\* A call that is not an unpublish has the staging path to itself.
LEMMA CalmStaging ==
    ASSUME Inv, NEW c \in Calls, call[c].op \in {"stage", "unstage", "publish"}, NEW r, Moved(c, r),
           UNCHANGED <<volume, gaveUp, kube, pod, bound, hollow>>,
           ~ gaveUp => /\ CalmCall(Kind, r, kube, pod, staging', bound)
                       /\ CalmState(Kind, kube, pod, staging', bound)
    PROVE  CalmInv'
<1>1. ~ gaveUp => hollow' = {}
  BY DEF Inv, CalmInv
<1>2. call[c].op # "none" /\ call[c].op # "unpublish"
  OBVIOUS
<1> QED
  BY <1>1, <1>2, CalmStep

\* No call gets to bind, and nothing is bound.
LEMMA BoundStays ==
    ASSUME StateTypeOK, BoundInv, bound' \in [Pods -> Nat], \A p \in Pods : bound'[p] <= bound[p],
           \A d \in Calls : call'[d].pc = "bind" =>
               call[d].pc = "bind" /\ call'[d].pod = call[d].pod
    PROVE  BoundInv'
<1> SUFFICES ASSUME NEW p \in Pods
             PROVE  bound'[p] + Cardinality(Binders(p)') <= Cardinality(Calls)
  BY DEF BoundInv
<1>1. PICK B : B = Binders(p)
  OBVIOUS
<1>2. PICK D : D = Binders(p)'
  OBVIOUS
<1>3. D \subseteq B /\ B \subseteq Calls
  BY <1>1, <1>2 DEF Binders
<1>4. IsFiniteSet(B) /\ IsFiniteSet(Calls)
  BY <1>3, ConstantsAssumption, FS_Subset
<1>5. Cardinality(D) <= Cardinality(B) /\ IsFiniteSet(D)
  BY <1>3, <1>4, FS_Subset
<1>6. Cardinality(D) \in Nat /\ Cardinality(B) \in Nat /\ Cardinality(Calls) \in Nat
  BY <1>4, <1>5, FS_CardinalityType
<1>7. bound[p] \in Nat /\ bound'[p] \in Nat /\ bound'[p] <= bound[p]
  BY DEF StateTypeOK
<1>8. bound[p] + Cardinality(B) <= Cardinality(Calls)
  BY <1>1 DEF BoundInv
<1> QED
  BY <1>2, <1>5, <1>6, <1>7, <1>8

-----------------------------------------------------------------------------
(* Steps that change the call, and perhaps the volume group.                *)

\* What the invariant asks of a call, given all the rest as it is.
Fits(r) ==
    /\ Legal(Kind, r) /\ DiskCall(Kind, r, disk) /\ SizeCall(Kind, r, size)
    /\ ~ gaveUp => CalmCall(Kind, r, kube, pod, staging, bound)

LEMMA CallFits ==
    ASSUME Inv, NEW c \in Calls
    PROVE  Fits(call[c]) /\ call[c] \in CallRecord
  BY DEF Inv, Fits, StateTypeOK, LegalInv, DiskInv, SizeInv, CalmInv

LEMMA QuietMove ==
    ASSUME Inv, NEW c \in Calls, call[c].op # "none", NEW r, Moved(c, r), Fits(r), r.pc # "bind",
           UNCHANGED <<kubelet, disk, size, staging, bound, hollow>>,
           InflightInv', inflight' \subseteq {"stage", "publish"},
           lvm' \in {"none", "pv", "vg", "lv"}, active' \in BOOLEAN,
           legacy' \subseteq {"target", "staging"}
    PROVE  Inv'
<1>1. UNCHANGED <<volume, gaveUp, kube, pod>>
  BY DEF kubelet
<1>2. /\ call' \in [Calls -> CallRecord] /\ call'[c] = r
      /\ \A d \in Calls : d # c => call'[d] = call[d]
  BY DEF Moved
<1>3. StateTypeOK'
  BY <1>1, <1>2 DEF Inv, StateTypeOK
<1>4. /\ \A d \in Calls : call'[d] = call[d] \/ Legal(Kind, call'[d])
      /\ \A d \in Calls : call'[d] = call[d] \/ DiskCall(Kind, call'[d], disk)
      /\ \A d \in Calls : call'[d] = call[d] \/ SizeCall(Kind, call'[d], size)
  BY <1>2 DEF Fits
<1>5. LegalInv'
  BY <1>1, <1>4, LegalStep DEF Inv
<1>6. DiskInv'
  BY <1>1, <1>4, DiskStep DEF Inv
<1>7. SizeInv'
  BY <1>1, <1>4, SizeStays DEF Inv
<1>8. CalmInv'
  BY <1>1, CalmStays DEF Fits
<1>9. BoundInv'
  <2>1. bound' \in [Pods -> Nat] /\ \A p \in Pods : bound'[p] <= bound[p]
    BY DEF Inv, StateTypeOK
  <2>2. \A d \in Calls : call'[d].pc = "bind" => call[d].pc = "bind" /\ call'[d].pod = call[d].pod
    BY <1>2
  <2> QED
    BY <2>1, <2>2, BoundStays DEF Inv
<1> QED
  BY <1>3, <1>5, <1>6, <1>7, <1>8, <1>9 DEF Inv

\* A call that was refused or failed fits anywhere.
LEMMA ErrFits ==
    ASSUME Inv, NEW c \in Calls, call[c].op # "none", NEW r, Then(c, r, "reply", "err")
    PROVE  Fits(r)
<1>1. /\ r.pc = "reply" /\ r.resp = "err" /\ r.op = call[c].op /\ r.pod = call[c].pod
      /\ r.req = call[c].req /\ r.late = call[c].late
  BY DEF Then, Moved
<1>2. Fits(call[c])
  BY CallFits
<1>3. Legal(Kind, r)
  BY <1>1, <1>2 DEF Fits, Legal, BlockSteps, StageSteps
<1>4. DiskCall(Kind, r, disk) /\ SizeCall(Kind, r, size)
  BY <1>1, <1>2 DEF Fits, DiskCall, SizeCall
<1>5. ~ gaveUp => CalmCall(Kind, r, kube, pod, staging, bound)
  BY <1>1, <1>2 DEF Fits, CalmCall
<1> QED
  BY <1>3, <1>4, <1>5 DEF Fits

\* A call ends or goes on outside of NodeStageVolume.
LEMMA OutsideStays ==
    ASSUME Inv, NEW c \in Calls, NEW r, Moved(c, r), ~ Inside(r), inflight' = inflight
    PROVE  InflightInv' /\ inflight' \subseteq {"stage", "publish"}
<1>1. \A d \in Calls : Inside(call'[d]) => Inside(call[d]) /\ call'[d].op = call[d].op
  BY DEF Moved
<1> QED
  BY <1>1, InflightStays DEF Inv, StateTypeOK

LEMMA InsideStays ==
    ASSUME Inv, NEW c \in Calls, NEW r, Moved(c, r), Inside(call[c]), inflight' = inflight
    PROVE  InflightInv' /\ inflight' \subseteq {"stage", "publish"}
<1>1. \A d \in Calls : Inside(call'[d]) => Inside(call[d]) /\ call'[d].op = call[d].op
  BY DEF Moved
<1> QED
  BY <1>1, InflightStays DEF Inv, StateTypeOK

\* By its step a call is known to be inside of NodeStageVolume.
LEMMA AtInside ==
    ASSUME Inv, NEW c \in Calls, call[c].op # "none", call[c].pc \in StageSteps \ {"insert"}
    PROVE  Inside(call[c])
<1>1. Legal(Kind, call[c]) /\ call[c] \in CallRecord
  BY CallFits DEF Fits
<1> QED
  BY <1>1 DEF Legal, CallRecord, Inside, StageSteps, UnstageSteps, PublishSteps, UnpublishSteps,
              ExpandSteps

LEMMA ReplyOutside == ASSUME NEW r, r.pc \in {"reply", "target"} PROVE ~ Inside(r)
  BY DEF Inside, StageSteps

\* The call is answered with an error, and nothing else happens.
LEMMA ErrAnswer ==
    ASSUME Inv, NEW c \in Calls, call[c].op # "none", Answer(c, "err"),
           UNCHANGED <<kubelet, inflight, device, staging, bound, hollow>>,
           legacy' \subseteq {"target", "staging"}
    PROVE  Inv'
<1>1. PICK r : Then(c, r, "reply", "err")
  BY AnswerThen
<1>2. Moved(c, r) /\ r.pc = "reply" /\ Fits(r)
  BY <1>1, ErrFits DEF Then
<1>3. ~ Inside(r)
  BY <1>2, ReplyOutside
<1>4. InflightInv' /\ inflight' \subseteq {"stage", "publish"}
  BY <1>2, <1>3, OutsideStays
<1>5. UNCHANGED <<disk, size>> /\ lvm' \in {"none", "pv", "vg", "lv"} /\ active' \in BOOLEAN
  BY DEF Inv, StateTypeOK, device
<1> QED
  BY <1>2, <1>4, <1>5, QuietMove

\* NodeStageVolume returns.
LEMMA ErrReturns ==
    ASSUME Inv, NEW c \in Calls, Inside(call[c]), StageReturns(c, "err"),
           UNCHANGED <<kubelet, device, paths>>
    PROVE  Inv'
<1>1. Answer(c, "err") /\ inflight' = inflight \ {call[c].op} /\ call[c].op # "none"
  BY DEF StageReturns, Inside
<1>2. PICK r : Then(c, r, "reply", "err")
  BY <1>1, AnswerThen
<1>3. Moved(c, r) /\ r.pc = "reply" /\ Fits(r) /\ ~ Inside(r)
  BY <1>1, <1>2, ErrFits, ReplyOutside DEF Then
<1>4. InflightInv' /\ inflight' \subseteq {"stage", "publish"}
  BY <1>1, <1>3, InflightLeaves DEF Inv, StateTypeOK
<1>5. /\ UNCHANGED <<disk, size, staging, bound, hollow>> /\ lvm' \in {"none", "pv", "vg", "lv"}
      /\ active' \in BOOLEAN /\ legacy' \subseteq {"target", "staging"}
  BY DEF Inv, StateTypeOK, device, paths
<1> QED
  BY <1>1, <1>3, <1>4, <1>5, QuietMove

\* With success: a stage is answered, a publish goes on with its target.
Returned(c, r) ==
    /\ Moved(c, r) /\ Legal(Kind, r)
    /\ \/ r.op = "publish" /\ r.pc = "target" /\ r.resp = "none"
       \/ r.op = "stage" /\ r.pc = "reply" /\ r.resp = "ok"

LEMMA OkReturns ==
    ASSUME Inv, NEW c \in Calls, Inside(call[c]), StageReturns(c, "ok")
    PROVE  /\ InflightInv' /\ inflight' \subseteq {"stage", "publish"}
           /\ \E r : Returned(c, r)
<1>1. inflight' = inflight \ {call[c].op} /\ call[c].op \in {"stage", "publish"}
  BY DEF StageReturns, Inside
<1>2. Fits(call[c])
  BY CallFits
<1>3. PICK r : /\ Moved(c, r) /\ ~ Inside(r)
               /\ \/ r.op = "publish" /\ r.pc = "target" /\ r.resp = "none"
                  \/ r.op = "stage" /\ r.pc = "reply" /\ r.resp = "ok"
  <2>1. CASE call[c].op = "publish"
    <3>1. Goto(c, "target")
      BY <2>1 DEF StageReturns
    <3>2. "target" \in Pcs /\ call[c].pc # "reply"
      BY DEF Pcs, PublishSteps, Inside, StageSteps
    <3>3. PICK r : Then(c, r, "target", "none")
      BY <3>1, <3>2, GotoThen
    <3> QED
      BY <2>1, <3>3, ReplyOutside DEF Then, Moved
  <2>2. CASE call[c].op = "stage"
    <3>1. Answer(c, "ok")
      BY <2>2 DEF StageReturns
    <3>2. PICK r : Then(c, r, "reply", "ok")
      BY <3>1, AnswerThen
    <3> QED
      BY <2>2, <3>2, ReplyOutside DEF Then, Moved
  <2> QED
    BY <1>1, <2>1, <2>2
<1>4. InflightInv' /\ inflight' \subseteq {"stage", "publish"}
  BY <1>1, <1>3, InflightLeaves DEF Inv, StateTypeOK
<1>5. Legal(Kind, r)
  BY <1>2, <1>3 DEF Fits, Legal, Moved, PublishSteps, BlockSteps, StageSteps
<1> QED
  BY <1>3, <1>4, <1>5 DEF Returned

\* A call goes on inside of NodeStageVolume.
LEMMA InsideGoto ==
    ASSUME Inv, NEW c \in Calls, Inside(call[c]), NEW s \in StageSteps \ {"insert"}, Goto(c, s),
           Kind = "block" => s \in BlockSteps
    PROVE  \E r : Then(c, r, s, "none") /\ Legal(Kind, r)
<1>1. call[c].pc # "reply" /\ s \in Pcs /\ call[c].op \in {"stage", "publish"} /\ Fits(call[c])
  BY CallFits DEF Inside, StageSteps, Pcs
<1>2. PICK r : Then(c, r, s, "none")
  BY <1>1, GotoThen
<1>3. Legal(Kind, r)
  BY <1>1, <1>2 DEF Fits, Legal, Then, Moved, Inside
<1> QED
  BY <1>2, <1>3

LEMMA StageGoto ==
    ASSUME Inv, NEW c \in Calls, Inside(call[c]), NEW s \in StageSteps \ {"insert", "resize"},
           Goto(c, s), Kind = "block" => s \in BlockSteps, s = "format" => disk = "blank",
           s = "mount" /\ Kind # "block" => disk # "blank",
           UNCHANGED <<kubelet, inflight, disk, size, paths>>,
           lvm' \in {"none", "pv", "vg", "lv"}, active' \in BOOLEAN
    PROVE  Inv'
<1>1. PICK r : Then(c, r, s, "none") /\ Legal(Kind, r)
  BY InsideGoto
<1>2. /\ Moved(c, r) /\ r.pc = s /\ r.resp = "none" /\ r.op = call[c].op /\ r.pod = call[c].pod
      /\ r.late = call[c].late
  BY <1>1 DEF Then, Moved
<1>3. call[c].op \in {"stage", "publish"} /\ Fits(call[c])
  BY CallFits DEF Inside
<1>4. Fits(r)
  <2>1. DiskCall(Kind, r, disk) /\ SizeCall(Kind, r, size)
    BY <1>2, <1>3 DEF Fits, DiskCall, SizeCall
  <2>2. s \notin {"resize", "target", "bind"}
    BY DEF StageSteps
  <2>3. ~ gaveUp => CalmCall(Kind, r, kube, pod, staging, bound)
    BY <1>2, <1>3, <2>2 DEF Fits, CalmCall
  <2> QED
    BY <1>1, <2>1, <2>3 DEF Fits
<1>5. InflightInv' /\ inflight' \subseteq {"stage", "publish"}
  BY <1>2, InsideStays
<1>6. /\ UNCHANGED <<staging, bound, hollow>> /\ legacy' \subseteq {"target", "staging"}
      /\ r.pc # "bind" /\ call[c].op # "none"
  BY <1>2, <1>3 DEF Inv, StateTypeOK, paths, StageSteps
<1> QED
  BY <1>2, <1>4, <1>5, <1>6, QuietMove

\* A call goes on outside of it.
LEMMA OutsideMove ==
    ASSUME Inv, NEW c \in Calls, call[c].op # "none", NEW r, Moved(c, r), Fits(r), ~ Inside(r),
           r.pc # "bind", UNCHANGED <<kubelet, inflight, disk, size, staging, bound, hollow>>,
           lvm' \in {"none", "pv", "vg", "lv"}, active' \in BOOLEAN,
           legacy' \subseteq {"target", "staging"}
    PROVE  Inv'
<1>1. InflightInv' /\ inflight' \subseteq {"stage", "publish"}
  BY OutsideStays
<1> QED
  BY <1>1, QuietMove

-----------------------------------------------------------------------------
(* NodeStageVolume.                                                         *)

LEMMA StageInsertKeepsInv == \A c \in Calls : Inv /\ StageInsert(c) => Inv'
<1> SUFFICES ASSUME NEW c \in Calls, Inv, StageInsert(c) PROVE Inv'
  OBVIOUS
<1>1. /\ call[c].op # "none" /\ call[c].pc = "insert" /\ Insert(c)
      /\ UNCHANGED <<kubelet, disk, size, lvm, active, staging, bound, hollow, legacy, device>>
  BY DEF StageInsert, At, device, paths
<1>2. legacy' \subseteq {"target", "staging"} /\ lvm' \in {"none", "pv", "vg", "lv"}
      /\ active' \in BOOLEAN
  BY <1>1 DEF Inv, StateTypeOK
<1>3. CASE Answer(c, "err") /\ inflight' = inflight
  BY <1>1, <1>2, <1>3, ErrAnswer
<1>4. CASE /\ call[c].op \notin inflight /\ inflight' = inflight \cup {call[c].op}
           /\ Goto(c, "mkdir")
  <2>1. "mkdir" \in Pcs
    BY DEF Pcs, StageSteps
  <2>2. PICK r : Then(c, r, "mkdir", "none")
    BY <1>1, <1>4, <2>1, GotoThen
  <2>3. Moved(c, r) /\ r.pc = "mkdir" /\ r.resp = "none" /\ r.op = call[c].op
        /\ r.pod = call[c].pod /\ r.late = call[c].late /\ r.req = call[c].req
    BY <2>2 DEF Then, Moved
  <2>4. Fits(call[c]) /\ call[c] \in CallRecord
    BY CallFits
  <2>5. call[c].op \in {"stage", "publish"}
    BY <1>1, <2>4 DEF Fits, Legal, CallRecord, UnstageSteps, UnpublishSteps, ExpandSteps
  <2>6. Fits(r)
    <3>1. Legal(Kind, r)
      BY <1>1, <2>3, <2>4, <2>5 DEF Fits, Legal, BlockSteps, StageSteps
    <3>2. DiskCall(Kind, r, disk) /\ SizeCall(Kind, r, size)
      BY <2>3, <2>4, <2>5 DEF Fits, DiskCall, SizeCall
    <3>3. ~ gaveUp => CalmCall(Kind, r, kube, pod, staging, bound)
      BY <2>3, <2>4, <2>5 DEF Fits, CalmCall
    <3> QED
      BY <3>1, <3>2, <3>3 DEF Fits
  <2>7. InflightInv' /\ inflight' \subseteq {"stage", "publish"}
    BY <1>4, <2>3, <2>5, InflightEnters DEF Inv, StateTypeOK
  <2> QED
    BY <1>1, <1>2, <2>3, <2>6, <2>7, QuietMove
<1> QED
  BY <1>1, <1>3, <1>4 DEF Insert

LEMMA StageSourceKeepsInv == \A c \in Calls : Inv /\ StageSource(c) => Inv'
<1> SUFFICES ASSUME NEW c \in Calls, Inv, StageSource(c) PROVE Inv'
  OBVIOUS
<1>1. /\ call[c].op # "none" /\ call[c].pc = "source"
      /\ UNCHANGED <<kubelet, disk, size, lvm, active, device, paths>>
  BY DEF StageSource, At, device
<1>2. /\ lvm' \in {"none", "pv", "vg", "lv"} /\ active' \in BOOLEAN
      /\ legacy' \subseteq {"target", "staging"} /\ UNCHANGED <<staging, bound, hollow>>
  BY <1>1 DEF Inv, StateTypeOK, paths
<1>3. Inside(call[c])
  BY <1>1, AtInside DEF StageSteps
<1>4. CASE StageReturns(c, "err")
  BY <1>1, <1>3, <1>4, ErrReturns
<1>5. CASE staging = "mounted" /\ StageReturns(c, "ok")
  <2>1. /\ InflightInv' /\ inflight' \subseteq {"stage", "publish"}
        /\ \E r : Returned(c, r)
    BY <1>3, <1>5, OkReturns
  <2>2. PICK r : Returned(c, r)
    BY <2>1
  <2>3. Fits(call[c]) /\ (Kind # "block" => disk # "blank")
    BY <1>5, CallFits DEF Inv, DiskInv
  <2>4. Moved(c, r) /\ r.pc # "bind" /\ r.op = call[c].op /\ r.pod = call[c].pod
        /\ r.late = call[c].late
    BY <2>2 DEF Returned, Moved
  <2>5. Fits(r)
    <3>1. DiskCall(Kind, r, disk) /\ SizeCall(Kind, r, size)
      BY <2>2, <2>3, <2>4 DEF Returned, DiskCall, SizeCall
    <3>2. ~ gaveUp => CalmCall(Kind, r, kube, pod, staging, bound)
      BY <1>5, <2>2, <2>3, <2>4 DEF Returned, Fits, CalmCall
    <3> QED
      BY <2>2, <3>1, <3>2 DEF Fits, Returned
  <2> QED
    BY <1>1, <1>2, <2>1, <2>4, <2>5, QuietMove
<1>6. CASE /\ Kind # "lvm" /\ Goto(c, IF Kind = "block" THEN "mount" ELSE "probe")
           /\ inflight' = inflight
  <2>1. PICK s : s = IF Kind = "block" THEN "mount" ELSE "probe"
    OBVIOUS
  <2>2. /\ s \in StageSteps \ {"insert", "resize"} /\ s # "format" /\ Goto(c, s)
        /\ (Kind = "block" => s \in BlockSteps) /\ (s = "mount" => Kind = "block")
    BY <1>6, <2>1 DEF StageSteps, BlockSteps
  <2> QED
    BY <1>1, <1>2, <1>3, <1>6, <2>2, StageGoto
<1>7. CASE Kind = "lvm" /\ Goto(c, "lvs") /\ inflight' = inflight
  <2>1. "lvs" \in StageSteps \ {"insert", "resize"}
    BY DEF StageSteps
  <2> QED
    BY <1>1, <1>2, <1>3, <1>7, <2>1, StageGoto
<1> QED
  BY <1>4, <1>5, <1>6, <1>7 DEF StageSource, StageFails

\* The steps with LVM: they fail, or go on with the next command.
LEMMA LvmStep ==
    ASSUME Inv, NEW c \in Calls, call[c].op # "none", Kind # "block",
           call[c].pc \in {"lvs", "activate", "pvcreate", "vgcreate", "lvcreate", "probe"},
           UNCHANGED <<kubelet, disk, size, paths>>,
           \/ StageReturns(c, "err") /\ UNCHANGED <<lvm, active>>
           \/ \E s \in {"activate", "pvcreate", "vgcreate", "lvcreate", "probe", "format", "mount"} :
                 /\ Goto(c, s) /\ inflight' = inflight
                 /\ s = "format" => disk = "blank"
                 /\ s = "mount" => disk # "blank"
                 /\ lvm' \in {"none", "pv", "vg", "lv"} /\ active' \in BOOLEAN
    PROVE  Inv'
<1>1. Inside(call[c])
  BY AtInside DEF StageSteps
<1>2. CASE StageReturns(c, "err") /\ UNCHANGED <<lvm, active>>
  BY <1>1, <1>2, ErrReturns DEF device
<1>3. ASSUME NEW s \in {"activate", "pvcreate", "vgcreate", "lvcreate", "probe", "format", "mount"},
             Goto(c, s), inflight' = inflight, s = "format" => disk = "blank",
             s = "mount" => disk # "blank",
             lvm' \in {"none", "pv", "vg", "lv"}, active' \in BOOLEAN
      PROVE  Inv'
  <2>1. s \in StageSteps \ {"insert", "resize"}
    BY DEF StageSteps
  <2> QED
    BY <1>1, <1>3, <2>1, StageGoto
<1> QED
  BY <1>2, <1>3

LEMMA NotBlock ==
    ASSUME Inv, NEW c \in Calls, call[c].pc \notin BlockSteps
    PROVE  Kind # "block"
  BY DEF Inv, LegalInv, Legal

LEMMA LvmStepsKeepInv ==
    \A c \in Calls :
        Inv /\ (checkLvm(c) \/ LvmActivate(c) \/ LvmPvcreate(c) \/ LvmVgcreate(c) \/ Probe(c)) => Inv'
<1> SUFFICES ASSUME NEW c \in Calls, Inv,
                    checkLvm(c) \/ LvmActivate(c) \/ LvmPvcreate(c) \/ LvmVgcreate(c) \/ Probe(c)
             PROVE  Inv'
  OBVIOUS
<1>1. lvm \in {"none", "pv", "vg", "lv"} /\ active \in BOOLEAN
  BY DEF Inv, StateTypeOK
<1>2. call[c].pc \in {"lvs", "activate", "pvcreate", "vgcreate", "lvcreate", "probe"} => Kind # "block"
  BY NotBlock DEF BlockSteps
<1>3. CASE checkLvm(c)
  BY <1>1, <1>2, <1>3, LvmStep DEF checkLvm, At, device
<1>4. CASE LvmActivate(c)
  BY <1>1, <1>2, <1>4, LvmStep DEF LvmActivate, At, StageFails
<1>5. CASE LvmPvcreate(c)
  BY <1>1, <1>2, <1>5, LvmStep DEF LvmPvcreate, At, StageFails
<1>6. CASE LvmVgcreate(c)
  BY <1>1, <1>2, <1>6, LvmStep DEF LvmVgcreate, At
<1>7. CASE Probe(c)
  BY <1>1, <1>2, <1>7, LvmStep DEF Probe, At, device
<1> QED
  BY <1>3, <1>4, <1>5, <1>6, <1>7

LEMMA SizeFacts ==
    ASSUME Inv
    PROVE  /\ size \in Sizes /\ size.lv \in Nat /\ size.node \in Nat /\ size.fs \in Nat
           /\ size.cloud \in Nat /\ size.lv <= size.node /\ size.node <= size.cloud
           /\ size.fs <= Device(Kind, size)
           /\ size.cloud <= MaxSize /\ size.node >= 1 /\ MaxSize \in Nat
<1>1. size \in Sizes /\ size.lv <= size.node /\ size.node <= size.cloud
      /\ size.fs <= Device(Kind, size)
  BY DEF Inv, StateTypeOK, SizeInv
<1> QED
  BY <1>1, ConstantsAssumption DEF Sizes

\* The sizes become z.
Grows(z) ==
    /\ z \in Sizes /\ size' = z
    /\ size.lv <= z.lv /\ size.node <= z.node /\ size.fs <= z.fs
    /\ z.lv <= z.node /\ z.node <= z.cloud /\ z.fs <= Device(Kind, z)

\* A call goes on and the device or its file system grows.
LEMMA GrowMove ==
    ASSUME Inv, NEW c \in Calls, call[c].op # "none", NEW r, Moved(c, r), r.pc # "bind",
           NEW z, Grows(z), Legal(Kind, r), DiskCall(Kind, r, disk), SizeCall(Kind, r, z),
           ~ gaveUp => CalmCall(Kind, r, kube, pod, staging, bound),
           UNCHANGED <<kubelet, disk, paths>>, InflightInv', inflight' \subseteq {"stage", "publish"},
           lvm' \in {"none", "pv", "vg", "lv"}, active' \in BOOLEAN
    PROVE  Inv'
<1>1. UNCHANGED <<volume, gaveUp, kube, pod, staging, bound, hollow, legacy>>
  BY DEF kubelet, paths
<1>2. /\ call' \in [Calls -> CallRecord] /\ call'[c] = r
      /\ \A d \in Calls : d # c => call'[d] = call[d]
  BY DEF Moved
<1>3. StateTypeOK'
  BY <1>1, <1>2 DEF Inv, StateTypeOK, Grows
<1>4. LegalInv'
  BY <1>1, <1>2, LegalStep DEF Inv
<1>5. DiskInv'
  BY <1>1, <1>2, DiskStep DEF Inv
<1>6. SizeInv'
  <2>1. \A d \in Calls : call'[d] = call[d] \/ SizeCall(Kind, call'[d], z)
    BY <1>2
  <2> QED
    BY <1>1, <2>1, SizeStep DEF Inv, Grows
<1>7. CalmInv'
  BY <1>1, CalmStays
<1>8. BoundInv'
  <2>1. bound' \in [Pods -> Nat] /\ \A p \in Pods : bound'[p] <= bound[p]
    BY <1>1 DEF Inv, StateTypeOK
  <2>2. \A d \in Calls : call'[d].pc = "bind" => call[d].pc = "bind" /\ call'[d].pod = call[d].pod
    BY <1>2
  <2> QED
    BY <2>1, <2>2, BoundStays DEF Inv
<1> QED
  BY <1>3, <1>4, <1>5, <1>6, <1>7, <1>8 DEF Inv

LEMMA LvmLvcreateKeepsInv == \A c \in Calls : Inv /\ LvmLvcreate(c) => Inv'
<1> SUFFICES ASSUME NEW c \in Calls, Inv, LvmLvcreate(c) PROVE Inv'
  OBVIOUS
<1>1. /\ call[c].op # "none" /\ call[c].pc = "lvcreate" /\ UNCHANGED <<kubelet, disk, paths>>
  BY DEF LvmLvcreate, At
<1>2. Kind # "block"
  BY <1>1, NotBlock DEF BlockSteps
<1>3. CASE StageReturns(c, "err") /\ UNCHANGED <<lvm, active, size>>
  BY <1>1, <1>2, <1>3, LvmStep
<1>4. CASE /\ lvm' = "lv" /\ active' = TRUE /\ size' = [size EXCEPT !.lv = size.node]
           /\ Goto(c, "probe") /\ inflight' = inflight
  <2>1. Inside(call[c]) /\ "probe" \in StageSteps \ {"insert"}
    BY <1>1, AtInside DEF StageSteps
  <2>2. PICK r : Then(c, r, "probe", "none") /\ Legal(Kind, r)
    BY <1>2, <1>4, <2>1, InsideGoto
  <2>3. /\ Moved(c, r) /\ r.pc = "probe" /\ r.resp = "none" /\ r.op = call[c].op
        /\ r.pod = call[c].pod /\ r.late = call[c].late
    BY <2>2 DEF Then, Moved
  <2>4. PICK z : z = [size EXCEPT !.lv = size.node]
    OBVIOUS
  <2>5. /\ z \in Sizes /\ z.lv = size.node /\ z.node = size.node /\ z.fs = size.fs
        /\ z.cloud = size.cloud
    BY <2>4, SizeFacts DEF Sizes
  <2>6. Grows(z)
    BY <1>4, <2>4, <2>5, SizeFacts DEF Grows, Device
  <2>7. InflightInv' /\ inflight' \subseteq {"stage", "publish"}
    BY <1>4, <2>1, <2>3, InsideStays
  <2>8. Fits(call[c]) /\ call[c].op \in {"stage", "publish"}
    BY <2>1, CallFits DEF Inside
  <2>9. DiskCall(Kind, r, disk) /\ SizeCall(Kind, r, z)
    BY <2>3, <2>8 DEF Fits, DiskCall, SizeCall
  <2>10. ~ gaveUp => CalmCall(Kind, r, kube, pod, staging, bound)
    BY <2>3, <2>8 DEF Fits, CalmCall
  <2>11. lvm' \in {"none", "pv", "vg", "lv"} /\ active' \in BOOLEAN /\ r.pc # "bind"
    BY <1>4, <2>3
  <2> QED
    BY <1>1, <2>2, <2>3, <2>6, <2>7, <2>9, <2>10, <2>11, GrowMove
<1> QED
  BY <1>3, <1>4 DEF LvmLvcreate

\* The file system takes its device.
LEMMA GrownFsGrows ==
    ASSUME Inv, size' = GrownFs
    PROVE  \E z : Grows(z) /\ z.fs = Device(Kind, size) /\ z.node = size.node /\ z.lv = size.lv
<1>1. PICK z : z = GrownFs
  OBVIOUS
<1>2. Device(Kind, size) \in 0..MaxSize
  BY SizeFacts DEF Device
<1>3. z = [size EXCEPT !.fs = Device(Kind, size)]
  BY <1>1 DEF GrownFs, Device
<1>4. /\ z \in Sizes /\ z.fs = Device(Kind, size) /\ z.node = size.node /\ z.lv = size.lv
      /\ z.cloud = size.cloud
  BY <1>2, <1>3, SizeFacts DEF Sizes
<1>5. Grows(z)
  BY <1>1, <1>4, SizeFacts DEF Grows, Device
<1> QED
  BY <1>4, <1>5

LEMMA StageResizeKeepsInv == \A c \in Calls : Inv /\ StageResize(c) => Inv'
<1> SUFFICES ASSUME NEW c \in Calls, Inv, StageResize(c) PROVE Inv'
  OBVIOUS
<1>1. /\ call[c].op # "none" /\ call[c].pc = "resize" /\ UNCHANGED <<kubelet, disk, lvm, active, paths>>
      /\ lvm' \in {"none", "pv", "vg", "lv"} /\ active' \in BOOLEAN
  BY DEF StageResize, At, Inv, StateTypeOK
<1>2. Kind # "block" /\ Inside(call[c])
  BY <1>1, NotBlock, AtInside DEF BlockSteps, StageSteps
<1>3. CASE StageReturns(c, "err") /\ UNCHANGED size
  BY <1>1, <1>2, <1>3, ErrReturns DEF device
<1>4. CASE size' = GrownFs /\ StageReturns(c, "ok")
  <2>1. /\ InflightInv' /\ inflight' \subseteq {"stage", "publish"}
        /\ \E r : Returned(c, r)
    BY <1>2, <1>4, OkReturns
  <2>2. PICK r : Returned(c, r)
    BY <2>1
  <2>3. Fits(call[c])
    BY CallFits
  <2>4. /\ Moved(c, r) /\ r.pc # "bind" /\ r.op = call[c].op /\ r.pod = call[c].pod
        /\ r.late = call[c].late /\ Legal(Kind, r)
    BY <2>2 DEF Returned, Moved
  <2>5. PICK z : Grows(z)
    BY <1>4, GrownFsGrows
  <2>6. DiskCall(Kind, r, disk) /\ SizeCall(Kind, r, z)
    BY <1>1, <1>2, <2>2, <2>3 DEF Returned, Fits, DiskCall, SizeCall
  <2>7. ~ gaveUp => CalmCall(Kind, r, kube, pod, staging, bound)
    BY <1>1, <1>2, <2>2, <2>3, <2>4 DEF Returned, Fits, CalmCall
  <2> QED
    BY <1>1, <2>1, <2>4, <2>5, <2>6, <2>7, GrowMove
<1> QED
  BY <1>3, <1>4 DEF StageResize, StageFails

\* mkfs: the only call that is about to run it is this one.
LEMMA FormatsAlone ==
    ASSUME Inv, NEW c \in Calls, NEW d \in Calls, call[c].pc = "format", call[d].pc = "format"
    PROVE  c = d
<1>1. Kind # "block" /\ disk = "blank"
  BY NotBlock DEF BlockSteps, Inv, DiskInv, DiskCall
<1>2. call[c].op # "none" /\ call[d].op # "none"
  BY NoCallFacts DEF Inv, LegalInv, Legal
<1>3. Inside(call[c]) /\ Inside(call[d])
  BY <1>2, AtInside DEF StageSteps
<1>4. call[c].op = "stage" /\ call[d].op = "stage"
  BY <1>1, <1>3 DEF Inside, Inv, DiskInv, DiskCall
<1> QED
  BY <1>3, <1>4 DEF Inv, InflightInv

LEMMA FormatKeepsInv == \A c \in Calls : Inv /\ Format(c) => Inv'
<1> SUFFICES ASSUME NEW c \in Calls, Inv, Format(c) PROVE Inv'
  OBVIOUS
<1>1. /\ call[c].op # "none" /\ call[c].pc = "format"
      /\ UNCHANGED <<volume, gaveUp, kube, pod, lvm, active, staging, bound, hollow, legacy>>
  BY DEF Format, At, kubelet, paths
<1>2. Kind # "block" /\ Inside(call[c])
  BY <1>1, NotBlock, AtInside DEF BlockSteps, StageSteps
<1>3. CASE StageReturns(c, "err") /\ UNCHANGED <<disk, size>>
  BY <1>1, <1>2, <1>3, ErrReturns DEF device, kubelet, paths
<1>4. CASE disk' = "formatted" /\ size' = GrownFs /\ Goto(c, "mount") /\ inflight' = inflight
  <2>1. "mount" \in StageSteps \ {"insert"}
    BY DEF StageSteps
  <2>2. PICK r : Then(c, r, "mount", "none") /\ Legal(Kind, r)
    BY <1>2, <1>4, <2>1, InsideGoto
  <2>3. /\ Moved(c, r) /\ r.pc = "mount" /\ r.resp = "none" /\ r.op = call[c].op
        /\ r.pod = call[c].pod /\ r.late = call[c].late
        /\ call' \in [Calls -> CallRecord] /\ call'[c] = r
        /\ \A d \in Calls : d # c => call'[d] = call[d]
    BY <2>2 DEF Then, Moved
  <2>4. PICK z : Grows(z)
    BY <1>4, GrownFsGrows
  <2>5. Fits(call[c]) /\ call[c].op \in {"stage", "publish"}
    BY <1>2, CallFits DEF Inside
  <2>6. StateTypeOK'
    BY <1>1, <1>4, <2>3, <2>4 DEF Inv, StateTypeOK, Grows
  <2>7. LegalInv'
    BY <1>1, <2>2, <2>3, LegalStep DEF Inv
  <2>8. InflightInv'
    BY <1>2, <1>4, <2>3, InsideStays
  <2>9. DiskInv'
    <3>1. \A d \in Calls : call'[d].pc # "format"
      BY <1>1, <2>3, FormatsAlone
    <3> QED
      BY <1>4, <3>1 DEF DiskInv, DiskCall
  <2>10. SizeInv'
    <3>1. \A d \in Calls : call'[d] = call[d] \/ SizeCall(Kind, call'[d], z)
      BY <2>3, <2>5 DEF SizeCall
    <3> QED
      BY <1>1, <2>4, <3>1, SizeStep DEF Inv, Grows
  <2>11. CalmInv'
    <3>1. ~ gaveUp => CalmCall(Kind, r, kube, pod, staging, bound)
      BY <2>3, <2>5 DEF Fits, CalmCall
    <3> QED
      BY <1>1, <2>3, <3>1, CalmStays
  <2>12. BoundInv'
    <3>1. bound' \in [Pods -> Nat] /\ \A p \in Pods : bound'[p] <= bound[p]
      BY <1>1 DEF Inv, StateTypeOK
    <3>2. \A d \in Calls : call'[d].pc = "bind" => call[d].pc = "bind" /\ call'[d].pod = call[d].pod
      BY <2>3
    <3> QED
      BY <3>1, <3>2, BoundStays DEF Inv
  <2> QED
    BY <2>6, <2>7, <2>8, <2>9, <2>10, <2>11, <2>12 DEF Inv
<1> QED
  BY <1>3, <1>4 DEF Format, GrownFs

\* A call goes on and changes the staging path.
LEMMA StagingMove ==
    ASSUME Inv, NEW c \in Calls, call[c].op \in {"stage", "unstage", "publish"},
           NEW r, Moved(c, r), r.pc # "bind",
           Legal(Kind, r), DiskCall(Kind, r, disk), SizeCall(Kind, r, size),
           staging' \in {"absent", "empty", "mounted"},
           Kind # "block" => (staging' = "mounted" => staging = "mounted" \/ disk # "blank"),
           ~ gaveUp => /\ CalmCall(Kind, r, kube, pod, staging', bound)
                       /\ CalmState(Kind, kube, pod, staging', bound),
           UNCHANGED <<kubelet, device, bound, hollow, legacy>>,
           InflightInv', inflight' \subseteq {"stage", "publish"}
    PROVE  Inv'
<1>1. UNCHANGED <<volume, gaveUp, kube, pod, disk, size, lvm, active>>
  BY DEF kubelet, device
<1>2. /\ call' \in [Calls -> CallRecord] /\ call'[c] = r
      /\ \A d \in Calls : d # c => call'[d] = call[d]
  BY DEF Moved
<1>3. StateTypeOK'
  BY <1>1, <1>2 DEF Inv, StateTypeOK
<1>4. LegalInv'
  BY <1>1, <1>2, LegalStep DEF Inv
<1>5. DiskInv'
  BY <1>1, <1>2, DiskStep DEF Inv
<1>6. SizeInv'
  BY <1>1, <1>2, SizeStays DEF Inv
<1>7. CalmInv'
  BY <1>1, CalmStaging
<1>8. BoundInv'
  <2>1. bound' \in [Pods -> Nat] /\ \A p \in Pods : bound'[p] <= bound[p]
    BY <1>1 DEF Inv, StateTypeOK
  <2>2. \A d \in Calls : call'[d].pc = "bind" => call[d].pc = "bind" /\ call'[d].pod = call[d].pod
    BY <1>2
  <2> QED
    BY <2>1, <2>2, BoundStays DEF Inv
<1> QED
  BY <1>3, <1>4, <1>5, <1>6, <1>7, <1>8 DEF Inv

\* What the kubelet knows holds before the step.
LEMMA CalmNow ==
    ASSUME Inv, ~ gaveUp
    PROVE  CalmState(Kind, kube, pod, staging, bound) /\ hollow = {}
  BY DEF Inv, CalmInv

LEMMA createMountPointKeepsInv == \A c \in Calls : Inv /\ createMountPoint(c) => Inv'
<1> SUFFICES ASSUME NEW c \in Calls, Inv, createMountPoint(c) PROVE Inv'
  OBVIOUS
<1>1. /\ call[c].op # "none" /\ call[c].pc = "mkdir" /\ Goto(c, "source")
      /\ UNCHANGED <<kubelet, inflight, device, bound, hollow, legacy>>
      /\ staging' = IF staging = "absent" THEN "empty" ELSE staging
  BY DEF createMountPoint, At
<1>2. Inside(call[c]) /\ "source" \in StageSteps \ {"insert"} /\ "source" \in BlockSteps
  BY <1>1, AtInside DEF StageSteps, BlockSteps
<1>3. PICK r : Then(c, r, "source", "none") /\ Legal(Kind, r)
  BY <1>1, <1>2, InsideGoto
<1>4. /\ Moved(c, r) /\ r.pc = "source" /\ r.resp = "none" /\ r.op = call[c].op
      /\ r.pod = call[c].pod /\ r.late = call[c].late
  BY <1>3 DEF Then, Moved
<1>5. InflightInv' /\ inflight' \subseteq {"stage", "publish"}
  BY <1>1, <1>2, <1>4, InsideStays
<1>6. Fits(call[c]) /\ call[c].op \in {"stage", "publish"}
  BY <1>2, CallFits DEF Inside
<1>7. DiskCall(Kind, r, disk) /\ SizeCall(Kind, r, size)
  BY <1>4, <1>6 DEF Fits, DiskCall, SizeCall
<1>8. staging' \in {"absent", "empty", "mounted"} /\ (staging' = "mounted" <=> staging = "mounted")
  BY <1>1 DEF Inv, StateTypeOK
<1>9. ~ gaveUp => /\ CalmCall(Kind, r, kube, pod, staging', bound)
                  /\ CalmState(Kind, kube, pod, staging', bound)
  BY <1>4, <1>6, <1>8, CalmNow DEF Fits, CalmCall, CalmState
<1> QED
  BY <1>1, <1>3, <1>4, <1>5, <1>6, <1>7, <1>8, <1>9, StagingMove

LEMMA MountKeepsInv == \A c \in Calls : Inv /\ Mount(c) => Inv'
<1> SUFFICES ASSUME NEW c \in Calls, Inv, Mount(c) PROVE Inv'
  OBVIOUS
<1>1. /\ call[c].op # "none" /\ call[c].pc = "mount"
      /\ UNCHANGED <<kubelet, device, bound, hollow, legacy>>
  BY DEF Mount, At
<1>2. Inside(call[c])
  BY <1>1, AtInside DEF StageSteps
<1>3. Fits(call[c]) /\ call[c].op \in {"stage", "publish"}
  BY <1>2, CallFits DEF Inside
<1>4. CASE StageReturns(c, "err") /\ staging' = staging
  BY <1>1, <1>2, <1>4, ErrReturns DEF paths
<1>5. CASE staging' = "mounted" /\ Kind = "block" /\ StageReturns(c, "ok")
  <2>1. /\ InflightInv' /\ inflight' \subseteq {"stage", "publish"}
        /\ \E r : Returned(c, r)
    BY <1>2, <1>5, OkReturns
  <2>2. PICK r : Returned(c, r)
    BY <2>1
  <2>3. /\ Moved(c, r) /\ r.pc # "bind" /\ r.op = call[c].op /\ r.pod = call[c].pod
        /\ r.late = call[c].late /\ Legal(Kind, r)
    BY <2>2 DEF Returned, Moved
  <2>4. call[c].op = "stage"
    BY <1>2, <1>3, <1>5 DEF Fits, Legal, Inside
  <2>5. DiskCall(Kind, r, disk) /\ SizeCall(Kind, r, size)
    BY <1>5, <2>2, <2>3, <2>4 DEF Returned, DiskCall, SizeCall
  <2>6. ~ gaveUp => /\ CalmCall(Kind, r, kube, pod, staging', bound)
                    /\ CalmState(Kind, kube, pod, staging', bound)
    BY <1>3, <1>5, <2>2, <2>3, <2>4, CalmNow DEF Returned, Fits, CalmCall, CalmState
  <2> QED
    BY <1>1, <1>3, <1>5, <2>1, <2>3, <2>5, <2>6, StagingMove
<1>6. CASE staging' = "mounted" /\ Kind # "block" /\ Goto(c, "resize") /\ inflight' = inflight
  <2>1. "resize" \in StageSteps \ {"insert"}
    BY DEF StageSteps
  <2>2. PICK r : Then(c, r, "resize", "none") /\ Legal(Kind, r)
    BY <1>2, <1>6, <2>1, InsideGoto
  <2>3. /\ Moved(c, r) /\ r.pc = "resize" /\ r.resp = "none" /\ r.op = call[c].op
        /\ r.pod = call[c].pod /\ r.late = call[c].late
    BY <2>2 DEF Then, Moved
  <2>4. InflightInv' /\ inflight' \subseteq {"stage", "publish"}
    BY <1>2, <1>6, <2>3, InsideStays
  <2>5. disk # "blank" /\ DiskCall(Kind, r, disk) /\ SizeCall(Kind, r, size)
    BY <1>1, <1>3, <1>6, <2>3 DEF Fits, DiskCall, SizeCall
  <2>6. ~ gaveUp => /\ CalmCall(Kind, r, kube, pod, staging', bound)
                    /\ CalmState(Kind, kube, pod, staging', bound)
    BY <1>3, <1>6, <2>3, CalmNow DEF Fits, CalmCall, CalmState
  <2>7. staging' \in {"absent", "empty", "mounted"} /\ r.pc # "bind"
    BY <1>6, <2>3
  <2> QED
    BY <1>1, <1>3, <2>2, <2>3, <2>4, <2>5, <2>6, <2>7, StagingMove
<1> QED
  BY <1>4, <1>5, <1>6 DEF Mount

-----------------------------------------------------------------------------
(* NodeUnstageVolume.                                                       *)

\* The step tells the operation.
LEMMA OpOf ==
    ASSUME Inv, NEW c \in Calls, call[c].op # "none"
    PROVE  /\ call[c].pc \in UnstageSteps => call[c].op = "unstage"
           /\ call[c].pc \in PublishSteps => call[c].op = "publish" /\ call[c].pod \in Pods
           /\ call[c].pc \in UnpublishSteps => call[c].op = "unpublish" /\ call[c].pod \in Pods
           /\ call[c].pc \in ExpandSteps => call[c].op = "expand" /\ call[c].pod \in Pods
<1>1. Legal(Kind, call[c]) /\ call[c] \in CallRecord
  BY CallFits DEF Fits
<1> QED
  BY <1>1 DEF Legal, CallRecord, StageSteps, UnstageSteps, PublishSteps, UnpublishSteps, ExpandSteps

\* An unstage goes on: r asks for no more than that the volume is not mounted.
LEMMA UnstageMove ==
    ASSUME Inv, NEW c \in Calls, call[c].op = "unstage", NEW r, NEW s, NEW a, Then(c, r, s, a),
           s \in {"refCount", "umount", "deactivate", "reply"}, a # "none" => s = "reply",
           s = "reply" \/ a = "none",
           Kind = "block" => s \in BlockSteps,
           UNCHANGED <<kubelet, inflight, device, bound, hollow, legacy>>,
           staging' \in {"absent", "empty", "mounted"},
           staging' = "mounted" => staging = "mounted",
           ~ gaveUp /\ (s = "deactivate" \/ a = "ok" \/ (s = "refCount" /\ Kind = "block")) =>
               staging' # "mounted"
    PROVE  Inv'
<1>1. /\ Moved(c, r) /\ r.pc = s /\ r.resp = a /\ r.op = "unstage" /\ r.late = call[c].late
  BY DEF Then, Moved
<1>2. Fits(call[c])
  BY CallFits
<1>3. Legal(Kind, r)
  BY <1>1 DEF Legal, UnstageSteps, StageSteps
<1>4. DiskCall(Kind, r, disk) /\ SizeCall(Kind, r, size)
  BY <1>1 DEF DiskCall, SizeCall
<1>5. ~ gaveUp => CalmCall(Kind, r, kube, pod, staging', bound)
  BY <1>1, <1>2 DEF Fits, CalmCall
<1>6. ~ gaveUp => CalmState(Kind, kube, pod, staging', bound)
  BY <1>2, CalmNow DEF Fits, CalmCall, CalmState
<1>7. ~ Inside(r) /\ r.pc # "bind"
  BY <1>1 DEF Inside
<1>8. InflightInv' /\ inflight' \subseteq {"stage", "publish"}
  BY <1>1, <1>7, OutsideStays
<1> QED
  BY <1>1, <1>3, <1>4, <1>5, <1>6, <1>7, <1>8, StagingMove

LEMMA UnstageTmpPathKeepsInv == \A c \in Calls : Inv /\ UnstageTmpPath(c) => Inv'
<1> SUFFICES ASSUME NEW c \in Calls, Inv, UnstageTmpPath(c) PROVE Inv'
  OBVIOUS
<1>1. /\ call[c].pc = "tmpPath" /\ call[c].op = "unstage"
      /\ UNCHANGED <<kubelet, inflight, device, bound, hollow, legacy>>
  BY OpOf DEF UnstageTmpPath, At, UnstageSteps
<1>2. "reply" \in BlockSteps /\ "refCount" \in BlockSteps /\ "refCount" \in Pcs
      /\ staging \in {"absent", "empty", "mounted"}
  BY DEF BlockSteps, Pcs, UnstageSteps, Inv, StateTypeOK
<1>3. CASE staging' = "absent" /\ Answer(c, "ok")
  <2>1. PICK r : Then(c, r, "reply", "ok")
    BY <1>3, AnswerThen
  <2> QED
    BY <1>1, <1>2, <1>3, <2>1, UnstageMove
<1>4. CASE staging = "mounted" /\ staging' \in {"empty", "mounted"} /\ Answer(c, "err")
  <2>1. PICK r : Then(c, r, "reply", "err")
    BY <1>4, AnswerThen
  <2> QED
    BY <1>1, <1>2, <1>4, <2>1, UnstageMove
<1>5. CASE ~ (Kind = "block" /\ staging = "mounted") /\ Goto(c, "refCount") /\ staging' = staging
  <2>1. PICK r : Then(c, r, "refCount", "none")
    BY <1>1, <1>2, <1>5, GotoThen
  <2> QED
    BY <1>1, <1>2, <1>5, <2>1, UnstageMove
<1> QED
  BY <1>3, <1>4, <1>5 DEF UnstageTmpPath

LEMMA UnstageRefCountKeepsInv == \A c \in Calls : Inv /\ UnstageRefCount(c) => Inv'
<1> SUFFICES ASSUME NEW c \in Calls, Inv, UnstageRefCount(c) PROVE Inv'
  OBVIOUS
<1>1. /\ call[c].pc = "refCount" /\ call[c].op = "unstage"
      /\ UNCHANGED <<kubelet, inflight, device, staging, bound, hollow, legacy>>
  BY OpOf DEF UnstageRefCount, At, UnstageSteps, paths
<1>2. "reply" \in BlockSteps /\ "umount" \in Pcs /\ staging \in {"absent", "empty", "mounted"}
  BY DEF BlockSteps, Pcs, UnstageSteps, Inv, StateTypeOK
<1>3. CASE (Kind = "block" \/ staging # "mounted") /\ Answer(c, "ok")
  <2>1. PICK r : Then(c, r, "reply", "ok")
    BY <1>3, AnswerThen
  <2>2. ~ gaveUp => staging # "mounted"
    BY <1>1, <1>3, CallFits DEF Fits, CalmCall
  <2> QED
    BY <1>1, <1>2, <2>1, <2>2, UnstageMove
<1>4. CASE Kind # "block" /\ Goto(c, "umount")
  <2>1. PICK r : Then(c, r, "umount", "none")
    BY <1>1, <1>2, <1>4, GotoThen
  <2> QED
    BY <1>1, <1>2, <1>4, <2>1, UnstageMove
<1> QED
  BY <1>3, <1>4 DEF UnstageRefCount

LEMMA UnstageUmountKeepsInv == \A c \in Calls : Inv /\ UnstageUmount(c) => Inv'
<1> SUFFICES ASSUME NEW c \in Calls, Inv, UnstageUmount(c) PROVE Inv'
  OBVIOUS
<1>1. /\ call[c].pc = "umount" /\ call[c].op = "unstage"
      /\ UNCHANGED <<kubelet, inflight, device, bound, hollow, legacy>>
  BY OpOf DEF UnstageUmount, At, UnstageSteps
<1>2. "reply" \in BlockSteps /\ "deactivate" \in Pcs /\ staging \in {"absent", "empty", "mounted"}
  BY DEF BlockSteps, Pcs, UnstageSteps, Inv, StateTypeOK
<1>3. CASE staging' = "empty" /\ Kind = "lvm" /\ Goto(c, "deactivate")
  <2>1. PICK r : Then(c, r, "deactivate", "none")
    BY <1>1, <1>2, <1>3, GotoThen
  <2> QED
    BY <1>1, <1>2, <1>3, <2>1, UnstageMove
<1>4. CASE staging' = "empty" /\ Answer(c, "ok")
  <2>1. PICK r : Then(c, r, "reply", "ok")
    BY <1>4, AnswerThen
  <2> QED
    BY <1>1, <1>2, <1>4, <2>1, UnstageMove
<1>5. CASE Answer(c, "err") /\ staging' = staging
  <2>1. PICK r : Then(c, r, "reply", "err")
    BY <1>5, AnswerThen
  <2> QED
    BY <1>1, <1>2, <1>5, <2>1, UnstageMove
<1> QED
  BY <1>3, <1>4, <1>5 DEF UnstageUmount

LEMMA LvmDeactivateKeepsInv == \A c \in Calls : Inv /\ LvmDeactivate(c) => Inv'
<1> SUFFICES ASSUME NEW c \in Calls, Inv, LvmDeactivate(c) PROVE Inv'
  OBVIOUS
<1>1. /\ call[c].pc = "deactivate" /\ call[c].op = "unstage" /\ call[c].op # "none"
      /\ UNCHANGED <<kubelet, inflight, disk, size, staging, bound, hollow, legacy>>
      /\ lvm' = lvm /\ active' \in BOOLEAN
  BY OpOf DEF LvmDeactivate, At, UnstageSteps, paths, Inv, StateTypeOK
<1>2. legacy' \subseteq {"target", "staging"} /\ lvm' \in {"none", "pv", "vg", "lv"}
  BY <1>1 DEF Inv, StateTypeOK
<1>3. PICK a \in {"ok", "err"} : Answer(c, a)
  BY DEF LvmDeactivate
<1>4. PICK r : Then(c, r, "reply", a)
  BY <1>3, AnswerThen
<1>5. /\ Moved(c, r) /\ r.pc = "reply" /\ r.resp = a /\ r.op = "unstage" /\ r.late = call[c].late
  BY <1>1, <1>4 DEF Then, Moved
<1>6. Fits(r)
  <2>1. Fits(call[c])
    BY CallFits
  <2>2. Legal(Kind, r) /\ DiskCall(Kind, r, disk) /\ SizeCall(Kind, r, size)
    BY <1>5 DEF Legal, DiskCall, SizeCall, BlockSteps
  <2>3. ~ gaveUp => CalmCall(Kind, r, kube, pod, staging, bound)
    BY <1>1, <1>5, <2>1 DEF Fits, CalmCall
  <2> QED
    BY <2>2, <2>3 DEF Fits
<1>7. ~ Inside(r)
  BY <1>5, ReplyOutside
<1> QED
  BY <1>1, <1>2, <1>5, <1>6, <1>7, OutsideMove

-----------------------------------------------------------------------------
(* NodePublishVolume.                                                       *)

\* A call goes on outside of NodeStageVolume and changes mounts.
LEMMA PathsMove ==
    ASSUME Inv, NEW c \in Calls, NEW r, Moved(c, r), ~ Inside(r),
           Legal(Kind, r), DiskCall(Kind, r, disk), SizeCall(Kind, r, size),
           staging' \in {"absent", "empty", "mounted"}, staging' = "mounted" => staging = "mounted",
           bound' \in [Pods -> Nat], hollow' \subseteq Pods, legacy' \subseteq {"target", "staging"},
           UNCHANGED <<kubelet, inflight, device>>, CalmInv', BoundInv'
    PROVE  Inv'
<1>1. UNCHANGED <<volume, gaveUp, kube, pod, disk, size, lvm, active>>
  BY DEF kubelet, device
<1>2. /\ call' \in [Calls -> CallRecord] /\ call'[c] = r
      /\ \A d \in Calls : d # c => call'[d] = call[d]
  BY DEF Moved
<1>3. InflightInv' /\ inflight' \subseteq {"stage", "publish"}
  BY OutsideStays
<1>4. StateTypeOK'
  BY <1>1, <1>2, <1>3 DEF Inv, StateTypeOK
<1>5. LegalInv'
  BY <1>1, <1>2, LegalStep DEF Inv
<1>6. DiskInv'
  BY <1>1, <1>2, DiskStep DEF Inv
<1>7. SizeInv'
  BY <1>1, <1>2, SizeStays DEF Inv
<1> QED
  BY <1>3, <1>4, <1>5, <1>6, <1>7 DEF Inv

LEMMA checkStagingTargetPathKeepsInv == \A c \in Calls : Inv /\ checkStagingTargetPath(c) => Inv'
<1> SUFFICES ASSUME NEW c \in Calls, Inv, checkStagingTargetPath(c) PROVE Inv'
  OBVIOUS
<1>1. /\ call[c].op # "none" /\ call[c].pc = "check"
      /\ UNCHANGED <<kubelet, inflight, device, bound, hollow, legacy>>
  BY DEF checkStagingTargetPath, At
<1>2. /\ call[c].op = "publish" /\ call[c].pod \in Pods /\ Kind # "block" /\ Fits(call[c])
      /\ "target" \in Pcs /\ "insert" \in Pcs
  BY <1>1, OpOf, NotBlock, CallFits DEF PublishSteps, BlockSteps, Pcs, StageSteps
<1>3. /\ UNCHANGED <<disk, size>> /\ lvm' \in {"none", "pv", "vg", "lv"} /\ active' \in BOOLEAN
      /\ legacy' \subseteq {"target", "staging"}
  BY <1>1 DEF device, Inv, StateTypeOK
<1>4. CASE staging = "mounted" /\ Goto(c, "target") /\ staging' = staging
  <2>1. PICK r : Then(c, r, "target", "none")
    BY <1>1, <1>2, <1>4, GotoThen
  <2>2. /\ Moved(c, r) /\ r.pc = "target" /\ r.resp = "none" /\ r.op = "publish"
        /\ r.pod = call[c].pod /\ r.late = call[c].late
    BY <1>2, <2>1 DEF Then, Moved
  <2>3. Legal(Kind, r)
    BY <1>2, <2>2 DEF Legal, PublishSteps
  <2>4. DiskCall(Kind, r, disk) /\ SizeCall(Kind, r, size)
    BY <1>2, <2>2 DEF Fits, DiskCall, SizeCall
  <2>5. ~ gaveUp => CalmCall(Kind, r, kube, pod, staging, bound)
    BY <1>2, <1>4, <2>2 DEF Fits, CalmCall
  <2>6. Fits(r) /\ ~ Inside(r)
    BY <2>2, <2>3, <2>4, <2>5, ReplyOutside DEF Fits
  <2> QED
    BY <1>1, <1>3, <1>4, <2>2, <2>6, OutsideMove
<1>5. CASE staging # "mounted" /\ staging' = "empty" /\ Goto(c, "insert")
  <2>1. PICK r : Then(c, r, "insert", "none")
    BY <1>1, <1>2, <1>5, GotoThen
  <2>2. /\ Moved(c, r) /\ r.pc = "insert" /\ r.resp = "none" /\ r.op = "publish"
        /\ r.pod = call[c].pod /\ r.late = call[c].late
    BY <1>2, <2>1 DEF Then, Moved
  <2>3. Legal(Kind, r) /\ ~ Inside(r)
    BY <1>2, <2>2 DEF Legal, StageSteps, Inside
  <2>4. DiskCall(Kind, r, disk) /\ SizeCall(Kind, r, size)
    BY <1>2, <2>2 DEF Fits, DiskCall, SizeCall
  <2>5. ~ gaveUp => CalmCall(Kind, r, kube, pod, staging', bound)
    BY <1>2, <2>2 DEF Fits, CalmCall
  <2>6. ~ gaveUp => CalmState(Kind, kube, pod, staging', bound)
    BY <1>2, <1>5, CalmNow DEF CalmState
  <2>7. InflightInv' /\ inflight' \subseteq {"stage", "publish"}
    BY <1>1, <2>2, <2>3, OutsideStays
  <2> QED
    BY <1>1, <1>2, <1>5, <2>2, <2>3, <2>4, <2>5, <2>6, <2>7, StagingMove
<1>6. CASE Answer(c, "err") /\ staging' = staging
  BY <1>1, <1>3, <1>6, ErrAnswer
<1> QED
  BY <1>4, <1>5, <1>6 DEF checkStagingTargetPath

\* A call gets to bind, having found nothing mounted on its target ...
LEMMA BoundEnters ==
    ASSUME Inv, NEW c \in Calls, NEW r, Moved(c, r), call[c].pod \in Pods, bound[call[c].pod] = 0,
           bound' = bound
    PROVE  BoundInv'
<1> SUFFICES ASSUME NEW p \in Pods
             PROVE  bound'[p] + Cardinality(Binders(p)') <= Cardinality(Calls)
  BY DEF BoundInv
<1>1. PICK B : B = Binders(p)
  OBVIOUS
<1>2. PICK D : D = Binders(p)'
  OBVIOUS
<1>3. D \subseteq Calls /\ B \subseteq Calls
  BY <1>1, <1>2 DEF Binders
<1>4. IsFiniteSet(B) /\ IsFiniteSet(Calls) /\ IsFiniteSet(D) /\ Cardinality(D) <= Cardinality(Calls)
  BY <1>3, ConstantsAssumption, FS_Subset
<1>5. Cardinality(D) \in Nat /\ Cardinality(B) \in Nat /\ Cardinality(Calls) \in Nat
  BY <1>4, FS_CardinalityType
<1>6. bound[p] \in Nat /\ bound'[p] = bound[p]
  BY DEF Inv, StateTypeOK
<1>7. CASE p = call[c].pod
  BY <1>2, <1>4, <1>5, <1>6, <1>7
<1>8. CASE p # call[c].pod
  <2>1. D \subseteq B
    BY <1>1, <1>2, <1>8 DEF Binders, Moved
  <2>2. Cardinality(D) <= Cardinality(B)
    BY <1>4, <2>1, FS_Subset
  <2>3. bound[p] + Cardinality(B) <= Cardinality(Calls)
    BY <1>1 DEF Inv, BoundInv
  <2> QED
    BY <1>2, <1>5, <1>6, <2>2, <2>3
<1> QED
  BY <1>7, <1>8

\* ... and binds.
LEMMA BoundBinds ==
    ASSUME Inv, NEW c \in Calls, NEW r, Moved(c, r), call[c].pc = "bind", r.pc # "bind",
           call[c].pod \in Pods, bound' \in [Pods -> Nat],
           bound'[call[c].pod] = bound[call[c].pod] + 1,
           \A p \in Pods : p # call[c].pod => bound'[p] = bound[p]
    PROVE  BoundInv'
<1> SUFFICES ASSUME NEW p \in Pods
             PROVE  bound'[p] + Cardinality(Binders(p)') <= Cardinality(Calls)
  BY DEF BoundInv
<1>1. PICK B : B = Binders(p)
  OBVIOUS
<1>2. PICK D : D = Binders(p)'
  OBVIOUS
<1>3. D \subseteq B /\ B \subseteq Calls
  BY <1>1, <1>2 DEF Binders, Moved
<1>4. IsFiniteSet(B) /\ IsFiniteSet(Calls)
  BY <1>3, ConstantsAssumption, FS_Subset
<1>5. IsFiniteSet(D) /\ Cardinality(D) <= Cardinality(B)
  BY <1>3, <1>4, FS_Subset
<1>6. Cardinality(D) \in Nat /\ Cardinality(B) \in Nat /\ Cardinality(Calls) \in Nat
  BY <1>4, <1>5, FS_CardinalityType
<1>7. bound[p] \in Nat /\ bound[p] + Cardinality(B) <= Cardinality(Calls)
  BY <1>1 DEF Inv, StateTypeOK, BoundInv
<1>8. CASE p = call[c].pod
  <2>1. D = B \ {c} /\ c \in B
    BY <1>1, <1>2, <1>8 DEF Binders, Moved
  <2>2. Cardinality(D) = Cardinality(B) - 1
    BY <1>4, <2>1, FS_RemoveElement
  <2> QED
    BY <1>2, <1>6, <1>7, <1>8, <2>2
<1>9. CASE p # call[c].pod
  <2>1. bound'[p] = bound[p]
    BY <1>9
  <2> QED
    BY <1>2, <1>5, <1>6, <1>7, <2>1
<1> QED
  BY <1>8, <1>9

LEMMA PublishTargetKeepsInv == \A c \in Calls : Inv /\ PublishTarget(c) => Inv'
<1> SUFFICES ASSUME NEW c \in Calls, Inv, PublishTarget(c) PROVE Inv'
  OBVIOUS
<1>1. /\ call[c].op # "none" /\ call[c].pc = "target"
      /\ UNCHANGED <<kubelet, inflight, device, staging, bound, hollow, legacy>>
  BY DEF PublishTarget, At, paths
<1>2. /\ call[c].op = "publish" /\ call[c].pod \in Pods /\ Fits(call[c]) /\ "bind" \in Pcs
  BY <1>1, OpOf, CallFits DEF PublishSteps, Pcs
<1>3. /\ UNCHANGED <<disk, size>> /\ lvm' \in {"none", "pv", "vg", "lv"} /\ active' \in BOOLEAN
      /\ legacy' \subseteq {"target", "staging"} /\ hollow' \subseteq Pods
      /\ bound' \in [Pods -> Nat] /\ staging' \in {"absent", "empty", "mounted"}
  BY <1>1 DEF device, Inv, StateTypeOK
<1>4. CASE bound[call[c].pod] > 0 /\ Answer(c, "ok")
  <2>1. PICK r : Then(c, r, "reply", "ok")
    BY <1>4, AnswerThen
  <2>2. /\ Moved(c, r) /\ r.pc = "reply" /\ r.resp = "ok" /\ r.op = "publish"
        /\ r.pod = call[c].pod /\ r.late = call[c].late
    BY <1>2, <2>1 DEF Then, Moved
  <2>3. Legal(Kind, r)
    BY <1>2, <2>2 DEF Legal, BlockSteps, StageSteps
  <2>4. DiskCall(Kind, r, disk) /\ SizeCall(Kind, r, size)
    BY <1>2, <2>2 DEF Fits, DiskCall, SizeCall
  <2>5. ~ gaveUp => CalmCall(Kind, r, kube, pod, staging, bound)
    BY <1>2, <1>4, <2>2 DEF Fits, CalmCall
  <2>6. Fits(r) /\ ~ Inside(r)
    BY <2>2, <2>3, <2>4, <2>5, ReplyOutside DEF Fits
  <2> QED
    BY <1>1, <1>3, <2>2, <2>6, OutsideMove
<1>5. CASE bound[call[c].pod] = 0 /\ Goto(c, "bind")
  <2>1. PICK r : Then(c, r, "bind", "none")
    BY <1>1, <1>2, <1>5, GotoThen
  <2>2. /\ Moved(c, r) /\ r.pc = "bind" /\ r.resp = "none" /\ r.op = "publish"
        /\ r.pod = call[c].pod /\ r.late = call[c].late
    BY <1>2, <2>1 DEF Then, Moved
  <2>3. Legal(Kind, r) /\ ~ Inside(r)
    BY <1>2, <2>2 DEF Legal, PublishSteps, BlockSteps, StageSteps, Inside
  <2>4. DiskCall(Kind, r, disk) /\ SizeCall(Kind, r, size)
    BY <1>2, <2>2 DEF Fits, DiskCall, SizeCall
  <2>5. CalmInv'
    <3>1. ~ gaveUp => CalmCall(Kind, r, kube, pod, staging, bound)
      BY <1>1, <1>2, <2>2 DEF Fits, CalmCall
    <3> QED
      BY <1>1, <2>2, <3>1, CalmStays DEF kubelet
  <2>6. BoundInv'
    BY <1>1, <1>2, <1>5, <2>2, BoundEnters
  <2> QED
    BY <1>1, <1>3, <2>2, <2>3, <2>4, <2>5, <2>6, PathsMove
<1> QED
  BY <1>4, <1>5 DEF PublishTarget

LEMMA PublishBindKeepsInv == \A c \in Calls : Inv /\ PublishBind(c) => Inv'
<1> SUFFICES ASSUME NEW c \in Calls, Inv, PublishBind(c) PROVE Inv'
  OBVIOUS
<1>1. /\ call[c].op # "none" /\ call[c].pc = "bind"
      /\ UNCHANGED <<kubelet, inflight, device, staging, legacy>>
  BY DEF PublishBind, At
<1>2. call[c].op = "publish" /\ Fits(call[c])
  BY <1>1, OpOf, CallFits DEF PublishSteps
<1>3. PICK p \in Pods : p = call[c].pod
  BY <1>1, OpOf DEF PublishSteps
<1>4. /\ staging' \in {"absent", "empty", "mounted"} /\ legacy' \subseteq {"target", "staging"}
      /\ bound \in [Pods -> Nat] /\ hollow \subseteq Pods
  BY <1>1 DEF Inv, StateTypeOK
<1>5. CASE Answer(c, "err") /\ UNCHANGED <<bound, hollow>>
  BY <1>1, <1>4, <1>5, ErrAnswer
<1>6. CASE /\ bound' = [bound EXCEPT ![p] = @ + 1]
           /\ hollow' = IF staging = "empty" THEN hollow \cup {p} ELSE hollow \ {p}
           /\ Answer(c, "ok")
  <2>1. PICK r : Then(c, r, "reply", "ok")
    BY <1>6, AnswerThen
  <2>2. /\ Moved(c, r) /\ r.pc = "reply" /\ r.resp = "ok" /\ r.op = "publish" /\ r.pod = p
        /\ r.late = call[c].late
    BY <1>2, <1>3, <2>1 DEF Then, Moved
  <2>3. Legal(Kind, r) /\ ~ Inside(r)
    BY <2>2, ReplyOutside DEF Legal, BlockSteps, StageSteps
  <2>4. DiskCall(Kind, r, disk) /\ SizeCall(Kind, r, size)
    BY <1>2, <2>2 DEF Fits, DiskCall, SizeCall
  <2>5. /\ bound' \in [Pods -> Nat] /\ hollow' \subseteq Pods
        /\ bound'[p] = bound[p] + 1 /\ bound[p] \in Nat
        /\ \A q \in Pods : q # p => bound'[q] = bound[q]
    BY <1>4, <1>6
  <2>6. CalmInv'
    <3>1. ~ gaveUp => staging = "mounted" /\ pod[p] = "maybe" /\ kube = "staged" /\ ~ r.late
      BY <1>1, <1>2, <1>3, <2>2 DEF Fits, CalmCall
    <3>2. ~ gaveUp => hollow' = {}
      BY <1>6, <3>1, CalmNow
    <3>3. ~ gaveUp => CalmCall(Kind, r, kube, pod, staging, bound')
      BY <2>2, <2>5, <3>1 DEF CalmCall
    <3>4. ~ gaveUp => CalmState(Kind, kube, pod, staging, bound')
      <4>1. SUFFICES ASSUME ~ gaveUp, NEW q \in Pods
                     PROVE  /\ pod[q] = "published" => bound'[q] > 0
                            /\ pod[q] = "none" => bound'[q] = 0
        BY <3>1 DEF CalmState
      <4>2. /\ pod[q] = "published" => bound[q] > 0
            /\ pod[q] = "none" => bound[q] = 0
        BY <4>1, CalmNow DEF CalmState
      <4> QED
        BY <2>5, <3>1, <4>1, <4>2
    <3> QED
      BY <1>1, <1>2, <2>2, <3>2, <3>3, <3>4, CalmStep DEF kubelet
  <2>7. BoundInv'
    BY <1>1, <1>3, <2>2, <2>5, BoundBinds
  <2> QED
    BY <1>1, <1>4, <2>2, <2>3, <2>4, <2>5, <2>6, <2>7, PathsMove
<1> QED
  BY <1>3, <1>5, <1>6 DEF PublishBind

-----------------------------------------------------------------------------
(* NodeUnpublishVolume.                                                     *)

\* An unpublish goes on, and may have unmounted or removed the old staging path.
LEMMA UnpublishMove ==
    ASSUME Inv, NEW c \in Calls, call[c].op = "unpublish", Kind # "block",
           NEW s \in {"oldStaging", "oldRemove", "loop"}, Goto(c, s), call[c].pc # "reply",
           UNCHANGED <<kubelet, inflight, device, bound, hollow>>,
           staging' \in {"absent", "empty", "mounted"}, staging' = "mounted" => staging = "mounted",
           legacy' \subseteq {"target", "staging"}
    PROVE  Inv'
<1>1. s \in Pcs /\ Fits(call[c])
  BY CallFits DEF Pcs, UnpublishSteps
<1>2. PICK r : Then(c, r, s, "none")
  BY <1>1, GotoThen
<1>3. /\ Moved(c, r) /\ r.pc = s /\ r.resp = "none" /\ r.op = "unpublish"
      /\ r.pod = call[c].pod /\ r.late = call[c].late
  BY <1>2 DEF Then, Moved
<1>4. Legal(Kind, r) /\ ~ Inside(r) /\ r.pc # "bind"
  BY <1>1, <1>3 DEF Fits, Legal, UnpublishSteps, Inside
<1>5. DiskCall(Kind, r, disk) /\ SizeCall(Kind, r, size)
  BY <1>3 DEF DiskCall, SizeCall
<1>6. CalmInv'
  <2>1. UNCHANGED <<volume, gaveUp, kube, pod>>
    BY DEF kubelet
  <2>2. ~ gaveUp => CalmCall(Kind, r, kube, pod, staging', bound)
    BY <1>1, <1>3 DEF Fits, CalmCall
  <2>3. ~ gaveUp => CalmState(Kind, kube, pod, staging', bound) /\ hollow' = {}
    BY CalmNow DEF CalmState
  <2>4. ASSUME ~ gaveUp, NEW d \in Calls, call[d].op = "unpublish"
        PROVE  CalmCall(Kind, call[d], kube, pod, staging', bound)
    <3>1. CalmCall(Kind, call[d], kube, pod, staging, bound)
      BY <2>4, CallFits DEF Fits
    <3> QED
      BY <2>4, <3>1 DEF CalmCall
  <2> QED
    BY <1>3, <2>1, <2>2, <2>3, <2>4, CalmStep
<1>7. bound' \in [Pods -> Nat] /\ hollow' \subseteq Pods /\ \A p \in Pods : bound'[p] <= bound[p]
  BY DEF Inv, StateTypeOK
<1>8. BoundInv'
  <2>1. \A d \in Calls : call'[d].pc = "bind" => call[d].pc = "bind" /\ call'[d].pod = call[d].pod
    BY <1>3, <1>4 DEF Moved
  <2> QED
    BY <1>7, <2>1, BoundStays DEF Inv
<1> QED
  BY <1>3, <1>4, <1>5, <1>6, <1>7, <1>8, PathsMove

LEMMA OldPathsKeepInv ==
    \A c \in Calls :
        Inv /\ (cleanIntreePath(c) \/ cleanOldStagingPath(c) \/ OldStagingRemove(c)) => Inv'
<1> SUFFICES ASSUME NEW c \in Calls, Inv,
                    cleanIntreePath(c) \/ cleanOldStagingPath(c) \/ OldStagingRemove(c)
             PROVE  Inv'
  OBVIOUS
<1>1. /\ call[c].op # "none" /\ call[c].pc \in {"intree", "oldStaging", "oldRemove"}
      /\ UNCHANGED <<kubelet, inflight, device, bound, hollow>>
  BY DEF cleanIntreePath, cleanOldStagingPath, OldStagingRemove, At
<1>2. call[c].op = "unpublish" /\ Kind # "block" /\ call[c].pc # "reply"
  BY <1>1, OpOf, NotBlock DEF UnpublishSteps, BlockSteps
<1>3. staging \in {"absent", "empty", "mounted"} /\ legacy \subseteq {"target", "staging"}
  BY DEF Inv, StateTypeOK
<1>4. legacy' \subseteq {"target", "staging"}
  BY <1>3 DEF cleanIntreePath, cleanOldStagingPath, OldStagingRemove
<1>5. CASE Answer(c, "err") /\ staging' = staging
  BY <1>1, <1>4, <1>5, ErrAnswer
<1>6. CASE \E s \in {"oldStaging", "oldRemove", "loop"} :
              /\ Goto(c, s) /\ staging' \in {"absent", "empty", "mounted"}
              /\ staging' = "mounted" => staging = "mounted"
  BY <1>1, <1>2, <1>4, <1>6, UnpublishMove
<1> QED
  BY <1>3, <1>5, <1>6 DEF cleanIntreePath, cleanOldStagingPath, OldStagingRemove

LEMMA UnpublishLoopKeepsInv == \A c \in Calls : Inv /\ UnpublishLoop(c) => Inv'
<1> SUFFICES ASSUME NEW c \in Calls, Inv, UnpublishLoop(c) PROVE Inv'
  OBVIOUS
<1>1. /\ call[c].op # "none" /\ call[c].pc = "loop"
      /\ UNCHANGED <<kubelet, inflight, device, staging, legacy>>
  BY DEF UnpublishLoop, At
<1>2. call[c].op = "unpublish" /\ Fits(call[c]) /\ call[c] \in CallRecord
  BY <1>1, OpOf, CallFits DEF UnpublishSteps
<1>3. PICK p \in Pods : p = call[c].pod
  BY <1>1, OpOf DEF UnpublishSteps
<1>4. /\ staging' \in {"absent", "empty", "mounted"} /\ legacy' \subseteq {"target", "staging"}
      /\ bound \in [Pods -> Nat] /\ hollow \subseteq Pods
      /\ lvm' \in {"none", "pv", "vg", "lv"} /\ active' \in BOOLEAN /\ UNCHANGED <<disk, size>>
  BY <1>1 DEF Inv, StateTypeOK, device
<1>5. CASE Answer(c, "err") /\ UNCHANGED <<bound, hollow>>
  BY <1>1, <1>4, <1>5, ErrAnswer
<1>6. CASE bound[p] = 0 /\ Answer(c, "ok") /\ UNCHANGED <<bound, hollow>>
  <2>1. PICK r : Then(c, r, "reply", "ok")
    BY <1>6, AnswerThen
  <2>2. /\ Moved(c, r) /\ r.pc = "reply" /\ r.resp = "ok" /\ r.op = "unpublish" /\ r.pod = p
        /\ r.late = call[c].late
    BY <1>2, <1>3, <2>1 DEF Then, Moved
  <2>3. Legal(Kind, r) /\ ~ Inside(r)
    BY <2>2, ReplyOutside DEF Legal, BlockSteps
  <2>4. DiskCall(Kind, r, disk) /\ SizeCall(Kind, r, size)
    BY <2>2 DEF DiskCall, SizeCall
  <2>5. ~ gaveUp => CalmCall(Kind, r, kube, pod, staging, bound)
    BY <1>2, <1>3, <1>6, <2>2 DEF Fits, CalmCall
  <2>6. Fits(r)
    BY <2>3, <2>4, <2>5 DEF Fits
  <2> QED
    BY <1>1, <1>4, <1>6, <2>2, <2>3, <2>6, OutsideMove
<1>7. CASE /\ bound[p] > 0 /\ bound' = [bound EXCEPT ![p] = @ - 1]
           /\ hollow' = IF bound[p] = 1 THEN hollow \ {p} ELSE hollow
           /\ call' = call
  <2>1. PICK r : r = call[c]
    OBVIOUS
  <2>2. /\ Moved(c, r) /\ r.pc = "loop" /\ r.resp = "none" /\ r.op = "unpublish" /\ r.pod = p
    <3>1. call \in [Calls -> CallRecord]
      BY DEF Inv, StateTypeOK
    <3>2. r.resp = "none"
      BY <1>1, <1>2, <2>1 DEF Fits, Legal
    <3> QED
      BY <1>1, <1>2, <1>3, <1>7, <2>1, <3>1, <3>2 DEF Moved
  <2>3. Legal(Kind, r) /\ ~ Inside(r) /\ DiskCall(Kind, r, disk) /\ SizeCall(Kind, r, size)
    BY <1>2, <2>1, <2>2 DEF Fits, Inside
  <2>4. /\ bound' \in [Pods -> Nat] /\ hollow' \subseteq Pods
        /\ bound'[p] = bound[p] - 1 /\ bound[p] \in Nat
        /\ \A q \in Pods : q # p => bound'[q] = bound[q]
        /\ \A q \in Pods : bound'[q] <= bound[q]
    BY <1>4, <1>7
  <2>5. CalmInv'
    <3>1. ~ gaveUp => pod[p] = "maybe" /\ ~ r.late
      BY <1>2, <1>3, <2>1 DEF Fits, CalmCall
    <3>2. ~ gaveUp => hollow' = {}
      BY <1>7, CalmNow
    <3>3. ~ gaveUp => CalmCall(Kind, r, kube, pod, staging, bound')
      BY <2>2, <3>1 DEF CalmCall
    <3>4. ~ gaveUp => CalmState(Kind, kube, pod, staging, bound')
      <4>1. SUFFICES ASSUME ~ gaveUp
                     PROVE  \A q \in Pods : /\ pod[q] = "published" => bound'[q] > 0
                                            /\ pod[q] = "none" => bound'[q] = 0
        BY CalmNow DEF CalmState
      <4>2. \A q \in Pods : /\ pod[q] = "published" => bound[q] > 0
                            /\ pod[q] = "none" => bound[q] = 0
        BY <4>1, CalmNow DEF CalmState
      <4> QED
        BY <2>4, <3>1, <4>1, <4>2
    <3>5. ASSUME ~ gaveUp, NEW d \in Calls, call[d].op = "unpublish", call[d].pod # p
          PROVE  CalmCall(Kind, call[d], kube, pod, staging, bound')
      <4>1. CalmCall(Kind, call[d], kube, pod, staging, bound) /\ Legal(Kind, call[d])
        BY <3>5, CallFits DEF Fits
      <4>2. bound'[call[d].pod] = bound[call[d].pod]
        BY <2>4, <3>5, <4>1 DEF Legal
      <4> QED
        BY <3>5, <4>1, <4>2 DEF CalmCall
    <3> QED
      BY <1>1, <1>2, <1>3, <2>2, <3>2, <3>3, <3>4, <3>5, CalmStep DEF kubelet
  <2>6. BoundInv'
    BY <1>7, <2>4, BoundStays DEF Inv
  <2> QED
    BY <1>1, <1>4, <2>2, <2>3, <2>4, <2>5, <2>6, PathsMove
<1> QED
  BY <1>3, <1>5, <1>6, <1>7 DEF UnpublishLoop

-----------------------------------------------------------------------------
(* NodeExpandVolume.                                                        *)

\* What the invariant asks of an expansion is about sizes.
LEMMA ExpandCall ==
    ASSUME Inv, NEW c \in Calls, call[c].op = "expand", NEW r, NEW s, NEW a, Then(c, r, s, a),
           \/ s \in {"pvresize", "lvextend", "resizefs"} /\ a = "none" /\ Kind # "block"
           \/ s = "reply"
    PROVE  /\ Moved(c, r) /\ r.pc # "bind" /\ ~ Inside(r) /\ r.op = "expand" /\ r.req = call[c].req
           /\ r.pc = s /\ r.resp = a
           /\ Legal(Kind, r) /\ DiskCall(Kind, r, disk)
           /\ ~ gaveUp => CalmCall(Kind, r, kube, pod, staging, bound)
<1>1. /\ Moved(c, r) /\ r.pc = s /\ r.resp = a /\ r.op = "expand" /\ r.pod = call[c].pod
      /\ r.req = call[c].req /\ r.late = call[c].late
  BY DEF Then, Moved
<1>2. Fits(call[c])
  BY CallFits
<1>3. Legal(Kind, r)
  BY <1>1, <1>2 DEF Fits, Legal, ExpandSteps, BlockSteps
<1>4. DiskCall(Kind, r, disk) /\ ~ Inside(r) /\ r.pc # "bind"
  BY <1>1 DEF DiskCall, Inside
<1>5. ~ gaveUp => CalmCall(Kind, r, kube, pod, staging, bound)
  BY <1>1, <1>2 DEF Fits, CalmCall
<1> QED
  BY <1>1, <1>3, <1>4, <1>5

LEMMA ExpandQuiet ==
    ASSUME Inv, NEW c \in Calls, call[c].op = "expand", NEW s \in {"pvresize", "lvextend", "resizefs"},
           Goto(c, s), call[c].pc # "reply", Kind # "block", size.node >= call[c].req,
           s = "resizefs" => Kind # "lvm",
           UNCHANGED <<kubelet, inflight, device, paths>>
    PROVE  Inv'
<1>1. s \in Pcs /\ Fits(call[c])
  BY CallFits DEF Pcs, ExpandSteps
<1>2. PICK r : Then(c, r, s, "none")
  BY <1>1, GotoThen
<1>3. /\ Moved(c, r) /\ r.pc # "bind" /\ ~ Inside(r) /\ r.op = "expand" /\ r.req = call[c].req
      /\ r.pc = s /\ r.resp = "none"
      /\ Legal(Kind, r) /\ DiskCall(Kind, r, disk)
      /\ ~ gaveUp => CalmCall(Kind, r, kube, pod, staging, bound)
  BY <1>2, ExpandCall
<1>4. SizeCall(Kind, r, size)
  BY <1>1, <1>3 DEF Fits, SizeCall, Device
<1>5. Fits(r)
  BY <1>3, <1>4 DEF Fits
<1>6. /\ UNCHANGED <<disk, size, staging, bound, hollow>> /\ lvm' \in {"none", "pv", "vg", "lv"}
      /\ active' \in BOOLEAN /\ legacy' \subseteq {"target", "staging"}
  BY DEF Inv, StateTypeOK, device, paths
<1> QED
  BY <1>3, <1>5, <1>6, OutsideMove

\* The device or the file system grows.
LEMMA ExpandGrows ==
    ASSUME Inv, NEW c \in Calls, call[c].op = "expand", NEW r, NEW s, NEW a, Then(c, r, s, a),
           \/ s = "resizefs" /\ a = "none" /\ Kind # "block"
           \/ s = "reply" /\ a = "ok",
           NEW z, Grows(z), s = "resizefs" => z.node >= call[c].req /\ Device(Kind, z) >= call[c].req,
           a = "ok" => z.fs >= call[c].req,
           UNCHANGED <<kubelet, inflight, disk, lvm, active, paths>>
    PROVE  Inv'
<1>1. /\ Moved(c, r) /\ r.pc # "bind" /\ ~ Inside(r) /\ r.op = "expand" /\ r.req = call[c].req
      /\ r.pc = s /\ r.resp = a
      /\ Legal(Kind, r) /\ DiskCall(Kind, r, disk)
      /\ ~ gaveUp => CalmCall(Kind, r, kube, pod, staging, bound)
  BY ExpandCall
<1>2. SizeCall(Kind, r, z)
  BY <1>1, CallFits DEF Fits, SizeCall
<1>3. InflightInv' /\ inflight' \subseteq {"stage", "publish"}
  BY <1>1, OutsideStays
<1>4. lvm' \in {"none", "pv", "vg", "lv"} /\ active' \in BOOLEAN
  BY DEF Inv, StateTypeOK
<1> QED
  BY <1>1, <1>2, <1>3, <1>4, GrowMove

LEMMA ExpandStepsKeepInv ==
    \A c \in Calls :
        Inv /\ (ExpandCapacity(c) \/ LvmPvresize(c) \/ LvmExtend(c) \/ ExpandResize(c)) => Inv'
<1> SUFFICES ASSUME NEW c \in Calls, Inv,
                    ExpandCapacity(c) \/ LvmPvresize(c) \/ LvmExtend(c) \/ ExpandResize(c)
             PROVE  Inv'
  OBVIOUS
<1>1. /\ call[c].op # "none" /\ call[c].pc \in {"capacity", "pvresize", "lvextend", "resizefs"}
      /\ UNCHANGED <<kubelet, inflight, disk, lvm, active, paths>>
  BY DEF ExpandCapacity, LvmPvresize, LvmExtend, ExpandResize, At, device
<1>2. call[c].op = "expand" /\ Kind # "block" /\ call[c].pc # "reply"
  BY <1>1, OpOf, NotBlock DEF ExpandSteps, BlockSteps
<1>3. /\ call[c].req \in Nat
      /\ call[c].pc # "capacity" => size.node >= call[c].req
      /\ call[c].pc = "resizefs" => Device(Kind, size) >= call[c].req
  BY <1>1, <1>2, CallFits, ConstantsAssumption DEF Fits, SizeCall, CallRecord
<1>4. CASE Answer(c, "err") /\ size' = size
  <2>1. UNCHANGED <<device, staging, bound, hollow>> /\ legacy' \subseteq {"target", "staging"}
    BY <1>1, <1>4 DEF Inv, StateTypeOK, device, paths
  <2> QED
    BY <1>1, <1>4, <2>1, ErrAnswer
<1>5. CASE ExpandCapacity(c) /\ size.node >= call[c].req /\ ~ Answer(c, "err")
  BY <1>2, <1>5, ExpandQuiet DEF ExpandCapacity
<1>6. CASE LvmPvresize(c) /\ Goto(c, "lvextend")
  BY <1>2, <1>3, <1>6, ExpandQuiet DEF LvmPvresize, At
<1>7. CASE LvmExtend(c) /\ size' = [size EXCEPT !.lv = size.node] /\ Goto(c, "resizefs")
  <2>1. "resizefs" \in Pcs /\ call[c].pc = "lvextend"
    BY <1>7 DEF Pcs, ExpandSteps, LvmExtend, At
  <2>2. PICK r : Then(c, r, "resizefs", "none")
    BY <1>2, <1>7, <2>1, GotoThen
  <2>3. PICK z : z = [size EXCEPT !.lv = size.node]
    OBVIOUS
  <2>4. /\ z \in Sizes /\ z.lv = size.node /\ z.node = size.node /\ z.fs = size.fs
        /\ z.cloud = size.cloud
    BY <2>3, SizeFacts DEF Sizes
  <2>5. Grows(z) /\ Device(Kind, z) = size.node
    BY <1>7, <2>3, <2>4, SizeFacts DEF Grows, Device
  <2> QED
    BY <1>1, <1>2, <1>3, <2>1, <2>2, <2>4, <2>5, ExpandGrows
<1>8. CASE ExpandResize(c) /\ size' = GrownFs /\ Answer(c, "ok")
  <2>1. PICK r : Then(c, r, "reply", "ok")
    BY <1>8, AnswerThen
  <2>2. PICK z : Grows(z) /\ z.fs = Device(Kind, size)
    BY <1>8, GrownFsGrows
  <2>3. z.fs >= call[c].req
    BY <1>3, <1>8, <2>2 DEF ExpandResize, At
  <2> QED
    BY <1>1, <1>2, <2>1, <2>2, <2>3, ExpandGrows
<1>9. CASE ExpandCapacity(c)
  BY <1>4, <1>5, <1>9 DEF ExpandCapacity, device
<1>10. CASE LvmPvresize(c)
  BY <1>4, <1>6, <1>10 DEF LvmPvresize, device
<1> QED
  BY <1>4, <1>7, <1>8, <1>9, <1>10 DEF LvmExtend, ExpandResize

-----------------------------------------------------------------------------
(* The kubelet.                                                             *)

\* Call c ends: what the kubelet cares for holds of its new state.
LEMMA CalmEnds ==
    ASSUME Inv, NEW c \in Calls, call[c].op # "none", call'[c] = NoCall,
           \A d \in Calls : d # c => call'[d] = call[d], volume' = volume, gaveUp' = gaveUp,
           ~ gaveUp =>
               /\ hollow' = {}
               /\ CalmState(Kind, kube', pod', staging', bound')
               /\ \A d \in Calls : d # c /\ call[c].op = "unpublish" /\ call[d].op = "unpublish"
                                         /\ call[d].pod # call[c].pod =>
                     CalmCall(Kind, call[d], kube', pod', staging', bound')
    PROVE  CalmInv'
<1> SUFFICES ASSUME ~ gaveUp
             PROVE  /\ Alone' /\ hollow' = {}
                    /\ CalmState(Kind, kube', pod', staging', bound')
                    /\ \A d \in Calls : CalmCall(Kind, call'[d], kube', pod', staging', bound')
  <2>1. Kind' = Kind
    BY DEF Kind
  <2> QED
    BY <2>1 DEF CalmInv
<1>1. Alone'
  <2>1. Alone
    BY DEF Inv, CalmInv
  <2>2. \A d \in Calls : call'[d].op # "none" => call'[d] = call[d]
    BY NoCallFacts
  <2> QED
    BY <2>1, <2>2 DEF Alone
<1>2. ASSUME NEW d \in Calls PROVE CalmCall(Kind, call'[d], kube', pod', staging', bound')
  <2>1. CASE d = c
    BY <2>1, CalmNoCall
  <2>2. CASE d # c
    BY <2>2, BesideCall, CalmNoCall
  <2> QED
    BY <2>1, <2>2
<1> QED
  BY <1>1, <1>2

\* What a reply may change.
Replied(r) ==
    /\ \/ kube' = kube
       \/ r.op = "stage" /\ r.resp = "ok" /\ kube' = "staged"
       \/ r.op = "unstage" /\ r.resp = "ok" /\ kube' = "none"
    /\ \/ pod' = pod
       \/ r.op = "publish" /\ r.resp = "ok" /\ pod' = [pod EXCEPT ![r.pod] = "published"]
       \/ r.op = "unpublish" /\ r.resp = "ok" /\ pod' = [pod EXCEPT ![r.pod] = "none"]
    /\ disk' = disk \/ (r.op = "publish" /\ disk' = "data")
    /\ \/ size' = size
       \/ r.op = "expand" /\ size' = [size EXCEPT !.kube = r.req]

LEMMA ReplyReplied == ASSUME NEW c \in Calls, Reply(c) PROVE Replied(call[c])
  BY DEF Reply, Replied

LEMMA RepliedDisk ==
    ASSUME Inv, NEW c \in Calls, Replied(call[c]), volume' = volume, staging' = staging,
           call'[c] = NoCall, \A d \in Calls : d # c => call'[d] = call[d]
    PROVE  DiskInv'
<1>1. Kind' = Kind
  BY DEF Kind
<1>2. DiskInv /\ DiskCall(Kind, call[c], disk)
  BY DEF Inv, DiskInv
<1>3. kube' = "staged" /\ Kind # "block" => disk # "blank"
  BY <1>2 DEF Replied, DiskInv, DiskCall
<1>4. disk # "blank" => disk' # "blank"
  BY DEF Replied
<1>5. \A d \in Calls : DiskCall(Kind, call'[d], disk')
  <2>1. ASSUME NEW d \in Calls PROVE DiskCall(Kind, call'[d], disk')
    <3>1. CASE d = c
      BY <3>1, NoCallFacts DEF DiskCall
    <3>2. CASE d # c /\ disk' = disk
      BY <1>2, <3>2 DEF DiskInv
    <3>3. CASE d # c /\ call[c].op = "publish" /\ disk' = "data"
      <4>1. call[d].pc # "format"
        BY <1>2, <3>3, NotBlock DEF DiskInv, DiskCall, BlockSteps
      <4> QED
        BY <3>3, <4>1 DEF DiskCall
    <3> QED
      BY <3>1, <3>2, <3>3 DEF Replied
  <2> QED
    BY <2>1
<1> QED
  BY <1>1, <1>2, <1>3, <1>4, <1>5 DEF DiskInv

LEMMA RepliedSize ==
    ASSUME Inv, NEW c \in Calls, Replied(call[c]), volume' = volume,
           call'[c] = NoCall, \A d \in Calls : d # c => call'[d] = call[d]
    PROVE  SizeInv' /\ size' \in Sizes
<1>1. \A d \in Calls : \A s : call'[d] = call[d] \/ SizeCall(Kind, call'[d], s)
  BY NoCallFacts DEF SizeCall
<1>2. CASE size' = size
  BY <1>1, <1>2, SizeStays DEF Inv, StateTypeOK
<1>3. CASE call[c].op = "expand" /\ size' = [size EXCEPT !.kube = call[c].req]
  <2>1. call[c].req \in 1..MaxSize
    BY <1>3, CallFits, ConstantsAssumption DEF Fits, SizeCall, CallRecord
  <2>2. PICK z : z = [size EXCEPT !.kube = call[c].req]
    OBVIOUS
  <2>3. z \in Sizes /\ z.lv = size.lv /\ z.node = size.node /\ z.fs = size.fs /\ z.cloud = size.cloud
    BY <2>1, <2>2, SizeFacts DEF Sizes
  <2>4. /\ size.lv <= z.lv /\ size.node <= z.node /\ size.fs <= z.fs
        /\ z.lv <= z.node /\ z.node <= z.cloud /\ z.fs <= Device(Kind, z)
    BY <2>3, SizeFacts DEF Device
  <2> QED
    BY <1>1, <1>3, <2>2, <2>3, <2>4, SizeStep DEF Inv
<1> QED
  BY <1>2, <1>3 DEF Replied

LEMMA RepliedCalm ==
    ASSUME Inv, NEW c \in Calls, call[c].op # "none", Replied(call[c]),
           UNCHANGED <<volume, gaveUp, staging, bound, hollow>>,
           call'[c] = NoCall, \A d \in Calls : d # c => call'[d] = call[d]
    PROVE  CalmInv'
<1> SUFFICES ASSUME ~ gaveUp
             PROVE  /\ CalmState(Kind, kube', pod', staging, bound)
                    /\ \A d \in Calls : d # c /\ call[c].op = "unpublish" /\ call[d].op = "unpublish"
                                              /\ call[d].pod # call[c].pod =>
                          CalmCall(Kind, call[d], kube', pod', staging, bound)
  BY CalmNow, CalmEnds
<1>1. /\ CalmCall(Kind, call[c], kube, pod, staging, bound) /\ Legal(Kind, call[c])
      /\ CalmState(Kind, kube, pod, staging, bound) /\ pod \in [Pods -> {"none", "maybe", "published"}]
  BY CallFits, CalmNow DEF Fits, Inv, StateTypeOK
<1>2. CASE pod' = pod
  <2>1. CalmState(Kind, kube', pod, staging, bound)
    BY <1>1 DEF Replied, CalmCall, CalmState
  <2>2. \A d \in Calls : call[d].op = "unpublish" => CalmCall(Kind, call[d], kube', pod, staging, bound)
    BY CallFits DEF Fits, CalmCall
  <2> QED
    BY <1>2, <2>1, <2>2
<1>3. CASE /\ call[c].op \in {"publish", "unpublish"} /\ call[c].resp = "ok"
           /\ pod' = [pod EXCEPT ![call[c].pod] =
                          IF call[c].op = "publish" THEN "published" ELSE "none"]
  <2>1. PICK p \in Pods : p = call[c].pod
    BY <1>1, <1>3 DEF Legal
  <2>2. /\ kube' = kube /\ pod'[p] = IF call[c].op = "publish" THEN "published" ELSE "none"
        /\ \A q \in Pods : q # p => pod'[q] = pod[q]
    BY <1>1, <1>3, <2>1 DEF Replied
  <2>3. /\ call[c].op = "publish" => kube = "staged" /\ bound[p] > 0
        /\ call[c].op = "unpublish" => bound[p] = 0
    BY <1>1, <1>3, <2>1 DEF CalmCall
  <2>4. CalmState(Kind, kube', pod', staging, bound)
    BY <1>1, <1>3, <2>2, <2>3 DEF CalmState
  <2>5. ASSUME NEW d \in Calls, call[d].op = "unpublish", call[d].pod # p
        PROVE  CalmCall(Kind, call[d], kube', pod', staging, bound)
    <3>1. CalmCall(Kind, call[d], kube, pod, staging, bound) /\ Legal(Kind, call[d])
      BY CallFits DEF Fits
    <3>2. pod'[call[d].pod] = pod[call[d].pod]
      BY <2>2, <2>5, <3>1 DEF Legal
    <3> QED
      BY <2>5, <3>1, <3>2 DEF CalmCall
  <2> QED
    BY <2>1, <2>4, <2>5
<1> QED
  BY <1>2, <1>3 DEF Replied

LEMMA ReplyKeepsInv == \A c \in Calls : Inv /\ Reply(c) => Inv'
<1> SUFFICES ASSUME NEW c \in Calls, Inv, Reply(c) PROVE Inv'
  OBVIOUS
<1>1. /\ call[c].op # "none" /\ call' = [call EXCEPT ![c] = NoCall]
      /\ UNCHANGED <<volume, gaveUp, inflight, lvm, active, staging, bound, hollow, legacy>>
  BY DEF Reply, request, paths
<1>2. Replied(call[c])
  BY ReplyReplied
<1>3. /\ call' \in [Calls -> CallRecord] /\ call'[c] = NoCall
      /\ \A d \in Calls : d # c => call'[d] = call[d]
  BY <1>1, NoCallFacts DEF Inv, StateTypeOK
<1>4. DiskInv'
  BY <1>1, <1>2, <1>3, RepliedDisk
<1>5. SizeInv' /\ size' \in Sizes
  BY <1>1, <1>2, <1>3, RepliedSize
<1>6. CalmInv'
  BY <1>1, <1>2, <1>3, RepliedCalm
<1>7. LegalInv'
  <2>1. Legal(Kind, NoCall)
    BY NoCallFacts DEF Legal, BlockSteps, StageSteps
  <2> QED
    BY <1>1, <1>3, <2>1, LegalStep DEF Inv
<1>8. InflightInv'
  <2>1. \A d \in Calls : Inside(call'[d]) => Inside(call[d]) /\ call'[d].op = call[d].op
    BY <1>3, NoCallFacts DEF Inside
  <2> QED
    BY <1>1, <2>1, InflightStays DEF Inv
<1>9. BoundInv'
  <2>1. bound' \in [Pods -> Nat] /\ \A p \in Pods : bound'[p] <= bound[p]
    BY <1>1 DEF Inv, StateTypeOK
  <2>2. \A d \in Calls : call'[d].pc = "bind" => call[d].pc = "bind" /\ call'[d].pod = call[d].pod
    BY <1>3, NoCallFacts
  <2> QED
    BY <2>1, <2>2, BoundStays DEF Inv
<1>10. StateTypeOK'
  <2>1. kube' \in {"none", "maybe", "staged"} /\ disk' \in {"blank", "formatted", "data"}
    BY <1>2 DEF Replied, Inv, StateTypeOK
  <2>2. pod' \in [Pods -> {"none", "maybe", "published"}]
    BY <1>2 DEF Replied, Inv, StateTypeOK
  <2> QED
    BY <1>1, <1>3, <1>5, <2>1, <2>2 DEF Inv, StateTypeOK
<1> QED
  BY <1>4, <1>5, <1>6, <1>7, <1>8, <1>9, <1>10 DEF Inv

\* A request comes: slot c, which was free, holds call r.
Begun(c, r, op, p, pc, q) ==
    /\ call[c].op = "none" /\ MayCall(op, p)
    /\ call' \in [Calls -> CallRecord] /\ call'[c] = r
    /\ \A d \in Calls : d # c => call'[d] = call[d]
    /\ r.op = op /\ r.pod = p /\ r.pc = pc /\ r.req = q /\ r.resp = "none" /\ ~ r.late

LEMMA StartBegun ==
    ASSUME Inv, NEW c \in Calls, NEW op \in {"stage", "unstage", "publish", "unpublish", "expand"},
           NEW p \in Pods \cup {NoPod}, NEW pc \in Pcs, NEW q \in 0..MaxSize,
           StartCall(c, op, p, pc, q)
    PROVE  /\ \E r : Begun(c, r, op, p, pc, q)
           /\ UNCHANGED <<inflight, disk, lvm, active, size, staging, bound, hollow, legacy>>
<1>1. PICK r : r = [NoCall EXCEPT !.op = op, !.pod = p, !.pc = pc, !.req = q]
  OBVIOUS
<1>2. r \in CallRecord /\ r.op = op /\ r.pod = p /\ r.pc = pc /\ r.req = q /\ r.resp = "none"
      /\ ~ r.late
  BY <1>1 DEF NoCall, CallRecord, Pcs
<1>3. call' = [call EXCEPT ![c] = r] /\ call \in [Calls -> CallRecord]
  BY <1>1 DEF StartCall, Inv, StateTypeOK
<1>4. call' \in [Calls -> CallRecord] /\ call'[c] = r /\ \A d \in Calls : d # c => call'[d] = call[d]
  BY <1>2, <1>3
<1>5. call[c].op = "none" /\ MayCall(op, p)
  BY DEF StartCall
<1>6. UNCHANGED <<inflight, disk, lvm, active, size, staging, bound, hollow, legacy>>
  BY DEF StartCall, device, paths
<1> QED
  BY <1>2, <1>4, <1>5, <1>6 DEF Begun

\* Who is waited for leaves room only for unpublish calls of several pods.
LEMMA BesideBegun ==
    ASSUME Inv, ~ gaveUp, NEW c \in Calls, NEW r, NEW op, NEW p, NEW pc, NEW q,
           Begun(c, r, op, p, pc, q), NEW d \in Calls, d # c
    PROVE  \/ call[d] = NoCall
           \/ op = "unpublish" /\ call[d].op = "unpublish" /\ call[d].pod # p
<1>1. (call[d].op = "none" => call[d] = NoCall) /\ ~ call[d].late
  BY DEF Inv, LegalInv, Legal, CalmInv, CalmCall
<1> QED
  BY <1>1 DEF Begun, MayCall

LEMMA CalmBegins ==
    ASSUME Inv, NEW c \in Calls, NEW r, NEW op, NEW p, NEW pc, NEW q, Begun(c, r, op, p, pc, q),
           UNCHANGED <<volume, gaveUp, staging, bound, hollow>>,
           ~ gaveUp =>
               /\ CalmState(Kind, kube', pod', staging, bound)
               /\ CalmCall(Kind, r, kube', pod', staging, bound)
               /\ \A d \in Calls : op = "unpublish" /\ call[d].op = "unpublish" /\ call[d].pod # p =>
                     CalmCall(Kind, call[d], kube', pod', staging, bound)
    PROVE  CalmInv'
<1> SUFFICES ASSUME ~ gaveUp
             PROVE  Alone' /\ \A d \in Calls : CalmCall(Kind, call'[d], kube', pod', staging, bound)
  <2>1. Kind' = Kind
    BY DEF Kind
  <2> QED
    BY <2>1, CalmNow DEF CalmInv
<1>1. /\ call'[c] = r /\ r.op = op /\ r.pod = p
      /\ \A d \in Calls : d # c => call'[d] = call[d]
  BY DEF Begun
<1>2. \A d \in Calls : d # c =>
          \/ call[d] = NoCall
          \/ op = "unpublish" /\ call[d].op = "unpublish" /\ call[d].pod # p
  BY BesideBegun
<1>3. Alone'
  <2>1. Alone
    BY DEF Inv, CalmInv
  <2>2. SUFFICES ASSUME NEW d \in Calls, NEW e \in Calls, d # e,
                        call'[d].op # "none", call'[e].op # "none"
                 PROVE  /\ call'[d].op = "unpublish" /\ call'[e].op = "unpublish"
                        /\ call'[d].pod # call'[e].pod
    BY DEF Alone
  <2>3. CASE d = c
    BY <1>1, <1>2, <2>2, <2>3, NoCallFacts
  <2>4. CASE e = c
    BY <1>1, <1>2, <2>2, <2>4, NoCallFacts
  <2>5. CASE d # c /\ e # c
    BY <1>1, <2>1, <2>2, <2>5 DEF Alone
  <2> QED
    BY <2>3, <2>4, <2>5
<1>4. ASSUME NEW d \in Calls PROVE CalmCall(Kind, call'[d], kube', pod', staging, bound)
  <2>1. CASE d = c
    BY <1>1, <2>1
  <2>2. CASE d # c
    BY <1>1, <1>2, <2>2, CalmNoCall
  <2> QED
    BY <2>1, <2>2
<1> QED
  BY <1>3, <1>4

LEMMA BeginMove ==
    ASSUME Inv, NEW c \in Calls, NEW r, NEW op, NEW p, NEW pc, NEW q, Begun(c, r, op, p, pc, q),
           UNCHANGED <<request, inflight, disk, lvm, active, size, staging, bound, hollow, legacy>>,
           pc \notin StageSteps \ {"insert"}, pc # "bind",
           Legal(Kind, r), DiskCall(Kind, r, disk), SizeCall(Kind, r, size),
           kube' \in {"none", "maybe", "staged"}, kube' = "staged" => kube = "staged",
           pod' \in [Pods -> {"none", "maybe", "published"}],
           ~ gaveUp =>
               /\ CalmState(Kind, kube', pod', staging, bound)
               /\ CalmCall(Kind, r, kube', pod', staging, bound)
               /\ \A d \in Calls : op = "unpublish" /\ call[d].op = "unpublish" /\ call[d].pod # p =>
                     CalmCall(Kind, call[d], kube', pod', staging, bound)
    PROVE  Inv'
<1>1. UNCHANGED <<volume, gaveUp>>
  BY DEF request
<1>2. /\ call' \in [Calls -> CallRecord] /\ call'[c] = r /\ r.pc = pc
      /\ \A d \in Calls : d # c => call'[d] = call[d]
  BY DEF Begun
<1>3. CalmInv'
  BY <1>1, CalmBegins
<1>4. StateTypeOK'
  BY <1>1, <1>2 DEF Inv, StateTypeOK
<1>5. LegalInv'
  BY <1>1, <1>2, LegalStep DEF Inv
<1>6. DiskInv'
  BY <1>1, <1>2, DiskStep DEF Inv
<1>7. SizeInv'
  BY <1>1, <1>2, SizeStays DEF Inv
<1>8. InflightInv'
  <2>1. \A d \in Calls : Inside(call'[d]) => Inside(call[d]) /\ call'[d].op = call[d].op
    BY <1>2 DEF Inside
  <2> QED
    BY <2>1, InflightStays DEF Inv
<1>9. BoundInv'
  <2>1. bound' \in [Pods -> Nat] /\ \A t \in Pods : bound'[t] <= bound[t]
    BY DEF Inv, StateTypeOK
  <2>2. \A d \in Calls : call'[d].pc = "bind" => call[d].pc = "bind" /\ call'[d].pod = call[d].pod
    BY <1>2
  <2> QED
    BY <2>1, <2>2, BoundStays DEF Inv
<1> QED
  BY <1>3, <1>4, <1>5, <1>6, <1>7, <1>8, <1>9 DEF Inv

LEMMA StageUnstageKeepInv ==
    \A c \in Calls : Inv /\ (NodeStageVolume(c) \/ NodeUnstageVolume(c)) => Inv'
<1> SUFFICES ASSUME NEW c \in Calls, Inv, NodeStageVolume(c) \/ NodeUnstageVolume(c) PROVE Inv'
  OBVIOUS
<1>1. PICK op \in {"stage", "unstage"} :
          /\ op = "unstage" => \A p \in Pods : pod[p] = "none"
          /\ StartCall(c, op, NoPod, IF op = "stage" THEN "insert"
                                     ELSE IF Kind = "lvm" THEN "refCount" ELSE "tmpPath", 0)
  BY DEF NodeStageVolume, NodeUnstageVolume
<1>2. PICK pc : pc = IF op = "stage" THEN "insert" ELSE IF Kind = "lvm" THEN "refCount" ELSE "tmpPath"
  OBVIOUS
<1>3. kube' = "maybe" /\ UNCHANGED <<request, pod>>
  BY DEF NodeStageVolume, NodeUnstageVolume
<1>4. pc \in Pcs /\ pc \notin StageSteps \ {"insert"} /\ pc # "bind" /\ 0 \in 0..MaxSize
  BY <1>2, ConstantsAssumption DEF Pcs, StageSteps, UnstageSteps
<1>5. /\ \E r : Begun(c, r, op, NoPod, pc, 0)
      /\ UNCHANGED <<inflight, disk, lvm, active, size, staging, bound, hollow, legacy>>
  BY <1>1, <1>2, <1>4, StartBegun
<1>6. PICK r : Begun(c, r, op, NoPod, pc, 0)
  BY <1>5
<1>7. r.op = op /\ r.pc = pc /\ r.resp = "none" /\ ~ r.late
  BY <1>6 DEF Begun
<1>8. Legal(Kind, r)
  BY <1>2, <1>7 DEF Legal, StageSteps, UnstageSteps, BlockSteps
<1>9. DiskCall(Kind, r, disk) /\ SizeCall(Kind, r, size)
  BY <1>2, <1>7 DEF DiskCall, SizeCall
<1>10. ~ gaveUp => CalmState(Kind, kube', pod, staging, bound)
  BY <1>3, CalmNow DEF CalmState
<1>11. ~ gaveUp => CalmCall(Kind, r, kube', pod, staging, bound)
  BY <1>1, <1>2, <1>3, <1>7 DEF CalmCall
<1>12. /\ kube' \in {"none", "maybe", "staged"} /\ kube' # "staged" /\ op # "unpublish"
       /\ pod' \in [Pods -> {"none", "maybe", "published"}] /\ pod' = pod
  BY <1>3 DEF Inv, StateTypeOK
<1> QED
  BY <1>3, <1>4, <1>5, <1>6, <1>8, <1>9, <1>10, <1>11, <1>12, BeginMove

LEMMA PublishUnpublishKeepInv ==
    \A c \in Calls, p \in Pods :
        Inv /\ (NodePublishVolume(c, p) \/ NodeUnpublishVolume(c, p)) => Inv'
<1> SUFFICES ASSUME NEW c \in Calls, NEW p \in Pods, Inv,
                    NodePublishVolume(c, p) \/ NodeUnpublishVolume(c, p)
             PROVE  Inv'
  OBVIOUS
<1>1. PICK op \in {"publish", "unpublish"} :
          /\ op = "publish" => kube = "staged"
          /\ op = "unpublish" => pod[p] # "none"
          /\ StartCall(c, op, p, IF op = "publish" THEN IF Kind = "block" THEN "target" ELSE "check"
                                 ELSE IF Kind = "block" THEN "loop" ELSE "intree", 0)
  BY DEF NodePublishVolume, NodeUnpublishVolume
<1>2. PICK pc : pc = IF op = "publish" THEN IF Kind = "block" THEN "target" ELSE "check"
                     ELSE IF Kind = "block" THEN "loop" ELSE "intree"
  OBVIOUS
<1>3. pod' = [pod EXCEPT ![p] = "maybe"] /\ UNCHANGED <<request, kube>>
  BY DEF NodePublishVolume, NodeUnpublishVolume
<1>4. /\ pc \in Pcs /\ pc \notin StageSteps \ {"insert"} /\ pc # "bind" /\ 0 \in 0..MaxSize
      /\ p \in Pods \cup {NoPod}
  BY <1>2, ConstantsAssumption DEF Pcs, StageSteps, PublishSteps, UnpublishSteps
<1>5. /\ \E r : Begun(c, r, op, p, pc, 0)
      /\ UNCHANGED <<inflight, disk, lvm, active, size, staging, bound, hollow, legacy>>
  BY <1>1, <1>2, <1>4, StartBegun
<1>6. PICK r : Begun(c, r, op, p, pc, 0)
  BY <1>5
<1>7. r.op = op /\ r.pod = p /\ r.pc = pc /\ r.resp = "none" /\ ~ r.late
  BY <1>6 DEF Begun
<1>8. Legal(Kind, r)
  BY <1>2, <1>7 DEF Legal, PublishSteps, UnpublishSteps, BlockSteps, StageSteps
<1>9. DiskCall(Kind, r, disk) /\ SizeCall(Kind, r, size)
  <2>1. op = "publish" /\ Kind # "block" => disk # "blank"
    BY <1>1 DEF Inv, DiskInv
  <2> QED
    BY <1>2, <1>7, <2>1 DEF DiskCall, SizeCall
<1>10. /\ kube' \in {"none", "maybe", "staged"} /\ kube' = kube
       /\ pod' \in [Pods -> {"none", "maybe", "published"}] /\ pod'[p] = "maybe"
       /\ \A q \in Pods : q # p => pod'[q] = pod[q]
  BY <1>3 DEF Inv, StateTypeOK
<1>11. ~ gaveUp => /\ kube # "none"
                   /\ CalmState(Kind, kube', pod', staging, bound)
  BY <1>1, <1>10, CalmNow DEF CalmState
<1>12. ~ gaveUp => /\ CalmCall(Kind, r, kube', pod', staging, bound)
  <2>1. ~ gaveUp /\ pc = "target" => staging = "mounted"
    BY <1>1, <1>2, CalmNow DEF CalmState
  <2> QED
    BY <1>1, <1>2, <1>7, <1>10, <2>1 DEF CalmCall
<1>13. ASSUME ~ gaveUp, NEW d \in Calls, call[d].op = "unpublish", call[d].pod # p
       PROVE  CalmCall(Kind, call[d], kube', pod', staging, bound)
  <2>1. CalmCall(Kind, call[d], kube, pod, staging, bound) /\ Legal(Kind, call[d])
    BY <1>13, CallFits DEF Fits
  <2>2. pod'[call[d].pod] = pod[call[d].pod]
    BY <1>10, <1>13, <2>1 DEF Legal
  <2> QED
    BY <1>13, <2>1, <2>2 DEF CalmCall
<1> QED
  BY <1>3, <1>4, <1>5, <1>6, <1>8, <1>9, <1>10, <1>11, <1>12, <1>13, BeginMove

LEMMA NodeExpandVolumeKeepsInv ==
    \A c \in Calls, p \in Pods : Inv /\ NodeExpandVolume(c, p) => Inv'
<1> SUFFICES ASSUME NEW c \in Calls, NEW p \in Pods, Inv, NodeExpandVolume(c, p) PROVE Inv'
  OBVIOUS
<1>1. /\ StartCall(c, "expand", p, "capacity", size.cloud) /\ Kind # "block"
      /\ UNCHANGED <<request, kube, pod>>
  BY DEF NodeExpandVolume, kubelet, request
<1>2. /\ "capacity" \in Pcs /\ "capacity" \notin StageSteps \ {"insert"} /\ p \in Pods \cup {NoPod}
      /\ size.cloud \in 0..MaxSize /\ size.cloud >= 1
  BY SizeFacts DEF Pcs, StageSteps, ExpandSteps, Sizes
<1>3. /\ \E r : Begun(c, r, "expand", p, "capacity", size.cloud)
      /\ UNCHANGED <<inflight, disk, lvm, active, size, staging, bound, hollow, legacy>>
  BY <1>1, <1>2, StartBegun
<1>4. PICK r : Begun(c, r, "expand", p, "capacity", size.cloud)
  BY <1>3
<1>5. r.op = "expand" /\ r.pod = p /\ r.pc = "capacity" /\ r.resp = "none" /\ ~ r.late
      /\ r.req = size.cloud
  BY <1>4 DEF Begun
<1>6. Legal(Kind, r)
  BY <1>1, <1>5 DEF Legal, ExpandSteps
<1>7. DiskCall(Kind, r, disk) /\ SizeCall(Kind, r, size)
  BY <1>2, <1>5 DEF DiskCall, SizeCall
<1>8. ~ gaveUp => CalmState(Kind, kube, pod, staging, bound) /\ CalmCall(Kind, r, kube, pod, staging, bound)
  BY <1>5, CalmNow DEF CalmCall
<1>9. kube' \in {"none", "maybe", "staged"} /\ pod' \in [Pods -> {"none", "maybe", "published"}]
  BY <1>1 DEF Inv, StateTypeOK
<1> QED
  BY <1>1, <1>2, <1>3, <1>4, <1>6, <1>7, <1>8, <1>9, BeginMove

\* The kubelet gives up: from now on nothing is said of what it knows.
LEMMA AbandonKeepsInv == \A c \in Calls : Inv /\ Abandon(c) => Inv'
<1> SUFFICES ASSUME NEW c \in Calls, Inv, Abandon(c) PROVE Inv'
  OBVIOUS
<1>1. /\ call' = [call EXCEPT ![c].late = TRUE] /\ gaveUp' = TRUE /\ call[c].op # "none"
      /\ UNCHANGED <<volume, kube, pod, inflight, disk, lvm, active, size, staging, bound, hollow,
                     legacy>>
  BY DEF Abandon, device, paths
<1>2. PICK r : r = [call[c] EXCEPT !.late = TRUE]
  OBVIOUS
<1>3. call \in [Calls -> CallRecord] /\ call[c] \in CallRecord /\ Fits(call[c])
  BY CallFits DEF Inv, StateTypeOK
<1>4. /\ r \in CallRecord /\ r.op = call[c].op /\ r.pod = call[c].pod /\ r.pc = call[c].pc
      /\ r.req = call[c].req /\ r.resp = call[c].resp
  BY <1>2, <1>3 DEF CallRecord
<1>5. call' = [call EXCEPT ![c] = r]
  BY <1>1, <1>2
<1>6. /\ call' \in [Calls -> CallRecord] /\ call'[c] = r
      /\ \A d \in Calls : d # c => call'[d] = call[d]
  BY <1>3, <1>4, <1>5
<1>7. Legal(Kind, r)
  BY <1>1, <1>3, <1>4 DEF Fits, Legal
<1>8. DiskCall(Kind, r, disk) /\ SizeCall(Kind, r, size)
  BY <1>3, <1>4 DEF Fits, DiskCall, SizeCall
<1>9. StateTypeOK'
  BY <1>1, <1>6 DEF Inv, StateTypeOK
<1>10. LegalInv'
  BY <1>1, <1>6, <1>7, LegalStep DEF Inv
<1>11. InflightInv'
  <2>1. \A d \in Calls : Inside(call'[d]) => Inside(call[d]) /\ call'[d].op = call[d].op
    BY <1>4, <1>6 DEF Inside
  <2> QED
    BY <1>1, <2>1, InflightStays DEF Inv
<1>12. DiskInv'
  BY <1>1, <1>6, <1>8, DiskStep DEF Inv
<1>13. SizeInv'
  BY <1>1, <1>6, <1>8, SizeStays DEF Inv
<1>14. CalmInv'
  BY <1>1 DEF CalmInv
<1>15. BoundInv'
  <2>1. bound' \in [Pods -> Nat] /\ \A p \in Pods : bound'[p] <= bound[p]
    BY <1>1 DEF Inv, StateTypeOK
  <2>2. \A d \in Calls : call'[d].pc = "bind" => call[d].pc = "bind" /\ call'[d].pod = call[d].pod
    BY <1>4, <1>6
  <2> QED
    BY <2>1, <2>2, BoundStays DEF Inv
<1> QED
  BY <1>9, <1>10, <1>11, <1>12, <1>13, <1>14, <1>15 DEF Inv

-----------------------------------------------------------------------------
(* The world around.                                                        *)

\* The disk grows in the cloud or on the node.
LEMMA WorldGrows ==
    ASSUME Inv, NEW z, Grows(z), UNCHANGED <<kubelet, call, inflight, disk, lvm, active, paths>>
    PROVE  Inv'
<1>1. UNCHANGED <<volume, gaveUp, kube, pod, staging, bound, hollow, legacy>> /\ Kind' = Kind
  BY DEF kubelet, paths, Kind
<1>2. StateTypeOK'
  BY <1>1 DEF Inv, StateTypeOK, Grows
<1>3. LegalInv' /\ InflightInv'
  BY <1>1 DEF Inv, LegalInv, InflightInv
<1>4. DiskInv'
  BY <1>1 DEF Inv, DiskInv
<1>5. SizeInv'
  BY <1>1, SizeStep DEF Inv, Grows
<1>6. CalmInv'
  BY <1>1 DEF Inv, CalmInv, Alone
<1>7. BoundInv'
  BY <1>1 DEF Inv, BoundInv, Binders
<1> QED
  BY <1>2, <1>3, <1>4, <1>5, <1>6, <1>7 DEF Inv

LEMMA GrowthKeepsInv == Inv /\ (DiskGrows \/ NodeNotices) => Inv'
<1> SUFFICES ASSUME Inv, DiskGrows \/ NodeNotices PROVE Inv'
  OBVIOUS
<1>1. UNCHANGED <<kubelet, call, inflight, disk, lvm, active, paths>>
  BY DEF DiskGrows, NodeNotices
<1>2. CASE DiskGrows
  <2>1. PICK z : z = [size EXCEPT !.cloud = @ + 1]
    OBVIOUS
  <2>2. size.cloud + 1 \in 1..MaxSize /\ size' = z
    BY <1>2, <2>1, SizeFacts DEF DiskGrows
  <2>3. /\ z \in Sizes /\ z.cloud = size.cloud + 1 /\ z.node = size.node /\ z.lv = size.lv
        /\ z.fs = size.fs
    BY <2>1, <2>2, SizeFacts DEF Sizes
  <2>4. Grows(z)
    BY <2>2, <2>3, SizeFacts DEF Grows, Device
  <2> QED
    BY <1>1, <2>4, WorldGrows
<1>3. CASE NodeNotices
  <2>1. PICK z : z = [size EXCEPT !.node = size.cloud]
    OBVIOUS
  <2>2. size.cloud \in 1..MaxSize /\ size' = z /\ size.node < size.cloud
    BY <1>3, <2>1, SizeFacts DEF NodeNotices, Sizes
  <2>3. /\ z \in Sizes /\ z.cloud = size.cloud /\ z.node = size.cloud /\ z.lv = size.lv
        /\ z.fs = size.fs
    BY <2>1, <2>2, SizeFacts DEF Sizes
  <2>4. Grows(z)
    BY <2>2, <2>3, SizeFacts DEF Grows, Device
  <2> QED
    BY <1>1, <2>4, WorldGrows
<1> QED
  BY <1>2, <1>3

\* All calls are lost: what is left of the invariant is about the node.
LEMMA LosesCalls ==
    ASSUME Inv, \A c \in Calls : call'[c] = NoCall, inflight' = {},
           UNCHANGED <<volume, gaveUp, disk, size>>, StateTypeOK',
           \A p \in Pods : bound'[p] <= bound[p],
           staging' = "mounted" => staging = "mounted", kube' = "staged" => kube = "staged",
           ~ gaveUp => CalmState(Kind, kube', pod', staging', bound') /\ hollow' = {}
    PROVE  Inv'
<1>1. Kind' = Kind
  BY DEF Kind
<1>2. /\ Legal(Kind, NoCall) /\ DiskCall(Kind, NoCall, disk) /\ SizeCall(Kind, NoCall, size)
      /\ ~ Inside(NoCall)
  BY NoCallFacts DEF Legal, DiskCall, SizeCall, Inside, BlockSteps, StageSteps
<1>3. LegalInv'
  BY <1>2, LegalStep DEF Inv
<1>4. InflightInv'
  BY <1>2 DEF InflightInv
<1>5. DiskInv'
  BY <1>2, DiskStep DEF Inv
<1>6. SizeInv'
  BY <1>2, SizeStays DEF Inv
<1>7. CalmInv'
  <2>1. Alone'
    BY NoCallFacts DEF Alone
  <2>2. \A d \in Calls : CalmCall(Kind, call'[d], kube', pod', staging', bound')
    BY CalmNoCall
  <2> QED
    BY <1>1, <2>1, <2>2 DEF CalmInv
<1>8. BoundInv'
  <2>1. bound' \in [Pods -> Nat]
    BY DEF StateTypeOK
  <2>2. \A d \in Calls : call'[d].pc # "bind"
    BY NoCallFacts
  <2> QED
    BY <2>1, <2>2, BoundStays DEF Inv
<1> QED
  BY <1>3, <1>4, <1>5, <1>6, <1>7, <1>8 DEF Inv

LEMMA CrashKeepsInv == Inv /\ Crash => Inv'
<1> SUFFICES ASSUME Inv, Crash PROVE Inv'
  OBVIOUS
<1>1. /\ call' = [c \in Calls |-> NoCall] /\ inflight' = {}
      /\ UNCHANGED <<volume, gaveUp, kube, pod, disk, lvm, active, size, staging, bound, hollow,
                     legacy>>
  BY DEF Crash, kubelet, device, paths
<1>2. StateTypeOK'
  BY <1>1, NoCallFacts DEF Inv, StateTypeOK
<1>3. \A p \in Pods : bound'[p] <= bound[p]
  BY <1>1 DEF Inv, StateTypeOK
<1> QED
  BY <1>1, <1>2, <1>3, CalmNow, LosesCalls

LEMMA RebootKeepsInv == Inv /\ Reboot => Inv'
<1> SUFFICES ASSUME Inv, Reboot PROVE Inv'
  OBVIOUS
<1>1. /\ call' = [c \in Calls |-> NoCall] /\ inflight' = {}
      /\ kube' = IF kube = "staged" /\ Kind = "block" THEN "maybe" ELSE kube
      /\ pod' = [p \in Pods |-> IF pod[p] = "none" THEN "none" ELSE "maybe"]
      /\ staging' = IF staging = "mounted" THEN "empty" ELSE staging
      /\ bound' = [p \in Pods |-> 0] /\ hollow' = {} /\ legacy' = {} /\ active' \in BOOLEAN
      /\ UNCHANGED <<volume, gaveUp, disk, lvm, size>>
  BY DEF Reboot, request
<1>2. StateTypeOK'
  BY <1>1, NoCallFacts DEF Inv, StateTypeOK
<1>3. \A p \in Pods : bound'[p] <= bound[p]
  BY <1>1 DEF Inv, StateTypeOK
<1>4. ~ gaveUp => CalmState(Kind, kube', pod', staging', bound')
  BY <1>1, CalmNow DEF CalmState
<1> QED
  BY <1>1, <1>2, <1>3, <1>4, LosesCalls

-----------------------------------------------------------------------------
(* The specification.                                                       *)

LEMMA InitInv == Init => Inv
<1> SUFFICES ASSUME Init PROVE Inv
  OBVIOUS
<1>1. /\ call = [c \in Calls |-> NoCall] /\ \A c \in Calls : call[c] = NoCall
      /\ inflight = {} /\ kube = "none" /\ disk = "blank" /\ staging = "absent" /\ hollow = {}
      /\ pod = [p \in Pods |-> "none"] /\ bound = [p \in Pods |-> 0]
      /\ size = [cloud |-> 1, node |-> 1, lv |-> 0, fs |-> 0, kube |-> 1]
  BY DEF Init
<1>2. size \in Sizes /\ size.lv <= size.node /\ size.node <= size.cloud
      /\ size.fs <= Device(Kind, size)
  <2>1. 1 \in 1..MaxSize /\ 0 \in 0..MaxSize
    BY ConstantsAssumption
  <2> QED
    BY <1>1, <2>1 DEF Sizes, Device
<1>3. StateTypeOK
  <2>1. /\ pod \in [Pods -> {"none", "maybe", "published"}] /\ bound \in [Pods -> Nat]
        /\ call \in [Calls -> CallRecord]
    BY <1>1, NoCallFacts
  <2>2. /\ volume \in Volumes /\ gaveUp \in BOOLEAN /\ lvm \in {"none", "pv", "vg", "lv"}
        /\ active \in BOOLEAN /\ legacy \subseteq {"target", "staging"}
    BY DEF Init
  <2> QED
    BY <1>1, <1>2, <2>1, <2>2 DEF StateTypeOK
<1>4. LegalInv /\ InflightInv /\ DiskInv
  <2>1. Legal(Kind, NoCall) /\ DiskCall(Kind, NoCall, disk) /\ ~ Inside(NoCall)
    BY NoCallFacts DEF Legal, DiskCall, Inside, BlockSteps, StageSteps
  <2> QED
    BY <1>1, <2>1 DEF LegalInv, InflightInv, DiskInv
<1>5. SizeInv
  BY <1>1, <1>2, NoCallFacts DEF SizeInv, SizeCall
<1>6. CalmInv
  <2>1. CalmState(Kind, kube, pod, staging, bound)
    BY <1>1 DEF CalmState
  <2> QED
    BY <1>1, <2>1, CalmNoCall, NoCallFacts DEF CalmInv, Alone
<1>7. BoundInv
  <2>1. \A p \in Pods : Binders(p) = {} /\ bound[p] = 0
    BY <1>1, NoCallFacts DEF Binders
  <2>2. Cardinality({}) = 0 /\ Cardinality(Calls) \in Nat
    BY FS_EmptySet, FS_CardinalityType, ConstantsAssumption
  <2> QED
    BY <2>1, <2>2 DEF BoundInv
<1> QED
  BY <1>3, <1>4, <1>5, <1>6, <1>7 DEF Inv

LEMMA StutterKeepsInv == Inv /\ UNCHANGED vars => Inv'
<1> SUFFICES ASSUME Inv, UNCHANGED vars PROVE Inv'
  OBVIOUS
<1>1. /\ UNCHANGED <<volume, gaveUp, kube, pod, call, inflight, disk, staging, bound, hollow>>
      /\ UNCHANGED <<lvm, active, size, legacy>> /\ Kind' = Kind
  BY DEF vars, Kind
<1>2. StateTypeOK' /\ LegalInv' /\ InflightInv' /\ DiskInv'
  BY <1>1 DEF Inv, StateTypeOK, LegalInv, InflightInv, DiskInv
<1>3. SizeInv' /\ CalmInv' /\ BoundInv'
  BY <1>1 DEF Inv, SizeInv, CalmInv, Alone, BoundInv, Binders
<1> QED
  BY <1>2, <1>3 DEF Inv

LEMMA StepKeepsInv == ASSUME NEW c \in Calls, Inv, Step(c) PROVE Inv'
<1>1. CASE StageInsert(c) \/ createMountPoint(c) \/ StageSource(c)
  BY <1>1, StageInsertKeepsInv, createMountPointKeepsInv, StageSourceKeepsInv
<1>2. CASE checkLvm(c) \/ LvmActivate(c) \/ LvmPvcreate(c) \/ LvmVgcreate(c) \/ Probe(c)
  BY <1>2, LvmStepsKeepInv
<1>3. CASE LvmLvcreate(c) \/ Format(c) \/ Mount(c) \/ StageResize(c)
  BY <1>3, LvmLvcreateKeepsInv, FormatKeepsInv, MountKeepsInv, StageResizeKeepsInv
<1>4. CASE UnstageTmpPath(c) \/ UnstageRefCount(c) \/ UnstageUmount(c) \/ LvmDeactivate(c)
  BY <1>4, UnstageTmpPathKeepsInv, UnstageRefCountKeepsInv, UnstageUmountKeepsInv,
     LvmDeactivateKeepsInv
<1>5. CASE checkStagingTargetPath(c) \/ PublishTarget(c) \/ PublishBind(c)
  BY <1>5, checkStagingTargetPathKeepsInv, PublishTargetKeepsInv, PublishBindKeepsInv
<1>6. CASE cleanIntreePath(c) \/ cleanOldStagingPath(c) \/ OldStagingRemove(c) \/ UnpublishLoop(c)
  BY <1>6, OldPathsKeepInv, UnpublishLoopKeepsInv
<1>7. CASE ExpandCapacity(c) \/ LvmPvresize(c) \/ LvmExtend(c) \/ ExpandResize(c)
  BY <1>7, ExpandStepsKeepInv
<1>8. CASE Reply(c)
  BY <1>8, ReplyKeepsInv
<1> QED
  BY <1>1, <1>2, <1>3, <1>4, <1>5, <1>6, <1>7, <1>8 DEF Step

LEMMA NextKeepsInv == Inv /\ [Next]_vars => Inv'
<1> SUFFICES ASSUME Inv, [Next]_vars PROVE Inv'
  OBVIOUS
<1>1. ASSUME NEW c \in Calls, Request(c) PROVE Inv'
  BY <1>1, StageUnstageKeepInv, PublishUnpublishKeepInv, NodeExpandVolumeKeepsInv DEF Request
<1>2. ASSUME NEW c \in Calls, Step(c) PROVE Inv'
  BY <1>2, StepKeepsInv
<1>3. ASSUME NEW c \in Calls, Abandon(c) PROVE Inv'
  BY <1>3, AbandonKeepsInv
<1>4. CASE DiskGrows \/ NodeNotices \/ Crash \/ Reboot
  BY <1>4, GrowthKeepsInv, CrashKeepsInv, RebootKeepsInv
<1>5. CASE UNCHANGED vars
  BY <1>5, StutterKeepsInv
<1> QED
  BY <1>1, <1>2, <1>3, <1>4, <1>5 DEF Next

(***************************************************************************)
(* The inductive invariant holds in every reachable state of the node      *)
(* plugin, whatever the kubelet abandons, crashes or reboots.              *)
(***************************************************************************)
THEOREM Invariance == Spec => []Inv
<1>1. Init => Inv
  BY InitInv
<1>2. Inv /\ [Next]_vars => Inv'
  BY NextKeepsInv
<1> QED
  BY <1>1, <1>2, PTL DEF Spec

(***************************************************************************)
(* Type correctness: above all, a target path never carries more mounts    *)
(* than there are calls, however often NodePublishVolume is retried.       *)
(***************************************************************************)
THEOREM TypeCorrect == Spec => []TypeOK
<1>1. Inv => TypeOK
  <2> SUFFICES ASSUME Inv PROVE TypeOK
    OBVIOUS
  <2>1. \A p \in Pods : bound[p] \in 0..Cardinality(Calls)
    <3> SUFFICES ASSUME NEW p \in Pods PROVE bound[p] \in 0..Cardinality(Calls)
      OBVIOUS
    <3>1. IsFiniteSet(Binders(p)) /\ IsFiniteSet(Calls)
      BY FS_Subset, ConstantsAssumption DEF Binders
    <3>2. Cardinality(Binders(p)) \in Nat /\ Cardinality(Calls) \in Nat
      BY <3>1, FS_CardinalityType
    <3>3. bound[p] \in Nat /\ bound[p] + Cardinality(Binders(p)) <= Cardinality(Calls)
      BY DEF Inv, StateTypeOK, BoundInv
    <3> QED
      BY <3>2, <3>3
  <2>2. bound \in [Pods -> 0..Cardinality(Calls)]
    BY <2>1 DEF Inv, StateTypeOK
  <2> QED
    BY <2>2 DEF Inv, StateTypeOK, TypeOK, Sizes
<1> QED
  BY <1>1, Invariance, PTL

(***************************************************************************)
(* A pod whose NodePublishVolume was acknowledged has the volume on its    *)
(* target path, as long as the kubelet waits for its calls.                *)
(***************************************************************************)
THEOREM PublishedHolds == Spec => []PublishedIsReal
<1>1. Inv => PublishedIsReal
  BY CalmNow DEF PublishedIsReal, CalmState
<1> QED
  BY <1>1, Invariance, PTL

(***************************************************************************)
(* After an acknowledged NodeUnstageVolume the volume is mounted nowhere   *)
(* on the node, as long as the kubelet waits for its calls.                *)
(***************************************************************************)
THEOREM UnstagedHolds == Spec => []UnstagedIsUnmounted
<1>1. Inv => UnstagedIsUnmounted
  <2> SUFFICES ASSUME Inv, ~ gaveUp, kube = "none" PROVE ~ InUse
    BY DEF UnstagedIsUnmounted
  <2>1. staging # "mounted" /\ \A p \in Pods : bound[p] = 0
    BY CalmNow DEF CalmState
  <2> QED
    BY <2>1 DEF InUse
<1> QED
  BY <1>1, Invariance, PTL

(***************************************************************************)
(* NodeExpandVolume replies with success only when the file system has the *)
(* size that was asked for, whatever grows or fails beside it.             *)
(***************************************************************************)
THEOREM ExpandedHolds == Spec => []ExpandedFs
<1>1. Inv => ExpandedFs
  BY DEF Inv, SizeInv, SizeCall, ExpandedFs
<1> QED
  BY <1>1, Invariance, PTL

\* Only mkfs and the data of pods change what is on the disk.
LEMMA DiskChanges ==
    ASSUME NEW c \in Calls, Request(c) \/ Step(c) \/ Abandon(c), disk' # disk
    PROVE  Format(c) \/ Reply(c)
<1>1. ~ Request(c) /\ ~ Abandon(c)
  BY DEF Request, Abandon, NodeStageVolume, NodeUnstageVolume, NodePublishVolume,
         NodeUnpublishVolume, NodeExpandVolume, StartCall, device
<1>2. ~ (StageInsert(c) \/ createMountPoint(c) \/ StageSource(c) \/ checkLvm(c) \/ LvmActivate(c)
           \/ LvmPvcreate(c) \/ LvmVgcreate(c) \/ LvmLvcreate(c) \/ Probe(c) \/ Mount(c)
           \/ StageResize(c))
  BY DEF StageInsert, createMountPoint, StageSource, checkLvm, LvmActivate, LvmPvcreate,
         LvmVgcreate, LvmLvcreate, Probe, Mount, StageResize, device
<1>3. ~ (UnstageTmpPath(c) \/ UnstageRefCount(c) \/ UnstageUmount(c) \/ LvmDeactivate(c)
           \/ checkStagingTargetPath(c) \/ PublishTarget(c) \/ PublishBind(c)
           \/ cleanIntreePath(c) \/ cleanOldStagingPath(c) \/ OldStagingRemove(c)
           \/ UnpublishLoop(c))
  BY DEF UnstageTmpPath, UnstageRefCount, UnstageUmount, LvmDeactivate, checkStagingTargetPath,
         PublishTarget, PublishBind, cleanIntreePath, cleanOldStagingPath, OldStagingRemove,
         UnpublishLoop, device
<1>4. ~ (ExpandCapacity(c) \/ LvmPvresize(c) \/ LvmExtend(c) \/ ExpandResize(c))
  BY DEF ExpandCapacity, LvmPvresize, LvmExtend, ExpandResize, device
<1> QED
  BY <1>1, <1>2, <1>3, <1>4 DEF Step

(***************************************************************************)
(* NodeStageVolume never formats a disk that pods have written to: who is  *)
(* about to run mkfs has found the disk blank and, since Idempotent lets   *)
(* one call of the kubelet in and NodePublishVolume comes later, it still  *)
(* is.                                                                     *)
(***************************************************************************)
THEOREM DataIsKept == Spec => NoDataLoss
<1>1. Inv /\ [Next]_vars => [disk = "data" => disk' = "data"]_vars
  <2> SUFFICES ASSUME Inv, [Next]_vars, disk = "data" PROVE disk' = "data"
    OBVIOUS
  <2>1. ASSUME NEW c \in Calls, Request(c) \/ Step(c) \/ Abandon(c) PROVE disk' = "data"
    <3>1. CASE Format(c)
      <4>1. disk = "blank"
        BY <3>1 DEF Format, At, Inv, DiskInv, DiskCall
      <4> QED
        BY <4>1
    <3>2. CASE Reply(c)
      BY <3>2, ReplyReplied DEF Replied
    <3> QED
      BY <2>1, <3>1, <3>2, DiskChanges
  <2>2. CASE DiskGrows \/ NodeNotices \/ Crash \/ Reboot
    BY <2>2 DEF DiskGrows, NodeNotices, Crash, Reboot, device
  <2>3. CASE UNCHANGED vars
    BY <2>3 DEF vars
  <2> QED
    BY <2>1, <2>2, <2>3 DEF Next
<1> QED
  BY <1>1, Invariance, PTL DEF Spec, NoDataLoss
=============================================================================
