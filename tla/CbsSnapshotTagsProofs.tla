----------------------- MODULE CbsSnapshotTagsProofs -----------------------
(***************************************************************************)
(* Proofs about the two parts of the CBS controller that keep records of   *)
(* their own: CbsSnapshot, for any number of names, snapshots and          *)
(* concurrent calls and any faults, and CbsTags.                           *)
(***************************************************************************)
EXTENDS CbsSnapshot, CbsTags, FiniteSetTheorems, TLAPS


-----------------------------------------------------------------------------
(* The inductive invariant.                                                 *)

\* The cloud has given id i.
Known(i) == i \in SnapIds /\ snap[i].state # "absent"

Deleted(i) == snap[i].state = "deleted"

\* A create call works on a snapshot of its name; what it answers with is in
\* the store, unless the cloud has deleted it.
CreateOK(c) ==
    call[c].op = "create" =>
        /\ call[c].name \in Names
        /\ call[c].pc \in CreateSteps \cup {"reply"}
        /\ call[c].pc \notin {"restore", "reply"} => call[c].resp = "none"
        /\ call[c].pc = "restore" => call[c].resp \in {"ok", "ready"}
        /\ call[c].pc = "reply" => call[c].resp # "none"
        /\ call[c].pc \notin {"lookup", "request"} /\ call[c].resp # "err" =>
              Known(call[c].id) /\ snap[call[c].id].name = call[c].name
        /\ call[c].resp = "ready" => snap[call[c].id].state \in {"NORMAL", "deleted"}
        /\ call[c].pc = "reply" /\ call[c].resp # "err" =>
              call[c].id \in meta \/ Deleted(call[c].id)

\* A delete call works on a snapshot that the orchestrator knows; past the
\* cloud's DeleteSnapshots, and after a success, the snapshot is gone.
DeleteOK(c) ==
    call[c].op = "delete" =>
        /\ call[c].id \in told
        /\ call[c].pc \in DeleteSteps \cup {"reply"}
        /\ call[c].pc \in {"uncache", "unstore"} \/ call[c].resp = "ok" => Deleted(call[c].id)

CallInv == \A c \in Calls : CreateOK(c) /\ DeleteOK(c)

\* A snapshot that the orchestrator knows and the cloud still has is in the
\* store: this is what DeleteSnapshot's look at the store relies on.
ToldInv == \A i \in told : Known(i) /\ (i \in meta \/ Deleted(i))

\* An entry is the record of its key, or of a snapshot that needs no entry.
CacheInv ==
    \A k \in DOMAIN cache :
        k \in SnapIds /\ Known(cache[k]) /\ (cache[k] = k \/ cache[k] \in meta \/ Deleted(cache[k]))

\* Only between the cloud's answer and AddCbsSnapshot does a call alone hold
\* a snapshot.
HeldBy(c, i) ==
    call[c].op = "create" /\ call[c].pc \in {"confirm", "add"} /\ call[c].id = i

TrackedInv ==
    \A i \in SnapIds :
        Live(i) => \/ i \in meta \/ i \in orphans
                   \/ \E k \in DOMAIN cache : cache[k] = i
                   \/ \E c \in Calls : HeldBy(c, i)

StateTypeOK ==
    /\ snap \in [SnapIds -> [name : Names \cup {NoName}, state : SnapStates]]
    /\ meta \subseteq {i \in SnapIds : snap[i].state # "absent"}
    /\ call \in [Calls -> CallRecord]
    /\ told \subseteq SnapIds
    /\ orphans \subseteq SnapIds

Inv == StateTypeOK /\ CallInv /\ ToldInv /\ CacheInv /\ TrackedInv

\* The invariant implies what the run checks.
LEMMA InvImplies ==
    ASSUME Inv
    PROVE  TypeOK /\ DeletedMeansGone /\ AnswersOwnSnapshot /\ LiveIsTracked
<1>1. TypeOK
    BY DEF Inv, StateTypeOK, CacheInv, Known, TypeOK, Range
<1>2. DeletedMeansGone
    BY DEF Inv, CallInv, DeleteOK, Deleted, DeletedMeansGone
<1>3. AnswersOwnSnapshot
    BY DEF Inv, CallInv, CreateOK, AnswersOwnSnapshot
<1>4. LiveIsTracked
    BY DEF Inv, TrackedInv, HeldBy, LiveIsTracked, InMemory, Range
<1> QED
    BY <1>1, <1>2, <1>3, <1>4

LEMMA InitInv == Init => Inv
<1> SUFFICES ASSUME Init PROVE Inv
    OBVIOUS
<1>1. StateTypeOK
    BY DEF Init, StateTypeOK, SnapStates, CallRecord, IdleCall
<1>2. CallInv
    BY DEF Init, CallInv, CreateOK, DeleteOK, IdleCall
<1>3. ToldInv /\ CacheInv /\ TrackedInv
    BY DEF Init, ToldInv, CacheInv, TrackedInv, Live
<1> QED
    BY <1>1, <1>2, <1>3 DEF Inv

-----------------------------------------------------------------------------
(* What a step does to the calls, and what no step does to the rest.        *)

\* Call c becomes r, and the other calls stay as they are.
Becomes(c, r) ==
    /\ r \in CallRecord
    /\ call' \in [Calls -> CallRecord]
    /\ call'[c] = r
    /\ \A d \in Calls : d # c => call'[d] = call[d]

Moved(c, id, pc, resp) ==
    [op |-> call[c].op, name |-> call[c].name, id |-> id, pc |-> pc, resp |-> resp]

LEMMA GotoBecomes ==
    ASSUME call \in [Calls -> CallRecord], NEW c \in Calls,
           NEW s \in CreateSteps \cup DeleteSteps \cup {"reply"}, Goto(c, s)
    PROVE  Becomes(c, Moved(c, call[c].id, s, call[c].resp))
BY DEF Goto, Becomes, Moved, CallRecord

LEMMA GotoWithBecomes ==
    ASSUME call \in [Calls -> CallRecord], NEW c \in Calls,
           NEW s \in CreateSteps \cup DeleteSteps \cup {"reply"}, NEW i \in SnapIds,
           GotoWith(c, s, i)
    PROVE  Becomes(c, Moved(c, i, s, call[c].resp))
BY DEF GotoWith, Becomes, Moved, CallRecord

LEMMA AnswerBecomes ==
    ASSUME call \in [Calls -> CallRecord], NEW c \in Calls,
           NEW r \in {"none", "ok", "ready", "err"}, Answer(c, r)
    PROVE  Becomes(c, Moved(c, call[c].id, "reply", r))
BY DEF Answer, Becomes, Moved, CallRecord

\* Snapshots are never renamed, unfinished, revived or forgotten; only those
\* that the cloud has deleted leave the store.
Progress ==
    /\ told \subseteq told'
    /\ \A i \in SnapIds :
          Known(i) =>
              /\ snap'[i].state # "absent" /\ snap'[i].name = snap[i].name
              /\ snap[i].state \in {"NORMAL", "deleted"} => snap'[i].state \in {"NORMAL", "deleted"}
              /\ snap[i].state = "deleted" => snap'[i].state = "deleted"
              /\ i \in meta => i \in meta' \/ snap'[i].state = "deleted"

LEMMA OtherCalls ==
    ASSUME Inv, Progress, NEW d \in Calls, call'[d] = call[d]
    PROVE  CreateOK(d)' /\ DeleteOK(d)'
<1>1. CreateOK(d) /\ DeleteOK(d) /\ \A i \in told : Known(i)
    BY DEF Inv, CallInv, ToldInv
<1>2. CreateOK(d)'
    BY <1>1 DEF CreateOK, Progress, Known, Deleted
<1>3. DeleteOK(d)'
    BY <1>1 DEF DeleteOK, Progress, Known, Deleted
<1> QED
    BY <1>2, <1>3

\* A step of call c keeps the invariant of all calls.
LEMMA CallStep ==
    ASSUME Inv, Progress, NEW c \in Calls, NEW r, Becomes(c, r),
           CreateOK(c)', DeleteOK(c)'
    PROVE  CallInv'
BY OtherCalls DEF Becomes, CallInv

LEMMA ToldKept ==
    ASSUME Inv, Progress, told' = told
    PROVE  ToldInv'
BY DEF Inv, ToldInv, Progress, Known, Deleted

LEMMA CacheKept ==
    ASSUME Inv, Progress, cache' = cache
    PROVE  CacheInv'
BY DEF Inv, CacheInv, Progress, Known, Deleted

\* Nothing is deleted, and what was held stays held.
LEMMA TrackedKept ==
    ASSUME Inv, UNCHANGED <<snap, cache>>, meta \subseteq meta', orphans \subseteq orphans',
           \A i \in SnapIds, c \in Calls : HeldBy(c, i) => HeldBy(c, i)' \/ i \in orphans'
    PROVE  TrackedInv'
BY DEF Inv, TrackedInv, Live

\* A step of a call that changes nothing else, and gives up no snapshot that
\* it alone holds.
LEMMA QuietStep ==
    ASSUME Inv, UNCHANGED <<snap, cache, meta, told, orphans>>,
           NEW c \in Calls, NEW r, Becomes(c, r), CreateOK(c)', DeleteOK(c)',
           ~ (call[c].op = "create" /\ call[c].pc \in {"confirm", "add"})
    PROVE  Inv'
<1>1. Progress
    BY DEF Progress, Known
<1>2. StateTypeOK'
    BY DEF Inv, StateTypeOK, Becomes
<1>3. \A i \in SnapIds, d \in Calls : HeldBy(d, i) => HeldBy(d, i)'
    BY DEF Becomes, HeldBy
<1>4. TrackedInv'
    BY <1>3, TrackedKept
<1> QED
    BY <1>1, <1>2, <1>4, CallStep, ToldKept, CacheKept DEF Inv

LEMMA CreateSnapshotInv ==
    ASSUME Inv, NEW c \in Calls, NEW n \in Names, CreateSnapshot(c, n)
    PROVE  Inv'
<1> DEFINE r == [op |-> "create", name |-> n, id |-> NoId, pc |-> "lookup", resp |-> "none"]
<1>1. Becomes(c, r)
    BY DEF Inv, StateTypeOK, CreateSnapshot, Becomes, CallRecord, CreateSteps
<1>2. CreateOK(c)' /\ DeleteOK(c)'
    BY <1>1 DEF Becomes, CreateOK, DeleteOK, CreateSteps
<1> QED
    BY <1>1, <1>2, QuietStep DEF CreateSnapshot

LEMMA DeleteSnapshotInv ==
    ASSUME Inv, NEW c \in Calls, NEW i \in SnapIds, DeleteSnapshot(c, i)
    PROVE  Inv'
<1> DEFINE r == [op |-> "delete", name |-> NoName, id |-> i, pc |-> "get", resp |-> "none"]
<1>1. Becomes(c, r)
    BY DEF Inv, StateTypeOK, DeleteSnapshot, Becomes, CallRecord, DeleteSteps
<1>2. CreateOK(c)' /\ DeleteOK(c)'
    BY <1>1 DEF Becomes, CreateOK, DeleteOK, DeleteSteps, DeleteSnapshot
<1> QED
    BY <1>1, <1>2, QuietStep DEF DeleteSnapshot

\* The orchestrator learns of a snapshot when it is in the store.
LEMMA ReplyInv ==
    ASSUME Inv, NEW c \in Calls, Reply(c)
    PROVE  Inv'
<1>1. Becomes(c, IdleCall)
    BY DEF Inv, StateTypeOK, Reply, Becomes, CallRecord, IdleCall
<1>2. Progress
    BY DEF Reply, Progress, Known
<1>3. CreateOK(c)' /\ DeleteOK(c)'
    BY <1>1 DEF Becomes, CreateOK, DeleteOK, IdleCall
<1>4. CallInv'
    BY <1>1, <1>2, <1>3, CallStep
<1>5. ASSUME call[c].op = "create", call[c].resp \in {"ok", "ready"}
      PROVE  Known(call[c].id) /\ (call[c].id \in meta \/ Deleted(call[c].id))
    BY <1>5 DEF Inv, CallInv, CreateOK, Reply
<1>6. ToldInv'
    BY <1>5 DEF Inv, ToldInv, Reply, Known, Deleted
<1>7. CacheInv'
    BY <1>2, CacheKept DEF Reply
<1>8. StateTypeOK'
    BY <1>1, <1>5 DEF Inv, StateTypeOK, Reply, Becomes, Known
<1>9. TrackedInv'
    BY <1>1, TrackedKept DEF Becomes, Reply, HeldBy
<1> QED
    BY <1>4, <1>6, <1>7, <1>8, <1>9 DEF Inv

-----------------------------------------------------------------------------
(* CreateSnapshot.                                                          *)

LEMMA CreateLookupInv ==
    ASSUME Inv, NEW c \in Calls, CreateLookup(c)
    PROVE  Inv'
<1>0. CreateOK(c) /\ call \in [Calls -> CallRecord] /\ call[c].op = "create" /\ call[c].pc = "lookup"
    BY DEF Inv, CallInv, StateTypeOK, CreateLookup, At
<1>1. CASE \E i \in getCbsSnapshotByName(call[c].name) : GotoWith(c, "describe", i)
    <2>1. PICK i \in getCbsSnapshotByName(call[c].name) : GotoWith(c, "describe", i)
        BY <1>1
    <2>2. Known(i) /\ snap[i].name = call[c].name
        BY DEF getCbsSnapshotByName, Inv, CacheInv
    <2>3. Becomes(c, Moved(c, i, "describe", call[c].resp))
        BY <1>0, <2>1, <2>2, GotoWithBecomes DEF Known, CreateSteps
    <2>4. CreateOK(c)' /\ DeleteOK(c)'
        BY <1>0, <2>2, <2>3 DEF Becomes, Moved, CreateOK, DeleteOK, Known, CreateLookup, CreateSteps
    <2> QED
        BY <1>0, <2>3, <2>4, QuietStep DEF CreateLookup
<1>2. CASE Goto(c, "request")
    <2>1. Becomes(c, Moved(c, call[c].id, "request", call[c].resp))
        BY <1>0, <1>2, GotoBecomes DEF CreateSteps
    <2>2. CreateOK(c)' /\ DeleteOK(c)'
        BY <1>0, <2>1 DEF Becomes, Moved, CreateOK, DeleteOK, CreateSteps
    <2> QED
        BY <1>0, <2>1, <2>2, QuietStep DEF CreateLookup
<1> QED
    BY <1>1, <1>2 DEF CreateLookup

LEMMA CreateDescribeInv ==
    ASSUME Inv, NEW c \in Calls, CreateDescribe(c)
    PROVE  Inv'
<1>0. /\ CreateOK(c) /\ call \in [Calls -> CallRecord] /\ call[c].op = "create" /\ call[c].pc = "describe"
      /\ snap[call[c].id].state \in SnapStates
    BY DEF Inv, CallInv, StateTypeOK, CreateDescribe, At, CreateOK, Known
<1> SUFFICES \E r : Becomes(c, r) /\ CreateOK(c)' /\ DeleteOK(c)'
    BY <1>0, QuietStep DEF CreateDescribe
<1>1. CASE Answer(c, "err")
    <2>1. Becomes(c, Moved(c, call[c].id, "reply", "err"))
        BY <1>0, <1>1, AnswerBecomes
    <2> QED
        BY <1>0, <2>1 DEF Becomes, Moved, CreateOK, DeleteOK
<1>2. CASE ~ Live(call[c].id) /\ Answer(c, "ok")
    <2>1. Becomes(c, Moved(c, call[c].id, "reply", "ok"))
        BY <1>0, <1>2, AnswerBecomes
    <2>2. Deleted(call[c].id) /\ Known(call[c].id)
        BY <1>0, <1>2 DEF CreateOK, Live, Deleted, Known, SnapStates
    <2> QED
        BY <1>0, <2>1, <2>2 DEF Becomes, Moved, CreateOK, DeleteOK, CreateDescribe, Known, Deleted
<1>3. ASSUME NEW r \in {"ok", "ready"}, r = "ready" => snap[call[c].id].state = "NORMAL",
             call' = [call EXCEPT ![c].pc = "restore", ![c].resp = r]
      PROVE  \E x : Becomes(c, x) /\ CreateOK(c)' /\ DeleteOK(c)'
    <2>1. Becomes(c, Moved(c, call[c].id, "restore", r))
        BY <1>0, <1>3 DEF Becomes, Moved, CallRecord, CreateSteps
    <2> QED
        BY <1>0, <1>3, <2>1 DEF Becomes, Moved, CreateOK, DeleteOK, CreateDescribe, Known, CreateSteps
<1> QED
    BY <1>1, <1>2, <1>3 DEF CreateDescribe

\* The configmap of the call's snapshot is written, and the call answers.
LEMMA Stored ==
    ASSUME Inv, NEW c \in Calls, call[c].op = "create",
           call[c].pc \in {"restore", "store"}, call[c].resp # "err",
           meta' = meta \cup {call[c].id}, UNCHANGED <<snap, cache, told, orphans>>,
           NEW resp \in {"ok", "ready"}, resp = "ready" => call[c].resp = "ready",
           Becomes(c, Moved(c, call[c].id, "reply", resp))
    PROVE  Inv'
<1>0. CreateOK(c) /\ Known(call[c].id)
    BY DEF Inv, CallInv, CreateOK
<1>1. Progress
    BY DEF Progress, Known
<1>2. CreateOK(c)' /\ DeleteOK(c)'
    BY <1>0 DEF Becomes, Moved, CreateOK, DeleteOK, Known
<1>3. StateTypeOK'
    BY <1>0 DEF Inv, StateTypeOK, Becomes, Known
<1>4. TrackedInv'
    BY TrackedKept DEF Becomes, HeldBy
<1> QED
    BY <1>1, <1>2, <1>3, <1>4, CallStep, ToldKept, CacheKept DEF Inv

\* The configmap cannot be written, and the call fails.
LEMMA Refused ==
    ASSUME Inv, NEW c \in Calls, call[c].op = "create", call[c].pc \notin {"confirm", "add"},
           UNCHANGED <<snap, cache, meta, told, orphans>>, Answer(c, "err")
    PROVE  Inv'
<1>0. CreateOK(c) /\ call \in [Calls -> CallRecord]
    BY DEF Inv, CallInv, StateTypeOK
<1>1. Becomes(c, Moved(c, call[c].id, "reply", "err"))
    BY <1>0, AnswerBecomes
<1>2. CreateOK(c)' /\ DeleteOK(c)'
    BY <1>0, <1>1 DEF Becomes, Moved, CreateOK, DeleteOK
<1> QED
    BY <1>1, <1>2, QuietStep

LEMMA CreateRestoreInv ==
    ASSUME Inv, NEW c \in Calls, CreateRestore(c)
    PROVE  Inv'
<1>0. CreateOK(c) /\ call \in [Calls -> CallRecord] /\ call[c].op = "create" /\ call[c].pc = "restore"
    BY DEF Inv, CallInv, StateTypeOK, CreateRestore, At
<1>1. CASE meta' = meta \cup {call[c].id} /\ Goto(c, "reply")
    <2>1. Becomes(c, Moved(c, call[c].id, "reply", call[c].resp))
        BY <1>0, <1>1, GotoBecomes
    <2>2. call[c].resp \in {"ok", "ready"}
        BY <1>0 DEF CreateOK
    <2> QED
        BY <1>0, <1>1, <2>1, <2>2, Stored DEF CreateRestore
<1>2. CASE Answer(c, "err") /\ UNCHANGED meta
    BY <1>0, <1>2, Refused DEF CreateRestore
<1> QED
    BY <1>1, <1>2 DEF CreateRestore

LEMMA CreateStoreInv ==
    ASSUME Inv, NEW c \in Calls, CreateStore(c)
    PROVE  Inv'
<1>0. CreateOK(c) /\ call \in [Calls -> CallRecord] /\ call[c].op = "create" /\ call[c].pc = "store"
    BY DEF Inv, CallInv, StateTypeOK, CreateStore, At
<1>1. CASE meta' = meta \cup {call[c].id} /\ Answer(c, "ok")
    <2>1. Becomes(c, Moved(c, call[c].id, "reply", "ok"))
        BY <1>0, <1>1, AnswerBecomes
    <2>2. call[c].resp = "none"
        BY <1>0 DEF CreateOK
    <2> QED
        BY <1>0, <1>1, <2>1, <2>2, Stored DEF CreateStore
<1>2. CASE Answer(c, "err") /\ UNCHANGED meta
    BY <1>0, <1>2, Refused DEF CreateStore
<1> QED
    BY <1>1, <1>2 DEF CreateStore

\* The cloud makes a snapshot, which the call holds or gives up.
LEMMA CreateRequestInv ==
    ASSUME Inv, NEW c \in Calls, CreateRequest(c)
    PROVE  Inv'
<1>0. CreateOK(c) /\ call \in [Calls -> CallRecord] /\ call[c].op = "create" /\ call[c].pc = "request"
    BY DEF Inv, CallInv, StateTypeOK, CreateRequest, At
<1>1. CASE Answer(c, "err") /\ UNCHANGED <<snap, orphans>>
    BY <1>0, <1>1, Refused DEF CreateRequest
<1>2. CASE ~ UNCHANGED snap
    <2>1. PICK i \in SnapIds :
             /\ snap[i].state = "absent"
             /\ snap' = [snap EXCEPT ![i] = [name |-> call[c].name, state |-> "CREATING"]]
             /\ \/ GotoWith(c, "confirm", i) /\ UNCHANGED orphans
                \/ Answer(c, "err") /\ orphans' = orphans \cup {i}
        BY <1>2 DEF CreateRequest
    <2>2. /\ snap'[i] = [name |-> call[c].name, state |-> "CREATING"]
          /\ \A j \in SnapIds : j # i => snap'[j] = snap[j]
          /\ snap' \in [SnapIds -> [name : Names \cup {NoName}, state : SnapStates]]
        BY <1>0, <2>1 DEF Inv, StateTypeOK, CreateOK, SnapStates
    <2>3. UNCHANGED <<cache, meta, told>>
        BY DEF CreateRequest
    <2>4. Progress
        BY <2>1, <2>2, <2>3 DEF Progress, Known
    <2>5. /\ \/ Becomes(c, Moved(c, i, "confirm", call[c].resp)) /\ orphans' = orphans
             \/ Becomes(c, Moved(c, call[c].id, "reply", "err")) /\ orphans' = orphans \cup {i}
        BY <1>0, <2>1, GotoWithBecomes, AnswerBecomes DEF CreateSteps
    <2>6. CreateOK(c)' /\ DeleteOK(c)'
        BY <1>0, <2>2, <2>5 DEF Becomes, Moved, CreateOK, DeleteOK, Known, CreateSteps
    <2>7. CallInv'
        BY <2>4, <2>5, <2>6, CallStep
    <2>8. StateTypeOK'
        BY <2>2, <2>3, <2>5 DEF Inv, StateTypeOK, Becomes
    <2>9. \A d \in Calls, j \in SnapIds : HeldBy(d, j) => HeldBy(d, j)'
        BY <1>0, <2>5 DEF Becomes, HeldBy
    <2>10. i \in orphans' \/ HeldBy(c, i)'
        BY <1>0, <2>5 DEF Becomes, Moved, HeldBy
    <2>11. TrackedInv'
        BY <2>2, <2>3, <2>5, <2>9, <2>10 DEF Inv, TrackedInv, Live
    <2> QED
        BY <2>3, <2>4, <2>7, <2>8, <2>11, ToldKept, CacheKept DEF Inv
<1>3. CASE UNCHANGED snap
    \* The cloud's new snapshot was absent before.
    <2>1. ASSUME NEW i \in SnapIds, snap[i].state = "absent",
                 snap' = [snap EXCEPT ![i] = [name |-> call[c].name, state |-> "CREATING"]]
          PROVE  FALSE
        BY <1>3, <2>1 DEF Inv, StateTypeOK
    <2> QED
        BY <1>1, <2>1 DEF CreateRequest
<1> QED
    BY <1>2, <1>3

LEMMA CreateConfirmInv ==
    ASSUME Inv, NEW c \in Calls, CreateConfirm(c)
    PROVE  Inv'
<1>0. CreateOK(c) /\ call \in [Calls -> CallRecord] /\ call[c].op = "create" /\ call[c].pc = "confirm"
    BY DEF Inv, CallInv, StateTypeOK, CreateConfirm, At
<1>1. Progress /\ UNCHANGED <<snap, cache, meta, told>>
    BY DEF Progress, CreateConfirm, Known
<1>2. /\ \/ Becomes(c, Moved(c, call[c].id, "add", call[c].resp)) /\ orphans' = orphans
         \/ Becomes(c, Moved(c, call[c].id, "reply", "err")) /\ orphans' = orphans \cup {call[c].id}
    BY <1>0, GotoBecomes, AnswerBecomes DEF CreateSteps, CreateConfirm
<1>3. CreateOK(c)' /\ DeleteOK(c)'
    BY <1>0, <1>1, <1>2 DEF Becomes, Moved, CreateOK, DeleteOK, Known, CreateSteps
<1>4. StateTypeOK'
    BY <1>0, <1>1, <1>2 DEF Inv, StateTypeOK, Becomes, CreateOK, Known
<1>5. \A d \in Calls, j \in SnapIds : HeldBy(d, j) => HeldBy(d, j)' \/ j \in orphans'
    BY <1>0, <1>2 DEF Becomes, Moved, HeldBy
<1>6. TrackedInv'
    BY <1>1, <1>2, <1>5, TrackedKept
<1> QED
    BY <1>1, <1>2, <1>3, <1>4, <1>6, CallStep, ToldKept, CacheKept DEF Inv

\* AddCbsSnapshot may replace another record under the key, but only one that
\* the store holds too.
LEMMA CreateAddInv ==
    ASSUME Inv, NEW c \in Calls, CreateAdd(c)
    PROVE  Inv'
<1>0. CreateOK(c) /\ call \in [Calls -> CallRecord] /\ call[c].op = "create" /\ call[c].pc = "add"
    BY DEF Inv, CallInv, StateTypeOK, CreateAdd, At
<1>1. Progress /\ UNCHANGED <<snap, meta, told, orphans>>
    BY DEF Progress, CreateAdd, Known
<1>2. Becomes(c, Moved(c, call[c].id, "store", call[c].resp))
    BY <1>0, GotoBecomes DEF CreateSteps, CreateAdd
<1>3. CreateOK(c)' /\ DeleteOK(c)'
    BY <1>0, <1>1, <1>2 DEF Becomes, Moved, CreateOK, DeleteOK, Known, CreateSteps
<1>4. StateTypeOK'
    BY <1>1, <1>2 DEF Inv, StateTypeOK, Becomes
<1>5. /\ DOMAIN cache' = DOMAIN cache \cup {call[c].id}
      /\ cache'[call[c].id] = call[c].id
      /\ \A k \in DOMAIN cache : k # call[c].id => cache'[k] = cache[k]
    BY DEF CreateAdd
<1>6. CacheInv'
    BY <1>0, <1>1, <1>5 DEF Inv, CacheInv, CreateOK, Known, Deleted
<1>7. ASSUME NEW i \in SnapIds, Live(i)
      PROVE  \/ i \in meta' \/ i \in orphans'
             \/ \E k \in DOMAIN cache' : cache'[k] = i
             \/ \E d \in Calls : HeldBy(d, i)'
    <2>1. CASE i \in meta \/ i \in orphans
        BY <1>1, <2>1
    <2>2. CASE \E k \in DOMAIN cache : cache[k] = i
        <3>1. PICK k \in DOMAIN cache : cache[k] = i
            BY <2>2
        <3>2. k = i \/ i \in meta
            BY <1>7, <3>1 DEF Inv, CacheInv, Deleted, Live
        <3> QED
            BY <1>1, <1>5, <3>1, <3>2
    <2>3. CASE \E d \in Calls : HeldBy(d, i)
        BY <1>2, <1>5, <2>3 DEF HeldBy, Becomes
    <2> QED
        BY <1>7, <2>1, <2>2, <2>3 DEF Inv, TrackedInv
<1>8. TrackedInv'
    BY <1>1, <1>7 DEF TrackedInv, Live
<1> QED
    BY <1>1, <1>2, <1>3, <1>4, <1>6, <1>8, CallStep, ToldKept DEF Inv

-----------------------------------------------------------------------------
(* DeleteSnapshot.                                                          *)

\* A step of a delete call that leaves the rest as it is, unless the call has
\* seen the snapshot gone.
LEMMA DeleteMoves ==
    ASSUME Inv, NEW c \in Calls, call[c].op = "delete", NEW pc, NEW resp,
           pc \in DeleteSteps \cup {"reply"},
           Becomes(c, Moved(c, call[c].id, pc, resp)),
           pc \in {"uncache", "unstore"} \/ resp = "ok" => snap'[call[c].id].state = "deleted",
           told' = told
    PROVE  CreateOK(c)' /\ DeleteOK(c)'
BY DEF Inv, CallInv, DeleteOK, CreateOK, Becomes, Moved, Deleted

LEMMA DeleteGetInv ==
    ASSUME Inv, NEW c \in Calls, DeleteGet(c)
    PROVE  Inv'
<1>0. DeleteOK(c) /\ call \in [Calls -> CallRecord] /\ call[c].op = "delete" /\ call[c].pc = "get"
    BY DEF Inv, CallInv, StateTypeOK, DeleteGet, At
<1> SUFFICES \E r : Becomes(c, r) /\ CreateOK(c)' /\ DeleteOK(c)'
    BY <1>0, QuietStep DEF DeleteGet
<1>1. CASE call[c].id \notin meta /\ Answer(c, "ok")
    <2>1. Deleted(call[c].id)
        BY <1>0, <1>1 DEF Inv, ToldInv, DeleteOK
    <2>2. Becomes(c, Moved(c, call[c].id, "reply", "ok"))
        BY <1>0, <1>1, AnswerBecomes
    <2> QED
        BY <1>0, <2>1, <2>2, DeleteMoves DEF DeleteGet, Deleted
<1>2. CASE Goto(c, "terminate")
    <2>1. Becomes(c, Moved(c, call[c].id, "terminate", call[c].resp))
        BY <1>0, <1>2, GotoBecomes DEF DeleteSteps
    <2>2. call[c].resp = "ok" => snap'[call[c].id].state = "deleted"
        BY <1>0 DEF DeleteOK, Deleted, DeleteGet
    <2> QED
        BY <1>0, <2>1, <2>2, DeleteMoves DEF DeleteGet, DeleteSteps
<1>3. CASE Answer(c, "err")
    <2>1. Becomes(c, Moved(c, call[c].id, "reply", "err"))
        BY <1>0, <1>3, AnswerBecomes
    <2> QED
        BY <1>0, <2>1, DeleteMoves DEF DeleteGet
<1> QED
    BY <1>1, <1>2, <1>3 DEF DeleteGet

\* The snapshot is gone, or the call fails.
LEMMA DeleteTerminateInv ==
    ASSUME Inv, NEW c \in Calls, DeleteTerminate(c)
    PROVE  Inv'
<1> DEFINE id == call[c].id
<1>0. /\ DeleteOK(c) /\ call \in [Calls -> CallRecord] /\ call[c].op = "delete" /\ call[c].pc = "terminate"
      /\ Known(id) /\ snap \in [SnapIds -> [name : Names \cup {NoName}, state : SnapStates]]
    BY DEF Inv, CallInv, StateTypeOK, DeleteTerminate, At, DeleteOK, ToldInv
<1>1. UNCHANGED <<cache, meta, told, orphans>>
    BY DEF DeleteTerminate
<1>2. /\ \A i \in SnapIds : snap'[i].name = snap[i].name
      /\ \A i \in SnapIds : snap'[i].state = snap[i].state \/ snap'[i].state = "deleted"
      /\ snap' \in [SnapIds -> [name : Names \cup {NoName}, state : SnapStates]]
    BY <1>0 DEF DeleteTerminate, SnapStates, Known
<1>3. \/ snap'[id].state = "deleted" /\ Goto(c, "uncache")
      \/ Answer(c, "err")
    BY <1>0 DEF DeleteTerminate, SnapStates, Known, Live
<1>4. \/ snap'[id].state = "deleted" /\ Becomes(c, Moved(c, id, "uncache", call[c].resp))
      \/ Becomes(c, Moved(c, id, "reply", "err"))
    BY <1>0, <1>3, GotoBecomes, AnswerBecomes DEF DeleteSteps
<1>5. Progress
    BY <1>1, <1>2 DEF Progress, Known
<1>6. CreateOK(c)' /\ DeleteOK(c)'
    <2>1. call'[c].op = "delete" /\ call'[c].id = id
        BY <1>0, <1>4 DEF Becomes, Moved
    <2>2. snap[id].state = "deleted" => snap'[id].state = "deleted"
        BY <1>0, <1>2 DEF Known
    <2>3. DeleteOK(c)'
        BY <1>0, <1>1, <1>4, <2>1, <2>2 DEF DeleteOK, Becomes, Moved, Deleted, DeleteSteps
    <2>4. CreateOK(c)'
        BY <2>1 DEF CreateOK
    <2> QED
        BY <2>3, <2>4
<1>7. CallInv'
    BY <1>4, <1>5, <1>6, CallStep
<1>8. StateTypeOK'
    BY <1>1, <1>2, <1>4 DEF Inv, StateTypeOK, Becomes
<1>9. \A d \in Calls, j \in SnapIds : HeldBy(d, j) => HeldBy(d, j)'
    BY <1>0, <1>4 DEF Becomes, HeldBy
<1>10. \A i \in SnapIds : Live(i)' => Live(i)
    BY <1>2 DEF Live
<1>11. TrackedInv'
    BY <1>1, <1>9, <1>10 DEF Inv, TrackedInv
<1> QED
    BY <1>1, <1>5, <1>7, <1>8, <1>11, ToldKept, CacheKept DEF Inv

\* The entry under the key may be the record of another snapshot, but then
\* that one is in the store.
LEMMA DeleteUncacheInv ==
    ASSUME Inv, NEW c \in Calls, DeleteUncache(c)
    PROVE  Inv'
<1>0. /\ DeleteOK(c) /\ call \in [Calls -> CallRecord] /\ call[c].op = "delete" /\ call[c].pc = "uncache"
      /\ Deleted(call[c].id)
    BY DEF Inv, CallInv, StateTypeOK, DeleteUncache, At, DeleteOK
<1>1. Progress /\ UNCHANGED <<snap, meta, told, orphans>>
    BY DEF Progress, DeleteUncache, Known
<1>2. Becomes(c, Moved(c, call[c].id, "unstore", call[c].resp))
    BY <1>0, GotoBecomes DEF DeleteSteps, DeleteUncache
<1>3. CreateOK(c)' /\ DeleteOK(c)'
    BY <1>0, <1>1, <1>2 DEF Becomes, Moved, CreateOK, DeleteOK, Deleted, DeleteSteps
<1>4. StateTypeOK'
    BY <1>1, <1>2 DEF Inv, StateTypeOK, Becomes
<1>5. /\ DOMAIN cache' = DOMAIN cache \ {call[c].id}
      /\ \A k \in DOMAIN cache : k # call[c].id => cache'[k] = cache[k]
    BY DEF DeleteUncache
<1>6. CacheInv'
    BY <1>1, <1>5 DEF Inv, CacheInv, Known, Deleted
<1>7. ASSUME NEW i \in SnapIds, Live(i)
      PROVE  \/ i \in meta' \/ i \in orphans'
             \/ \E k \in DOMAIN cache' : cache'[k] = i
             \/ \E d \in Calls : HeldBy(d, i)'
    <2>1. CASE i \in meta \/ i \in orphans
        BY <1>1, <2>1
    <2>2. CASE \E k \in DOMAIN cache : cache[k] = i
        <3>1. PICK k \in DOMAIN cache : cache[k] = i
            BY <2>2
        <3>2. k = i \/ i \in meta
            BY <1>7, <3>1 DEF Inv, CacheInv, Deleted, Live
        <3>3. i # call[c].id
            BY <1>0, <1>7 DEF Live, Deleted
        <3> QED
            BY <1>1, <1>5, <3>1, <3>2, <3>3
    <2>3. CASE \E d \in Calls : HeldBy(d, i)
        BY <1>0, <1>2, <2>3 DEF HeldBy, Becomes
    <2> QED
        BY <1>7, <2>1, <2>2, <2>3 DEF Inv, TrackedInv
<1>8. TrackedInv'
    BY <1>1, <1>7 DEF TrackedInv, Live
<1> QED
    BY <1>1, <1>2, <1>3, <1>4, <1>6, <1>8, CallStep, ToldKept DEF Inv

\* Only a snapshot that the cloud has deleted leaves the store.
LEMMA DeleteUnstoreInv ==
    ASSUME Inv, NEW c \in Calls, DeleteUnstore(c)
    PROVE  Inv'
<1>0. /\ DeleteOK(c) /\ call \in [Calls -> CallRecord] /\ call[c].op = "delete" /\ call[c].pc = "unstore"
      /\ Deleted(call[c].id)
    BY DEF Inv, CallInv, StateTypeOK, DeleteUnstore, At, DeleteOK
<1>1. UNCHANGED <<snap, cache, told, orphans>> /\ meta' \in {meta, meta \ {call[c].id}}
    BY DEF DeleteUnstore
<1>2. Progress
    BY <1>0, <1>1 DEF Progress, Known, Deleted
<1>3. PICK r \in {"ok", "err"} : Becomes(c, Moved(c, call[c].id, "reply", r))
    BY <1>0, AnswerBecomes DEF DeleteUnstore
<1>4. CreateOK(c)' /\ DeleteOK(c)'
    BY <1>0, <1>1, <1>3 DEF Becomes, Moved, CreateOK, DeleteOK, Deleted
<1>5. CallInv'
    BY <1>2, <1>3, <1>4, CallStep
<1>6. StateTypeOK'
    BY <1>1, <1>3 DEF Inv, StateTypeOK, Becomes
<1>7. \A d \in Calls, j \in SnapIds : HeldBy(d, j) => HeldBy(d, j)'
    BY <1>0, <1>3 DEF Becomes, HeldBy
<1>8. \A i \in SnapIds : Live(i) => i # call[c].id
    BY <1>0 DEF Live, Deleted
<1>9. TrackedInv'
    BY <1>1, <1>7, <1>8 DEF Inv, TrackedInv, Live
<1> QED
    BY <1>1, <1>2, <1>5, <1>6, <1>9, ToldKept, CacheKept DEF Inv

-----------------------------------------------------------------------------
(* The cloud and the process.                                               *)

LEMMA SnapshotFinishesInv ==
    ASSUME Inv, NEW i \in SnapIds, SnapshotFinishes(i)
    PROVE  Inv'
<1>1. /\ snap' \in [SnapIds -> [name : Names \cup {NoName}, state : SnapStates]]
      /\ snap[i].state = "CREATING" /\ snap'[i].state = "NORMAL" /\ snap'[i].name = snap[i].name
      /\ \A j \in SnapIds : j # i => snap'[j] = snap[j]
    BY DEF Inv, StateTypeOK, SnapshotFinishes, SnapStates
<1>2. UNCHANGED <<cache, meta, call, told, orphans>>
    BY DEF SnapshotFinishes
<1>3. Progress
    BY <1>1, <1>2 DEF Progress, Known
<1>4. CallInv'
    BY <1>2, <1>3, OtherCalls DEF CallInv
<1>5. StateTypeOK'
    BY <1>1, <1>2 DEF Inv, StateTypeOK
<1>6. TrackedInv'
    BY <1>1, <1>2 DEF Inv, TrackedInv, Live, HeldBy
<1> QED
    BY <1>2, <1>3, <1>4, <1>5, <1>6, ToldKept, CacheKept DEF Inv

\* After a restart every entry of the cache is the record of one configmap;
\* what only the memory held is given up.
LEMMA RestartInv ==
    ASSUME Inv, Restart
    PROVE  Inv'
<1>1. UNCHANGED <<snap, meta, told>>
    BY DEF Restart
<1>2. \A k \in DOMAIN cache' : k \in meta /\ cache'[k] \in meta
    BY DEF Restart, LoadExDataFromMetadataStore, ForAll
<1>3. CallInv'
    BY DEF Restart, CallInv, CreateOK, DeleteOK, IdleCall
<1>4. ToldInv'
    BY <1>1 DEF Inv, ToldInv, Known, Deleted
<1>5. CacheInv'
    BY <1>1, <1>2 DEF Inv, StateTypeOK, CacheInv, Known, Deleted
<1>6. \A i \in InMemory : i \in SnapIds \cup {NoId}
    BY DEF Inv, StateTypeOK, CacheInv, Known, InMemory, Range, CallRecord
<1>7. StateTypeOK'
    BY <1>1, <1>6 DEF Inv, StateTypeOK, Restart, CallRecord, IdleCall
<1>8. ASSUME NEW i \in SnapIds, Live(i)
      PROVE  i \in meta' \/ i \in orphans'
    <2>1. i \in meta \/ i \in orphans \/ i \in InMemory
        BY <1>8 DEF Inv, TrackedInv, InMemory, HeldBy, Range
    <2> QED
        BY <1>1, <1>8, <2>1, ConstantsAssumption DEF Restart
<1>9. TrackedInv'
    BY <1>1, <1>8 DEF TrackedInv, Live
<1> QED
    BY <1>3, <1>4, <1>5, <1>7, <1>9 DEF Inv

LEMMA Stutter ==
    ASSUME Inv, UNCHANGED vars
    PROVE  Inv'
BY DEF vars, Inv, StateTypeOK, CallInv, CreateOK, DeleteOK, ToldInv, CacheInv, TrackedInv, HeldBy,
       Known, Deleted, Live

LEMMA NextInv == Inv /\ [Next]_vars => Inv'
<1> SUFFICES ASSUME Inv, [Next]_vars PROVE Inv'
    OBVIOUS
<1>1. CASE Next
    BY <1>1, CreateSnapshotInv, DeleteSnapshotInv, ReplyInv, CreateLookupInv, CreateDescribeInv,
       CreateRestoreInv, CreateRequestInv, CreateConfirmInv, CreateAddInv, CreateStoreInv,
       DeleteGetInv, DeleteTerminateInv, DeleteUncacheInv, DeleteUnstoreInv,
       SnapshotFinishesInv, RestartInv
       DEF Next, Step
<1>2. CASE UNCHANGED vars
    BY <1>2, Stutter
<1> QED
    BY <1>1, <1>2

-----------------------------------------------------------------------------
(* The theorems.                                                            *)

(***************************************************************************)
(* The inductive invariant holds of every run of the snapshot service.     *)
(***************************************************************************)
THEOREM Invariance == Spec => []Inv
BY InitInv, NextInv, PTL DEF Spec

(***************************************************************************)
(* The cache maps ids to records of snapshots that the cloud has given,    *)
(* and every call record is well formed.                                   *)
(***************************************************************************)
THEOREM TypeCorrect == Spec => []TypeOK
BY Invariance, InvImplies, PTL

(***************************************************************************)
(* A DeleteSnapshot that succeeds, be it because it found no configmap,    *)
(* leaves no snapshot in the cloud.                                        *)
(***************************************************************************)
THEOREM DeleteIsFinal == Spec => []DeletedMeansGone
BY Invariance, InvImplies, PTL

(***************************************************************************)
(* CreateSnapshot answers with a snapshot of the name it was asked for,    *)
(* also from a cache in which a restart has mixed up the records, and      *)
(* calls it ready only when the cloud has finished it.                     *)
(***************************************************************************)
THEOREM CreateAnswersItsName == Spec => []AnswersOwnSnapshot
BY Invariance, InvImplies, PTL

(***************************************************************************)
(* Every snapshot that the cloud still has is in the store, in memory, or  *)
(* was given up by its creator before the store knew it.                   *)
(***************************************************************************)
THEOREM NoneIsForgotten == Spec => []LiveIsTracked
BY Invariance, InvImplies, PTL

-----------------------------------------------------------------------------
(***************************************************************************)
(* The tag loop.  For any number of keys, disks, workers and changes, the  *)
(* counter of failures cannot lose the fact that there was a failure, and  *)
(* so a round that goes to the file has reached all disks.                 *)
(***************************************************************************)


SyncRecord ==
    [pc : {"sleep", "config", "disks", "wait", "record"}, tags : Tags,
     replace : SUBSET Keys, delete : SUBSET Keys, round : SUBSET Disks,
     queue : SUBSET Disks, pending : SUBSET Disks, errNum : Nat]

DiskRecord == [state : DiskStates, tags : Tags]

ConfigRecord == [file : {"absent", "json", "torn"}, tags : Tags]

Idle == [pc |-> "idle"]
Modifying == [pc : {"modify", "read"}, disk : Disks]
Counting == [pc : {"write"}, disk : Disks, seen : Nat]
WorkerRecord == {NoWork, Idle} \cup Modifying \cup Counting

TagsStateTypeOK ==
    /\ cluster \in Tags
    /\ changes \in 0 .. MaxChanges
    /\ disk \in [Disks -> DiskRecord]
    /\ config \in ConfigRecord
    /\ sync \in SyncRecord
    /\ worker \in [Workers -> WorkerRecord]

Busy(r) == r.pc \in {"modify", "read", "write"}

\* Workers run while the loop waits for them, and hold different disks, which
\* are out of the queue and not done.
WorkersInv ==
    /\ \A w \in Workers : worker[w].pc # "none" => sync.pc = "wait"
    /\ \A w \in Workers : Busy(worker[w]) => worker[w].disk \in sync.pending \ sync.queue
    /\ \A w, x \in Workers :
          Busy(worker[w]) /\ Busy(worker[x]) /\ worker[w].disk = worker[x].disk => w = x

\* A round begins with its workers.  Its disks have a PersistentVolume, so that
\* CreateVolume is done with them.
RoundInv ==
    /\ sync.pc \in {"sleep", "config", "disks"} => sync.round = {}
    /\ sync.queue \subseteq sync.pending
    /\ sync.pending \subseteq sync.round
    /\ \A d \in sync.round : disk[d].state = "listed"

\* A count never exceeds the disks that are done.
Finished == sync.round \ sync.pending

CountInv ==
    /\ sync.errNum <= Cardinality(Finished)
    /\ \A w \in Workers : worker[w].pc = "write" => worker[w].seen <= Cardinality(Finished)

Tagged(d) == \A k \in sync.replace \cup sync.delete : disk[d].tags[k] = sync.tags[k]

\* A disk that is done has its tags, unless some worker has counted a failure:
\* what a later worker writes over that count is again one or more.
ReachedInv ==
    /\ \A d \in Finished : Tagged(d) \/ sync.errNum # 0
    /\ sync.pc = "record" => sync.pending = {} /\ sync.errNum = 0

TagsInv == TagsStateTypeOK /\ WorkersInv /\ RoundInv /\ CountInv /\ ReachedInv
-----------------------------------------------------------------------------
(* The records.                                                             *)

LEMMA TagsFacts == NoTags \in Tags /\ NoConfig \in ConfigRecord /\ Sleeping \in SyncRecord
<1>1. NoTags \in Tags
  BY DEF NoTags, Tags
<1>2. NoConfig \in ConfigRecord
  BY <1>1 DEF NoConfig, ConfigRecord
<1>3. Sleeping \in SyncRecord
  BY <1>1 DEF Sleeping, SyncRecord
<1> QED
  BY <1>1, <1>2, <1>3

\* What a worker's record holds, by its program counter.
LEMMA WorkerFacts ==
    ASSUME NEW r \in WorkerRecord
    PROVE  /\ r.pc \in {"none", "idle", "modify", "read", "write"}
           /\ r.pc \in {"modify", "read"} => r \in Modifying
           /\ r.pc = "write" => r \in Counting
           /\ Busy(r) => r.disk \in Disks
  BY DEF WorkerRecord, NoWork, Idle, Modifying, Counting, Busy

LEMMA SleepingFacts ==
    /\ Sleeping.pc = "sleep"
    /\ Sleeping.round = {}
    /\ Sleeping.queue = {}
    /\ Sleeping.pending = {}
    /\ Sleeping.errNum = 0
  BY DEF Sleeping

\* The sets of a round are finite, so that they can be counted.
LEMMA CountFacts ==
    ASSUME TagsStateTypeOK
    PROVE  /\ IsFiniteSet(Finished)
           /\ Cardinality(Finished) \in Nat
<1>1. Finished \subseteq Disks
  BY DEF TagsStateTypeOK, SyncRecord, Finished
<1> QED
  BY <1>1, TagsAssumption, FS_Subset, FS_CardinalityType

-----------------------------------------------------------------------------
(* Steps that leave the round alone, and steps that end it.                 *)

\* A step of the surroundings: a disk that has its PersistentVolume stays as it is.
LEMMA OutsideKeepsInv ==
    ASSUME TagsInv, TagsStateTypeOK', UNCHANGED <<sync, worker>>,
           \A d \in Disks : disk[d].state = "listed" => disk'[d] = disk[d]
    PROVE  TagsInv'
<1>1. WorkersInv'
  BY DEF TagsInv, WorkersInv
<1>2. RoundInv'
  BY DEF TagsInv, RoundInv, TagsStateTypeOK, SyncRecord
<1>3. CountInv'
  BY DEF TagsInv, CountInv, Finished
<1>4. ReachedInv'
  <2>1. \A d \in Finished : disk'[d] = disk[d]
    BY DEF TagsInv, RoundInv, TagsStateTypeOK, SyncRecord, Finished
  <2> QED
    BY <2>1 DEF TagsInv, ReachedInv, Finished, Tagged
<1> QED
  BY <1>1, <1>2, <1>3, <1>4 DEF TagsInv

\* While there is no round, no worker runs and nothing was counted.
LEMMA NoRoundIsInv ==
    ASSUME TagsStateTypeOK', sync'.round = {}, sync'.pending = {}, sync'.queue = {},
           sync'.errNum = 0, sync'.pc # "record",
           \A w \in Workers : worker'[w] = NoWork
    PROVE  TagsInv'
<1>1. \A w \in Workers : worker'[w].pc = "none"
  BY DEF NoWork
<1>2. WorkersInv'
  BY <1>1 DEF WorkersInv, Busy
<1>3. RoundInv'
  BY DEF RoundInv
<1>4. CountInv'
  <2>1. Finished' = {}
    BY DEF Finished
  <2> QED
    BY <1>1, <2>1, FS_EmptySet DEF CountInv
<1>5. ReachedInv'
  BY DEF ReachedInv, Finished
<1> QED
  BY <1>2, <1>3, <1>4, <1>5 DEF TagsInv

\* The function returns, or the container starts anew.
LEMMA ReturnKeepsInv ==
    ASSUME TagsInv, Return, cluster' = cluster, changes' = changes, disk' = disk,
           config' \in ConfigRecord
    PROVE  TagsInv'
<1>1. \A w \in Workers : worker'[w] = NoWork
  BY DEF Return
<1>2. worker' \in [Workers -> WorkerRecord]
  BY DEF Return, WorkerRecord
<1>3. sync' = Sleeping
  BY DEF Return
<1>4. TagsStateTypeOK'
  BY <1>2, <1>3, TagsFacts DEF TagsInv, TagsStateTypeOK
<1> QED
  BY <1>1, <1>3, <1>4, SleepingFacts, NoRoundIsInv

-----------------------------------------------------------------------------
(* The loop.                                                                *)

\* Without a round there is nothing for the workers to do.
LEMMA NoRoundFacts ==
    ASSUME TagsInv, sync.pc \in {"sleep", "config", "disks"}
    PROVE  /\ sync.round = {} /\ sync.pending = {} /\ sync.queue = {} /\ sync.errNum = 0
           /\ \A w \in Workers : worker[w] = NoWork
<1>1. sync.round = {} /\ sync.pending = {} /\ sync.queue = {}
  BY DEF TagsInv, RoundInv
<1>2. sync.errNum = 0
  <2>1. Finished = {}
    BY <1>1 DEF Finished
  <2>2. sync.errNum \in Nat
    BY DEF TagsInv, TagsStateTypeOK, SyncRecord
  <2> QED
    BY <2>1, <2>2, FS_EmptySet DEF TagsInv, CountInv
<1>3. ASSUME NEW w \in Workers PROVE worker[w] = NoWork
  <2>1. worker[w].pc = "none"
    BY DEF TagsInv, WorkersInv
  <2>2. worker[w] \in WorkerRecord
    BY DEF TagsInv, TagsStateTypeOK
  <2> QED
    BY <2>1, <2>2 DEF WorkerRecord, NoWork, Idle, Modifying, Counting
<1> QED
  BY <1>1, <1>2, <1>3

\* A step before the round begins.
LEMMA BeforeRoundKeepsInv ==
    ASSUME TagsInv, sync.pc \in {"sleep", "config", "disks"}, UNCHANGED <<cluster, changes, disk, worker>>,
           config' \in ConfigRecord, sync' \in SyncRecord, sync'.pc # "record",
           sync'.round = sync.round, sync'.queue = sync.queue, sync'.pending = sync.pending,
           sync'.errNum = sync.errNum
    PROVE  TagsInv'
<1>1. TagsStateTypeOK'
  BY DEF TagsInv, TagsStateTypeOK
<1> QED
  BY <1>1, NoRoundFacts, NoRoundIsInv

LEMMA WriteFacts ==
    ASSUME NEW t \in Tags, config \in ConfigRecord, Write(t)
    PROVE  config' \in ConfigRecord
  BY TagsFacts DEF Write, ConfigRecord

LEMMA GetClusterTagsKeepsInv == TagsInv /\ GetClusterTags => TagsInv'
<1> SUFFICES ASSUME TagsInv, GetClusterTags PROVE TagsInv'
  OBVIOUS
<1>1. config' \in ConfigRecord /\ cluster \in Tags /\ sync \in SyncRecord
  BY DEF TagsInv, TagsStateTypeOK, GetClusterTags
<1>2. CASE Fails
  BY <1>1, <1>2, ReturnKeepsInv DEF Fails, GetClusterTags
<1>3. CASE sync' = [sync EXCEPT !.pc = "config", !.tags = cluster] /\ worker' = worker
  <2>1. /\ sync' \in SyncRecord /\ sync'.pc = "config"
        /\ sync'.round = sync.round /\ sync'.queue = sync.queue
        /\ sync'.pending = sync.pending /\ sync'.errNum = sync.errNum
    BY <1>1, <1>3 DEF SyncRecord
  <2> QED
    BY <1>1, <1>3, <2>1, BeforeRoundKeepsInv DEF GetClusterTags
<1> QED
  BY <1>2, <1>3 DEF GetClusterTags

LEMMA GetConfigTagsKeepsInv == TagsInv /\ GetConfigTags => TagsInv'
<1> SUFFICES ASSUME TagsInv, GetConfigTags PROVE TagsInv'
  OBVIOUS
<1>1. sync \in SyncRecord /\ config \in ConfigRecord
  BY DEF TagsInv, TagsStateTypeOK
<1>2. config' \in ConfigRecord
  BY <1>1, TagsFacts, WriteFacts DEF GetConfigTags
<1>3. PICK need : /\ need = CompareTags(sync.tags, config.tags)
                  /\ \/ Return
                     \/ /\ sync' = [sync EXCEPT !.pc = "disks", !.replace = need.replace,
                                                !.delete = need.delete]
                        /\ worker' = worker
  BY DEF GetConfigTags
<1>4. CASE Return
  BY <1>2, <1>4, ReturnKeepsInv DEF GetConfigTags
<1>5. CASE sync' = [sync EXCEPT !.pc = "disks", !.replace = need.replace,
                                !.delete = need.delete] /\ worker' = worker
  <2>1. PICK q, r \in SUBSET Keys : q = need.replace /\ r = need.delete
    BY <1>3 DEF CompareTags
  <2>2. /\ sync' \in SyncRecord /\ sync'.pc = "disks"
        /\ sync'.round = sync.round /\ sync'.queue = sync.queue
        /\ sync'.pending = sync.pending /\ sync'.errNum = sync.errNum
    BY <1>1, <1>5, <2>1 DEF SyncRecord
  <2> QED
    BY <1>2, <1>5, <2>2, BeforeRoundKeepsInv DEF GetConfigTags
<1> QED
  BY <1>3, <1>4, <1>5

\* A round begins: nothing is done, and all workers are idle.
LEMMA updateDisksTagsKeepsInv == TagsInv /\ updateDisksTags => TagsInv'
<1> SUFFICES ASSUME TagsInv, updateDisksTags PROVE TagsInv'
  OBVIOUS
<1>1. sync \in SyncRecord /\ config' \in ConfigRecord
  BY DEF TagsInv, TagsStateTypeOK, updateDisksTags
<1>2. CASE Fails
  BY <1>1, <1>2, ReturnKeepsInv DEF Fails, updateDisksTags
<1>3. CASE ~ Fails
  <2>1. PICK l \in SUBSET Disks : l = Listed
    BY DEF Listed
  <2>2. sync' = [sync EXCEPT !.pc = "wait", !.round = l, !.queue = l, !.pending = l]
    BY <1>3, <2>1 DEF updateDisksTags
  <2>3. worker' \in [Workers -> {NoWork, Idle}]
    BY <1>3 DEF updateDisksTags, Idle
  <2>4. /\ sync' \in SyncRecord /\ sync'.pc = "wait"
        /\ sync'.round = l /\ sync'.queue = l /\ sync'.pending = l
        /\ sync'.errNum = sync.errNum
    BY <1>1, <2>2 DEF SyncRecord
  <2>5. TagsStateTypeOK'
    BY <2>3, <2>4 DEF TagsInv, TagsStateTypeOK, updateDisksTags, WorkerRecord
  <2>6. \A w \in Workers : worker'[w].pc \in {"none", "idle"}
    BY <2>3 DEF NoWork, Idle
  <2>7. WorkersInv'
    BY <2>4, <2>6 DEF WorkersInv, Busy
  <2>8. RoundInv'
    BY <2>1, <2>4 DEF RoundInv, Listed, updateDisksTags
  <2>9. Finished' = {}
    BY <2>4 DEF Finished
  <2>10. CountInv'
    BY <2>4, <2>6, <2>9, NoRoundFacts, FS_EmptySet DEF CountInv, updateDisksTags
  <2>11. ReachedInv'
    BY <2>4, <2>9 DEF ReachedInv
  <2> QED
    BY <2>5, <2>7, <2>8, <2>10, <2>11 DEF TagsInv
<1> QED
  BY <1>2, <1>3

LEMMA WaitForWorkersKeepsInv == TagsInv /\ WaitForWorkers => TagsInv'
<1> SUFFICES ASSUME TagsInv, WaitForWorkers PROVE TagsInv'
  OBVIOUS
<1>1. sync \in SyncRecord /\ config' \in ConfigRecord
  BY DEF TagsInv, TagsStateTypeOK, WaitForWorkers
<1>2. CASE Return
  BY <1>1, <1>2, ReturnKeepsInv DEF WaitForWorkers
<1>3. CASE ~ Return
  <2>1. /\ sync' = [sync EXCEPT !.pc = "record"]
        /\ sync.errNum = 0 /\ sync.pending = {}
        /\ worker' = [w \in Workers |-> NoWork]
    BY <1>3 DEF WaitForWorkers
  <2>2. /\ sync' \in SyncRecord /\ sync'.pc = "record"
        /\ sync'.round = sync.round /\ sync'.queue = sync.queue /\ sync'.tags = sync.tags
        /\ sync'.replace = sync.replace /\ sync'.delete = sync.delete
        /\ sync'.pending = sync.pending /\ sync'.errNum = sync.errNum
    BY <1>1, <2>1 DEF SyncRecord
  <2>3. \A w \in Workers : worker'[w].pc = "none"
    BY <2>1 DEF NoWork
  <2>4. TagsStateTypeOK'
    BY <2>1, <2>2 DEF TagsInv, TagsStateTypeOK, WaitForWorkers, WorkerRecord
  <2>5. WorkersInv'
    BY <2>3 DEF WorkersInv, Busy
  <2>6. RoundInv'
    BY <2>2 DEF TagsInv, RoundInv, WaitForWorkers
  <2>7. Finished' = Finished
    BY <2>2 DEF Finished
  <2>8. CountInv'
    BY <2>2, <2>3, <2>7 DEF TagsInv, CountInv
  <2>9. ReachedInv'
    BY <2>1, <2>2, <2>7 DEF TagsInv, ReachedInv, Tagged, WaitForWorkers
  <2> QED
    BY <2>4, <2>5, <2>6, <2>8, <2>9 DEF TagsInv
<1> QED
  BY <1>2, <1>3

LEMMA UpdateConfigTagsKeepsInv == TagsInv /\ UpdateConfigTags => TagsInv'
<1> SUFFICES ASSUME TagsInv, UpdateConfigTags PROVE TagsInv'
  OBVIOUS
<1>1. sync.tags \in Tags /\ config \in ConfigRecord
  BY DEF TagsInv, TagsStateTypeOK, SyncRecord
<1>2. config' \in ConfigRecord
  BY <1>1, WriteFacts DEF UpdateConfigTags
<1> QED
  BY <1>2, ReturnKeepsInv DEF UpdateConfigTags

-----------------------------------------------------------------------------
(* The workers.                                                             *)

\* What a worker's step does to the round: the loop waits on, the round is the
\* same, the disks it holds and takes change, and disks that it does not hold
\* keep their tags.
RoundGoesOn ==
    /\ cluster' = cluster /\ changes' = changes /\ config' = config
    /\ sync' \in SyncRecord
    /\ sync'.pc = sync.pc /\ sync'.tags = sync.tags /\ sync'.round = sync.round
    /\ sync'.replace = sync.replace /\ sync'.delete = sync.delete

\* A worker that runs does so while the loop waits.
LEMMA LoopWaits ==
    ASSUME TagsInv, NEW w \in Workers, worker[w].pc # "none"
    PROVE  sync.pc = "wait" /\ sync \in SyncRecord /\ worker[w] \in WorkerRecord
  BY DEF TagsInv, TagsStateTypeOK, WorkersInv

\* The worker takes or keeps a disk; nothing is done yet.
LEMMA HoldsKeepsInv ==
    ASSUME TagsInv, NEW w \in Workers, worker[w].pc # "none",
           NEW r \in WorkerRecord, worker' = [worker EXCEPT ![w] = r], Busy(r),
           RoundGoesOn, disk' = disk,
           sync'.pending = sync.pending, sync'.errNum = sync.errNum,
           sync'.queue = sync.queue \ {r.disk},
           \/ r.disk \in sync.queue
           \/ Busy(worker[w]) /\ r.disk = worker[w].disk,
           r.pc = "write" => r.seen = sync.errNum
    PROVE  TagsInv'
<1>1. sync.pc = "wait" /\ worker \in [Workers -> WorkerRecord]
  BY LoopWaits DEF TagsInv, TagsStateTypeOK
<1>2. worker'[w] = r /\ \A x \in Workers : x # w => worker'[x] = worker[x]
  BY <1>1
<1>3. TagsStateTypeOK'
  BY <1>1 DEF TagsInv, TagsStateTypeOK, RoundGoesOn
<1>4. r.disk \in sync.pending
  BY DEF TagsInv, RoundInv, WorkersInv
<1>5. ASSUME NEW x \in Workers, x # w, Busy(worker[x])
      PROVE  worker[x].disk # r.disk /\ worker[x].disk \in sync'.pending \ sync'.queue
  <2>1. worker[x].disk \in sync.pending \ sync.queue
    BY <1>5 DEF TagsInv, WorkersInv
  <2>2. worker[x].disk # r.disk
    BY <1>5, <2>1 DEF TagsInv, WorkersInv
  <2> QED
    BY <2>1, <2>2
<1>6. WorkersInv'
  <2>1. \A x \in Workers : worker'[x].pc # "none" => sync'.pc = "wait"
    BY <1>1 DEF RoundGoesOn
  <2>2. \A x \in Workers : Busy(worker'[x]) => worker'[x].disk \in sync'.pending \ sync'.queue
    BY <1>2, <1>4, <1>5
  <2>3. \A x, y \in Workers :
           Busy(worker'[x]) /\ Busy(worker'[y]) /\ worker'[x].disk = worker'[y].disk => x = y
    <3>1. \A x, y \in Workers :
             Busy(worker[x]) /\ Busy(worker[y]) /\ worker[x].disk = worker[y].disk => x = y
      BY DEF TagsInv, WorkersInv
    <3> QED
      BY <1>2, <1>5, <3>1
  <2> QED
    BY <2>1, <2>2, <2>3 DEF WorkersInv, Busy
<1>7. RoundInv'
  BY DEF TagsInv, RoundInv, RoundGoesOn
<1>8. Finished' = Finished
  BY DEF Finished, RoundGoesOn
<1>9. CountInv'
  BY <1>2, <1>8 DEF TagsInv, CountInv
<1>10. ReachedInv'
  BY <1>8 DEF TagsInv, ReachedInv, Tagged, RoundGoesOn
<1> QED
  BY <1>3, <1>6, <1>7, <1>9, <1>10 DEF TagsInv

\* The worker is done with its disk, and has reached it or counted a failure.
IsDone(w, e) ==
    /\ e = worker[w].disk
    /\ worker' = [worker EXCEPT ![w] = Idle]
    /\ RoundGoesOn
    /\ disk' \in [Disks -> DiskRecord]
    /\ sync'.queue = sync.queue
    /\ sync'.pending = sync.pending \ {e}
    /\ \A d \in Disks : disk'[d].state = disk[d].state
    /\ \A d \in Disks : d # e => disk'[d] = disk[d]
    /\ \/ /\ sync'.errNum = sync.errNum
          /\ \A k \in sync.replace \cup sync.delete : disk'[e].tags[k] = sync.tags[k]
       \/ worker[w].pc = "write" /\ sync'.errNum = worker[w].seen + 1

LEMMA DoneKeepsInv ==
    ASSUME TagsInv, NEW w \in Workers, Busy(worker[w]), NEW e \in Disks, IsDone(w, e)
    PROVE  TagsInv'
<1> USE DEF IsDone
<1>1. sync.pc = "wait" /\ sync \in SyncRecord /\ worker[w] \in WorkerRecord
  BY LoopWaits DEF Busy
<1>2. worker \in [Workers -> WorkerRecord]
  BY DEF TagsInv, TagsStateTypeOK
<1>3. worker'[w].pc = "idle" /\ \A x \in Workers : x # w => worker'[x] = worker[x]
  BY <1>2 DEF Idle
<1>4. TagsStateTypeOK'
  BY <1>2 DEF TagsInv, TagsStateTypeOK, RoundGoesOn, WorkerRecord
<1>5. e \in sync.pending /\ e \notin sync.queue
  BY DEF TagsInv, WorkersInv
<1>6. WorkersInv'
  <2>1. \A x \in Workers : worker'[x].pc # "none" => sync'.pc = "wait"
    BY <1>1 DEF RoundGoesOn
  <2>2. ASSUME NEW x \in Workers, Busy(worker'[x])
        PROVE  x # w /\ worker'[x].disk \in sync'.pending \ sync'.queue
    <3>1. x # w
      BY <1>3, <2>2 DEF Busy
    <3>2. worker[x].disk \in sync.pending \ sync.queue /\ worker[x].disk # e
      BY <1>3, <2>2, <3>1 DEF TagsInv, WorkersInv
    <3> QED
      BY <1>3, <3>1, <3>2
  <2>3. \A x, y \in Workers :
           Busy(worker'[x]) /\ Busy(worker'[y]) /\ worker'[x].disk = worker'[y].disk => x = y
    <3>1. \A x, y \in Workers :
             Busy(worker[x]) /\ Busy(worker[y]) /\ worker[x].disk = worker[y].disk => x = y
      BY DEF TagsInv, WorkersInv
    <3> QED
      BY <1>3, <2>2, <3>1
  <2> QED
    BY <2>1, <2>2, <2>3 DEF WorkersInv, Busy
<1>7. RoundInv'
  <2>1. /\ sync'.queue \subseteq sync'.pending
        /\ sync'.pending \subseteq sync'.round
        /\ sync'.pc = "wait"
    BY <1>1, <1>5 DEF TagsInv, RoundInv, RoundGoesOn
  <2>2. \A d \in sync'.round : disk'[d].state = "listed"
    BY <1>1 DEF TagsInv, RoundInv, RoundGoesOn, SyncRecord
  <2> QED
    BY <2>1, <2>2 DEF RoundInv
<1>8. Finished' = Finished \cup {e} /\ e \notin Finished
  BY <1>5 DEF TagsInv, RoundInv, RoundGoesOn, Finished
<1>9. /\ Cardinality(Finished) \in Nat
       /\ Cardinality(Finished') = Cardinality(Finished) + 1
  <2>1. IsFiniteSet(Finished) /\ Cardinality(Finished) \in Nat
    BY CountFacts DEF TagsInv
  <2> QED
    BY <1>8, <2>1, FS_AddElement
<1>10. /\ sync.errNum \in Nat
       /\ \A x \in Workers : worker[x].pc = "write" => worker[x].seen \in Nat
  BY <1>1, <1>2, WorkerFacts DEF SyncRecord, Counting
<1>11. CountInv'
  <2>1. sync'.errNum <= Cardinality(Finished)'
    BY <1>9, <1>10 DEF TagsInv, CountInv
  <2>2. ASSUME NEW x \in Workers, worker'[x].pc = "write"
        PROVE  worker'[x].seen <= Cardinality(Finished)'
    <3>1. x # w /\ worker'[x] = worker[x]
      BY <1>3, <2>2
    <3>2. worker[x].seen <= Cardinality(Finished) /\ worker[x].seen \in Nat
      BY <1>10, <2>2, <3>1 DEF TagsInv, CountInv
    <3> QED
      BY <1>9, <3>1, <3>2
  <2> QED
    BY <2>1, <2>2 DEF CountInv
<1>12. ReachedInv'
  <2>1. \A d \in Finished : d \in Disks /\ d # e
    BY <1>1, <1>8 DEF Finished, SyncRecord
  <2>2. \A d \in Finished : disk'[d] = disk[d]
    BY <2>1
  <2>3. CASE /\ sync'.errNum = sync.errNum
             /\ \A k \in sync.replace \cup sync.delete : disk'[e].tags[k] = sync.tags[k]
    <3>1. \A d \in Finished : Tagged(d) \/ sync.errNum # 0
      BY DEF TagsInv, ReachedInv
    <3> QED
      BY <1>1, <1>8, <2>2, <2>3, <3>1 DEF ReachedInv, Tagged, RoundGoesOn
  <2>4. CASE worker[w].pc = "write" /\ sync'.errNum = worker[w].seen + 1
    <3>1. sync'.errNum # 0
      BY <1>10, <2>4
    <3> QED
      BY <1>1, <3>1 DEF ReachedInv, RoundGoesOn
  <2> QED
    BY <2>3, <2>4
<1> QED
  BY <1>4, <1>6, <1>7, <1>11, <1>12 DEF TagsInv

LEMMA TakeKeepsInv == \A w \in Workers : TagsInv /\ Take(w) => TagsInv'
<1> SUFFICES ASSUME NEW w \in Workers, TagsInv, Take(w) PROVE TagsInv'
  OBVIOUS
<1>1. sync.pc = "wait" /\ sync \in SyncRecord
  BY LoopWaits DEF Take
<1>2. PICK d \in sync.queue : /\ sync' = [sync EXCEPT !.queue = sync.queue \ {d}]
                              /\ worker' = [worker EXCEPT ![w] = [pc |-> "modify", disk |-> d]]
  BY DEF Take
<1>3. PICK r : r = [pc |-> "modify", disk |-> d]
  OBVIOUS
<1>4. r \in WorkerRecord /\ Busy(r) /\ r.pc = "modify" /\ r.disk = d
  BY <1>1, <1>3 DEF WorkerRecord, Modifying, Busy, SyncRecord
<1>5. /\ RoundGoesOn
      /\ sync'.pending = sync.pending /\ sync'.errNum = sync.errNum
      /\ sync'.queue = sync.queue \ {d}
  BY <1>1, <1>2 DEF RoundGoesOn, SyncRecord, Take
<1> QED
  BY <1>2, <1>3, <1>4, <1>5, HoldsKeepsInv DEF Take

\* A failed request and the reading of the counter leave the disk with the worker.
LEMMA GoesOnKeepsInv ==
    ASSUME TagsInv, NEW w \in Workers, Busy(worker[w]),
           NEW r \in WorkerRecord, worker' = [worker EXCEPT ![w] = r], Busy(r),
           r.disk = worker[w].disk, r.pc = "write" => r.seen = sync.errNum,
           UNCHANGED <<cluster, changes, disk, config, sync>>
    PROVE  TagsInv'
<1>1. worker[w].pc # "none" /\ sync \in SyncRecord
  BY LoopWaits DEF Busy
<1>2. RoundGoesOn
  BY <1>1 DEF RoundGoesOn
<1>3. sync.queue = sync.queue \ {r.disk}
  BY DEF TagsInv, WorkersInv
<1> QED
  BY <1>1, <1>2, <1>3, HoldsKeepsInv

LEMMA ModifyCbsTagsKeepsInv == \A w \in Workers : TagsInv /\ ModifyCbsTags(w) => TagsInv'
<1> SUFFICES ASSUME NEW w \in Workers, TagsInv, ModifyCbsTags(w) PROVE TagsInv'
  OBVIOUS
<1>1. /\ sync \in SyncRecord /\ worker[w] \in WorkerRecord /\ worker[w].pc = "modify"
      /\ worker[w] \in Modifying /\ Busy(worker[w])
  BY LoopWaits, WorkerFacts DEF ModifyCbsTags, Busy
<1>2. CASE worker' = [worker EXCEPT ![w].pc = "read"] /\ UNCHANGED <<disk, sync>>
  <2>1. PICK r : r = [worker[w] EXCEPT !.pc = "read"]
    OBVIOUS
  <2>2. r \in WorkerRecord /\ Busy(r) /\ r.disk = worker[w].disk /\ r.pc = "read"
    BY <1>1, <2>1 DEF WorkerRecord, Modifying, Busy
  <2>3. worker' = [worker EXCEPT ![w] = r]
    BY <1>2, <2>1
  <2> QED
    BY <1>1, <1>2, <2>2, <2>3, GoesOnKeepsInv DEF ModifyCbsTags
<1>3. CASE ~ (worker' = [worker EXCEPT ![w].pc = "read"] /\ UNCHANGED <<disk, sync>>)
  <2>1. PICK e \in Disks : e = worker[w].disk
    BY <1>1 DEF Modifying
  <2>2. PICK t : t = [k \in Keys |-> IF k \in sync.replace \cup sync.delete
                                     THEN sync.tags[k] ELSE disk[e].tags[k]]
    OBVIOUS
  <2>3. /\ disk' = [disk EXCEPT ![e].tags = t]
        /\ sync' = [sync EXCEPT !.pending = sync.pending \ {e}]
        /\ worker' = [worker EXCEPT ![w] = Idle]
    BY <1>3, <2>1, <2>2 DEF ModifyCbsTags, Done, Idle
  <2>4. disk \in [Disks -> DiskRecord] /\ disk[e].tags \in Tags /\ sync.tags \in Tags
    BY DEF TagsInv, TagsStateTypeOK, DiskRecord, SyncRecord
  <2>5. t \in Tags
    BY <2>2, <2>4 DEF Tags
  <2>6. /\ disk' \in [Disks -> DiskRecord]
        /\ \A d \in Disks : disk'[d].state = disk[d].state
        /\ \A d \in Disks : d # e => disk'[d] = disk[d]
        /\ disk'[e].tags = t
    BY <2>3, <2>4, <2>5 DEF DiskRecord
  <2>7. \A k \in sync.replace \cup sync.delete : disk'[e].tags[k] = sync.tags[k]
    BY <1>1, <2>2, <2>6 DEF SyncRecord
  <2>8. /\ RoundGoesOn
        /\ sync'.queue = sync.queue /\ sync'.errNum = sync.errNum
        /\ sync'.pending = sync.pending \ {e}
    BY <1>1, <2>3 DEF RoundGoesOn, SyncRecord, ModifyCbsTags
  <2>9. IsDone(w, e)
    BY <2>1, <2>3, <2>6, <2>7, <2>8 DEF IsDone
  <2> QED
    BY <1>1, <2>9, DoneKeepsInv
<1> QED
  BY <1>2, <1>3

LEMMA ReadErrNumKeepsInv == \A w \in Workers : TagsInv /\ ReadErrNum(w) => TagsInv'
<1> SUFFICES ASSUME NEW w \in Workers, TagsInv, ReadErrNum(w) PROVE TagsInv'
  OBVIOUS
<1>1. /\ sync \in SyncRecord /\ worker[w] \in WorkerRecord /\ worker[w].pc = "read"
      /\ worker[w] \in Modifying /\ Busy(worker[w])
  BY LoopWaits, WorkerFacts DEF ReadErrNum, Busy
<1>2. PICK r : r = [pc |-> "write", disk |-> worker[w].disk, seen |-> sync.errNum]
  OBVIOUS
<1>3. r \in WorkerRecord /\ Busy(r) /\ r.disk = worker[w].disk /\ r.seen = sync.errNum
  BY <1>1, <1>2 DEF WorkerRecord, Modifying, Counting, Busy, SyncRecord
<1>4. worker' = [worker EXCEPT ![w] = r]
  BY <1>2 DEF ReadErrNum
<1> QED
  BY <1>1, <1>3, <1>4, GoesOnKeepsInv DEF ReadErrNum

LEMMA WriteErrNumKeepsInv == \A w \in Workers : TagsInv /\ WriteErrNum(w) => TagsInv'
<1> SUFFICES ASSUME NEW w \in Workers, TagsInv, WriteErrNum(w) PROVE TagsInv'
  OBVIOUS
<1>1. /\ sync \in SyncRecord /\ worker[w] \in WorkerRecord /\ worker[w].pc = "write"
      /\ worker[w] \in Counting /\ Busy(worker[w])
  BY LoopWaits, WorkerFacts DEF WriteErrNum, Busy
<1>2. PICK e \in Disks, n \in Nat : e = worker[w].disk /\ n = worker[w].seen
  BY <1>1 DEF Counting
<1>3. sync' = [sync EXCEPT !.errNum = n + 1, !.pending = sync.pending \ {e}]
  BY <1>2 DEF WriteErrNum
<1>4. /\ RoundGoesOn
      /\ sync'.queue = sync.queue /\ sync'.errNum = n + 1
      /\ sync'.pending = sync.pending \ {e}
  <2>1. PICK m \in Nat : m = n + 1
    OBVIOUS
  <2>2. PICK p \in SUBSET Disks : p = sync.pending \ {e}
    BY <1>1 DEF SyncRecord
  <2>3. sync' = [sync EXCEPT !.errNum = m, !.pending = p]
    BY <1>3, <2>1, <2>2
  <2>4. /\ sync' \in SyncRecord /\ sync'.queue = sync.queue
        /\ sync'.pc = sync.pc /\ sync'.tags = sync.tags /\ sync'.round = sync.round
        /\ sync'.replace = sync.replace /\ sync'.delete = sync.delete
        /\ sync'.errNum = m /\ sync'.pending = p
    BY <1>1, <2>3 DEF SyncRecord
  <2> QED
    BY <2>1, <2>2, <2>4 DEF RoundGoesOn, WriteErrNum
<1>5. worker' = [worker EXCEPT ![w] = Idle] /\ disk' = disk /\ disk \in [Disks -> DiskRecord]
  BY DEF WriteErrNum, Idle, TagsInv, TagsStateTypeOK
<1>6. IsDone(w, e)
  BY <1>1, <1>2, <1>4, <1>5 DEF IsDone
<1> QED
  BY <1>1, <1>6, DoneKeepsInv

-----------------------------------------------------------------------------
(* The theorems.                                                            *)

LEMMA TagsInitInv == TagsInit => TagsInv
<1> SUFFICES ASSUME TagsInit PROVE TagsInv
  OBVIOUS
<1>1. disk \in [Disks -> DiskRecord]
  BY TagsFacts DEF TagsInit, DiskRecord, DiskStates
<1>2. changes \in 0 .. MaxChanges
  BY TagsAssumption DEF TagsInit
<1>3. TagsStateTypeOK
  BY <1>1, <1>2, TagsFacts DEF TagsInit, TagsStateTypeOK, WorkerRecord
<1>4. \A w \in Workers : worker[w].pc = "none"
  BY DEF TagsInit, NoWork
<1>5. WorkersInv
  BY <1>4 DEF WorkersInv, Busy
<1>6. RoundInv
  BY SleepingFacts DEF TagsInit, RoundInv
<1>7. Finished = {} /\ sync.errNum = 0 /\ sync.pc = "sleep"
  BY SleepingFacts DEF TagsInit, Finished
<1>8. CountInv
  BY <1>4, <1>7, FS_EmptySet DEF CountInv
<1>9. ReachedInv
  BY <1>7 DEF ReachedInv
<1> QED
  BY <1>3, <1>5, <1>6, <1>8, <1>9 DEF TagsInv

LEMMA ClusterChangesKeepsInv ==
    \A k \in Keys, v \in Values \cup {NoTag} : TagsInv /\ ClusterChanges(k, v) => TagsInv'
<1> SUFFICES ASSUME NEW k \in Keys, NEW v \in Values \cup {NoTag}, TagsInv, ClusterChanges(k, v)
             PROVE  TagsInv'
  OBVIOUS
<1>1. cluster' \in Tags
  BY DEF TagsInv, TagsStateTypeOK, ClusterChanges, Tags
<1>2. changes' \in 0 .. MaxChanges
  BY TagsAssumption DEF TagsInv, TagsStateTypeOK, ClusterChanges
<1>3. TagsStateTypeOK'
  BY <1>1, <1>2 DEF TagsInv, TagsStateTypeOK, ClusterChanges
<1> QED
  BY <1>3, OutsideKeepsInv DEF ClusterChanges

LEMMA DisksKeepInv ==
    \A d \in Disks : TagsInv /\ (CreateVolume(d) \/ VolumeListed(d)) => TagsInv'
<1> SUFFICES ASSUME NEW d \in Disks, TagsInv, CreateVolume(d) \/ VolumeListed(d)
             PROVE  TagsInv'
  OBVIOUS
<1>1. disk \in [Disks -> DiskRecord] /\ cluster \in Tags
  BY DEF TagsInv, TagsStateTypeOK
<1>2. PICK r \in DiskRecord : disk' = [disk EXCEPT ![d] = r]
  <2>1. CASE CreateVolume(d)
    <3>1. PICK t \in Tags : disk' = [disk EXCEPT ![d] = [state |-> "made", tags |-> t]]
      BY <1>1, <2>1, TagsFacts DEF CreateVolume
    <3> QED
      BY <3>1 DEF DiskRecord, DiskStates
  <2>2. CASE VolumeListed(d)
    BY <1>1, <2>2 DEF VolumeListed, DiskRecord, DiskStates
  <2> QED
    BY <2>1, <2>2
<1>3. disk[d].state # "listed" /\ UNCHANGED <<cluster, changes, config, sync, worker>>
  BY DEF CreateVolume, VolumeListed
<1>4. TagsStateTypeOK'
  BY <1>1, <1>2, <1>3 DEF TagsInv, TagsStateTypeOK
<1>5. \A x \in Disks : disk[x].state = "listed" => disk'[x] = disk[x]
  BY <1>1, <1>2, <1>3
<1> QED
  BY <1>3, <1>4, <1>5, OutsideKeepsInv

LEMMA NextKeepsInv == TagsInv /\ [TagsNext]_tagsVars => TagsInv'
<1> SUFFICES ASSUME TagsInv, [TagsNext]_tagsVars PROVE TagsInv'
  OBVIOUS
<1>1. CASE UNCHANGED tagsVars
  <2>1. TagsStateTypeOK' /\ UNCHANGED <<disk, sync, worker>>
    BY <1>1 DEF tagsVars, TagsInv, TagsStateTypeOK
  <2> QED
    BY <2>1, OutsideKeepsInv
<1>2. CASE \E k \in Keys, v \in Values \cup {NoTag} : ClusterChanges(k, v)
  BY <1>2, ClusterChangesKeepsInv
<1>3. CASE \E d \in Disks : CreateVolume(d) \/ VolumeListed(d)
  BY <1>3, DisksKeepInv
<1>4. CASE TagsRestart
  BY <1>4, TagsFacts, ReturnKeepsInv DEF TagsRestart, Return
<1>5. CASE Loop
  BY <1>5, GetClusterTagsKeepsInv, GetConfigTagsKeepsInv, updateDisksTagsKeepsInv,
     WaitForWorkersKeepsInv, UpdateConfigTagsKeepsInv DEF Loop
<1>6. CASE \E w \in Workers : Work(w)
  BY <1>6, TakeKeepsInv, ModifyCbsTagsKeepsInv, ReadErrNumKeepsInv, WriteErrNumKeepsInv DEF Work
<1> QED
  BY <1>1, <1>2, <1>3, <1>4, <1>5, <1>6 DEF TagsNext

(***************************************************************************)
(* The invariant holds throughout, with any requests failing, disks        *)
(* appearing, and restarts.                                                *)
(***************************************************************************)
THEOREM TagsInvariance == TagsSpec => []TagsInv
  BY TagsInitInv, NextKeepsInv, PTL DEF TagsSpec

(***************************************************************************)
(* TagsTypeOK is an invariant: also *errNum, which the workers increment   *)
(* without a lock, stays within the number of disks.                       *)
(***************************************************************************)
THEOREM TagsTypeCorrect == TagsSpec => []TagsTypeOK
<1>1. ASSUME TagsInv PROVE TagsTypeOK
  <2>1. TagsStateTypeOK
    BY <1>1 DEF TagsInv
  <2>2. sync.errNum \in 0 .. Cardinality(Disks)
    <3>1. Finished \subseteq Disks
      BY <2>1 DEF TagsStateTypeOK, SyncRecord, Finished
    <3>2. Cardinality(Finished) <= Cardinality(Disks) /\ Cardinality(Disks) \in Nat
      BY <3>1, TagsAssumption, FS_Subset, FS_CardinalityType
    <3>3. sync.errNum <= Cardinality(Finished) /\ sync.errNum \in Nat
      BY <1>1, <2>1 DEF TagsInv, CountInv, TagsStateTypeOK, SyncRecord
    <3> QED
      BY <2>1, <3>2, <3>3, CountFacts
  <2>3. sync \in [pc : {"sleep", "config", "disks", "wait", "record"}, tags : Tags,
                  replace : SUBSET Keys, delete : SUBSET Keys, round : SUBSET Disks,
                  queue : SUBSET Disks, pending : SUBSET Disks,
                  errNum : 0 .. Cardinality(Disks)]
    BY <2>1, <2>2 DEF TagsStateTypeOK, SyncRecord
  <2>4. \A w \in Workers :
           \/ worker[w].pc \in {"none", "idle"}
           \/ worker[w].pc \in {"modify", "read", "write"} /\ worker[w].disk \in sync.pending
    BY <1>1, <2>1, WorkerFacts DEF TagsInv, TagsStateTypeOK, WorkersInv, Busy
  <2> QED
    BY <2>1, <2>3, <2>4 DEF TagsTypeOK, TagsStateTypeOK, DiskRecord, ConfigRecord
<1> QED
  BY <1>1, TagsInvariance, PTL

(***************************************************************************)
(* A round that UpdateConfigTags is about to record has reached every disk *)
(* it began with: the increments that race with each other can be lost,    *)
(* but not all of them, as each of them writes at least one.               *)
(***************************************************************************)
THEOREM RoundIsComplete == TagsSpec => []RecordedRoundIsComplete
<1>1. ASSUME TagsInv PROVE RecordedRoundIsComplete
  BY <1>1 DEF TagsInv, ReachedInv, Finished, Tagged, RecordedRoundIsComplete
<1> QED
  BY <1>1, TagsInvariance, PTL
=============================================================================
