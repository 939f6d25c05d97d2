---------------------------- MODULE CbsSnapshot ----------------------------
(***************************************************************************)
(* Snapshots of the CBS controller: CreateSnapshot, DeleteSnapshot and     *)
(* LoadExDataFromMetadataStore (driver/cbs/controller.go), the in-memory   *)
(* snapshot cache (driver/cbs/cbs_utils.go) and the metadata store of one  *)
(* configmap per snapshot (driver/util/k8scache.go).                       *)
(*                                                                         *)
(* A cbsSnapshot record is written once, for one cloud snapshot, and never *)
(* changed, so the id of that snapshot stands for the record.  Calls       *)
(* interleave at every access to the cloud, the cache and the store.       *)
(***************************************************************************)
EXTENDS Naturals, FiniteSets, Functions

CONSTANTS
    Names,      \* snapshot names that the orchestrator asks for
    SnapIds,    \* ids that the cloud can give; bounds the number of snapshots
    Calls,      \* slots for calls in flight
    Faults,     \* what may go wrong: "describe" (DescribeSnapshots fails), "lost"
                \* (another cloud request fails or its answer is lost), "store"
                \* (a configmap request fails), "restart" (the process dies)
    NoName, NoId

ASSUME ConstantsAssumption ==
    /\ Faults \subseteq {"describe", "lost", "store", "restart"}
    /\ NoName \notin Names
    /\ NoId \notin SnapIds

VARIABLES
    snap,     \* the cloud: name and state of every snapshot
    cache,    \* cbsSnapshotsMapsCache: id -> record
    meta,     \* ids with a configmap
    call,     \* the calls in flight
    told,     \* ids that the orchestrator has seen in a reply
    orphans   \* history: cloud snapshots whose creator gave up on them
              \* before it had recorded their id

vars == <<snap, cache, meta, call, told, orphans>>

SnapStates == {"absent", "CREATING", "NORMAL", "deleted"}

CreateSteps ==
    {"lookup", "describe", "restore", "request", "confirm", "add", "store"}
DeleteSteps == {"get", "terminate", "uncache", "unstore"}

CallRecord ==
    [op   : {"none", "create", "delete"},
     name : Names \cup {NoName},
     id   : SnapIds \cup {NoId},
     pc   : CreateSteps \cup DeleteSteps \cup {"reply"},
     resp : {"none", "ok", "ready", "err"}]

IdleCall ==
    [op |-> "none", name |-> NoName, id |-> NoId, pc |-> "reply", resp |-> "none"]

(***************************************************************************)
(* Types: the cache maps ids to records, and both are ids that the cloud   *)
(* has given.                                                              *)
(***************************************************************************)
TypeOK ==
    /\ snap \in [SnapIds -> [name : Names \cup {NoName}, state : SnapStates]]
    /\ DOMAIN cache \subseteq SnapIds
    /\ Range(cache) \subseteq {i \in SnapIds : snap[i].state # "absent"}
    /\ meta \subseteq {i \in SnapIds : snap[i].state # "absent"}
    /\ call \in [Calls -> CallRecord]
    /\ told \subseteq SnapIds
    /\ orphans \subseteq SnapIds

Init ==
    /\ snap = [i \in SnapIds |-> [name |-> NoName, state |-> "absent"]]
    /\ cache = [i \in {} |-> NoId]
    /\ meta = {}
    /\ call = [c \in Calls |-> IdleCall]
    /\ told = {}
    /\ orphans = {}

Live(i) == snap[i].state \in {"CREATING", "NORMAL"}

-----------------------------------------------------------------------------
(* Calls.                                                                   *)

\* Call c of kind op stands at step s.
At(c, op, s) == call[c].op = op /\ call[c].pc = s

Goto(c, s) == call' = [call EXCEPT ![c].pc = s]

GotoWith(c, s, i) == call' = [call EXCEPT ![c].pc = s, ![c].id = i]

Answer(c, resp) == call' = [call EXCEPT ![c].pc = "reply", ![c].resp = resp]

CreateSnapshot(c, n) ==
    /\ call[c].op = "none"
    /\ call' = [call EXCEPT ![c] = [op |-> "create", name |-> n, id |-> NoId,
                                    pc |-> "lookup", resp |-> "none"]]
    /\ UNCHANGED <<snap, cache, meta, told, orphans>>

DeleteSnapshot(c, i) ==
    /\ call[c].op = "none"
    /\ i \in told
    /\ call' = [call EXCEPT ![c] = [op |-> "delete", name |-> NoName, id |-> i,
                                    pc |-> "get", resp |-> "none"]]
    /\ UNCHANGED <<snap, cache, meta, told, orphans>>

Reply(c) ==
    /\ call[c].op # "none"
    /\ call[c].pc = "reply"
    /\ told' = IF call[c].op = "create" /\ call[c].resp \in {"ok", "ready"}
               THEN told \cup {call[c].id} ELSE told
    /\ call' = [call EXCEPT ![c] = IdleCall]
    /\ UNCHANGED <<snap, cache, meta, orphans>>

-----------------------------------------------------------------------------
(* CreateSnapshot.                                                          *)

\* Mutant: the key under which a record is cached stands for its id.
MutByName(n) == {k \in DOMAIN cache : snap[cache[k]].name = n}

\* The first matching entry in the random order of a Go map.
getCbsSnapshotByName(n) == {cache[k] : k \in {k \in DOMAIN cache : snap[cache[k]].name = n}}

CreateLookup(c) ==
    /\ At(c, "create", "lookup")
    /\ \/ \E i \in getCbsSnapshotByName(call[c].name) : GotoWith(c, "describe", i)
       \/ getCbsSnapshotByName(call[c].name) = {} /\ Goto(c, "request")
    /\ UNCHANGED <<snap, cache, meta, told, orphans>>

\* A cached snapshot that the cloud does not list is answered as not ready.
\* Whether it is ready is read here, and stays true of the reply.
CreateDescribe(c) ==
    /\ At(c, "create", "describe")
    /\ \/ "describe" \in Faults /\ Answer(c, "err")
       \/ ~ Live(call[c].id) /\ Answer(c, "ok")
       \/ /\ Live(call[c].id)
          /\ call' = [call EXCEPT ![c].pc = "restore",
                ![c].resp = IF snap[call[c].id].state = "NORMAL" THEN "ready" ELSE "ok"]
    /\ UNCHANGED <<snap, cache, meta, told, orphans>>

\* Mutant: a cached snapshot is taken to have its configmap.
MutCreateRestore(c) ==
    /\ At(c, "create", "restore")
    /\ Goto(c, "reply")
    /\ UNCHANGED <<snap, cache, meta, told, orphans>>

\* metadataStore.Create: a configmap that exists is left as it is.
CreateRestore(c) ==
    /\ At(c, "create", "restore")
    /\ \/ /\ meta' = meta \cup {call[c].id}
          /\ Goto(c, "reply")
       \/ "store" \in Faults /\ Answer(c, "err") /\ UNCHANGED meta
    /\ UNCHANGED <<snap, cache, told, orphans>>

\* The cloud's CreateSnapshot: refused, accepted, or accepted with the answer
\* lost, which leaves a snapshot that the driver knows nothing of.
CreateRequest(c) ==
    /\ At(c, "create", "request")
    /\ \/ Answer(c, "err") /\ UNCHANGED <<snap, orphans>>
       \/ \E i \in SnapIds :
             /\ snap[i].state = "absent"
             /\ snap' = [snap EXCEPT ![i] = [name |-> call[c].name, state |-> "CREATING"]]
             /\ \/ GotoWith(c, "confirm", i) /\ UNCHANGED orphans
                \/ /\ "lost" \in Faults
                   /\ Answer(c, "err")
                   /\ orphans' = orphans \cup {i}
    /\ UNCHANGED <<cache, meta, told>>

\* DescribeSnapshots of the new snapshot, for its size.  On an error the id is
\* forgotten.  (An empty answer dereferences a nil error and ends the process:
\* Restart.)
CreateConfirm(c) ==
    /\ At(c, "create", "confirm")
    /\ \/ Goto(c, "add") /\ UNCHANGED orphans
       \/ /\ "describe" \in Faults
          /\ Answer(c, "err")
          /\ orphans' = orphans \cup {call[c].id}
    /\ UNCHANGED <<snap, cache, meta, told>>

CreateAdd(c) ==
    /\ At(c, "create", "add")
    /\ cache' = [i \in DOMAIN cache \cup {call[c].id} |->
                    IF i = call[c].id THEN call[c].id ELSE cache[i]]
    /\ Goto(c, "store")
    /\ UNCHANGED <<snap, meta, told, orphans>>

CreateStore(c) ==
    /\ At(c, "create", "store")
    /\ \/ meta' = meta \cup {call[c].id} /\ Answer(c, "ok")
       \/ "store" \in Faults /\ Answer(c, "err") /\ UNCHANGED meta
    /\ UNCHANGED <<snap, cache, told, orphans>>

-----------------------------------------------------------------------------
(* DeleteSnapshot.                                                          *)

\* Without a configmap the snapshot is taken to be deleted already.
DeleteGet(c) ==
    /\ At(c, "delete", "get")
    /\ \/ call[c].id \notin meta /\ Answer(c, "ok")
       \/ call[c].id \in meta /\ Goto(c, "terminate")
       \/ "store" \in Faults /\ Answer(c, "err")
    /\ UNCHANGED <<snap, cache, meta, told, orphans>>

\* Mutant: every error of DeleteSnapshots is taken for "not found".
MutDeleteTerminate(c) ==
    /\ At(c, "delete", "terminate")
    /\ \/ Goto(c, "uncache") /\ UNCHANGED snap
       \/ /\ snap[call[c].id].state = "NORMAL"
          /\ snap' = [snap EXCEPT ![call[c].id].state = "deleted"]
          /\ Goto(c, "uncache")
    /\ UNCHANGED <<cache, meta, told, orphans>>

\* DeleteSnapshots: not found is fine; only a NORMAL snapshot can be deleted.
DeleteTerminate(c) ==
    /\ At(c, "delete", "terminate")
    /\ \/ ~ Live(call[c].id) /\ Goto(c, "uncache") /\ UNCHANGED snap
       \/ /\ snap[call[c].id].state = "NORMAL"
          /\ snap' = [snap EXCEPT ![call[c].id].state = "deleted"]
          /\ Goto(c, "uncache") \/ ("lost" \in Faults /\ Answer(c, "err"))
       \/ /\ snap[call[c].id].state = "CREATING" \/ "lost" \in Faults
          /\ Answer(c, "err") /\ UNCHANGED snap
    /\ UNCHANGED <<cache, meta, told, orphans>>

DeleteUncache(c) ==
    /\ At(c, "delete", "uncache")
    /\ cache' = [i \in DOMAIN cache \ {call[c].id} |-> cache[i]]
    /\ Goto(c, "unstore")
    /\ UNCHANGED <<snap, meta, told, orphans>>

DeleteUnstore(c) ==
    /\ At(c, "delete", "unstore")
    /\ \/ meta' = meta \ {call[c].id} /\ Answer(c, "ok")
       \/ "store" \in Faults /\ Answer(c, "err") /\ UNCHANGED meta
    /\ UNCHANGED <<snap, cache, told, orphans>>

-----------------------------------------------------------------------------
(* The cloud finishes a snapshot; the process restarts.                     *)

SnapshotFinishes(i) ==
    /\ snap[i].state = "CREATING"
    /\ snap' = [snap EXCEPT ![i].state = "NORMAL"]
    /\ UNCHANGED <<cache, meta, call, told, orphans>>

\* Mutant: the object is handed on before it is unmarshalled.
MutForAll(last) == [i \in meta |-> NoId]

\* ForAll unmarshals every configmap into the one object it is given and hands
\* that same pointer to the cache each time: in the end every entry is the
\* record of the configmap that was listed last.
ForAll(last) == [i \in meta |-> last]

\* The cache after LoadExDataFromMetadataStore; the error of ForAll is ignored.
LoadExDataFromMetadataStore ==
    \/ meta = {} /\ cache' = [i \in {} |-> NoId]
    \/ \E last \in meta : cache' = ForAll(last)
    \/ "store" \in Faults /\ cache' = [i \in {} |-> NoId]

\* Snapshots whose id only the memory of the process holds.
InMemory ==
    Range(cache) \cup {call[c].id : c \in {c \in Calls : call[c].op = "create"}}

Restart ==
    /\ "restart" \in Faults
    /\ LoadExDataFromMetadataStore
    /\ call' = [c \in Calls |-> IdleCall]
    /\ orphans' = orphans \cup ((InMemory \ meta) \ {NoId})
    /\ UNCHANGED <<snap, meta, told>>

-----------------------------------------------------------------------------
Step(c) ==
    \/ CreateLookup(c) \/ CreateDescribe(c) \/ CreateRestore(c)
    \/ CreateRequest(c) \/ CreateConfirm(c) \/ CreateAdd(c) \/ CreateStore(c)
    \/ DeleteGet(c) \/ DeleteTerminate(c) \/ DeleteUncache(c) \/ DeleteUnstore(c)

Next ==
    \/ \E c \in Calls :
          \/ \E n \in Names : CreateSnapshot(c, n)
          \/ \E i \in SnapIds : DeleteSnapshot(c, i)
          \/ Step(c)
          \/ Reply(c)
    \/ \E i \in SnapIds : SnapshotFinishes(i)
    \/ Restart

Spec == Init /\ [][Next]_vars

-----------------------------------------------------------------------------
(* Properties.                                                              *)

(***************************************************************************)
(* DeleteSnapshot takes a missing configmap for proof that the snapshot is *)
(* gone.  It is: when the call replies with success, the cloud has deleted *)
(* the snapshot, whatever creations, retries, faults and restarts came     *)
(* before or run beside it.                                                *)
(***************************************************************************)
DeletedMeansGone ==
    \A c \in Calls :
        call[c].op = "delete" /\ call[c].resp = "ok" =>
            snap[call[c].id].state = "deleted"

(***************************************************************************)
(* CreateSnapshot answers with a snapshot of the requested name, and never *)
(* calls one ready that the cloud has not finished.                        *)
(***************************************************************************)
AnswersOwnSnapshot ==
    \A c \in Calls :
        call[c].op = "create" /\ call[c].pc = "reply" /\ call[c].resp # "err" =>
            /\ snap[call[c].id].name = call[c].name
            /\ call[c].resp = "ready" => snap[call[c].id].state \in {"NORMAL", "deleted"}

(***************************************************************************)
(* The driver loses a cloud snapshot only in the windows of CreateSnapshot *)
(* between the cloud's acceptance and the configmap: every live snapshot   *)
(* is in the store, in the cache, in the hands of a call, or was given up  *)
(* by the call that created it (or lost with the process).                 *)
(***************************************************************************)
LiveIsTracked ==
    \A i \in SnapIds :
        Live(i) => i \in meta \cup InMemory \cup orphans
=============================================================================
