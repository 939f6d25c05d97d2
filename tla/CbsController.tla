--------------------------- MODULE CbsController ---------------------------
(***************************************************************************)
(* The calls of the CBS controller that work on existing disks             *)
(* (driver/cbs/controller.go): ControllerPublishVolume, its counterpart    *)
(* ControllerUnpublishVolume, ControllerExpandVolume and DeleteVolume,     *)
(* against the asynchronous disk API of the cloud.                         *)
(*                                                                         *)
(* A call is a goroutine of the gRPC server.  The first three start one    *)
(* goroutine per disk of the volume and join them.  No handler looks at    *)
(* its gRPC context, so a call that the orchestrator gave up on runs on    *)
(* beside the retry: any number of calls on one volume may be in flight.   *)
(***************************************************************************)
EXTENDS Integers, FiniteSets

CONSTANTS
    Disks,            \* cloud disk ids ("disk-...")
    Volumes,          \* volume ids: comma separated lists of disk ids
    DisksOf,          \* the disks that a volume id names
    Nodes,            \* node ids
    SupportedNodes,   \* those with an instance id prefix and length that CBS knows
    NoNode,           \* a disk that is on no node
    NoVolume,         \* the volume of an idle call slot
    Calls,            \* slots for calls that are in flight
    MaxSize           \* bound on disk sizes, in GB

ASSUME ConstantsAssumption ==
    /\ DisksOf \in [Volumes -> SUBSET Disks]
    /\ \A v, w \in Volumes : v # w => DisksOf[v] \cap DisksOf[w] = {}
    /\ SupportedNodes \subseteq Nodes
    /\ NoNode \notin Nodes
    /\ NoVolume \notin Volumes
    /\ MaxSize \in Nat \ {0}

VARIABLES
    disk,     \* the cloud: state, instance and size of every disk
    call,     \* the calls in flight, and their replies
    worker,   \* what each goroutine of a call is doing
    alone,    \* history: no other attach, detach or delete call on the volume
              \* was in flight at any moment of this call's life so far
    unmet     \* history: the disks whose expansion the cloud ended without
              \* effect while this call, which had asked for it, was polling

vars == <<disk, call, worker, alone, unmet>>

DiskStates ==
    {"UNATTACHED", "ATTACHING", "ATTACHED", "DETACHING", "EXPANDING", "GONE"}

DiskRecord ==
    [state : DiskStates,
     inst  : SupportedNodes \cup {NoNode},
     size  : 1..MaxSize,
     want  : 0..MaxSize]      \* the size that an expansion under way will reach

Ops == {"publish", "unpublish", "delete", "expand"}

CallRecord ==
    [op   : Ops \cup {"none"},
     vol  : Volumes \cup {NoVolume},
     node : Nodes \cup {NoNode},
     size : 0..MaxSize,
     resp : {"pending", "ok", "err"}]

IdleCall ==
    [op |-> "none", vol |-> NoVolume, node |-> NoNode, size |-> 0,
     resp |-> "pending"]

\* A goroutine is about to describe its disk, about to send its request, in
\* its polling loop, or has put nil ("ok") or an error into the channel.
Steps == {"none", "describe", "request", "poll", "ok", "err"}

NoWorkers == [d \in Disks |-> "none"]

(***************************************************************************)
(* Types: every variable holds the records that the handlers build.        *)
(***************************************************************************)
TypeOK ==
    /\ disk \in [Disks -> DiskRecord]
    /\ call \in [Calls -> CallRecord]
    /\ worker \in [Calls -> [Disks -> Steps]]
    /\ alone \in [Calls -> BOOLEAN]
    /\ unmet \in [Calls -> SUBSET Disks]

Init ==
    /\ disk = [d \in Disks |-> [state |-> "UNATTACHED", inst |-> NoNode,
                                size |-> 1, want |-> 0]]
    /\ call = [c \in Calls |-> IdleCall]
    /\ worker = [c \in Calls |-> NoWorkers]
    /\ alone = [c \in Calls |-> FALSE]
    /\ unmet = [c \in Calls |-> {}]

-----------------------------------------------------------------------------
(* The cloud.  AttachDisks, DetachDisks and ResizeDisk are asynchronous:    *)
(* an accepted request moves the disk to a transitional state, and the     *)
(* cloud ends the transition by itself, sometimes without success.         *)

CanAttach(d) == disk[d].state = "UNATTACHED"
CanDetach(d) == disk[d].state = "ATTACHED"
CanResize(d) == disk[d].state \in {"ATTACHED", "UNATTACHED"}
CanTerminate(d) == disk[d].state = "UNATTACHED"

\* Disk d goes to state st, with instance n.
Moves(d, st, n) ==
    disk' = [disk EXCEPT ![d] = [state |-> st, inst |-> n, size |-> disk[d].size,
                                 want |-> disk[d].want]]

AttachFinishes(d) ==
    /\ disk[d].state = "ATTACHING"
    /\ Moves(d, "ATTACHED", disk[d].inst) \/ Moves(d, "UNATTACHED", NoNode)
    /\ UNCHANGED <<call, worker, alone, unmet>>

DetachFinishes(d) ==
    /\ disk[d].state = "DETACHING"
    /\ Moves(d, "UNATTACHED", NoNode) \/ Moves(d, "ATTACHED", disk[d].inst)
    /\ UNCHANGED <<call, worker, alone, unmet>>

\* Goroutine d of a call of kind op stands at step s.
At(c, d, op, s) == call[c].op = op /\ worker[c][d] = s

\* The expansion of disk d ends, with size gb.
Expanded(d, gb) ==
    disk' = [disk EXCEPT ![d] =
                [state |-> IF disk[d].inst = NoNode THEN "UNATTACHED" ELSE "ATTACHED",
                 inst |-> disk[d].inst, size |-> gb, want |-> 0]]

\* Without success, the call that asked for it and still polls has not got
\* what it asked for.
ExpandFinishes(d) ==
    /\ disk[d].state = "EXPANDING"
    /\ \/ Expanded(d, disk[d].want) /\ UNCHANGED unmet
       \/ /\ Expanded(d, disk[d].size)
          /\ unmet' = [c \in Calls |->
                IF At(c, d, "expand", "poll") /\ call[c].size = disk[d].want
                THEN unmet[c] \cup {d} ELSE unmet[c]]
    /\ UNCHANGED <<call, worker, alone>>

Cloud(d) == AttachFinishes(d) \/ DetachFinishes(d) \/ ExpandFinishes(d)

-----------------------------------------------------------------------------
(* Calls: start, join of the goroutines, reply.                             *)

AttachClass == {"publish", "unpublish", "delete"}

\* The other calls in flight that attach, detach or delete volume v.
Rivals(c, v) ==
    {o \in Calls \ {c} : call[o].op \in AttachClass /\ call[o].vol = v}

\* The record of a new call, its goroutines, and who is no longer alone.
StartCall(c, op, v, n, gb, resp) ==
    /\ call[c].op = "none"
    /\ call' = [call EXCEPT ![c] = [op |-> op, vol |-> v, node |-> n,
                                    size |-> gb, resp |-> resp]]
    /\ worker' = [worker EXCEPT ![c] =
          [d \in Disks |-> IF resp = "pending" /\ d \in DisksOf[v]
                           THEN "describe" ELSE "none"]]
    /\ alone' = IF op \in AttachClass
                THEN [o \in Calls |-> IF o = c THEN Rivals(c, v) = {}
                                      ELSE alone[o] /\ o \notin Rivals(c, v)]
                ELSE [alone EXCEPT ![c] = FALSE]
    /\ unmet' = [unmet EXCEPT ![c] = {}]
    /\ UNCHANGED disk

\* Mutant: the prefix of the node id is not tested.
MutPublishAnyNode(c, v, n) == StartCall(c, "publish", v, n, 0, "pending")

\* A node that is no CVM or CXM instance: publish fails, unpublish has nothing
\* to do.
ControllerPublishVolume(c, v, n) ==
    StartCall(c, "publish", v, n, 0,
              IF n \in SupportedNodes THEN "pending" ELSE "err")

ControllerUnpublishVolume(c, v, n) ==
    StartCall(c, "unpublish", v, n, 0,
              IF n \in SupportedNodes THEN "pending" ELSE "ok")

ControllerExpandVolume(c, v, gb) ==
    StartCall(c, "expand", v, NoNode, gb, "pending")

DeleteVolume(c, v) ==
    StartCall(c, "delete", v, NoNode, 0, "pending")

\* wg.Wait(), then the errors in the channel decide the reply.  Only the
\* volume id string is tested for emptiness, so an id that names no disk joins
\* at once, with success.
Join(c) ==
    /\ call[c].op \in Ops \ {"delete"}
    /\ call[c].resp = "pending"
    /\ \A d \in DisksOf[call[c].vol] : worker[c][d] \in {"ok", "err"}
    /\ call' = [call EXCEPT ![c].resp =
                   IF \E d \in DisksOf[call[c].vol] : worker[c][d] = "err"
                   THEN "err" ELSE "ok"]
    /\ worker' = [worker EXCEPT ![c] = NoWorkers]
    /\ UNCHANGED <<disk, alone, unmet>>

\* The reply leaves the server; whether the caller still waits is not visible.
Reply(c) ==
    /\ call[c].op # "none"
    /\ call[c].resp # "pending"
    /\ call' = [call EXCEPT ![c] = IdleCall]
    /\ alone' = [alone EXCEPT ![c] = FALSE]
    /\ unmet' = [unmet EXCEPT ![c] = {}]
    /\ UNCHANGED <<disk, worker>>

-----------------------------------------------------------------------------
(* The goroutines.                                                          *)

Goto(c, d, s) == worker' = [worker EXCEPT ![c][d] = s]

\* Mutant: an attached disk is taken to be on the right node.
MutAttachVerdict(d, n) ==
    CASE disk[d].state = "GONE" -> "err"
      [] disk[d].state = "ATTACHED" -> "ok"
      [] OTHER -> "request"

\* What attachVolume does after its first look at the disk.
AttachVerdict(d, n) ==
    CASE disk[d].state = "GONE" -> "err"
      [] disk[d].state = "ATTACHED" /\ disk[d].inst = n -> "ok"
      [] disk[d].state = "ATTACHED" /\ disk[d].inst # n -> "err"
      [] OTHER -> "request"

AttachDescribe(c, d) ==
    /\ At(c, d, "publish", "describe")
    /\ \/ Goto(c, d, AttachVerdict(d, call[c].node))
       \/ Goto(c, d, "err")                 \* DescribeDisks failed
    /\ UNCHANGED <<disk, call, alone, unmet>>

\* AttachDisks: refused, accepted, or accepted with the answer lost.
AttachRequest(c, d) ==
    /\ At(c, d, "publish", "request")
    /\ \/ /\ CanAttach(d)
          /\ Moves(d, "ATTACHING", call[c].node)
          /\ Goto(c, d, "poll") \/ Goto(c, d, "err")
       \/ Goto(c, d, "err") /\ UNCHANGED disk
    /\ UNCHANGED <<call, alone, unmet>>

\* A tick of the polling loop; every other outcome of DescribeDisks only waits
\* for the next tick.  The instance of the disk is not looked at.
AttachPoll(c, d) ==
    /\ At(c, d, "publish", "poll")
    /\ disk[d].state = "ATTACHED"
    /\ Goto(c, d, "ok")
    /\ UNCHANGED <<disk, call, alone, unmet>>

\* Mutant: the timer of the deadline is made anew in every turn of the loop.
MutAttachTimeout(c, d) ==
    /\ At(c, d, "publish", "poll")
    /\ Goto(c, d, "poll")
    /\ UNCHANGED <<disk, call, alone, unmet>>

\* The 120 s deadline of the loop.
AttachTimeout(c, d) ==
    /\ At(c, d, "publish", "poll")
    /\ Goto(c, d, "err")
    /\ UNCHANGED <<disk, call, alone, unmet>>

attachVolume(c, d) ==
    \/ AttachDescribe(c, d)
    \/ AttachRequest(c, d)
    \/ AttachPoll(c, d)
    \/ AttachTimeout(c, d)

\* Mutant: only an attached disk has anything to detach.
MutDetachVerdict(d, n) ==
    IF disk[d].state = "ATTACHED" /\ disk[d].inst = n THEN "request" ELSE "ok"

\* What detachVolume does after its first look at the disk: a missing disk, an
\* unattached one and one that is attached to another node are done.
DetachVerdict(d, n) ==
    CASE disk[d].state \in {"GONE", "UNATTACHED"} -> "ok"
      [] disk[d].state = "ATTACHED" /\ disk[d].inst # n -> "ok"
      [] OTHER -> "request"

DetachDescribe(c, d) ==
    /\ At(c, d, "unpublish", "describe")
    /\ \/ Goto(c, d, DetachVerdict(d, call[c].node))
       \/ Goto(c, d, "err")                 \* DescribeDisks failed
    /\ UNCHANGED <<disk, call, alone, unmet>>

\* DetachDisks names the disk and no instance: wherever it is attached by now,
\* that is where it is detached from.
DetachRequest(c, d) ==
    /\ At(c, d, "unpublish", "request")
    /\ \/ /\ CanDetach(d)
          /\ Moves(d, "DETACHING", disk[d].inst)
          /\ Goto(c, d, "poll") \/ Goto(c, d, "err")
       \/ Goto(c, d, "err") /\ UNCHANGED disk
    /\ UNCHANGED <<call, alone, unmet>>

DetachPoll(c, d) ==
    /\ At(c, d, "unpublish", "poll")
    /\ disk[d].state = "UNATTACHED"
    /\ Goto(c, d, "ok")
    /\ UNCHANGED <<disk, call, alone, unmet>>

DetachTimeout(c, d) ==
    /\ At(c, d, "unpublish", "poll")
    /\ Goto(c, d, "err")
    /\ UNCHANGED <<disk, call, alone, unmet>>

detachVolume(c, d) ==
    \/ DetachDescribe(c, d)
    \/ DetachRequest(c, d)
    \/ DetachPoll(c, d)
    \/ DetachTimeout(c, d)

ExpandVerdict(d, gb) ==
    CASE disk[d].state = "GONE" -> "err"
      [] disk[d].state # "GONE" /\ gb <= disk[d].size -> "ok"
      [] OTHER -> "request"

ExpandDescribe(c, d) ==
    /\ At(c, d, "expand", "describe")
    /\ \/ Goto(c, d, ExpandVerdict(d, call[c].size))
       \/ Goto(c, d, "err")                 \* DescribeDisks failed
    /\ UNCHANGED <<disk, call, alone, unmet>>

\* ResizeDisk: the cloud also refuses to shrink a disk.
ExpandRequest(c, d) ==
    /\ At(c, d, "expand", "request")
    /\ \/ /\ CanResize(d) /\ call[c].size > disk[d].size
          /\ disk' = [disk EXCEPT ![d] =
                [state |-> "EXPANDING", inst |-> disk[d].inst,
                 size |-> disk[d].size, want |-> call[c].size]]
          /\ Goto(c, d, "poll") \/ Goto(c, d, "err")
       \/ Goto(c, d, "err") /\ UNCHANGED disk
    /\ UNCHANGED <<call, alone, unmet>>

\* Mutant: the loop ends at the first tick that finds the disk.
MutExpandPoll(c, d) ==
    /\ At(c, d, "expand", "poll")
    /\ disk[d].state # "GONE"
    /\ Goto(c, d, "ok")
    /\ UNCHANGED <<disk, call, alone, unmet>>

\* Any state but EXPANDING ends the loop; a disk that is gone does not.
ExpandPoll(c, d) ==
    /\ At(c, d, "expand", "poll")
    /\ disk[d].state \notin {"EXPANDING", "GONE"}
    /\ Goto(c, d, "ok")
    /\ UNCHANGED <<disk, call, alone, unmet>>

ExpandTimeout(c, d) ==
    /\ At(c, d, "expand", "poll")
    /\ Goto(c, d, "err")
    /\ UNCHANGED <<disk, call, alone, unmet>>

expandVolume(c, d) ==
    \/ ExpandDescribe(c, d)
    \/ ExpandRequest(c, d)
    \/ ExpandPoll(c, d)
    \/ ExpandTimeout(c, d)

-----------------------------------------------------------------------------
(* DeleteVolume runs in the goroutine of the call, on all disks at once.    *)

DeletePending(c, s) ==
    /\ call[c].op = "delete"
    /\ call[c].resp = "pending"
    /\ \A d \in DisksOf[call[c].vol] : worker[c][d] = s

Answer(c, resp) ==
    /\ call' = [call EXCEPT ![c].resp = resp]
    /\ worker' = [worker EXCEPT ![c] = NoWorkers]

\* The disks that DescribeDisks is asked about: with an empty list, all of
\* them.
Described(v) == IF DisksOf[v] = {} THEN Disks ELSE DisksOf[v]

\* One DescribeDisks for the list; an empty answer means that it is all gone.
\* For an id that names no disk a disk of anyone leads to TerminateDisks with
\* an empty list, which is refused: the answer of a failed DescribeDisks.
DeleteDescribe(c) ==
    /\ DeletePending(c, "describe")
    /\ \/ Answer(c, "err")                  \* DescribeDisks failed
       \/ /\ \A d \in Described(call[c].vol) : disk[d].state = "GONE"
          /\ Answer(c, "ok")
       \/ /\ \E d \in DisksOf[call[c].vol] : disk[d].state # "GONE"
          /\ worker' = [worker EXCEPT ![c] =
                [d \in Disks |-> IF d \in DisksOf[call[c].vol] THEN "request" ELSE "none"]]
          /\ UNCHANGED call
    /\ UNCHANGED <<disk, alone, unmet>>

\* Mutant: a refused TerminateDisks is not an error.
MutDeleteRefused(c) ==
    /\ DeletePending(c, "request")
    /\ DisksOf[call[c].vol] # {}
    /\ \/ /\ \A d \in DisksOf[call[c].vol] : CanTerminate(d)
          /\ disk' = [d \in Disks |-> IF d \in DisksOf[call[c].vol]
                                     THEN [disk[d] EXCEPT !.state = "GONE"]
                                     ELSE disk[d]]
          /\ Answer(c, "ok")
       \/ Answer(c, "ok") /\ UNCHANGED disk
    /\ UNCHANGED <<alone, unmet>>

\* TerminateDisks is given the whole list, and is all or nothing.
DeleteTerminate(c) ==
    /\ DeletePending(c, "request")
    /\ DisksOf[call[c].vol] # {}
    /\ \/ /\ \A d \in DisksOf[call[c].vol] : CanTerminate(d)
          /\ disk' = [d \in Disks |-> IF d \in DisksOf[call[c].vol]
                                     THEN [disk[d] EXCEPT !.state = "GONE"]
                                     ELSE disk[d]]
          /\ Answer(c, "ok") \/ Answer(c, "err")
       \/ Answer(c, "err") /\ UNCHANGED disk
    /\ UNCHANGED <<alone, unmet>>

\* The controller process dies and is started again: its goroutines are lost,
\* what they asked of the cloud is not.
Restart ==
    /\ call' = [c \in Calls |-> IdleCall]
    /\ worker' = [c \in Calls |-> NoWorkers]
    /\ alone' = [c \in Calls |-> FALSE]
    /\ unmet' = [c \in Calls |-> {}]
    /\ UNCHANGED disk

-----------------------------------------------------------------------------
Goroutine(c, d) == attachVolume(c, d) \/ detachVolume(c, d) \/ expandVolume(c, d)

Handler(c) ==
    \/ Join(c)
    \/ DeleteDescribe(c)
    \/ DeleteTerminate(c)
    \/ Reply(c)

NewCall(c) ==
    \E v \in Volumes :
        \/ \E n \in Nodes : ControllerPublishVolume(c, v, n)
        \/ \E n \in Nodes : ControllerUnpublishVolume(c, v, n)
        \/ \E gb \in 1..MaxSize : ControllerExpandVolume(c, v, gb)
        \/ DeleteVolume(c, v)

Next ==
    \/ \E c \in Calls : NewCall(c) \/ Handler(c)
    \/ \E c \in Calls, d \in Disks : Goroutine(c, d)
    \/ \E d \in Disks : Cloud(d)
    \/ Restart

\* Goroutines run when they can, and the deadline of a polling loop fires.
\* Nothing is assumed of the cloud, nor that the orchestrator makes calls.
Fairness ==
    /\ \A c \in Calls : WF_vars(Handler(c))
    /\ \A c \in Calls, d \in Disks : WF_vars(Goroutine(c, d))

Spec == Init /\ [][Next]_vars

FairSpec == Spec /\ Fairness

-----------------------------------------------------------------------------
(* Properties.                                                              *)

\* Disk d is on node n: attached there, perhaps being expanded there.
OnNode(d, n) == disk[d].inst = n /\ disk[d].state \in {"ATTACHED", "EXPANDING"}

\* Call c is about to reply with success.
Succeeds(c, op) == call[c].op = op /\ call[c].resp = "ok"

(***************************************************************************)
(* ControllerPublishVolume: when it replies with success and no other      *)
(* publish, unpublish or delete of the volume overlapped it, every disk of *)
(* the volume is on the requested node, whatever timed out, failed, was    *)
(* resized or crashed before or meanwhile.                                 *)
(***************************************************************************)
PublishedWhenAlone ==
    \A c \in Calls :
        Succeeds(c, "publish") /\ alone[c] =>
            \A d \in DisksOf[call[c].vol] : OnNode(d, call[c].node)

(***************************************************************************)
(* ControllerUnpublishVolume: when it replies with success and no rival    *)
(* overlapped it, no disk of the volume is on the node, attaching to it or *)
(* detaching from it.                                                      *)
(***************************************************************************)
UnpublishedWhenAlone ==
    \A c \in Calls :
        Succeeds(c, "unpublish") /\ alone[c] =>
            \A d \in DisksOf[call[c].vol] : disk[d].inst # call[c].node

(***************************************************************************)
(* ControllerExpandVolume: success means that every disk has the size that *)
(* the reply states, also among concurrent expansions of the same volume   *)
(* to other sizes, except where the cloud ended the expansion that this    *)
(* very call waits for without effect: the loop takes any state but        *)
(* EXPANDING for success and does not compare the size.                    *)
(***************************************************************************)
ExpandedToSize ==
    \A c \in Calls :
        Succeeds(c, "expand") =>
            \A d \in DisksOf[call[c].vol] \ unmet[c] : disk[d].size >= call[c].size

(***************************************************************************)
(* DeleteVolume: success means that no disk of the volume is left, and     *)
(* nothing that is still running brings one back or works on it.           *)
(***************************************************************************)
DeletedIsGone ==
    \A c \in Calls :
        Succeeds(c, "delete") =>
            \A d \in DisksOf[call[c].vol] :
                disk[d].state = "GONE" /\ disk[d].inst = NoNode

(***************************************************************************)
(* Every call is answered, even when the cloud never finishes a request:   *)
(* the deadlines of attachVolume, detachVolume and expandVolume guarantee  *)
(* that wg.Wait() returns.                                                 *)
(***************************************************************************)
CallsAreAnswered ==
    \A c \in Calls : call[c].op # "none" ~> call[c].op = "none"

-----------------------------------------------------------------------------
(* What the code says of itself, and does not do.                           *)

(***************************************************************************)
(* "assuming the disk is detached" (detachVolume): a call that unpublishes *)
(* a volume from one node leaves it alone on another node.                 *)
(***************************************************************************)
UnpublishLeavesOtherNodes ==
    [][\A d \in Disks :
          disk[d].state = "ATTACHED" /\ disk'[d].state = "DETACHING" =>
              \E c \in Calls : /\ At(c, d, "unpublish", "request")
                              /\ worker'[c][d] # "request"
                              /\ call[c].node = disk[d].inst]_vars
=============================================================================
