------------------------ MODULE CbsControllerProofs ------------------------
(***************************************************************************)
(* Proofs about CbsController, for any number of disks, volumes, nodes and *)
(* concurrent calls.                                                       *)
(***************************************************************************)
EXTENDS CbsController, TLAPS

(***************************************************************************)
(* The facts about the constants, with the names that the proofs use.      *)
(***************************************************************************)
LEMMA ConstantFacts ==
    /\ \A v \in Volumes : DisksOf[v] \subseteq Disks
    /\ \A v, w \in Volumes, d \in Disks :
          d \in DisksOf[v] /\ d \in DisksOf[w] => v = w
    /\ SupportedNodes \subseteq Nodes
    /\ NoNode \notin Nodes
    /\ NoVolume \notin Volumes
    /\ MaxSize \in Nat /\ MaxSize >= 1
BY ConstantsAssumption

-----------------------------------------------------------------------------
(* Strengthening of the types.                                              *)

\* The cloud keeps an instance exactly for the disks that are on their way to,
\* on, or on their way from a node, and an expansion only grows a disk.
DiskInv ==
    \A d \in Disks :
        /\ disk[d].state \in {"UNATTACHED", "GONE"} => disk[d].inst = NoNode
        /\ disk[d].state \in {"ATTACHING", "ATTACHED", "DETACHING"} =>
               disk[d].inst \in SupportedNodes
        /\ disk[d].state = "EXPANDING" => disk[d].want > disk[d].size

\* What the fields of a call in flight hold, and which goroutines it has.
CallInv ==
    \A c \in Calls :
        /\ call[c].op \in Ops => call[c].vol \in Volumes
        /\ call[c].op \in {"publish", "unpublish"} => call[c].node \in Nodes
        /\ call[c].op = "publish" /\ call[c].resp # "err" =>
               call[c].node \in SupportedNodes
        /\ alone[c] => call[c].op \in AttachClass
        /\ \A d \in Disks : worker[c][d] # "none" =>
               /\ call[c].op \in Ops
               /\ call[c].resp = "pending"
               /\ d \in DisksOf[call[c].vol]

TypeInv == TypeOK /\ DiskInv /\ CallInv

(***************************************************************************)
(* No rival of a call that is alone is in flight.                          *)
(***************************************************************************)
AloneInv ==
    \A c, o \in Calls :
        /\ c # o /\ alone[c]
        /\ call[o].op \in AttachClass
        => call[c].vol # call[o].vol

(***************************************************************************)
(* A lone publish: once its request is accepted the disk is on its way to  *)
(* the node, or back on none; once its goroutine is done it is there.      *)
(***************************************************************************)
PublishInv ==
    \A c \in Calls :
        alone[c] /\ call[c].op = "publish" =>
            \A d \in DisksOf[call[c].vol] :
                /\ worker[c][d] = "poll" =>
                      /\ disk[d].inst \in {call[c].node, NoNode}
                      /\ disk[d].state \notin {"DETACHING", "GONE"}
                /\ worker[c][d] = "ok" \/ call[c].resp = "ok" =>
                      OnNode(d, call[c].node)

(***************************************************************************)
(* A lone unpublish: once its goroutine is done the disk has left.         *)
(***************************************************************************)
UnpublishInv ==
    \A c \in Calls :
        alone[c] /\ call[c].op = "unpublish" =>
            \A d \in DisksOf[call[c].vol] :
                worker[c][d] = "ok" \/ call[c].resp = "ok" =>
                    disk[d].inst # call[c].node

(***************************************************************************)
(* An expansion: once its request is accepted the disk has reached the     *)
(* size, is on its way to it, or the cloud gave this expansion up; once    *)
(* its goroutine is done it has it, or the cloud gave it up.               *)
(***************************************************************************)
ExpandInv ==
    \A c \in Calls :
        call[c].op = "expand" =>
            \A d \in DisksOf[call[c].vol] \ unmet[c] :
                /\ worker[c][d] = "poll" =>
                      \/ disk[d].size >= call[c].size
                      \/ disk[d].state = "EXPANDING" /\ disk[d].want = call[c].size
                /\ worker[c][d] = "ok" \/ call[c].resp = "ok" =>
                      disk[d].size >= call[c].size

(***************************************************************************)
(* A deletion that is about to be acknowledged has left no disk.           *)
(***************************************************************************)
DeleteInv ==
    \A c \in Calls :
        Succeeds(c, "delete") =>
            \A d \in DisksOf[call[c].vol] : disk[d].state = "GONE"

Inv == TypeInv /\ AloneInv /\ PublishInv /\ UnpublishInv /\ ExpandInv /\ DeleteInv

-----------------------------------------------------------------------------
LEMMA InitInv == Init => Inv
<1> SUFFICES ASSUME Init PROVE Inv
    OBVIOUS
<1> USE DEF Init, IdleCall, NoWorkers
<1>1. TypeOK
    BY ConstantFacts DEF TypeOK, DiskRecord, CallRecord, DiskStates, Ops, Steps
<1>2. DiskInv /\ CallInv
    BY DEF DiskInv, CallInv, Ops
<1>3. AloneInv /\ PublishInv /\ UnpublishInv /\ ExpandInv /\ DeleteInv
    BY DEF AloneInv, PublishInv, UnpublishInv, ExpandInv, DeleteInv, Succeeds
<1> QED
    BY <1>1, <1>2, <1>3 DEF Inv, TypeInv

(***************************************************************************)
(* What the update of one disk record does to the disks.                   *)
(***************************************************************************)
LEMMA DiskUpdate ==
    ASSUME disk \in [Disks -> DiskRecord], DiskInv, NEW d \in Disks,
           NEW st \in DiskStates, NEW n \in SupportedNodes \cup {NoNode},
           NEW sz \in 1..MaxSize, NEW wt \in 0..MaxSize,
           disk' = [disk EXCEPT ![d] = [state |-> st, inst |-> n, size |-> sz,
                                        want |-> wt]],
           st \in {"UNATTACHED", "GONE"} => n = NoNode,
           st \in {"ATTACHING", "ATTACHED", "DETACHING"} => n \in SupportedNodes,
           st = "EXPANDING" => wt > sz
    PROVE  /\ disk' \in [Disks -> DiskRecord]
           /\ DiskInv'
<1>1. [state |-> st, inst |-> n, size |-> sz, want |-> wt] \in DiskRecord
    BY DEF DiskRecord
<1>2. disk' \in [Disks -> DiskRecord]
    BY <1>1
<1>3. \A e \in Disks : e # d => disk'[e] = disk[e]
    OBVIOUS
<1>4. disk'[d] = [state |-> st, inst |-> n, size |-> sz, want |-> wt]
    OBVIOUS
<1> QED
    BY <1>2, <1>3, <1>4 DEF DiskInv

LEMMA CloudType ==
    ASSUME TypeInv, NEW d \in Disks, Cloud(d)
    PROVE  TypeInv'
<1>1. UNCHANGED <<call, worker, alone>> /\ unmet' \in [Calls -> SUBSET Disks]
    BY DEF Cloud, AttachFinishes, DetachFinishes, ExpandFinishes, TypeInv, TypeOK
<1>2. disk' \in [Disks -> DiskRecord] /\ DiskInv'
    <2> USE ConstantFacts DEF TypeInv, TypeOK, DiskRecord, DiskStates, DiskInv
    <2>1. CASE AttachFinishes(d)
        BY <2>1, DiskUpdate DEF AttachFinishes, Moves
    <2>2. CASE DetachFinishes(d)
        BY <2>2, DiskUpdate DEF DetachFinishes, Moves
    <2>3. CASE ExpandFinishes(d)
        <3>1. PICK gb \in {disk[d].want, disk[d].size} : Expanded(d, gb)
            BY <2>3 DEF ExpandFinishes
        <3>2. gb \in 1..MaxSize /\ disk[d].want > disk[d].size
            BY <2>3 DEF ExpandFinishes
        <3>3. /\ disk[d].inst \in SupportedNodes \cup {NoNode}
              /\ disk[d].inst # NoNode => disk[d].inst \in SupportedNodes
            OBVIOUS
        <3> QED
            BY <3>1, <3>2, <3>3, DiskUpdate DEF Expanded
    <2> QED
        BY <2>1, <2>2, <2>3 DEF Cloud
<1> QED
    BY <1>1, <1>2 DEF TypeInv, TypeOK, CallInv

(***************************************************************************)
(* What a step of goroutine d of call c does: only an accepted request     *)
(* changes the disk, and the goroutine starts to poll or reports success   *)
(* for the reasons that attachVolume, detachVolume and expandVolume give.  *)
(***************************************************************************)
LEMMA GoroutineSteps ==
    ASSUME TypeInv, NEW c \in Calls, NEW d \in Disks, Goroutine(c, d)
    PROVE  /\ UNCHANGED <<call, alone, unmet>>
           /\ call[c].op \in {"publish", "unpublish", "expand"}
           /\ call[c].resp = "pending"
           /\ worker[c][d] # "none"
           /\ \E s \in Steps \ {"none"} : Goto(c, d, s)
           /\ \A e \in Disks \ {d} : disk'[e] = disk[e]
           /\ \/ UNCHANGED disk
              \/ /\ call[c].op = "publish" /\ disk[d].state = "UNATTACHED"
                 /\ Moves(d, "ATTACHING", call[c].node)
              \/ /\ call[c].op = "unpublish" /\ disk[d].state = "ATTACHED"
                 /\ Moves(d, "DETACHING", disk[d].inst)
              \/ /\ call[c].op = "expand" /\ disk[d].state \in {"ATTACHED", "UNATTACHED"}
                 /\ call[c].size > disk[d].size
                 /\ disk' = [disk EXCEPT ![d] =
                       [state |-> "EXPANDING", inst |-> disk[d].inst,
                        size |-> disk[d].size, want |-> call[c].size]]
           /\ call[c].op = "publish" =>
                 /\ worker'[c][d] = "poll" => Moves(d, "ATTACHING", call[c].node)
                 /\ worker'[c][d] = "ok" =>
                       /\ UNCHANGED disk /\ disk[d].state = "ATTACHED"
                       /\ disk[d].inst = call[c].node \/ worker[c][d] = "poll"
           /\ call[c].op = "unpublish" /\ worker'[c][d] = "ok" =>
                 UNCHANGED disk /\ disk[d].inst # call[c].node
           /\ call[c].op = "expand" =>
                 /\ worker'[c][d] = "poll" =>
                       disk'[d].state = "EXPANDING" /\ disk'[d].want = call[c].size
                 /\ worker'[c][d] = "ok" =>
                       /\ UNCHANGED disk
                       /\ \/ call[c].size <= disk[d].size
                          \/ worker[c][d] = "poll" /\ disk[d].state # "EXPANDING"
<1> USE DEF TypeInv, TypeOK, Goroutine, attachVolume, detachVolume, expandVolume,
       AttachDescribe, AttachRequest, AttachPoll, AttachTimeout,
       DetachDescribe, DetachRequest, DetachPoll, DetachTimeout,
       ExpandDescribe, ExpandRequest, ExpandPoll, ExpandTimeout, At
<1>1. UNCHANGED <<call, alone, unmet>>
    OBVIOUS
<1>2. /\ call[c].op \in {"publish", "unpublish", "expand"}
      /\ worker[c][d] # "none"
    OBVIOUS
<1>3. call[c].resp = "pending"
    BY <1>2 DEF CallInv
<1>4. \E s \in Steps \ {"none"} : Goto(c, d, s)
    BY DEF Steps, AttachVerdict, DetachVerdict, ExpandVerdict
<1>5. \A e \in Disks \ {d} : disk'[e] = disk[e]
    BY DEF Moves
<1>6. \/ UNCHANGED disk
      \/ /\ call[c].op = "publish" /\ disk[d].state = "UNATTACHED"
         /\ Moves(d, "ATTACHING", call[c].node)
      \/ /\ call[c].op = "unpublish" /\ disk[d].state = "ATTACHED"
         /\ Moves(d, "DETACHING", disk[d].inst)
      \/ /\ call[c].op = "expand" /\ disk[d].state \in {"ATTACHED", "UNATTACHED"}
         /\ call[c].size > disk[d].size
         /\ disk' = [disk EXCEPT ![d] =
               [state |-> "EXPANDING", inst |-> disk[d].inst,
                size |-> disk[d].size, want |-> call[c].size]]
    BY DEF CanAttach, CanDetach, CanResize
<1>7. call[c].op = "publish" =>
        /\ worker'[c][d] = "poll" => Moves(d, "ATTACHING", call[c].node)
        /\ worker'[c][d] = "ok" =>
              /\ UNCHANGED disk /\ disk[d].state = "ATTACHED"
              /\ disk[d].inst = call[c].node \/ worker[c][d] = "poll"
    BY DEF Goto, AttachVerdict
<1>8. call[c].op = "unpublish" /\ worker'[c][d] = "ok" =>
        UNCHANGED disk /\ disk[d].inst # call[c].node
    BY ConstantFacts DEF Goto, DetachVerdict, DiskInv, CallInv
<1>9. call[c].op = "expand" =>
        /\ worker'[c][d] = "poll" =>
              disk'[d].state = "EXPANDING" /\ disk'[d].want = call[c].size
        /\ worker'[c][d] = "ok" =>
              /\ UNCHANGED disk
              /\ \/ call[c].size <= disk[d].size
                 \/ worker[c][d] = "poll" /\ disk[d].state # "EXPANDING"
    BY DEF Goto, ExpandVerdict
<1> QED
    BY <1>1, <1>2, <1>3, <1>4, <1>5, <1>6, <1>7, <1>8, <1>9

LEMMA GoroutineType ==
    ASSUME TypeInv, NEW c \in Calls, NEW d \in Disks, Goroutine(c, d)
    PROVE  TypeInv'
<1>1. UNCHANGED <<call, alone, unmet>>
    BY GoroutineSteps
<1>2. worker' \in [Calls -> [Disks -> Steps]] /\ CallInv'
    <2> PICK s \in Steps \ {"none"} : Goto(c, d, s)
        BY GoroutineSteps
    <2>1. worker' \in [Calls -> [Disks -> Steps]]
        BY DEF TypeInv, TypeOK, Goto
    <2>2. \A o \in Calls, e \in Disks :
              worker'[o][e] # "none" => worker[o][e] # "none"
        BY GoroutineSteps DEF TypeInv, TypeOK, Goto
    <2> QED
        BY <2>1, <2>2, <1>1 DEF TypeInv, CallInv
<1>3. disk' \in [Disks -> DiskRecord] /\ DiskInv'
    <2>1. disk \in [Disks -> DiskRecord] /\ DiskInv
        BY DEF TypeInv, TypeOK
    <2>2. /\ disk[d].inst \in SupportedNodes \cup {NoNode}
          /\ disk[d].size \in 1..MaxSize /\ disk[d].want \in 0..MaxSize
          /\ call[c].size \in 0..MaxSize
        BY DEF TypeInv, TypeOK, DiskRecord, CallRecord
    <2>3. CASE call[c].op = "publish" /\ Moves(d, "ATTACHING", call[c].node)
        <3>1. call[c].node \in SupportedNodes
            BY <2>3, GoroutineSteps DEF TypeInv, CallInv
        <3> QED
            BY <2>1, <2>2, <2>3, <3>1, DiskUpdate DEF Moves, DiskStates
    <2>4. CASE disk[d].state = "ATTACHED" /\ Moves(d, "DETACHING", disk[d].inst)
        <3>1. disk[d].inst \in SupportedNodes
            BY <2>4 DEF TypeInv, DiskInv
        <3> QED
            BY <2>1, <2>2, <2>4, <3>1, DiskUpdate DEF Moves, DiskStates
    <2>5. CASE /\ call[c].size > disk[d].size
               /\ disk' = [disk EXCEPT ![d] =
                     [state |-> "EXPANDING", inst |-> disk[d].inst,
                      size |-> disk[d].size, want |-> call[c].size]]
        BY <2>1, <2>2, <2>5, DiskUpdate DEF DiskStates
    <2>6. CASE UNCHANGED disk
        BY <2>1, <2>6 DEF DiskInv
    <2> QED
        BY <2>3, <2>4, <2>5, <2>6, GoroutineSteps
<1> QED
    BY <1>1, <1>2, <1>3 DEF TypeInv, TypeOK

(***************************************************************************)
(* What NewCall starts, whichever call it is.                              *)
(***************************************************************************)
LEMMA NewCallStarts ==
    ASSUME NEW c \in Calls, NewCall(c)
    PROVE  \E op \in Ops, v \in Volumes, n \in Nodes \cup {NoNode},
              gb \in 0..MaxSize, resp \in {"pending", "ok", "err"} :
              /\ StartCall(c, op, v, n, gb, resp)
              /\ op \in {"publish", "unpublish"} => n \in Nodes
              /\ op = "publish" /\ resp # "err" => n \in SupportedNodes
              /\ resp = "ok" => op = "unpublish" /\ n \notin SupportedNodes
<1> USE ConstantFacts DEF Ops
<1> PICK v \in Volumes :
            \/ \E n \in Nodes : ControllerPublishVolume(c, v, n)
            \/ \E n \in Nodes : ControllerUnpublishVolume(c, v, n)
            \/ \E gb \in 1..MaxSize : ControllerExpandVolume(c, v, gb)
            \/ DeleteVolume(c, v)
    BY DEF NewCall
<1>1. CASE \E n \in Nodes : ControllerPublishVolume(c, v, n)
    BY <1>1 DEF ControllerPublishVolume
<1>2. CASE \E n \in Nodes : ControllerUnpublishVolume(c, v, n)
    BY <1>2 DEF ControllerUnpublishVolume
<1>3. CASE \E gb \in 1..MaxSize : ControllerExpandVolume(c, v, gb)
    BY <1>3 DEF ControllerExpandVolume
<1>4. CASE DeleteVolume(c, v)
    BY <1>4 DEF DeleteVolume
<1> QED
    BY <1>1, <1>2, <1>3, <1>4

LEMMA StartCallType ==
    ASSUME TypeInv, NEW c \in Calls, NEW op \in Ops, NEW v \in Volumes,
           NEW n \in Nodes \cup {NoNode}, NEW gb \in 0..MaxSize,
           NEW resp \in {"pending", "ok", "err"},
           StartCall(c, op, v, n, gb, resp),
           op \in {"publish", "unpublish"} => n \in Nodes,
           op = "publish" /\ resp # "err" => n \in SupportedNodes
    PROVE  TypeInv'
<1> DEFINE r == [op |-> op, vol |-> v, node |-> n, size |-> gb, resp |-> resp]
<1>1. UNCHANGED disk /\ unmet' \in [Calls -> SUBSET Disks]
    BY DEF StartCall, TypeInv, TypeOK
<1>2. /\ call' \in [Calls -> CallRecord]
      /\ call'[c] = r
      /\ \A o \in Calls \ {c} : call'[o] = call[o]
    <2>1. r \in CallRecord
        BY DEF CallRecord
    <2> QED
        BY <2>1 DEF StartCall, TypeInv, TypeOK
<1>3. /\ worker' \in [Calls -> [Disks -> Steps]]
      /\ \A d \in Disks : worker'[c][d] = IF resp = "pending" /\ d \in DisksOf[v]
                                         THEN "describe" ELSE "none"
      /\ \A o \in Calls \ {c} : worker'[o] = worker[o]
    BY DEF StartCall, TypeInv, TypeOK, Steps
<1>4. /\ alone' \in [Calls -> BOOLEAN]
      /\ alone'[c] => op \in AttachClass
      /\ \A o \in Calls \ {c} : alone'[o] => alone[o]
    BY DEF StartCall, TypeInv, TypeOK
<1>5. CallInv'
    <2> SUFFICES ASSUME NEW o \in Calls
                 PROVE  /\ call'[o].op \in Ops => call'[o].vol \in Volumes
                        /\ call'[o].op \in {"publish", "unpublish"} => call'[o].node \in Nodes
                        /\ call'[o].op = "publish" /\ call'[o].resp # "err" =>
                               call'[o].node \in SupportedNodes
                        /\ alone'[o] => call'[o].op \in AttachClass
                        /\ \A d \in Disks : worker'[o][d] # "none" =>
                              /\ call'[o].op \in Ops
                              /\ call'[o].resp = "pending"
                              /\ d \in DisksOf[call'[o].vol]
        BY DEF CallInv
    <2>1. CASE o = c
        BY <2>1, <1>2, <1>3, <1>4
    <2>2. CASE o # c
        BY <2>2, <1>2, <1>3, <1>4 DEF TypeInv, CallInv
    <2> QED
        BY <2>1, <2>2
<1> QED
    BY <1>1, <1>2, <1>3, <1>4, <1>5 DEF TypeInv, TypeOK, DiskInv

(***************************************************************************)
(* A handler's own steps: it answers its call, it starts to wait for the   *)
(* answer to TerminateDisks, or it forgets the call.                       *)
(***************************************************************************)
LEMMA HandlerType ==
    ASSUME TypeInv, NEW c \in Calls, Handler(c)
    PROVE  TypeInv'
<1>1. CASE Reply(c)
    <2>1. /\ UNCHANGED <<disk, worker>>
          /\ call' \in [Calls -> CallRecord]
          /\ call'[c] = IdleCall
          /\ \A o \in Calls \ {c} : call'[o] = call[o]
          /\ alone' \in [Calls -> BOOLEAN]
          /\ ~ alone'[c]
          /\ \A o \in Calls \ {c} : alone'[o] = alone[o]
          /\ unmet' \in [Calls -> SUBSET Disks]
        BY <1>1, ConstantFacts DEF Reply, TypeInv, TypeOK, IdleCall, CallRecord, Ops
    <2>2. \A d \in Disks : worker[c][d] = "none"
        BY <1>1 DEF Reply, TypeInv, CallInv
    <2> QED
        BY <2>1, <2>2 DEF TypeInv, TypeOK, DiskInv, CallInv, IdleCall, Ops
<1>2. ASSUME NEW resp \in {"ok", "err"}, Answer(c, resp),
             call[c].op \in Ops, call[c].resp = "pending"
      PROVE  /\ call' \in [Calls -> CallRecord]
             /\ worker' \in [Calls -> [Disks -> Steps]]
             /\ UNCHANGED alone => CallInv'
    <2>1. /\ call' \in [Calls -> CallRecord]
          /\ \A o \in Calls \ {c} : call'[o] = call[o]
          /\ call'[c].op = call[c].op /\ call'[c].vol = call[c].vol
          /\ call'[c].node = call[c].node /\ call'[c].resp = resp
        BY <1>2 DEF Answer, TypeInv, TypeOK, CallRecord
    <2>2. /\ worker' \in [Calls -> [Disks -> Steps]]
          /\ \A o \in Calls \ {c} : worker'[o] = worker[o]
          /\ \A d \in Disks : worker'[c][d] = "none"
        BY <1>2 DEF Answer, TypeInv, TypeOK, NoWorkers, Steps
    <2> QED
        BY <2>1, <2>2, <1>2 DEF TypeInv, CallInv
<1>3. CASE Join(c)
    <2>1. \E resp \in {"ok", "err"} : Answer(c, resp)
        BY <1>3 DEF Join, Answer
    <2> QED
        BY <2>1, <1>2, <1>3 DEF Join, TypeInv, TypeOK, DiskInv
<1>4. CASE DeleteDescribe(c)
    <2>1. UNCHANGED <<disk, alone, unmet>> /\ DeletePending(c, "describe")
        BY <1>4 DEF DeleteDescribe
    <2>2. CASE \E resp \in {"ok", "err"} : Answer(c, resp)
        BY <2>1, <2>2, <1>2 DEF DeletePending, TypeInv, TypeOK, DiskInv, Ops
    <2>3. CASE /\ worker' = [worker EXCEPT ![c] = [d \in Disks |->
                      IF d \in DisksOf[call[c].vol] THEN "request" ELSE "none"]]
               /\ UNCHANGED call
        <3>1. /\ worker' \in [Calls -> [Disks -> Steps]]
              /\ \A o \in Calls \ {c} : worker'[o] = worker[o]
              /\ \A d \in Disks : worker'[c][d] # "none" => d \in DisksOf[call[c].vol]
            BY <2>3 DEF TypeInv, TypeOK, Steps
        <3> QED
            BY <3>1, <2>1, <2>3 DEF DeletePending, TypeInv, TypeOK, DiskInv, CallInv, Ops
    <2> QED
        BY <1>4, <2>2, <2>3 DEF DeleteDescribe
<1>5. CASE DeleteTerminate(c)
    <2>1. UNCHANGED <<alone, unmet>> /\ DeletePending(c, "request")
              /\ \E resp \in {"ok", "err"} : Answer(c, resp)
        BY <1>5 DEF DeleteTerminate
    <2>2. disk' \in [Disks -> DiskRecord] /\ DiskInv'
        <3>1. CASE UNCHANGED disk
            BY <3>1 DEF TypeInv, TypeOK, DiskInv
        <3>2. CASE /\ \A d \in DisksOf[call[c].vol] : CanTerminate(d)
                   /\ disk' = [d \in Disks |-> IF d \in DisksOf[call[c].vol]
                                               THEN [disk[d] EXCEPT !.state = "GONE"]
                                               ELSE disk[d]]
            BY <3>2 DEF CanTerminate, TypeInv, TypeOK, DiskInv, DiskRecord, DiskStates
        <3> QED
            BY <1>5, <3>1, <3>2 DEF DeleteTerminate
    <2> QED
        BY <2>1, <2>2, <1>2 DEF DeletePending, TypeInv, TypeOK, Ops
<1> QED
    BY <1>1, <1>3, <1>4, <1>5 DEF Handler

LEMMA RestartType == TypeInv /\ Restart => TypeInv'
BY ConstantFacts DEF Restart, TypeInv, TypeOK, DiskInv, CallInv, IdleCall, NoWorkers,
   CallRecord, Steps, Ops

LEMMA NextType == TypeInv /\ [Next]_vars => TypeInv'
<1> SUFFICES ASSUME TypeInv, [Next]_vars PROVE TypeInv'
    OBVIOUS
<1>1. ASSUME NEW c \in Calls, NewCall(c) PROVE TypeInv'
    BY <1>1, NewCallStarts, StartCallType
<1>2. ASSUME NEW c \in Calls, Handler(c) PROVE TypeInv'
    BY <1>2, HandlerType
<1>3. ASSUME NEW c \in Calls, NEW d \in Disks, Goroutine(c, d) PROVE TypeInv'
    BY <1>3, GoroutineType
<1>4. ASSUME NEW d \in Disks, Cloud(d) PROVE TypeInv'
    BY <1>4, CloudType
<1>5. CASE Restart
    BY <1>5, RestartType
<1>6. CASE UNCHANGED vars
    BY <1>6 DEF vars, TypeInv, TypeOK, DiskInv, CallInv
<1> QED
    BY <1>1, <1>2, <1>3, <1>4, <1>5, <1>6 DEF Next

(***************************************************************************)
(* Every record that the handlers and the cloud build has its type.        *)
(***************************************************************************)
THEOREM TypeCorrect == Spec => []TypeOK
<1>1. Init => TypeInv
    BY InitInv DEF Inv
<1>2. TypeInv /\ [Next]_vars => TypeInv'
    BY NextType
<1>3. TypeInv => TypeOK
    BY DEF TypeInv
<1> QED
    BY <1>1, <1>2, <1>3, PTL DEF Spec

-----------------------------------------------------------------------------
(* The safety invariant, one lemma per kind of step.                        *)

SafeInv == AloneInv /\ PublishInv /\ UnpublishInv /\ ExpandInv /\ DeleteInv

LEMMA CloudSafe ==
    ASSUME Inv, NEW d \in Disks, Cloud(d)
    PROVE  SafeInv'
<1> USE DEF Inv, TypeInv
<1>1. UNCHANGED <<call, worker, alone>>
    BY DEF Cloud, AttachFinishes, DetachFinishes, ExpandFinishes
<1>2. \A e \in Disks \ {d} : disk'[e] = disk[e]
    BY DEF Cloud, AttachFinishes, DetachFinishes, ExpandFinishes, Expanded, Moves, TypeOK
<1>3. /\ disk[d].state \in {"ATTACHING", "DETACHING", "EXPANDING"}
      /\ disk'[d].state \in {"ATTACHED", "UNATTACHED"}
      /\ disk'[d].inst = disk[d].inst \/ disk'[d].inst = NoNode
    BY ConstantFacts DEF Cloud, AttachFinishes, DetachFinishes, ExpandFinishes,
                         Expanded, Moves, TypeOK, DiskRecord
\* An expansion ends with what was wanted, or the one who wanted it knows.
<1>4. disk[d].state = "EXPANDING" =>
          /\ \/ disk'[d].size = disk[d].want
             \/ /\ disk'[d].size = disk[d].size
                /\ \A c \in Calls :
                      At(c, d, "expand", "poll") /\ call[c].size = disk[d].want
                          => d \in unmet'[c]
          /\ disk'[d].inst = disk[d].inst
          /\ disk'[d].state = IF disk[d].inst = NoNode THEN "UNATTACHED" ELSE "ATTACHED"
    BY DEF Cloud, AttachFinishes, DetachFinishes, ExpandFinishes, Expanded, TypeOK
<1>e. \A c \in Calls : unmet[c] \subseteq unmet'[c]
    BY DEF Cloud, AttachFinishes, DetachFinishes, ExpandFinishes, TypeOK
<1>5. disk[d].state # "EXPANDING" => disk'[d].size = disk[d].size
    BY DEF Cloud, AttachFinishes, DetachFinishes, ExpandFinishes, Moves, TypeOK
<1>6. AloneInv'
    BY <1>1 DEF AloneInv
<1>7. PublishInv'
    BY <1>1, <1>2, <1>3, <1>4, ConstantFacts DEF PublishInv, OnNode, CallInv, Ops
<1>8. UnpublishInv'
    BY <1>1, <1>2, <1>3, ConstantFacts DEF UnpublishInv, CallInv, Ops
<1>9. ExpandInv'
    <2>1. \A e \in Disks : disk[e].size \in Int /\ disk[e].want \in Int
        BY DEF TypeOK, DiskRecord
    <2>2. \A c \in Calls : call[c].size \in Int
        BY DEF TypeOK, CallRecord
    <2> SUFFICES ASSUME NEW c \in Calls, call[c].op = "expand",
                        NEW e \in DisksOf[call[c].vol] \ unmet'[c]
                 PROVE  /\ worker[c][e] = "poll" =>
                              \/ disk'[e].size >= call[c].size
                              \/ disk'[e].state = "EXPANDING"
                                    /\ disk'[e].want = call[c].size
                        /\ worker[c][e] = "ok" \/ call[c].resp = "ok" =>
                              disk'[e].size >= call[c].size
        BY <1>1 DEF ExpandInv
    <2>3. e \in Disks /\ e \notin unmet[c]
        BY <1>e, ConstantFacts DEF CallInv, Ops
    <2>4. CASE e # d
        BY <2>3, <2>4, <1>2 DEF ExpandInv
    <2>5. CASE e = d /\ disk[d].state = "EXPANDING"
        BY <2>3, <2>5, <1>4, <2>1, <2>2 DEF ExpandInv, DiskInv, At
    <2>6. CASE e = d /\ disk[d].state # "EXPANDING"
        BY <2>3, <2>6, <1>5 DEF ExpandInv
    <2> QED
        BY <2>4, <2>5, <2>6
<1>10. DeleteInv'
    BY <1>1, <1>2, <1>3, ConstantFacts DEF DeleteInv, Succeeds, CallInv, Ops
<1> QED
    BY <1>6, <1>7, <1>8, <1>9, <1>10 DEF SafeInv

LEMMA GoroutineSafe ==
    ASSUME Inv, NEW c \in Calls, NEW d \in Disks, Goroutine(c, d)
    PROVE  SafeInv'
<1> USE DEF Inv, TypeInv
<1>1. UNCHANGED <<call, alone, unmet>>
    BY GoroutineSteps
<1>2. /\ call[c].op \in {"publish", "unpublish", "expand"}
      /\ d \in DisksOf[call[c].vol] /\ call[c].vol \in Volumes
      /\ call[c].resp = "pending"
    BY GoroutineSteps DEF CallInv, Ops
<1>3. \A o \in Calls, e \in Disks :
          o # c \/ e # d => worker'[o][e] = worker[o][e]
    BY GoroutineSteps DEF Goto, TypeOK
\* What happens to the disk, field by field.
<1>4. /\ \A e \in Disks \ {d} : disk'[e] = disk[e]
      /\ \/ disk'[d] = disk[d]
         \/ /\ call[c].op = "publish" /\ disk[d].state = "UNATTACHED"
            /\ disk'[d].state = "ATTACHING" /\ disk'[d].inst = call[c].node
            /\ disk'[d].size = disk[d].size
         \/ /\ call[c].op = "unpublish" /\ disk[d].state = "ATTACHED"
            /\ disk'[d].state = "DETACHING" /\ disk'[d].inst = disk[d].inst
            /\ disk'[d].size = disk[d].size
         \/ /\ call[c].op = "expand" /\ disk[d].state \in {"ATTACHED", "UNATTACHED"}
            /\ disk'[d].state = "EXPANDING" /\ disk'[d].inst = disk[d].inst
            /\ disk'[d].size = disk[d].size
    BY GoroutineSteps DEF Moves, TypeOK
\* A call that is alone on this disk shares it with expansions only.
<1>5. \A o \in Calls :
        o # c /\ alone[o] /\ d \in DisksOf[call[o].vol] => call[c].op = "expand"
    BY <1>2, ConstantFacts DEF AloneInv, CallInv, AttachClass, Ops
<1>6. \A o \in Calls : alone[o] => DisksOf[call[o].vol] \subseteq Disks
    BY ConstantFacts DEF CallInv, AttachClass, Ops
<1>7. AloneInv'
    BY <1>1 DEF AloneInv
<1>8. PublishInv'
    <2> SUFFICES ASSUME NEW o \in Calls, alone[o], call[o].op = "publish",
                        NEW e \in DisksOf[call[o].vol]
                 PROVE  /\ worker'[o][e] = "poll" =>
                              /\ disk'[e].inst \in {call[o].node, NoNode}
                              /\ disk'[e].state \notin {"DETACHING", "GONE"}
                        /\ worker'[o][e] = "ok" \/ call[o].resp = "ok" =>
                              OnNode(e, call[o].node)'
        BY <1>1 DEF PublishInv, OnNode
    <2>0. e \in Disks
        BY <1>6
    <2>1. CASE e # d
        BY <2>0, <2>1, <1>1, <1>3, <1>4 DEF PublishInv, OnNode
    <2>2. CASE e = d /\ o # c
        BY <2>2, <1>1, <1>3, <1>4, <1>5 DEF PublishInv, OnNode
    <2>3. CASE e = d /\ o = c
        <3>1. call[o].node \in SupportedNodes /\ NoNode \notin SupportedNodes
            BY <2>3, <1>2, ConstantFacts DEF CallInv
        <3>2. disk[d].state = "ATTACHED" => disk[d].inst \in SupportedNodes
            BY DEF DiskInv
        <3> QED
            BY <2>3, <3>1, <3>2, <1>1, <1>2, GoroutineSteps DEF PublishInv, OnNode, Moves, TypeOK
    <2> QED
        BY <2>1, <2>2, <2>3
<1>9. UnpublishInv'
    <2> SUFFICES ASSUME NEW o \in Calls, alone[o], call[o].op = "unpublish",
                        NEW e \in DisksOf[call[o].vol],
                        worker'[o][e] = "ok" \/ call[o].resp = "ok"
                 PROVE  disk'[e].inst # call[o].node
        BY <1>1 DEF UnpublishInv
    <2>0. e \in Disks
        BY <1>6
    <2>1. CASE e # d
        BY <2>0, <2>1, <1>3, <1>4 DEF UnpublishInv
    <2>2. CASE e = d /\ o # c
        BY <2>2, <1>3, <1>4, <1>5 DEF UnpublishInv
    <2>3. CASE e = d /\ o = c
        BY <2>3, <1>2, GoroutineSteps
    <2> QED
        BY <2>1, <2>2, <2>3
<1>10. ExpandInv'
    <2> SUFFICES ASSUME NEW o \in Calls, call[o].op = "expand",
                        NEW e \in DisksOf[call[o].vol] \ unmet[o]
                 PROVE  /\ worker'[o][e] = "poll" =>
                              \/ disk'[e].size >= call[o].size
                              \/ disk'[e].state = "EXPANDING"
                                    /\ disk'[e].want = call[o].size
                        /\ worker'[o][e] = "ok" \/ call[o].resp = "ok" =>
                              disk'[e].size >= call[o].size
        BY <1>1 DEF ExpandInv
    <2>0. e \in Disks
        BY ConstantFacts DEF CallInv, Ops
    <2>1. CASE e # d
        BY <2>0, <2>1, <1>3, <1>4 DEF ExpandInv
    <2>2. CASE e = d /\ o # c
        <3>1. worker'[o][e] = worker[o][e]
            BY <2>0, <2>2, <1>3
        <3>2. disk'[d] = disk[d] \/ (disk[d].state # "EXPANDING" /\ disk'[d].size = disk[d].size)
            BY <1>4
        <3> QED
            BY <2>2, <3>1, <3>2 DEF ExpandInv
    <2>3. CASE e = d /\ o = c
        <3>1. disk[d].size \in Int /\ call[c].size \in Int
            BY DEF TypeOK, DiskRecord, CallRecord
        <3> QED
            BY <2>3, <3>1, <1>2, GoroutineSteps DEF ExpandInv
    <2> QED
        BY <2>1, <2>2, <2>3
<1>11. DeleteInv'
    <2> SUFFICES ASSUME NEW o \in Calls, Succeeds(o, "delete"),
                        NEW e \in DisksOf[call[o].vol]
                 PROVE  disk'[e].state = "GONE"
        BY <1>1 DEF DeleteInv, Succeeds
    <2>0. e \in Disks /\ disk[e].state = "GONE"
        BY ConstantFacts DEF CallInv, Ops, DeleteInv, Succeeds
    <2> QED
        BY <2>0, <1>4
<1> QED
    BY <1>7, <1>8, <1>9, <1>10, <1>11 DEF SafeInv

LEMMA NewCallSafe ==
    ASSUME Inv, NEW c \in Calls, NewCall(c)
    PROVE  SafeInv'
<1> USE DEF Inv, TypeInv
<1> PICK op \in Ops, v \in Volumes, n \in Nodes \cup {NoNode}, gb \in 0..MaxSize,
         resp \in {"pending", "ok", "err"} :
              /\ StartCall(c, op, v, n, gb, resp)
              /\ op \in {"publish", "unpublish"} => n \in Nodes
              /\ op = "publish" /\ resp # "err" => n \in SupportedNodes
              /\ resp = "ok" => op = "unpublish" /\ n \notin SupportedNodes
    BY NewCallStarts
<1>1. /\ UNCHANGED disk
      /\ call[c].op = "none"
      /\ call'[c] = [op |-> op, vol |-> v, node |-> n, size |-> gb, resp |-> resp]
      /\ \A o \in Calls \ {c} :
            call'[o] = call[o] /\ worker'[o] = worker[o] /\ unmet'[o] = unmet[o]
      /\ \A d \in Disks : worker'[c][d] \in {"none", "describe"}
    BY DEF StartCall, TypeOK
<1>2. /\ alone'[c] => \A o \in Calls \ {c} :
                         call[o].op \in AttachClass => call[o].vol # v
      /\ \A o \in Calls \ {c} :
            alone'[o] => alone[o] /\ (op \in AttachClass => call[o].vol # v)
    <2>1. CASE op \in AttachClass
        BY <2>1 DEF StartCall, TypeOK, Rivals, CallInv
    <2>2. CASE op \notin AttachClass
        BY <2>2 DEF StartCall, TypeOK
    <2> QED
        BY <2>1, <2>2
<1>3. AloneInv'
    <2> SUFFICES ASSUME NEW a \in Calls, NEW o \in Calls, a # o, alone'[a],
                        call'[o].op \in AttachClass
                 PROVE  call'[a].vol # call'[o].vol
        BY DEF AloneInv
    <2>1. CASE a = c
        BY <2>1, <1>1, <1>2
    <2>2. CASE o = c
        BY <2>2, <1>1, <1>2
    <2>3. CASE a # c /\ o # c
        BY <2>3, <1>1, <1>2 DEF AloneInv
    <2> QED
        BY <2>1, <2>2, <2>3
<1>4. DisksOf[v] \subseteq Disks
    BY ConstantFacts
<1>5. PublishInv'
    BY <1>1, <1>2, <1>4 DEF PublishInv, OnNode
<1>6. UnpublishInv'
    <2>1. \A d \in Disks : disk[d].inst \in SupportedNodes \cup {NoNode}
        BY DEF TypeOK, DiskRecord
    <2>2. resp = "ok" => \A d \in Disks : disk[d].inst # n
        BY <2>1, ConstantFacts
    <2> QED
        BY <1>1, <1>2, <1>4, <2>2 DEF UnpublishInv
<1>7. ExpandInv'
    BY <1>1, <1>4 DEF ExpandInv
<1>8. DeleteInv'
    BY <1>1, <1>4 DEF DeleteInv, Succeeds
<1> QED
    BY <1>3, <1>5, <1>6, <1>7, <1>8 DEF SafeInv

(***************************************************************************)
(* A handler's step touches no other call, and only DeleteTerminate the    *)
(* disks; a call that answers ok has reasons to.                           *)
(***************************************************************************)
LEMMA HandlerSafe ==
    ASSUME Inv, NEW c \in Calls, Handler(c)
    PROVE  SafeInv'
<1> USE DEF Inv, TypeInv
<1>1. CASE Reply(c)
    <2>1. /\ UNCHANGED <<disk, worker>>
          /\ call'[c].op = "none"
          /\ \A o \in Calls \ {c} :
                call'[o] = call[o] /\ alone'[o] = alone[o] /\ unmet'[o] = unmet[o]
          /\ ~ alone'[c]
        BY <1>1 DEF Reply, IdleCall, TypeOK
    <2>2. AloneInv'
        BY <2>1 DEF AloneInv, AttachClass
    <2>3. PublishInv' /\ UnpublishInv'
        BY <2>1 DEF PublishInv, UnpublishInv, OnNode
    <2>4. ExpandInv' /\ DeleteInv'
        BY <2>1 DEF ExpandInv, DeleteInv, Succeeds
    <2> QED
        BY <2>2, <2>3, <2>4 DEF SafeInv
<1>2. CASE Join(c)
    <2>1. /\ UNCHANGED <<disk, alone, unmet>>
          /\ call'[c].op = call[c].op /\ call'[c].vol = call[c].vol
          /\ call'[c].node = call[c].node /\ call'[c].size = call[c].size
          /\ call[c].op \in {"publish", "unpublish", "expand"}
          /\ call'[c].resp = "ok" => \A d \in DisksOf[call[c].vol] : worker[c][d] = "ok"
          /\ \A d \in Disks : worker'[c][d] = "none"
          /\ \A o \in Calls \ {c} : call'[o] = call[o] /\ worker'[o] = worker[o]
        BY <1>2 DEF Join, NoWorkers, TypeOK, CallRecord, Ops
    <2>2. DisksOf[call[c].vol] \subseteq Disks
        BY <2>1, ConstantFacts DEF CallInv, Ops
    <2>3. AloneInv'
        BY <2>1 DEF AloneInv
    <2>4. PublishInv' /\ UnpublishInv'
        BY <2>1, <2>2 DEF PublishInv, UnpublishInv, OnNode
    <2>5. ExpandInv' /\ DeleteInv'
        BY <2>1, <2>2 DEF ExpandInv, DeleteInv, Succeeds
    <2> QED
        BY <2>3, <2>4, <2>5 DEF SafeInv
<1>3. CASE DeleteDescribe(c) \/ DeleteTerminate(c)
    <2>1. /\ UNCHANGED <<alone, unmet>>
          /\ call[c].op = "delete" /\ call[c].resp = "pending"
          /\ call'[c].op = call[c].op /\ call'[c].vol = call[c].vol
          /\ \A o \in Calls \ {c} : call'[o] = call[o] /\ worker'[o] = worker[o]
        BY <1>3 DEF DeleteDescribe, DeleteTerminate, DeletePending, Answer, TypeOK, CallRecord
    <2>2. call[c].vol \in Volumes /\ DisksOf[call[c].vol] \subseteq Disks
        BY <2>1, ConstantFacts DEF CallInv, Ops
    <2>3. /\ \A e \in Disks \ DisksOf[call[c].vol] : disk'[e] = disk[e]
          /\ \/ UNCHANGED disk
             \/ \A e \in DisksOf[call[c].vol] :
                   /\ disk[e].state = "UNATTACHED" /\ disk'[e].state = "GONE"
                   /\ disk'[e].inst = disk[e].inst /\ disk'[e].size = disk[e].size
        BY <1>3, <2>2 DEF DeleteDescribe, DeleteTerminate, CanTerminate, TypeOK, DiskRecord
    <2>4. call'[c].resp = "ok" => \A e \in DisksOf[call[c].vol] : disk'[e].state = "GONE"
        <3>1. CASE DeleteDescribe(c)
            BY <3>1, <2>1 DEF DeleteDescribe, Described, Answer, TypeOK, CallRecord
        <3>2. CASE DeleteTerminate(c)
            BY <3>2, <2>1, <2>2 DEF DeleteTerminate, Answer, TypeOK, CallRecord, DiskRecord
        <3> QED
            BY <1>3, <3>1, <3>2
    \* A lone call on the volume is this one: no disk changes under another.
    <2>5. \A o \in Calls \ {c} : alone[o] =>
              \A e \in DisksOf[call[o].vol] : e \in Disks \ DisksOf[call[c].vol]
        BY <2>1, <2>2, ConstantFacts DEF AloneInv, CallInv, AttachClass, Ops
    <2>6. AloneInv'
        BY <2>1 DEF AloneInv
    <2>7. PublishInv' /\ UnpublishInv'
        BY <2>1, <2>3, <2>5 DEF PublishInv, UnpublishInv, OnNode
    <2>8. ExpandInv'
        <3> SUFFICES ASSUME NEW o \in Calls, call[o].op = "expand", o # c,
                            NEW e \in DisksOf[call[o].vol] \ unmet[o]
                     PROVE  /\ worker[o][e] = "poll" =>
                                  \/ disk'[e].size >= call[o].size
                                  \/ disk'[e].state = "EXPANDING"
                                        /\ disk'[e].want = call[o].size
                            /\ worker[o][e] = "ok" \/ call[o].resp = "ok" =>
                                  disk'[e].size >= call[o].size
            BY <2>1 DEF ExpandInv
        <3>1. e \in Disks
            BY ConstantFacts DEF CallInv, Ops
        <3>2. \/ disk'[e] = disk[e]
              \/ disk[e].state = "UNATTACHED" /\ disk'[e].size = disk[e].size
            BY <3>1, <2>3
        <3> QED
            BY <3>2 DEF ExpandInv
    <2>9. DeleteInv'
        <3> SUFFICES ASSUME NEW o \in Calls, Succeeds(o, "delete")', o # c,
                            NEW e \in DisksOf[call[o].vol]
                     PROVE  disk'[e].state = "GONE"
            BY <2>1, <2>4 DEF DeleteInv, Succeeds
        <3>1. disk[e].state = "GONE" /\ e \in Disks
            BY <2>1, ConstantFacts DEF DeleteInv, Succeeds, CallInv, Ops
        <3> QED
            BY <3>1, <2>3
    <2> QED
        BY <2>6, <2>7, <2>8, <2>9 DEF SafeInv
<1> QED
    BY <1>1, <1>2, <1>3 DEF Handler

LEMMA RestartSafe == Restart => SafeInv'
BY DEF Restart, SafeInv, AloneInv, PublishInv, UnpublishInv, ExpandInv, DeleteInv,
   Succeeds, IdleCall

LEMMA NextInv == Inv /\ [Next]_vars => Inv'
<1> SUFFICES ASSUME Inv, [Next]_vars PROVE Inv'
    OBVIOUS
<1>1. TypeInv'
    BY NextType DEF Inv
<1>2. SafeInv'
    <2>1. ASSUME NEW c \in Calls, NewCall(c) PROVE SafeInv'
        BY <2>1, NewCallSafe
    <2>2. ASSUME NEW c \in Calls, Handler(c) PROVE SafeInv'
        BY <2>2, HandlerSafe
    <2>3. ASSUME NEW c \in Calls, NEW d \in Disks, Goroutine(c, d) PROVE SafeInv'
        BY <2>3, GoroutineSafe
    <2>4. ASSUME NEW d \in Disks, Cloud(d) PROVE SafeInv'
        BY <2>4, CloudSafe
    <2>5. CASE Restart
        BY <2>5, RestartSafe
    <2>6. CASE UNCHANGED vars
        BY <2>6 DEF vars, Inv, SafeInv, AloneInv, PublishInv, UnpublishInv, ExpandInv,
                    DeleteInv, OnNode, Succeeds
    <2> QED
        BY <2>1, <2>2, <2>3, <2>4, <2>5, <2>6 DEF Next
<1> QED
    BY <1>1, <1>2 DEF Inv, SafeInv

LEMMA Invariance == Spec => []Inv
BY InitInv, NextInv, PTL DEF Spec

(***************************************************************************)
(* A publish that no other publish, unpublish or delete of its volume      *)
(* overlapped replies with success only when every disk is on the node.    *)
(***************************************************************************)
THEOREM PublishIsSafe == Spec => []PublishedWhenAlone
<1>1. Inv => PublishedWhenAlone
    BY DEF Inv, PublishInv, PublishedWhenAlone, Succeeds
<1> QED
    BY <1>1, Invariance, PTL

(***************************************************************************)
(* An unpublish that nothing overlapped replies with success only when no  *)
(* disk of the volume is left on the node.                                 *)
(***************************************************************************)
THEOREM UnpublishIsSafe == Spec => []UnpublishedWhenAlone
<1>1. Inv => UnpublishedWhenAlone
    BY DEF Inv, UnpublishInv, UnpublishedWhenAlone, Succeeds
<1> QED
    BY <1>1, Invariance, PTL

(***************************************************************************)
(* An expansion replies with success only when every disk has the size     *)
(* that it states, or the cloud ended without effect the very expansion    *)
(* that the call was waiting for; whatever else runs on the volume.        *)
(***************************************************************************)
THEOREM ExpandIsSafe == Spec => []ExpandedToSize
<1>1. Inv => ExpandedToSize
    BY DEF Inv, ExpandInv, ExpandedToSize, Succeeds
<1> QED
    BY <1>1, Invariance, PTL

(***************************************************************************)
(* A deletion replies with success only when every disk is gone for good,  *)
(* whatever else runs on the volume.                                       *)
(***************************************************************************)
THEOREM DeleteIsSafe == Spec => []DeletedIsGone
<1>1. Inv => DeletedIsGone
    BY ConstantFacts DEF Inv, TypeInv, DiskInv, CallInv, DeleteInv, DeletedIsGone, Succeeds, Ops
<1> QED
    BY <1>1, Invariance, PTL
=============================================================================
