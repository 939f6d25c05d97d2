---------------------------- MODULE CbsProvision ----------------------------
(***************************************************************************)
(* Provisioning of CBS disks: CreateVolume of the controller service and   *)
(* the goroutine that it starts for every disk (driver/cbs/controller.go). *)
(*                                                                         *)
(* The orchestrator asks for the volume of a claim until it gets one; it   *)
(* may ask again while an earlier call still runs, and with another        *)
(* topology.  The name of the claim is the ClientToken of CreateDisks, by  *)
(* which the cloud recognises a request that it has seen.  Calls           *)
(* interleave at every request to the cloud.  Tags, project, throughput    *)
(* and the snapshot policy are passed on to the cloud and decide nothing   *)
(* here; they are left out.                                                *)
(***************************************************************************)
EXTENDS Integers, Sequences, FiniteSets, FiniteSetsExt

CONSTANTS
    Claims,      \* names of the volumes asked for
    Requests,    \* what a storage class and a claim may ask for
    Requirements, \* TopologyRequirements: preferred and requisite sequences of zones
    Zones,       \* zones by name ("ap-...")
    ZoneName,    \* the DescribeZones answer: zone id -> zone name
    HomeZone,    \* ctrl.zone, the zone in which the controller runs
    NoZone,      \* the empty string, or a topology without a zone segment
    Quotas,      \* possible DiskConfigSets, as sequences
    Disks,       \* disk ids that the cloud can give; bounds the disks created
    Calls,       \* slots for calls in flight
    GB,          \* bytes in a GB
    Faults       \* "query" (a cloud query fails), "create" (CreateDisks is refused or
                 \* its answer lost), "short" (it gives too few disks), "stuck" (a disk
                 \* never gets ready), "restart" (the process dies)

ZoneRefs == Zones \cup DOMAIN ZoneName
DiskTypes == {"BASIC", "PREMIUM", "SSD"}

ASSUME ConstantsAssumption ==
    /\ GB \in Nat \ {0}
    /\ HomeZone \in Zones
    /\ NoZone \notin ZoneRefs
    /\ ZoneName \in [DOMAIN ZoneName -> Zones]
    /\ \A r \in Requests : /\ r.zone \in ZoneRefs \cup {NoZone}
                          /\ r.devices \in Int /\ r.bytes \in Nat /\ r.snapshot \in BOOLEAN
                          /\ r.validEncrypt \in BOOLEAN
    /\ \A t \in Requirements : /\ t.preferred \in Seq(ZoneRefs \cup {NoZone})
                              /\ t.requisite \in Seq(ZoneRefs \cup {NoZone})
    /\ \A q \in Quotas : q \in Seq([type : DiskTypes, available : BOOLEAN, min : Nat, max : Nat])
    /\ IsFiniteSet(Disks)
    /\ Faults \subseteq {"query", "create", "short", "stuck", "restart"}

VARIABLES
    claim,   \* what each claim asks for
    disk,    \* the cloud's disks
    call,    \* the calls in flight
    worker,  \* createVolume goroutines, by call and disk
    given    \* the volumes that OK replies gave for each claim

vars == <<claim, disk, call, worker, given>>

-----------------------------------------------------------------------------
(* Requests.                                                                *)

\* dmDefaultDevices
MinMapped == 2

\* The checks of CreateVolume on its parameters.
ValidParameters(r) ==
    /\ r.devices > 0
    /\ \/ r.devicemapper = "LVM" /\ r.devices >= MinMapped
       \/ r.devicemapper = "" /\ r.devices = 1

\* Parameters are read in the random order of a Go map, and the last of
\* "paymode" and "cdcid" decides.
ChargeTypes(r) ==
    IF r.prepaid \/ r.cdc
    THEN (IF r.prepaid THEN {"PREPAID"} ELSE {}) \cup (IF r.cdc THEN {"CDCPAID"} ELSE {})
    ELSE {"POSTPAID_BY_HOUR"}

ValidCharge(r, charge) == charge = "PREPAID" => r.validPeriod

FirstZone(topologies) ==
    LET named == {i \in DOMAIN topologies : topologies[i] # NoZone}
    IN  IF named = {} THEN NoZone ELSE topologies[Min(named)]

\* Mutant: only the preferred topologies are looked at.
MutPickZone(t) == FirstZone(t.preferred)

pickAvailabilityZone(t) ==
    IF FirstZone(t.preferred) # NoZone THEN FirstZone(t.preferred)
    ELSE FirstZone(t.requisite)

ChooseZone(r, t) ==
    CASE r.zone # NoZone -> r.zone
      [] r.zone = NoZone /\ pickAvailabilityZone(t) # NoZone -> pickAvailabilityZone(t)
      [] OTHER -> HomeZone

\* Mutant: a zone id is used as it is.
MutConvertZone(z) == z

\* A zone id is converted to a name; what is not an id stays as it is.
ConvertZone(z) == IF z \in DOMAIN ZoneName THEN ZoneName[z] ELSE z

\* volumeCapacity / int64(GB)
SizeOf(r) == r.bytes \div GB

Offered(q, type) == {i \in DOMAIN q : q[i].available /\ q[i].type = type}

\* The basic type if it is offered, else the premium type.
\* The loop stops at the first basic config and keeps the last premium one.
getDiskTypeForDefaultStorageClass(q) ==
    CASE Offered(q, "BASIC") # {} -> Min(Offered(q, "BASIC"))
      [] Offered(q, "BASIC") = {} /\ Offered(q, "PREMIUM") # {} -> Max(Offered(q, "PREMIUM"))
      [] OTHER -> 0

verifyDiskTypeIsSupported(type, q) ==
    IF Offered(q, type) = {} THEN 0 ELSE Min(Offered(q, type))

\* Mutant: the upper limit is not looked at.
MutValidate(r, q) ==
    LET i == IF r.type = "cbs" THEN getDiskTypeForDefaultStorageClass(q)
             ELSE verifyDiskTypeIsSupported(r.type, q)
    IN  IF i # 0 /\ SizeOf(r) >= q[i].min THEN q[i].type ELSE ""

\* The type to create, or "" when none is offered or the size is out of range.
validateDiskTypeAndSize(r, q) ==
    LET i == IF r.type = "cbs" THEN getDiskTypeForDefaultStorageClass(q)
             ELSE verifyDiskTypeIsSupported(r.type, q)
    IN  IF i # 0 /\ SizeOf(r) \in q[i].min .. q[i].max THEN q[i].type ELSE ""

-----------------------------------------------------------------------------
(* State.                                                                   *)

ChargeNames == {"PREPAID", "CDCPAID", "POSTPAID_BY_HOUR"}
Steps == {"zone", "quota", "snapshot", "create", "join", "reply"}

\* A topology is remembered with the disk that was created for it.
DiskRecord ==
    [state : {"absent", "CREATING", "UNATTACHED", "stuck"}, claim : Claims,
     type : DiskTypes, size : Nat, charge : ChargeNames, zone : Zones,
     snapshot : BOOLEAN, topology : Requirements]

CallRecord ==
    [claim : Claims, topology : Requirements, pc : Steps, zone : ZoneRefs,
     charge : ChargeNames, type : DiskTypes \cup {""}, ids : SUBSET Disks,
     resp : {"none", "ok", "err"}]

\* The volume of a reply: its id, and the zone of AccessibleTopology; with it,
\* the topology that the call was made with.
VolumeRecord == [ids : SUBSET Disks, zone : Zones, topology : Requirements]

Idle == [pc |-> "idle"]
Absent == [state |-> "absent"]

(***************************************************************************)
(* Types.  Disks are made in zones given by name, and a goroutine runs     *)
(* only for a disk of the call that started it.                            *)
(***************************************************************************)
TypeOK ==
    /\ claim \in [Claims -> Requests]
    /\ \A d \in Disks : disk[d] = Absent \/ disk[d] \in DiskRecord
    /\ \A c \in Calls : call[c] = Idle \/ call[c] \in CallRecord
    /\ \A c \in Calls, d \in Disks :
          /\ worker[c][d] \in {"none", "poll", "ok", "err"}
          /\ worker[c][d] # "none" => call[c].pc \in {"join", "reply"} /\ d \in call[c].ids
    /\ given \in [Claims -> SUBSET VolumeRecord]

NoWorkers == [d \in Disks |-> "none"]

Init ==
    /\ claim \in [Claims -> Requests]
    /\ disk = [d \in Disks |-> Absent]
    /\ call = [c \in Calls |-> Idle]
    /\ worker = [c \in Calls |-> NoWorkers]
    /\ given = [n \in Claims |-> {}]

-----------------------------------------------------------------------------
(* CreateVolume.                                                            *)

Request(c) == claim[call[c].claim]

Goto(c, s) == call' = [call EXCEPT ![c].pc = s]

Answer(c, resp) == call' = [call EXCEPT ![c].pc = "reply", ![c].resp = resp]

\* The call enters CreateVolume and its parameters are checked.
CreateVolume(c, n, t) ==
    /\ call[c] = Idle
    /\ \E charge \in ChargeTypes(claim[n]) :
          call' = [call EXCEPT ![c] =
                     [claim |-> n, topology |-> t, zone |-> ChooseZone(claim[n], t),
                      charge |-> charge, type |-> "", ids |-> {},
                      pc |-> IF ValidParameters(claim[n]) THEN "zone" ELSE "reply",
                      resp |-> IF ValidParameters(claim[n]) THEN "none" ELSE "err"]]
    /\ UNCHANGED <<claim, disk, worker, given>>

\* DescribeZones is asked only for what is not a zone name; then the prepaid
\* parameters are checked.
CreateZone(c) ==
    /\ call[c].pc = "zone"
    /\ \/ /\ ValidCharge(Request(c), call[c].charge)
          /\ call' = [call EXCEPT ![c].pc = "quota", ![c].zone = ConvertZone(@)]
       \/ /\ \/ ~ ValidCharge(Request(c), call[c].charge)
             \/ "query" \in Faults /\ call[c].zone \notin Zones
          /\ Answer(c, "err")
    /\ UNCHANGED <<claim, disk, worker, given>>

\* validateDiskTypeAndSize asks for the configs on offer; then the encrypt
\* parameter is checked.
CreateQuota(c) ==
    /\ call[c].pc = "quota"
    /\ \/ \E q \in Quotas :
            LET type  == validateDiskTypeAndSize(Request(c), q)
                valid == type # "" /\ Request(c).validEncrypt
            IN  \/ ~ valid /\ Answer(c, "err")
                \/ valid /\ call' = [call EXCEPT ![c].type = type,
                      ![c].pc = IF Request(c).snapshot THEN "snapshot" ELSE "create"]
       \/ "query" \in Faults /\ Answer(c, "err")
    /\ UNCHANGED <<claim, disk, worker, given>>

\* DescribeSnapshots: an error, no such snapshot, or the snapshot.
CreateFromSnapshot(c) ==
    /\ call[c].pc = "snapshot"
    /\ \/ Goto(c, "create")
       \/ "query" \in Faults /\ Answer(c, "err")
    /\ UNCHANGED <<claim, disk, worker, given>>

\* The disks that the cloud has created for the token of claim n.
Ordered(n) == {d \in Disks : disk[d] # Absent /\ disk[d].claim = n}

NewDisk(c) ==
    [state |-> "CREATING", claim |-> call[c].claim, type |-> call[c].type,
     size |-> SizeOf(Request(c)), charge |-> call[c].charge, zone |-> call[c].zone,
     snapshot |-> Request(c).snapshot, topology |-> call[c].topology]

\* Sets of new disks that the cloud may make for a request.
NewOrders(c) ==
    {D \in SUBSET {d \in Disks : disk[d] = Absent} :
        \/ Cardinality(D) = Request(c).devices
        \/ "short" \in Faults /\ Cardinality(D) \in 1 .. Request(c).devices - 1}

\* Mutant: no ClientToken, so that every request makes new disks.
MutOrders(c) == NewOrders(c)

\* A token that the cloud has seen gives the disks made for it before.
Orders(c) == IF Ordered(call[c].claim) # {} THEN {Ordered(call[c].claim)} ELSE NewOrders(c)

\* The cloud carries out CreateDisks with the disks D.
Order(c, D) == disk' = [d \in Disks |-> IF d \in D /\ disk[d] = Absent THEN NewDisk(c) ELSE disk[d]]

Enough(c, D) == Cardinality(D) >= Request(c).devices

\* CreateDisks, and the start of one createVolume goroutine per disk.
CreateDisks(c) ==
    /\ call[c].pc = "create"
    /\ \/ \E D \in Orders(c) :
            /\ Order(c, D)
            /\ \/ /\ Enough(c, D)
                  /\ call' = [call EXCEPT ![c].pc = "join", ![c].ids = D]
                  /\ worker' = [worker EXCEPT ![c] =
                                  [d \in Disks |-> IF d \in D THEN "poll" ELSE "none"]]
               \/ /\ ~ Enough(c, D) \/ "create" \in Faults
                  /\ Answer(c, "err")
                  /\ UNCHANGED worker
       \/ /\ "create" \in Faults
          /\ Answer(c, "err")
          /\ UNCHANGED <<disk, worker>>
    /\ UNCHANGED <<claim, given>>

-----------------------------------------------------------------------------
(* createVolume: polls its disk until it is usable or 100 s have passed.    *)
(* A poll that fails or finds the disk not ready changes nothing.           *)

CreatePoll(c, d) ==
    /\ worker[c][d] = "poll"
    /\ disk[d].state = "UNATTACHED"
    /\ worker' = [worker EXCEPT ![c][d] = "ok"]
    /\ UNCHANGED <<claim, disk, call, given>>

\* Mutant: the deadline starts anew while the disk is not ready.
MutCreateTimeout(c, d) ==
    /\ worker[c][d] = "poll"
    /\ worker' = [worker EXCEPT ![c][d] = IF disk[d].state = "UNATTACHED" THEN "err" ELSE "poll"]
    /\ UNCHANGED <<claim, disk, call, given>>

CreateTimeout(c, d) ==
    /\ worker[c][d] = "poll"
    /\ worker' = [worker EXCEPT ![c][d] = "err"]
    /\ UNCHANGED <<claim, disk, call, given>>

\* Mutant: one goroutine without an error is enough.
MutCreateJoin(c) ==
    /\ call[c].pc = "join"
    /\ \A d \in call[c].ids : worker[c][d] # "poll"
    /\ worker' = [worker EXCEPT ![c] = NoWorkers]
    /\ Answer(c, IF \E d \in call[c].ids : worker[c][d] = "ok" THEN "ok" ELSE "err")
    /\ UNCHANGED <<claim, disk, given>>

\* wg.Wait, and the collected errors.
CreateJoin(c) ==
    /\ call[c].pc = "join"
    /\ \A d \in call[c].ids : worker[c][d] # "poll"
    /\ worker' = [worker EXCEPT ![c] = NoWorkers]
    /\ Answer(c, IF \A d \in call[c].ids : worker[c][d] = "ok" THEN "ok" ELSE "err")
    /\ UNCHANGED <<claim, disk, given>>

\* The reply names the disks, which the token may have made for an earlier
\* call, and the zone that this call has computed.
Reply(c) ==
    /\ call[c].pc = "reply"
    /\ given' = IF call[c].resp = "ok"
                THEN [given EXCEPT ![call[c].claim] = @ \cup
                        {[ids |-> call[c].ids, zone |-> call[c].zone,
                          topology |-> call[c].topology]}]
                ELSE given
    /\ call' = [call EXCEPT ![c] = Idle]
    /\ UNCHANGED <<claim, disk, worker>>

\* The controller process dies with all its calls.
Restart ==
    /\ "restart" \in Faults
    /\ \E c \in Calls : call[c] # Idle
    /\ call' = [c \in Calls |-> Idle]
    /\ worker' = [c \in Calls |-> NoWorkers]
    /\ UNCHANGED <<claim, disk, given>>

-----------------------------------------------------------------------------
(* The cloud finishes a disk, or never does.                                *)

CloudCreates(d) ==
    /\ disk[d].state = "CREATING"
    /\ \E s \in {"UNATTACHED"} \cup (IF "stuck" \in Faults THEN {"stuck"} ELSE {}) :
          disk' = [disk EXCEPT ![d].state = s]
    /\ UNCHANGED <<claim, call, worker, given>>

-----------------------------------------------------------------------------
Goroutine(c, d) == CreatePoll(c, d) \/ CreateTimeout(c, d)

Handler(c) ==
    \/ CreateZone(c)
    \/ CreateQuota(c)
    \/ CreateFromSnapshot(c)
    \/ CreateDisks(c)
    \/ CreateJoin(c)
    \/ Reply(c)

Next ==
    \/ \E c \in Calls, n \in Claims, t \in Requirements : CreateVolume(c, n, t)
    \/ \E c \in Calls : Handler(c)
    \/ \E c \in Calls, d \in Disks : Goroutine(c, d)
    \/ \E d \in Disks : CloudCreates(d)
    \/ Restart

Spec == Init /\ [][Next]_vars

\* The Go runtime runs every goroutine that can run, and the deadline of a
\* goroutine passes.  Nothing is assumed of the cloud.
FairSpec ==
    /\ Spec
    /\ \A c \in Calls : WF_vars(Handler(c))
    /\ \A c \in Calls, d \in Disks : WF_vars(CreateTimeout(c, d))

-----------------------------------------------------------------------------
(* Properties.                                                              *)

(***************************************************************************)
(* However often and however concurrently the volume of a claim is asked   *)
(* for, and whatever answers are lost, the cloud makes no more disks than  *)
(* the claim needs, and every OK reply names the same disks.               *)
(***************************************************************************)
OneVolumePerClaim ==
    \A n \in Claims :
        /\ Ordered(n) # {} => Cardinality(Ordered(n)) <= claim[n].devices
        /\ \A a, b \in given[n] : a.ids = b.ids

(***************************************************************************)
(* An OK reply of CreateVolume names as many disks as the claim needs, all *)
(* of them usable, and made from the snapshot if the claim names one.      *)
(***************************************************************************)
GivenIsUsable ==
    \A n \in Claims : \A a \in given[n] :
        /\ Cardinality(a.ids) = claim[n].devices
        /\ \A d \in a.ids : disk[d].state = "UNATTACHED" /\ disk[d].snapshot = claim[n].snapshot

\* The names of the zones that a class or, if it names none, a topology asks for.
AskedZones(r, t) ==
    LET named == {t.preferred[i] : i \in DOMAIN t.preferred}
                 \cup {t.requisite[i] : i \in DOMAIN t.requisite}
    IN  {ConvertZone(z) : z \in (IF r.zone # NoZone THEN {r.zone} ELSE named \ {NoZone})}

AsAsked(zone, r, t) == AskedZones(r, t) # {} => zone \in AskedZones(r, t)

(***************************************************************************)
(* A disk is made in a zone that its call asked for, an OK reply names a   *)
(* zone that its own call asked for, and the disks are in the zone that    *)
(* the reply names.  The last holds where the class names the zone or the  *)
(* disks were made for the topology of the replying call: a call that is   *)
(* repeated with another topology is given the disks of the first call,    *)
(* and answers with the zone of its own topology.                          *)
(***************************************************************************)
PlacedWhereAsked ==
    /\ \A d \in Disks : disk[d] # Absent =>
          AsAsked(disk[d].zone, claim[disk[d].claim], disk[d].topology)
    /\ \A n \in Claims : \A a \in given[n] :
          /\ AsAsked(a.zone, claim[n], a.topology)
          /\ \A d \in a.ids :
                claim[n].zone # NoZone \/ disk[d].topology = a.topology =>
                    disk[d].zone = a.zone

(***************************************************************************)
(* Every disk has a type and a size that some answer of the cloud offered, *)
(* the type that the claim asked for unless it asked for the default, and  *)
(* is not prepaid for a period that cannot be bought.                      *)
(***************************************************************************)
MadeAsOffered ==
    \A d \in Disks : disk[d] # Absent =>
        LET r == claim[disk[d].claim]
        IN  /\ \E q \in Quotas : \E i \in Offered(q, disk[d].type) :
                  disk[d].size \in q[i].min .. q[i].max
            /\ r.type # "cbs" => disk[d].type = r.type
            /\ disk[d].charge = "PREPAID" => r.validPeriod

(***************************************************************************)
(* Every call of CreateVolume ends, whatever becomes of its disks.         *)
(***************************************************************************)
CallsAreAnswered == \A c \in Calls : call[c] # Idle ~> call[c] = Idle
=============================================================================
