------------------------- MODULE CbsProvisionProofs -------------------------
(***************************************************************************)
(* Proofs about CreateVolume of the CBS controller: for any claims, calls, *)
(* zones, topologies and quotas, the disks of a claim are ordered once and *)
(* as the claim, its topology and the quota said.                          *)
(***************************************************************************)
EXTENDS CbsProvision, FiniteSetTheorems, WellFoundedInduction, TLAPS

WorkerStates == {"none", "poll", "ok", "err"}

StateTypeOK ==
    /\ claim \in [Claims -> Requests]
    /\ disk \in [Disks -> {Absent} \cup DiskRecord]
    /\ call \in [Calls -> {Idle} \cup CallRecord]
    /\ worker \in [Calls -> [Disks -> WorkerStates]]
    /\ given \in [Claims -> SUBSET VolumeRecord]

\* Some answer of the cloud offered the size of request r with this type.
OfferedTo(r, type) ==
    /\ \E q \in Quotas : \E i \in Offered(q, type) : SizeOf(r) \in q[i].min .. q[i].max
    /\ r.type # "cbs" => type = r.type

\* The zone for request r with topology t.
Placed(r, t, zone) == zone = ConvertZone(ChooseZone(r, t))

\* A disk is what its claim asked for and the cloud offered.
DiskOK(k) ==
    /\ Placed(claim[k.claim], k.topology, k.zone)
    /\ OfferedTo(claim[k.claim], k.type)
    /\ k.size = SizeOf(claim[k.claim])
    /\ ValidCharge(claim[k.claim], k.charge)
    /\ k.snapshot = claim[k.claim].snapshot

\* The disks D are all that the cloud has ordered for claim n, and enough.
HasVolume(n, D) ==
    D # {} /\ D = Ordered(n) /\ Cardinality(D) = claim[n].devices

Usable(D) == \A d \in D : disk[d].state = "UNATTACHED"

\* What a call knows, by how far it has come.
CallOK(k) ==
    /\ k.pc # "reply" => ValidParameters(claim[k.claim])
    /\ k.pc = "zone" => k.zone = ChooseZone(claim[k.claim], k.topology)
    /\ k.pc \in {"quota", "snapshot", "create"} => ValidCharge(claim[k.claim], k.charge)
    /\ \/ k.pc \in {"quota", "snapshot", "create", "join"}
       \/ k.pc = "reply" /\ k.resp = "ok"
       => Placed(claim[k.claim], k.topology, k.zone)
    /\ k.pc \in {"snapshot", "create"} => OfferedTo(claim[k.claim], k.type)
    /\ k.pc = "join" => HasVolume(k.claim, k.ids)
    /\ k.pc = "reply" /\ k.resp = "ok" => HasVolume(k.claim, k.ids) /\ Usable(k.ids)

DiskInv == \A d \in Disks : disk[d] # Absent => DiskOK(disk[d])

OrderInv ==
    \A n \in Claims : Ordered(n) # {} => Cardinality(Ordered(n)) <= claim[n].devices

CallInv == \A c \in Calls : call[c] # Idle => CallOK(call[c])

WorkerInv ==
    \A c \in Calls, d \in Disks :
        /\ worker[c][d] # "none" => call[c].pc = "join" /\ d \in call[c].ids
        /\ worker[c][d] = "ok" => disk[d].state = "UNATTACHED"

GivenInv ==
    \A n \in Claims : \A a \in given[n] :
        /\ HasVolume(n, a.ids) /\ Usable(a.ids)
        /\ Placed(claim[n], a.topology, a.zone)

Inv == StateTypeOK /\ DiskInv /\ OrderInv /\ CallInv /\ WorkerInv /\ GivenInv

-----------------------------------------------------------------------------
(* Zones.                                                                   *)

LEMMA LeastOne ==
    ASSUME NEW T \in SUBSET Nat, T # {}
    PROVE  \E i \in T : \A j \in T : i <= j
<1> DEFINE R == OpToRel(<, Nat)
<1>1. IsWellFoundedOn(R, Nat)
  BY NatLessThanWellFounded, Zenon
<1>2. \A i, j \in Nat : j < i => <<j, i>> \in R
  BY DEF OpToRel
<1> HIDE DEF R
<1>3. PICK i \in T : \A j \in T : <<j, i>> \notin R
  BY <1>1, WFMin
<1>4. \A j \in T : j \in Nat /\ i \in Nat /\ ~ j < i
  BY <1>2, <1>3
<1>5. \A j \in T : i <= j
  BY <1>4
<1> QED
  BY <1>5

LEMMA MinFacts ==
    ASSUME NEW T \in SUBSET Nat, T # {}
    PROVE  Min(T) \in T
  BY LeastOne DEF Min

LEMMA MaxFacts ==
    ASSUME NEW n \in Nat, NEW T \in SUBSET (1 .. n), T # {}
    PROVE  Max(T) \in T
<1>1. PICK U : U = {n - i : i \in T}
  OBVIOUS
<1>2. U \in SUBSET Nat /\ U # {}
  <2>1. \A i \in T : n - i \in Nat
    OBVIOUS
  <2>2. \E i \in T : n - i \in U
    BY <1>1
  <2> QED
    BY <1>1, <2>1, <2>2
<1>3. PICK m \in U : \A j \in U : m <= j
  BY <1>2, LeastOne
<1>4. PICK x \in T : m = n - x
  BY <1>1, <1>3
<1>5. \A y \in T : x >= y
  <2>1. \A y \in T : m <= n - y
    BY <1>1, <1>3
  <2> QED
    BY <1>4, <2>1
<1> QED
  BY <1>5 DEF Max

Refs == ZoneRefs \cup {NoZone}

\* FirstZone finds a zone if there is one.
LEMMA FirstZoneFacts ==
    ASSUME NEW s \in Seq(Refs)
    PROVE  /\ FirstZone(s) \in Refs
           /\ (\E i \in DOMAIN s : s[i] # NoZone) <=> FirstZone(s) # NoZone
           /\ FirstZone(s) # NoZone => \E i \in DOMAIN s : FirstZone(s) = s[i]
<1> DEFINE named == {i \in DOMAIN s : s[i] # NoZone}
<1>1. named \in SUBSET Nat /\ named \subseteq DOMAIN s
  OBVIOUS
<1>2. CASE named = {}
  BY <1>2 DEF FirstZone, Refs
<1>3. CASE named # {}
  <2>1. PICK m \in named : m = Min(named)
    BY <1>1, <1>3, MinFacts
  <2>2. FirstZone(s) = s[m]
    BY <1>3, <2>1 DEF FirstZone
  <2>3. m \in DOMAIN s /\ s[m] # NoZone /\ s[m] \in Refs
    OBVIOUS
  <2> QED
    BY <2>2, <2>3
<1> QED
  BY <1>2, <1>3

LEMMA RequirementFacts ==
    ASSUME NEW t \in Requirements
    PROVE  t.preferred \in Seq(Refs) /\ t.requisite \in Seq(Refs)
  BY ConstantsAssumption DEF Refs

LEMMA RequestFacts ==
    ASSUME NEW r \in Requests
    PROVE  /\ r.zone \in Refs /\ r.devices \in Int /\ r.bytes \in Nat
           /\ r.snapshot \in BOOLEAN /\ SizeOf(r) \in Nat
<1>1. r.zone \in Refs /\ r.devices \in Int /\ r.bytes \in Nat /\ r.snapshot \in BOOLEAN
  BY ConstantsAssumption DEF Refs
<1>2. \A b \in Nat : b \div GB \in Nat
  BY ConstantsAssumption
<1> QED
  BY <1>1, <1>2 DEF SizeOf

LEMMA ChooseZoneFacts ==
    ASSUME NEW r \in Requests, NEW t \in Requirements
    PROVE  /\ ChooseZone(r, t) \in ZoneRefs
           /\ ConvertZone(ChooseZone(r, t)) \in Zones
<1>1. FirstZone(t.preferred) \in Refs /\ FirstZone(t.requisite) \in Refs
  BY RequirementFacts, FirstZoneFacts
<1>2. ChooseZone(r, t) \in ZoneRefs
  BY <1>1, RequestFacts, ConstantsAssumption
     DEF ChooseZone, pickAvailabilityZone, Refs, ZoneRefs
<1>3. \A z \in ZoneRefs : ConvertZone(z) \in Zones
  BY ConstantsAssumption DEF ConvertZone, ZoneRefs
<1> QED
  BY <1>2, <1>3

\* The zone that is chosen is one of those that were asked for.
LEMMA ChosenIsAsked ==
    ASSUME NEW r \in Requests, NEW t \in Requirements
    PROVE  AsAsked(ConvertZone(ChooseZone(r, t)), r, t)
<1>1. PICK p \in Seq(Refs) : p = t.preferred
  BY RequirementFacts
<1>2. PICK q \in Seq(Refs) : q = t.requisite
  BY RequirementFacts
<1>3. PICK named : named = {p[i] : i \in DOMAIN p} \cup {q[i] : i \in DOMAIN q}
  OBVIOUS
<1>4. PICK fp, fq \in Refs : fp = FirstZone(p) /\ fq = FirstZone(q)
  BY FirstZoneFacts
<1>5. /\ fp # NoZone => fp \in named
      /\ fq # NoZone => fq \in named
      /\ named \ {NoZone} # {} => fp # NoZone \/ fq # NoZone
  <2>1. /\ (\E i \in DOMAIN p : p[i] # NoZone) <=> fp # NoZone
        /\ fp # NoZone => \E i \in DOMAIN p : fp = p[i]
    BY <1>4, FirstZoneFacts
  <2>2. /\ (\E i \in DOMAIN q : q[i] # NoZone) <=> fq # NoZone
        /\ fq # NoZone => \E i \in DOMAIN q : fq = q[i]
    BY <1>4, FirstZoneFacts
  <2> QED
    BY <1>3, <2>1, <2>2
<1>6. pickAvailabilityZone(t) = IF fp # NoZone THEN fp ELSE fq
  BY <1>1, <1>2, <1>4 DEF pickAvailabilityZone
<1>7. PICK asked : asked = IF r.zone # NoZone THEN {r.zone} ELSE named \ {NoZone}
  OBVIOUS
<1>8. asked # {} => ChooseZone(r, t) \in asked
  BY <1>5, <1>6, <1>7 DEF ChooseZone
<1>9. AskedZones(r, t) = {ConvertZone(z) : z \in asked}
  BY <1>1, <1>2, <1>3, <1>7 DEF AskedZones
<1> QED
  BY <1>8, <1>9 DEF AsAsked

-----------------------------------------------------------------------------
(* Disk types.                                                              *)

LEMMA SequenceFacts ==
    ASSUME NEW S, NEW q \in Seq(S)
    PROVE  Len(q) \in Nat /\ DOMAIN q = 1 .. Len(q) /\ \A i \in DOMAIN q : q[i] \in S
  OBVIOUS

LEMMA OfferedFacts ==
    ASSUME NEW q, Len(q) \in Nat, DOMAIN q = 1 .. Len(q), NEW y
    PROVE  Offered(q, y) \in SUBSET (1 .. Len(q)) /\ Offered(q, y) \in SUBSET Nat
  BY DEF Offered

\* A type that passes validateDiskTypeAndSize was offered with the size.
LEMMA ValidateFacts ==
    ASSUME NEW r \in Requests, NEW q \in Quotas,
           NEW type, type = validateDiskTypeAndSize(r, q), type # ""
    PROVE  type \in DiskTypes /\ OfferedTo(r, type)
<1>1. PICK S : S = [type : DiskTypes, available : BOOLEAN, min : Nat, max : Nat]
  OBVIOUS
<1>2. q \in Seq(S)
  <2>1. \A s \in Quotas : s \in Seq([type : DiskTypes, available : BOOLEAN, min : Nat, max : Nat])
    BY ConstantsAssumption, Zenon
  <2> QED
    BY <1>1, <2>1, Zenon
<1>3. Len(q) \in Nat /\ DOMAIN q = 1 .. Len(q) /\ \A i \in DOMAIN q : q[i] \in S
  BY <1>2, SequenceFacts
<1>4. \A y : Offered(q, y) \in SUBSET (1 .. Len(q)) /\ Offered(q, y) \in SUBSET Nat
  BY <1>3, OfferedFacts
<1>5. /\ \A y : Offered(q, y) # {} => Min(Offered(q, y)) \in Offered(q, y)
      /\ \A y : Offered(q, y) # {} => Max(Offered(q, y)) \in Offered(q, y)
  <2>1. ASSUME NEW y, Offered(q, y) # {} PROVE Min(Offered(q, y)) \in Offered(q, y)
    BY <1>4, <2>1, MinFacts
  <2>2. ASSUME NEW y, Offered(q, y) # {} PROVE Max(Offered(q, y)) \in Offered(q, y)
    BY <1>3, <1>4, <2>2, MaxFacts
  <2> QED
    BY <2>1, <2>2
<1>6. PICK i : i = IF r.type = "cbs" THEN getDiskTypeForDefaultStorageClass(q)
                   ELSE verifyDiskTypeIsSupported(r.type, q)
  OBVIOUS
<1>7. i # 0 /\ SizeOf(r) \in q[i].min .. q[i].max /\ type = q[i].type
  BY <1>6 DEF validateDiskTypeAndSize
<1>8. CASE r.type = "cbs"
  <2>1. i \in Offered(q, "BASIC") \/ i \in Offered(q, "PREMIUM")
    BY <1>5, <1>6, <1>7, <1>8 DEF getDiskTypeForDefaultStorageClass
  <2>2. i \in Offered(q, type) /\ type \in DiskTypes
    BY <1>7, <2>1 DEF Offered, DiskTypes
  <2> QED
    BY <1>7, <1>8, <2>2 DEF OfferedTo
<1>9. CASE r.type # "cbs"
  <2>1. i \in Offered(q, r.type)
    BY <1>5, <1>6, <1>7, <1>9 DEF verifyDiskTypeIsSupported
  <2>2. i \in DOMAIN q /\ q[i].type = r.type /\ i \in Offered(q, type)
    BY <1>7, <2>1 DEF Offered
  <2>3. type \in DiskTypes
    BY <1>1, <1>3, <1>7, <2>2
  <2> QED
    BY <1>7, <2>2, <2>3 DEF OfferedTo
<1> QED
  BY <1>8, <1>9

-----------------------------------------------------------------------------
(* The records.                                                             *)

LEMMA DiskFacts ==
    ASSUME NEW k \in {Absent} \cup DiskRecord
    PROVE  /\ k # Absent => k \in DiskRecord
           /\ k.state \in {"CREATING", "UNATTACHED", "stuck"} => k # Absent
  BY DEF Absent

LEMMA CallFacts ==
    ASSUME NEW k \in {Idle} \cup CallRecord
    PROVE  /\ k # Idle <=> k \in CallRecord
           /\ k.pc \in Steps => k # Idle
           /\ k.pc \in Steps => k \in CallRecord
<1>1. Idle.pc = "idle" /\ "idle" \notin Steps
  BY DEF Idle, Steps
<1>2. ASSUME NEW x \in CallRecord PROVE x.pc \in Steps
  BY DEF CallRecord
<1> QED
  BY <1>1, <1>2

\* A call that is at some step of CreateVolume.
LEMMA AtStep ==
    ASSUME Inv, NEW c \in Calls, call[c].pc \in Steps
    PROVE  /\ call[c] \in CallRecord /\ call[c] # Idle /\ CallOK(call[c])
           /\ claim[call[c].claim] \in Requests
<1>1. call[c] \in CallRecord /\ call[c] # Idle
  BY CallFacts DEF Inv, StateTypeOK
<1>2. CallOK(call[c])
  BY <1>1 DEF Inv, CallInv
<1>3. call[c].claim \in Claims
  BY <1>1 DEF CallRecord
<1> QED
  BY <1>1, <1>2, <1>3 DEF Inv, StateTypeOK

-----------------------------------------------------------------------------
(* What every step does to the disks: those of a claim stay its disks, and  *)
(* usable ones stay usable.                                                 *)

Grows ==
    /\ claim' = claim
    /\ \A n \in Claims : Ordered(n) # {} => Ordered(n)' = Ordered(n)
    /\ \A d \in Disks : disk[d].state = "UNATTACHED" => disk'[d].state = "UNATTACHED"

LEMMA VolumeStays ==
    ASSUME Grows, NEW n \in Claims, NEW D \in SUBSET Disks, HasVolume(n, D)
    PROVE  HasVolume(n, D)' /\ (Usable(D) => Usable(D)')
<1>1. HasVolume(n, D)'
  BY DEF Grows, HasVolume
<1>2. Usable(D) => Usable(D)'
  BY DEF Grows, Usable
<1> QED
  BY <1>1, <1>2

LEMMA CallStays ==
    ASSUME Grows, NEW k \in CallRecord, CallOK(k)
    PROVE  CallOK(k)'
<1>1. k.claim \in Claims /\ k.ids \in SUBSET Disks /\ claim' = claim
  BY DEF CallRecord, Grows
<1>2. k.pc = "join" => HasVolume(k.claim, k.ids)'
  BY <1>1, VolumeStays DEF CallOK
<1>3. k.pc = "reply" /\ k.resp = "ok" => HasVolume(k.claim, k.ids)' /\ Usable(k.ids)'
  BY <1>1, VolumeStays DEF CallOK
<1>4. /\ k.pc # "reply" => ValidParameters(claim'[k.claim])
      /\ k.pc = "zone" => k.zone = ChooseZone(claim'[k.claim], k.topology)
      /\ k.pc \in {"quota", "snapshot", "create"} => ValidCharge(claim'[k.claim], k.charge)
      /\ \/ k.pc \in {"quota", "snapshot", "create", "join"}
         \/ k.pc = "reply" /\ k.resp = "ok"
         => Placed(claim'[k.claim], k.topology, k.zone)
      /\ k.pc \in {"snapshot", "create"} => OfferedTo(claim'[k.claim], k.type)
  BY <1>1 DEF CallOK
<1> QED
  BY <1>2, <1>3, <1>4 DEF CallOK

LEMMA GivenStays ==
    ASSUME StateTypeOK, GivenInv, Grows, given' = given
    PROVE  GivenInv'
<1> SUFFICES ASSUME NEW n \in Claims, NEW a \in given[n]
             PROVE  /\ HasVolume(n, a.ids)' /\ Usable(a.ids)'
                    /\ Placed(claim[n], a.topology, a.zone)'
  BY DEF GivenInv
<1>1. /\ a.ids \in SUBSET Disks /\ HasVolume(n, a.ids) /\ Usable(a.ids)
      /\ Placed(claim[n], a.topology, a.zone)
  BY DEF StateTypeOK, GivenInv, VolumeRecord
<1>2. PICK D \in SUBSET Disks : D = a.ids
  BY <1>1
<1>3. HasVolume(n, D)' /\ Usable(D)'
  BY <1>1, <1>2, VolumeStays
<1>4. Placed(claim[n], a.topology, a.zone)'
  BY <1>1 DEF Placed, Grows
<1> QED
  BY <1>2, <1>3, <1>4 DEF HasVolume, Usable

\* Nothing happens to the disks.
LEMMA SameGrows ==
    ASSUME claim' = claim, disk' = disk
    PROVE  Grows /\ (DiskInv => DiskInv') /\ (OrderInv => OrderInv')
<1>1. Grows
  BY DEF Grows, Ordered
<1>2. DiskInv => DiskInv'
  BY DEF DiskInv, DiskOK
<1>3. OrderInv => OrderInv'
  BY DEF OrderInv, Ordered
<1> QED
  BY <1>1, <1>2, <1>3

\* The call c becomes k, and its goroutines v.
LEMMA CallStep ==
    ASSUME Inv, NEW c \in Calls,
           NEW k \in {Idle} \cup CallRecord, call' = [call EXCEPT ![c] = k],
           NEW v \in [Disks -> WorkerStates], worker' = [worker EXCEPT ![c] = v],
           Grows, disk' \in [Disks -> {Absent} \cup DiskRecord], DiskInv', OrderInv',
           given' \in [Claims -> SUBSET VolumeRecord], GivenInv',
           k # Idle => CallOK(k)',
           \A d \in Disks : v[d] # "none" => k.pc = "join" /\ d \in k.ids,
           \A d \in Disks : v[d] = "ok" => disk'[d].state = "UNATTACHED"
    PROVE  Inv'
<1>1. call \in [Calls -> {Idle} \cup CallRecord] /\ worker \in [Calls -> [Disks -> WorkerStates]]
  BY DEF Inv, StateTypeOK
<1>2. /\ call'[c] = k /\ worker'[c] = v
      /\ \A b \in Calls : b # c => call'[b] = call[b] /\ worker'[b] = worker[b]
  BY <1>1
<1>3. StateTypeOK'
  BY <1>1 DEF Inv, StateTypeOK, Grows
<1>4. ASSUME NEW b \in Calls, call'[b] # Idle PROVE CallOK(call[b])'
  <2>1. CASE b = c
    BY <1>2, <1>4, <2>1 DEF CallOK
  <2>2. CASE b # c
    <3>1. PICK x \in CallRecord : x = call[b] /\ x = call'[b] /\ CallOK(x)
      BY <1>1, <1>2, <1>4, <2>2, CallFacts DEF Inv, CallInv
    <3>2. CallOK(x)'
      BY <3>1, CallStays
    <3> QED
      BY <3>1, <3>2 DEF CallOK
  <2> QED
    BY <2>1, <2>2
<1>5. CallInv'
  BY <1>4 DEF CallInv
<1>6. WorkerInv'
  <2> SUFFICES ASSUME NEW b \in Calls, NEW d \in Disks
               PROVE  /\ worker'[b][d] # "none" => call'[b].pc = "join" /\ d \in call'[b].ids
                      /\ worker'[b][d] = "ok" => disk'[d].state = "UNATTACHED"
    BY DEF WorkerInv
  <2>1. CASE b = c
    BY <1>2, <2>1
  <2>2. CASE b # c
    BY <1>2, <2>2 DEF Inv, WorkerInv, Grows
  <2> QED
    BY <2>1, <2>2
<1> QED
  BY <1>3, <1>5, <1>6 DEF Inv

\* A step of a call before its goroutines run or after they have ended.
LEMMA PlainStep ==
    ASSUME Inv, NEW c \in Calls, call[c].pc # "join",
           NEW k \in {Idle} \cup CallRecord, call' = [call EXCEPT ![c] = k],
           UNCHANGED <<claim, disk, worker, given>>,
           k # Idle => CallOK(k)
    PROVE  Inv'
<1>1. PICK v \in [Disks -> WorkerStates] : v = worker[c]
  BY DEF Inv, StateTypeOK
<1>2. worker' = [worker EXCEPT ![c] = v]
  BY <1>1 DEF Inv, StateTypeOK
<1>3. \A d \in Disks : v[d] = "none"
  BY <1>1 DEF Inv, WorkerInv
<1>4. Grows /\ DiskInv' /\ OrderInv'
  BY SameGrows DEF Inv
<1>5. GivenInv'
  BY <1>4, GivenStays DEF Inv
<1>6. k # Idle => CallOK(k)'
  BY <1>4, CallStays
<1>7. /\ disk' \in [Disks -> {Absent} \cup DiskRecord]
      /\ given' \in [Claims -> SUBSET VolumeRecord]
  BY DEF Inv, StateTypeOK
<1> QED
  BY <1>2, <1>3, <1>4, <1>5, <1>6, <1>7, CallStep

\* A call that gives up answers with an error.
LEMMA ErrorRecord ==
    ASSUME NEW k \in CallRecord, NEW x, x = [k EXCEPT !.pc = "reply", !.resp = "err"]
    PROVE  x \in CallRecord /\ CallOK(x) /\ x.pc = "reply"
<1>1. x \in CallRecord /\ x.pc = "reply" /\ x.resp = "err"
  BY DEF CallRecord, Steps
<1> QED
  BY <1>1 DEF CallOK

LEMMA GivesUp ==
    ASSUME Inv, NEW c \in Calls, call[c].pc \in Steps \ {"join"},
           Answer(c, "err"), UNCHANGED <<claim, disk, worker, given>>
    PROVE  Inv'
<1>1. PICK x : x = [call[c] EXCEPT !.pc = "reply", !.resp = "err"]
  OBVIOUS
<1>2. call' = [call EXCEPT ![c] = x]
  BY <1>1 DEF Answer, Inv, StateTypeOK
<1>3. x \in CallRecord /\ CallOK(x)
  BY <1>1, AtStep, ErrorRecord
<1> QED
  BY <1>2, <1>3, PlainStep

-----------------------------------------------------------------------------
(* CreateVolume, up to the order.                                           *)

LEMMA CreateVolumeKeepsInv ==
    \A c \in Calls, n \in Claims, t \in Requirements : Inv /\ CreateVolume(c, n, t) => Inv'
<1> SUFFICES ASSUME NEW c \in Calls, NEW n \in Claims, NEW t \in Requirements, Inv,
                    CreateVolume(c, n, t)
             PROVE  Inv'
  OBVIOUS
<1>1. PICK r \in Requests : r = claim[n]
  BY DEF Inv, StateTypeOK
<1>2. PICK z \in ZoneRefs : z = ChooseZone(r, t)
  BY ChooseZoneFacts
<1>3. PICK g \in ChargeNames :
         call' = [call EXCEPT ![c] =
                    [claim |-> n, topology |-> t, zone |-> z,
                     charge |-> g, type |-> "", ids |-> {},
                     pc |-> IF ValidParameters(r) THEN "zone" ELSE "reply",
                     resp |-> IF ValidParameters(r) THEN "none" ELSE "err"]]
  <2>1. ChargeTypes(r) \subseteq ChargeNames
    BY DEF ChargeTypes, ChargeNames
  <2> QED
    BY <1>1, <1>2, <2>1 DEF CreateVolume
<1>4. PICK p \in {"zone", "reply"}, s \in {"none", "err"} :
         /\ p = IF ValidParameters(r) THEN "zone" ELSE "reply"
         /\ s = IF ValidParameters(r) THEN "none" ELSE "err"
  OBVIOUS
<1>5. PICK k : k = [claim |-> n, topology |-> t, zone |-> z, charge |-> g, type |-> "",
                    ids |-> {}, pc |-> p, resp |-> s]
  OBVIOUS
<1>6. call' = [call EXCEPT ![c] = k]
  BY <1>3, <1>4, <1>5
<1>7. k \in CallRecord
  BY <1>5 DEF CallRecord, Steps
<1>8. CallOK(k)
  BY <1>1, <1>2, <1>4, <1>5 DEF CallOK
<1>9. call[c].pc # "join" /\ UNCHANGED <<claim, disk, worker, given>>
  <2>1. call[c] = Idle /\ UNCHANGED <<claim, disk, worker, given>>
    BY DEF CreateVolume
  <2> QED
    BY <2>1 DEF Idle
<1> QED
  BY <1>6, <1>7, <1>8, <1>9, PlainStep

LEMMA CreateZoneKeepsInv == \A c \in Calls : Inv /\ CreateZone(c) => Inv'
<1> SUFFICES ASSUME NEW c \in Calls, Inv, CreateZone(c) PROVE Inv'
  OBVIOUS
<1>1. /\ call[c].pc = "zone" /\ call[c].pc \in Steps \ {"join"}
      /\ UNCHANGED <<claim, disk, worker, given>>
  BY DEF CreateZone, Steps
<1>2. CASE Answer(c, "err")
  BY <1>1, <1>2, GivesUp
<1>3. CASE ~ Answer(c, "err")
  <2>1. PICK k \in CallRecord : k = call[c] /\ CallOK(k) /\ k.pc = "zone"
    BY <1>1, AtStep
  <2>2. PICK r \in Requests : r = claim[k.claim]
    BY <1>1, <2>1, AtStep
  <2>3. PICK z \in Zones : z = ConvertZone(k.zone) /\ Placed(r, k.topology, z)
    <3>1. k.topology \in Requirements /\ k.zone = ChooseZone(r, k.topology)
      BY <2>1, <2>2 DEF CallOK, CallRecord
    <3> QED
      BY <3>1, ChooseZoneFacts DEF Placed
  <2>4. /\ ValidCharge(r, k.charge)
        /\ call' = [call EXCEPT ![c].pc = "quota", ![c].zone = z]
    BY <1>3, <2>1, <2>2, <2>3 DEF CreateZone, Request
  <2>5. PICK x : x = [k EXCEPT !.pc = "quota", !.zone = z]
    OBVIOUS
  <2>6. call' = [call EXCEPT ![c] = x]
    BY <2>1, <2>4, <2>5 DEF Inv, StateTypeOK
  <2>7. /\ x \in CallRecord /\ x.pc = "quota" /\ x.zone = z /\ x.claim = k.claim
        /\ x.topology = k.topology /\ x.charge = k.charge
    BY <2>5 DEF CallRecord, Steps, ZoneRefs
  <2>8. CallOK(x)
    BY <2>1, <2>2, <2>3, <2>4, <2>7 DEF CallOK
  <2> QED
    BY <1>1, <2>6, <2>7, <2>8, PlainStep
<1> QED
  BY <1>2, <1>3

LEMMA CreateQuotaKeepsInv == \A c \in Calls : Inv /\ CreateQuota(c) => Inv'
<1> SUFFICES ASSUME NEW c \in Calls, Inv, CreateQuota(c) PROVE Inv'
  OBVIOUS
<1>1. /\ call[c].pc = "quota" /\ call[c].pc \in Steps \ {"join"}
      /\ UNCHANGED <<claim, disk, worker, given>>
  BY DEF CreateQuota, Steps
<1>2. CASE Answer(c, "err")
  BY <1>1, <1>2, GivesUp
<1>3. CASE ~ Answer(c, "err")
  <2>1. PICK k \in CallRecord : k = call[c] /\ CallOK(k) /\ k.pc = "quota"
    BY <1>1, AtStep
  <2>2. PICK r \in Requests : r = claim[k.claim]
    BY <1>1, <2>1, AtStep
  <2>3. PICK y \in DiskTypes, p \in {"snapshot", "create"} :
           OfferedTo(r, y) /\ call' = [call EXCEPT ![c].type = y, ![c].pc = p]
    <3>1. PICK q \in Quotas :
             LET type == validateDiskTypeAndSize(r, q)
             IN  type # "" /\ call' = [call EXCEPT ![c].type = type,
                      ![c].pc = IF r.snapshot THEN "snapshot" ELSE "create"]
      BY <1>3, <2>1, <2>2 DEF CreateQuota, Request
    <3>2. PICK y : y = validateDiskTypeAndSize(r, q) /\ y # ""
      BY <3>1
    <3>3. y \in DiskTypes /\ OfferedTo(r, y)
      BY <3>2, ValidateFacts
    <3>4. PICK p \in {"snapshot", "create"} : p = IF r.snapshot THEN "snapshot" ELSE "create"
      OBVIOUS
    <3>5. call' = [call EXCEPT ![c].type = y, ![c].pc = p]
      BY <3>1, <3>2, <3>4
    <3> QED
      BY <3>3, <3>5
  <2>4. PICK x : x = [k EXCEPT !.type = y, !.pc = p]
    OBVIOUS
  <2>5. call' = [call EXCEPT ![c] = x]
    BY <2>1, <2>3, <2>4 DEF Inv, StateTypeOK
  <2>6. /\ x \in CallRecord /\ x.pc \in {"snapshot", "create"} /\ x.type = y
        /\ x.zone = k.zone /\ x.claim = k.claim
        /\ x.topology = k.topology /\ x.charge = k.charge
    BY <2>4 DEF CallRecord, Steps
  <2>7. CallOK(x)
    BY <2>1, <2>2, <2>3, <2>6 DEF CallOK
  <2> QED
    BY <1>1, <2>5, <2>6, <2>7, PlainStep
<1> QED
  BY <1>2, <1>3

LEMMA CreateFromSnapshotKeepsInv == \A c \in Calls : Inv /\ CreateFromSnapshot(c) => Inv'
<1> SUFFICES ASSUME NEW c \in Calls, Inv, CreateFromSnapshot(c) PROVE Inv'
  OBVIOUS
<1>1. /\ call[c].pc = "snapshot" /\ call[c].pc \in Steps \ {"join"}
      /\ UNCHANGED <<claim, disk, worker, given>>
  BY DEF CreateFromSnapshot, Steps
<1>2. CASE Answer(c, "err")
  BY <1>1, <1>2, GivesUp
<1>3. CASE Goto(c, "create")
  <2>1. PICK k \in CallRecord : k = call[c] /\ CallOK(k) /\ k.pc = "snapshot"
    BY <1>1, AtStep
  <2>2. PICK x : x = [k EXCEPT !.pc = "create"]
    OBVIOUS
  <2>3. call' = [call EXCEPT ![c] = x]
    BY <1>3, <2>1, <2>2 DEF Goto, Inv, StateTypeOK
  <2>4. /\ x \in CallRecord /\ x.pc = "create" /\ x.type = k.type
        /\ x.zone = k.zone /\ x.claim = k.claim
        /\ x.topology = k.topology /\ x.charge = k.charge
    BY <2>2 DEF CallRecord, Steps
  <2>5. CallOK(x)
    BY <2>1, <2>4 DEF CallOK
  <2> QED
    BY <1>1, <2>3, <2>4, <2>5, PlainStep
<1> QED
  BY <1>2, <1>3 DEF CreateFromSnapshot

-----------------------------------------------------------------------------
(* The goroutines and the answer.                                           *)

LEMMA GoroutineKeepsInv ==
    \A c \in Calls, d \in Disks : Inv /\ Goroutine(c, d) => Inv'
<1> SUFFICES ASSUME NEW c \in Calls, NEW d \in Disks, Inv, Goroutine(c, d) PROVE Inv'
  OBVIOUS
<1>1. /\ worker[c][d] = "poll" /\ UNCHANGED <<claim, disk, call, given>>
      /\ worker \in [Calls -> [Disks -> WorkerStates]]
  BY DEF Goroutine, CreatePoll, CreateTimeout, Inv, StateTypeOK
<1>2. PICK w \in WorkerStates : /\ worker' = [worker EXCEPT ![c][d] = w]
                                /\ w = "ok" => disk[d].state = "UNATTACHED"
  BY DEF Goroutine, CreatePoll, CreateTimeout, WorkerStates
<1>3. PICK v \in [Disks -> WorkerStates] : v = [worker[c] EXCEPT ![d] = w]
  BY <1>1
<1>4. worker' = [worker EXCEPT ![c] = v]
  BY <1>1, <1>2, <1>3
<1>5. PICK k \in {Idle} \cup CallRecord : k = call[c]
  BY DEF Inv, StateTypeOK
<1>6. call' = [call EXCEPT ![c] = k]
  BY <1>1, <1>5 DEF Inv, StateTypeOK
<1>7. Grows /\ DiskInv' /\ OrderInv'
  BY <1>1, SameGrows DEF Inv
<1>8. GivenInv'
  BY <1>1, <1>7, GivenStays DEF Inv
<1>9. k # Idle => CallOK(k)'
  BY <1>5, <1>7, CallStays DEF Inv, CallInv
<1>10. \A e \in Disks : v[e] # "none" => k.pc = "join" /\ e \in k.ids
  BY <1>1, <1>3, <1>5 DEF Inv, WorkerInv
<1>11. \A e \in Disks : v[e] = "ok" => disk'[e].state = "UNATTACHED"
  BY <1>1, <1>2, <1>3 DEF Inv, WorkerInv
<1>12. /\ disk' \in [Disks -> {Absent} \cup DiskRecord]
       /\ given' \in [Claims -> SUBSET VolumeRecord]
  BY <1>1 DEF Inv, StateTypeOK
<1> QED
  BY <1>4, <1>6, <1>7, <1>8, <1>9, <1>10, <1>11, <1>12, CallStep

LEMMA NoWorkersFacts ==
    NoWorkers \in [Disks -> WorkerStates] /\ \A d \in Disks : NoWorkers[d] = "none"
  BY DEF NoWorkers, WorkerStates

LEMMA CreateJoinKeepsInv == \A c \in Calls : Inv /\ CreateJoin(c) => Inv'
<1> SUFFICES ASSUME NEW c \in Calls, Inv, CreateJoin(c) PROVE Inv'
  OBVIOUS
<1>1. /\ call[c].pc = "join" /\ call[c].pc \in Steps
      /\ UNCHANGED <<claim, disk, given>> /\ worker' = [worker EXCEPT ![c] = NoWorkers]
  BY DEF CreateJoin, Steps
<1>2. PICK k \in CallRecord : k = call[c] /\ CallOK(k) /\ k.pc = "join"
  BY <1>1, AtStep
<1>3. PICK s \in {"ok", "err"} : /\ Answer(c, s)
                                 /\ s = "ok" => \A d \in k.ids : worker[c][d] = "ok"
  BY <1>2 DEF CreateJoin
<1>4. PICK x : x = [k EXCEPT !.pc = "reply", !.resp = s]
  OBVIOUS
<1>5. call' = [call EXCEPT ![c] = x]
  BY <1>2, <1>3, <1>4 DEF Answer, Inv, StateTypeOK
<1>6. /\ x \in CallRecord /\ x.pc = "reply" /\ x.resp = s
      /\ x.claim = k.claim /\ x.ids = k.ids
      /\ x.topology = k.topology /\ x.zone = k.zone
  BY <1>4 DEF CallRecord, Steps
<1>7. /\ k.ids \subseteq Disks /\ HasVolume(k.claim, k.ids)
      /\ Placed(claim[k.claim], k.topology, k.zone)
  BY <1>2 DEF CallOK, CallRecord
<1>8. s = "ok" => Usable(k.ids)
  BY <1>3, <1>7 DEF Inv, WorkerInv, Usable
<1>9. CallOK(x)
  BY <1>6, <1>7, <1>8 DEF CallOK
<1>10. Grows /\ DiskInv' /\ OrderInv'
  BY <1>1, SameGrows DEF Inv
<1>11. GivenInv'
  BY <1>1, <1>10, GivenStays DEF Inv
<1>12. CallOK(x)'
  BY <1>6, <1>9, <1>10, CallStays
<1>13. /\ disk' \in [Disks -> {Absent} \cup DiskRecord]
       /\ given' \in [Claims -> SUBSET VolumeRecord]
  BY <1>1 DEF Inv, StateTypeOK
<1> QED
  BY <1>1, <1>5, <1>6, <1>10, <1>11, <1>12, <1>13, NoWorkersFacts, CallStep

LEMMA ReplyKeepsInv == \A c \in Calls : Inv /\ Reply(c) => Inv'
<1> SUFFICES ASSUME NEW c \in Calls, Inv, Reply(c) PROVE Inv'
  OBVIOUS
<1>1. /\ call[c].pc = "reply" /\ call[c].pc \in Steps
      /\ UNCHANGED <<claim, disk, worker>> /\ call' = [call EXCEPT ![c] = Idle]
  BY DEF Reply, Steps
<1>2. PICK k \in CallRecord : k = call[c] /\ CallOK(k) /\ k.pc = "reply"
  BY <1>1, AtStep
<1>3. /\ k.claim \in Claims /\ k.ids \in SUBSET Disks
      /\ k.topology \in Requirements /\ claim[k.claim] \in Requests
  BY <1>1, <1>2, AtStep DEF CallRecord
<1>4. given \in [Claims -> SUBSET VolumeRecord]
  BY DEF Inv, StateTypeOK
<1>5. Grows /\ DiskInv' /\ OrderInv'
  BY <1>1, SameGrows DEF Inv
<1>6. PICK a : a = [ids |-> k.ids, zone |-> k.zone, topology |-> k.topology]
  OBVIOUS
<1>7. \/ given' = given
      \/ k.resp = "ok" /\ given' = [given EXCEPT ![k.claim] = given[k.claim] \cup {a}]
  BY <1>2, <1>6 DEF Reply
<1>8. k.resp = "ok" => Placed(claim[k.claim], k.topology, k.zone) /\ a \in VolumeRecord
  <2>1. k.resp = "ok" => Placed(claim[k.claim], k.topology, k.zone)
    BY <1>2 DEF CallOK
  <2>2. Placed(claim[k.claim], k.topology, k.zone) => k.zone \in Zones
    BY <1>3, ChooseZoneFacts DEF Placed
  <2> QED
    BY <1>3, <1>6, <2>1, <2>2 DEF VolumeRecord
<1>14. given' \in [Claims -> SUBSET VolumeRecord]
  BY <1>3, <1>4, <1>7, <1>8
<1>9. GivenInv'
  <2> SUFFICES ASSUME NEW n \in Claims, NEW b \in given'[n]
               PROVE  /\ HasVolume(n, b.ids)' /\ Usable(b.ids)'
                      /\ Placed(claim[n], b.topology, b.zone)'
    BY DEF GivenInv
  <2>1. PICK D \in SUBSET Disks : D = b.ids
    BY <1>14 DEF VolumeRecord
  <2>2. HasVolume(n, D) /\ Usable(D) /\ Placed(claim[n], b.topology, b.zone)
    <3>1. CASE b \in given[n]
      BY <2>1, <3>1 DEF Inv, GivenInv
    <3>2. CASE b \notin given[n]
      <4>1. n = k.claim /\ b = a /\ k.resp = "ok"
        BY <1>3, <1>4, <1>7, <3>2
      <4>2. b.ids = k.ids /\ b.zone = k.zone /\ b.topology = k.topology
        BY <1>6, <4>1
      <4> QED
        BY <1>2, <1>8, <2>1, <4>1, <4>2 DEF CallOK
    <3> QED
      BY <3>1, <3>2
  <2>3. HasVolume(n, D)' /\ Usable(D)'
    BY <1>5, <2>2, VolumeStays
  <2>4. Placed(claim[n], b.topology, b.zone)'
    BY <1>1, <2>2 DEF Placed
  <2> QED
    BY <2>1, <2>3, <2>4 DEF HasVolume, Usable
<1>10. PICK v \in [Disks -> WorkerStates] : v = worker[c] /\ \A d \in Disks : v[d] = "none"
  BY <1>1 DEF Inv, StateTypeOK, WorkerInv
<1>11. worker' = [worker EXCEPT ![c] = v]
  BY <1>1, <1>10 DEF Inv, StateTypeOK
<1>12. disk' \in [Disks -> {Absent} \cup DiskRecord]
  BY <1>1 DEF Inv, StateTypeOK
<1>13. PICK i \in {Idle} \cup CallRecord : i = Idle /\ call' = [call EXCEPT ![c] = i]
  BY <1>1
<1> QED
  BY <1>5, <1>9, <1>10, <1>11, <1>12, <1>13, <1>14, CallStep

\* The process dies: the disks stay, and no call is left.
LEMMA RestartKeepsInv == Inv /\ Restart => Inv'
<1> SUFFICES ASSUME Inv, Restart PROVE Inv'
  OBVIOUS
<1>1. /\ UNCHANGED <<claim, disk, given>>
      /\ call' = [c \in Calls |-> Idle] /\ worker' = [c \in Calls |-> NoWorkers]
  BY DEF Restart
<1>2. Grows /\ DiskInv' /\ OrderInv'
  BY <1>1, SameGrows DEF Inv
<1>3. GivenInv'
  BY <1>1, <1>2, GivenStays DEF Inv
<1>4. StateTypeOK'
  BY <1>1, NoWorkersFacts DEF Inv, StateTypeOK
<1>5. CallInv'
  BY <1>1 DEF CallInv
<1>6. WorkerInv'
  <2>1. \A c \in Calls, d \in Disks : worker'[c][d] = "none"
    BY <1>1, NoWorkersFacts
  <2> QED
    BY <2>1 DEF WorkerInv
<1> QED
  BY <1>2, <1>3, <1>4, <1>5, <1>6 DEF Inv

-----------------------------------------------------------------------------
(* The cloud.                                                               *)

\* A step that changes only the disks.
LEMMA DiskStep ==
    ASSUME Inv, UNCHANGED <<call, worker, given>>, Grows,
           disk' \in [Disks -> {Absent} \cup DiskRecord], DiskInv', OrderInv'
    PROVE  Inv'
<1>1. GivenInv'
  BY GivenStays DEF Inv
<1>2. StateTypeOK'
  BY DEF Inv, StateTypeOK, Grows
<1>3. CallInv'
  <2> SUFFICES ASSUME NEW c \in Calls, call[c] # Idle PROVE CallOK(call[c])'
    BY DEF CallInv
  <2>1. PICK k \in CallRecord : k = call[c] /\ CallOK(k)
    BY CallFacts DEF Inv, StateTypeOK, CallInv
  <2>2. CallOK(k)'
    BY <2>1, CallStays
  <2> QED
    BY <2>1, <2>2 DEF CallOK
<1>4. WorkerInv'
  BY DEF Inv, WorkerInv, Grows
<1> QED
  BY <1>1, <1>2, <1>3, <1>4 DEF Inv

LEMMA CloudCreatesKeepsInv == \A d \in Disks : Inv /\ CloudCreates(d) => Inv'
<1> SUFFICES ASSUME NEW d \in Disks, Inv, CloudCreates(d) PROVE Inv'
  OBVIOUS
<1>1. /\ disk[d].state = "CREATING" /\ disk \in [Disks -> {Absent} \cup DiskRecord]
      /\ UNCHANGED <<claim, call, worker, given>>
  BY DEF CloudCreates, Inv, StateTypeOK
<1>2. PICK s \in {"UNATTACHED", "stuck"} : disk' = [disk EXCEPT ![d].state = s]
  BY DEF CloudCreates
<1>3. PICK k \in DiskRecord : k = disk[d] /\ k # Absent
  BY <1>1, DiskFacts
<1>4. PICK x : x = [k EXCEPT !.state = s]
  OBVIOUS
<1>5. /\ x \in DiskRecord /\ x.state = s
      /\ x.claim = k.claim /\ x.topology = k.topology /\ x.zone = k.zone /\ x.type = k.type
      /\ x.size = k.size /\ x.charge = k.charge /\ x.snapshot = k.snapshot
  BY <1>4 DEF DiskRecord
<1>6. x # Absent
  BY <1>5, DiskFacts
<1>7. disk' = [disk EXCEPT ![d] = x]
  BY <1>1, <1>2, <1>3, <1>4
<1>8. disk' \in [Disks -> {Absent} \cup DiskRecord] /\ disk'[d] = x
      /\ \A e \in Disks : e # d => disk'[e] = disk[e]
  BY <1>1, <1>5, <1>7
<1>9. \A n \in Claims : Ordered(n)' = Ordered(n)
  BY <1>3, <1>5, <1>6, <1>8 DEF Ordered
<1>10. Grows
  BY <1>1, <1>8, <1>9 DEF Grows
<1>11. DiskInv'
  <2>1. DiskOK(k)
    BY <1>3 DEF Inv, DiskInv
  <2>2. DiskOK(x)
    BY <1>5, <2>1 DEF DiskOK
  <2>3. \A e \in Disks : disk'[e] # Absent => DiskOK(disk'[e])
    BY <1>8, <2>2 DEF Inv, DiskInv
  <2> QED
    BY <1>1, <2>3 DEF DiskInv, DiskOK
<1>12. OrderInv'
  BY <1>1, <1>9 DEF Inv, OrderInv
<1> QED
  BY <1>1, <1>8, <1>10, <1>11, <1>12, DiskStep

LEMMA OfferedType ==
    ASSUME NEW r, NEW y, OfferedTo(r, y)
    PROVE  y \in DiskTypes
<1>1. PICK S : S = [type : DiskTypes, available : BOOLEAN, min : Nat, max : Nat]
  OBVIOUS
<1>2. \A s \in Quotas : s \in Seq(S)
  <2>1. \A s \in Quotas : s \in Seq([type : DiskTypes, available : BOOLEAN, min : Nat, max : Nat])
    BY ConstantsAssumption, Zenon
  <2> QED
    BY <1>1, <2>1, Zenon
<1>3. PICK q \in Quotas : \E i \in Offered(q, y) : TRUE
  BY DEF OfferedTo
<1>4. PICK i \in DOMAIN q : q[i].type = y
  BY <1>3 DEF Offered
<1>5. q[i] \in S
  BY <1>2, SequenceFacts
<1> QED
  BY <1>1, <1>4, <1>5

\* The disk that the cloud makes for a call is what its claim asked for.
LEMMA NewDiskFacts ==
    ASSUME Inv, NEW c \in Calls, call[c].pc = "create"
    PROVE  /\ NewDisk(c) \in DiskRecord /\ NewDisk(c) # Absent /\ DiskOK(NewDisk(c))
           /\ NewDisk(c).claim = call[c].claim
<1>1. PICK k \in CallRecord : k = call[c] /\ CallOK(k) /\ k.pc = "create"
  BY AtStep DEF Steps
<1>2. k.claim \in Claims /\ k.topology \in Requirements /\ k.charge \in ChargeNames
  BY <1>1 DEF CallRecord
<1>3. PICK r \in Requests : r = claim[k.claim]
  BY <1>2 DEF Inv, StateTypeOK
<1>4. /\ Placed(r, k.topology, k.zone) /\ ValidCharge(r, k.charge) /\ OfferedTo(r, k.type)
  BY <1>1, <1>3 DEF CallOK
<1>5. PICK z \in Zones : z = k.zone
  BY <1>2, <1>4, ChooseZoneFacts DEF Placed
<1>6. PICK y \in DiskTypes : y = k.type
  BY <1>4, OfferedType
<1>7. PICK m \in Nat, b \in BOOLEAN : m = SizeOf(r) /\ b = r.snapshot
  BY RequestFacts
<1>8. PICK x : x = [state |-> "CREATING", claim |-> k.claim, type |-> y, size |-> m,
                    charge |-> k.charge, zone |-> z, snapshot |-> b, topology |-> k.topology]
  OBVIOUS
<1>9. x = NewDisk(c)
  BY <1>1, <1>3, <1>5, <1>6, <1>7, <1>8 DEF NewDisk, Request
<1>10. x \in DiskRecord /\ x.state = "CREATING" /\ x.claim = k.claim
  BY <1>2, <1>8 DEF DiskRecord
<1>11. x # Absent
  BY <1>10, DiskFacts
<1>12. DiskOK(x)
  BY <1>3, <1>4, <1>5, <1>6, <1>7, <1>8 DEF DiskOK
<1> QED
  BY <1>1, <1>9, <1>10, <1>11, <1>12

\* The cloud carries out an order: afterwards the disks of the order are those of
\* the claim, and not too many.
LEMMA OrderStep ==
    ASSUME Inv, NEW c \in Calls, call[c].pc = "create", claim' = claim,
           NEW n \in Claims, n = call[c].claim, NEW D \in Orders(c), Order(c, D)
    PROVE  /\ Grows /\ disk' \in [Disks -> {Absent} \cup DiskRecord] /\ DiskInv' /\ OrderInv'
           /\ D \in SUBSET Disks /\ D # {}
           /\ D = Ordered(n)'
           /\ Cardinality(D) \in Nat
           /\ Cardinality(D) <= claim[n].devices
<1>1. PICK r \in Requests : r = claim[n] /\ r = Request(c)
  BY DEF Inv, StateTypeOK, Request
<1>2. PICK m \in Int : m = r.devices /\ m > 0
  <2>1. CallOK(call[c])
    BY AtStep DEF Steps
  <2>2. ValidParameters(r)
    BY <1>1, <2>1 DEF CallOK
  <2> QED
    BY <2>2, RequestFacts DEF ValidParameters
<1>3. disk \in [Disks -> {Absent} \cup DiskRecord]
  BY DEF Inv, StateTypeOK
<1>4. \A E \in SUBSET Disks : IsFiniteSet(E) /\ Cardinality(E) \in Nat
  BY ConstantsAssumption, FS_Subset, FS_CardinalityType
<1>5. CASE Ordered(n) # {}
  <2>1. D = Ordered(n)
    BY <1>5 DEF Orders
  <2>2. D \subseteq Disks /\ \A d \in D : disk[d] # Absent
    BY <2>1 DEF Ordered
  <2>3. disk' = disk
    <3>1. disk' = [d \in Disks |-> disk[d]]
      BY <2>2 DEF Order
    <3> QED
      BY <1>3, <3>1
  <2>4. Grows /\ DiskInv' /\ OrderInv'
    BY <2>3, SameGrows DEF Inv
  <2>5. Ordered(n)' = D
    BY <2>1, <2>3 DEF Ordered
  <2>6. Cardinality(D) <= m
    BY <1>1, <1>2, <1>5, <2>1 DEF Inv, OrderInv
  <2> QED
    BY <1>1, <1>2, <1>3, <1>4, <1>5, <2>1, <2>2, <2>3, <2>4, <2>5, <2>6
<1>6. CASE Ordered(n) = {}
  <2>1. D \in NewOrders(c)
    BY <1>6 DEF Orders
  <2>2. D \in SUBSET Disks /\ \A d \in D : disk[d] = Absent
    BY <2>1 DEF NewOrders
  <2>3. Cardinality(D) \in Nat /\ Cardinality(D) > 0 /\ Cardinality(D) <= m
    <3>1. Cardinality(D) = m \/ Cardinality(D) \in 1 .. m - 1
      BY <1>1, <1>2, <2>1 DEF NewOrders
    <3> QED
      BY <1>2, <1>4, <2>2, <3>1
  <2>4. D # {}
    BY <2>3, FS_EmptySet
  <2>5. PICK x \in DiskRecord : x = NewDisk(c) /\ x # Absent /\ DiskOK(x) /\ x.claim = n
    BY NewDiskFacts
  <2>6. /\ \A d \in D : disk'[d] = x
        /\ \A d \in Disks : d \notin D => disk'[d] = disk[d]
        /\ disk' \in [Disks -> {Absent} \cup DiskRecord]
    BY <1>3, <2>2, <2>5 DEF Order
  <2>7. Ordered(n)' = D
    BY <1>6, <2>2, <2>5, <2>6 DEF Ordered
  <2>8. \A j \in Claims : j # n => Ordered(j)' = Ordered(j)
    BY <2>2, <2>5, <2>6 DEF Ordered
  <2>9. Grows
    <3>1. \A d \in Disks : disk[d].state = "UNATTACHED" => d \notin D
      BY <2>2 DEF Absent
    <3> QED
      BY <1>6, <2>6, <2>8, <3>1 DEF Grows
  <2>10. DiskInv'
    <3>1. \A d \in Disks : disk'[d] # Absent => DiskOK(disk'[d])
      BY <2>5, <2>6 DEF Inv, DiskInv
    <3> QED
      BY <3>1 DEF DiskInv, DiskOK
  <2>11. OrderInv'
    <3> SUFFICES ASSUME NEW j \in Claims, Ordered(j)' # {}
                 PROVE  Cardinality(Ordered(j)') <= claim[j].devices
      BY DEF OrderInv
    <3>1. CASE j = n
      BY <1>1, <1>2, <2>3, <2>7, <3>1
    <3>2. CASE j # n
      BY <2>8, <3>2 DEF Inv, OrderInv
    <3> QED
      BY <3>1, <3>2
  <2> QED
    BY <1>1, <1>2, <2>2, <2>3, <2>4, <2>6, <2>7, <2>9, <2>10, <2>11
<1> QED
  BY <1>5, <1>6

LEMMA CreateDisksKeepsInv == \A c \in Calls : Inv /\ CreateDisks(c) => Inv'
<1> SUFFICES ASSUME NEW c \in Calls, Inv, CreateDisks(c) PROVE Inv'
  OBVIOUS
<1>1. /\ call[c].pc = "create" /\ call[c].pc \in Steps \ {"join"}
      /\ claim' = claim /\ given' = given
  BY DEF CreateDisks, Steps
<1>2. CASE Answer(c, "err") /\ UNCHANGED <<disk, worker>>
  BY <1>1, <1>2, GivesUp
<1>3. CASE ~ (Answer(c, "err") /\ UNCHANGED <<disk, worker>>)
  <2>1. PICK D \in Orders(c) :
           /\ Order(c, D)
           /\ \/ /\ Enough(c, D)
                 /\ call' = [call EXCEPT ![c].pc = "join", ![c].ids = D]
                 /\ worker' = [worker EXCEPT ![c] =
                                 [d \in Disks |-> IF d \in D THEN "poll" ELSE "none"]]
              \/ Answer(c, "err") /\ worker' = worker
    BY <1>3 DEF CreateDisks
  <2>2. PICK k \in CallRecord : k = call[c] /\ CallOK(k) /\ k.pc = "create"
    BY <1>1, AtStep
  <2>3. PICK n \in Claims : n = k.claim /\ n = call[c].claim
    BY <2>2 DEF CallRecord
  <2>4. /\ Grows /\ disk' \in [Disks -> {Absent} \cup DiskRecord] /\ DiskInv' /\ OrderInv'
        /\ D \in SUBSET Disks /\ D # {} /\ D = Ordered(n)'
        /\ Cardinality(D) \in Nat
        /\ Cardinality(D) <= claim[n].devices
    BY <1>1, <2>1, <2>3, OrderStep
  <2>5. GivenInv' /\ given' \in [Claims -> SUBSET VolumeRecord]
    BY <1>1, <2>4, GivenStays DEF Inv, StateTypeOK
  <2>6. CASE Answer(c, "err") /\ worker' = worker
    <3>1. PICK x : x = [k EXCEPT !.pc = "reply", !.resp = "err"]
      OBVIOUS
    <3>2. call' = [call EXCEPT ![c] = x]
      BY <2>2, <2>6, <3>1 DEF Answer, Inv, StateTypeOK
    <3>3. x \in CallRecord /\ CallOK(x)
      BY <3>1, ErrorRecord
    <3>4. CallOK(x)'
      BY <2>4, <3>3, CallStays
    <3>5. PICK v \in [Disks -> WorkerStates] : v = worker[c] /\ \A d \in Disks : v[d] = "none"
      BY <1>1 DEF Inv, StateTypeOK, WorkerInv
    <3>6. worker' = [worker EXCEPT ![c] = v]
      BY <2>6, <3>5 DEF Inv, StateTypeOK
    <3> QED
      BY <2>4, <2>5, <3>2, <3>3, <3>4, <3>5, <3>6, CallStep
  <2>7. CASE /\ Enough(c, D)
             /\ call' = [call EXCEPT ![c].pc = "join", ![c].ids = D]
             /\ worker' = [worker EXCEPT ![c] =
                             [d \in Disks |-> IF d \in D THEN "poll" ELSE "none"]]
    <3>1. PICK x : x = [k EXCEPT !.pc = "join", !.ids = D]
      OBVIOUS
    <3>2. call' = [call EXCEPT ![c] = x]
      BY <2>2, <2>7, <3>1 DEF Inv, StateTypeOK
    <3>3. /\ x \in CallRecord /\ x.pc = "join" /\ x.ids = D /\ x.claim = k.claim
          /\ x.topology = k.topology /\ x.zone = k.zone
      BY <2>4, <3>1 DEF CallRecord, Steps
    <3>4. PICK r \in Requests : r = claim[n] /\ r = Request(c) /\ r = claim'[n]
      BY <1>1, <2>3 DEF Inv, StateTypeOK, Request
    <3>5. Cardinality(D) = r.devices
      <4>1. r.devices \in Int
        BY RequestFacts
      <4>2. Cardinality(D) >= r.devices /\ Cardinality(D) <= r.devices
        BY <2>4, <2>7, <3>4 DEF Enough
      <4> QED
        BY <2>4, <4>1, <4>2
    <3>6. HasVolume(n, D)'
      BY <2>4, <3>4, <3>5 DEF HasVolume
    <3>7. ValidParameters(claim'[n]) /\ Placed(claim'[n], k.topology, k.zone)
      BY <2>2, <2>3, <3>4 DEF CallOK
    <3>8. CallOK(x)'
      BY <2>3, <3>3, <3>6, <3>7 DEF CallOK
    <3>9. PICK v \in [Disks -> WorkerStates] :
              v = [d \in Disks |-> IF d \in D THEN "poll" ELSE "none"]
      BY DEF WorkerStates
    <3>10. \A d \in Disks : /\ v[d] # "none" => x.pc = "join" /\ d \in x.ids
                            /\ v[d] # "ok"
      BY <3>3, <3>9
    <3>11. worker' = [worker EXCEPT ![c] = v]
      BY <2>7, <3>9
    <3> QED
      BY <2>4, <2>5, <3>2, <3>3, <3>8, <3>10, <3>11, CallStep
  <2> QED
    BY <2>1, <2>6, <2>7
<1> QED
  BY <1>2, <1>3

-----------------------------------------------------------------------------
(* The theorems.                                                            *)

LEMMA InitInv == Init => Inv
<1> SUFFICES ASSUME Init PROVE Inv
  OBVIOUS
<1>1. StateTypeOK
  BY NoWorkersFacts DEF Init, StateTypeOK
<1>2. DiskInv
  BY DEF Init, DiskInv
<1>3. OrderInv
  BY DEF Init, OrderInv, Ordered
<1>4. CallInv
  BY DEF Init, CallInv
<1>5. WorkerInv
  <2>1. \A c \in Calls, d \in Disks : worker[c][d] = "none"
    BY NoWorkersFacts DEF Init
  <2> QED
    BY <2>1 DEF WorkerInv
<1>6. GivenInv
  BY DEF Init, GivenInv
<1> QED
  BY <1>1, <1>2, <1>3, <1>4, <1>5, <1>6 DEF Inv

LEMMA NextKeepsInv == Inv /\ [Next]_vars => Inv'
<1> SUFFICES ASSUME Inv, [Next]_vars PROVE Inv'
  OBVIOUS
<1>1. CASE UNCHANGED vars
  <2>1. UNCHANGED <<claim, disk, call, worker, given>>
    BY <1>1 DEF vars
  <2>2. Grows /\ DiskInv' /\ OrderInv'
    BY <2>1, SameGrows DEF Inv
  <2>3. disk' \in [Disks -> {Absent} \cup DiskRecord]
    BY <2>1 DEF Inv, StateTypeOK
  <2> QED
    BY <2>1, <2>2, <2>3, DiskStep
<1>2. CASE \E c \in Calls, n \in Claims, t \in Requirements : CreateVolume(c, n, t)
  BY <1>2, CreateVolumeKeepsInv
<1>3. CASE \E c \in Calls : Handler(c)
  BY <1>3, CreateZoneKeepsInv, CreateQuotaKeepsInv, CreateFromSnapshotKeepsInv,
     CreateDisksKeepsInv, CreateJoinKeepsInv, ReplyKeepsInv DEF Handler
<1>4. CASE \E c \in Calls, d \in Disks : Goroutine(c, d)
  BY <1>4, GoroutineKeepsInv
<1>5. CASE \E d \in Disks : CloudCreates(d)
  BY <1>5, CloudCreatesKeepsInv
<1>6. CASE Restart
  BY <1>6, RestartKeepsInv
<1> QED
  BY <1>1, <1>2, <1>3, <1>4, <1>5, <1>6 DEF Next

(***************************************************************************)
(* The invariant holds throughout, with any calls in flight and any of the *)
(* cloud's answers lost.                                                   *)
(***************************************************************************)
THEOREM Invariance == Spec => []Inv
  BY InitInv, NextKeepsInv, PTL DEF Spec

(***************************************************************************)
(* TypeOK is an invariant: also disks are only made in zones by name, and  *)
(* goroutines run only for disks of their call.                            *)
(***************************************************************************)
THEOREM TypeCorrect == Spec => []TypeOK
<1>1. ASSUME Inv PROVE TypeOK
  BY <1>1 DEF Inv, StateTypeOK, WorkerInv, WorkerStates, TypeOK
<1> QED
  BY <1>1, Invariance, PTL

(***************************************************************************)
(* CreateVolume is idempotent by its ClientToken: the cloud makes no more  *)
(* disks than a claim needs, and every OK reply names the same ones,       *)
(* however calls overlap and whatever answers are lost.                    *)
(***************************************************************************)
THEOREM OneVolume == Spec => []OneVolumePerClaim
<1>1. ASSUME Inv PROVE OneVolumePerClaim
  <2> SUFFICES ASSUME NEW n \in Claims
               PROVE  /\ Ordered(n) # {} => Cardinality(Ordered(n)) <= claim[n].devices
                      /\ \A a, b \in given[n] : a.ids = b.ids
    BY DEF OneVolumePerClaim
  <2>1. Ordered(n) # {} => Cardinality(Ordered(n)) <= claim[n].devices
    BY <1>1 DEF Inv, OrderInv
  <2>2. \A a \in given[n] : a.ids = Ordered(n)
    BY <1>1 DEF Inv, GivenInv, HasVolume
  <2> QED
    BY <2>1, <2>2
<1> QED
  BY <1>1, Invariance, PTL

(***************************************************************************)
(* The disks of an OK reply are enough, usable, and made from the snapshot *)
(* of the claim.                                                           *)
(***************************************************************************)
THEOREM GivenUsable == Spec => []GivenIsUsable
<1>1. ASSUME Inv PROVE GivenIsUsable
  <2> SUFFICES ASSUME NEW n \in Claims, NEW a \in given[n], NEW D, D = a.ids
               PROVE  /\ Cardinality(D) = claim[n].devices
                      /\ \A d \in D : /\ disk[d].state = "UNATTACHED"
                                      /\ disk[d].snapshot = claim[n].snapshot
    BY DEF GivenIsUsable
  <2>1. HasVolume(n, D) /\ Usable(D)
    BY <1>1 DEF Inv, GivenInv
  <2>2. \A d \in D : d \in Disks /\ disk[d] # Absent /\ disk[d].claim = n
    BY <2>1 DEF HasVolume, Ordered
  <2>3. \A d \in D : disk[d].snapshot = claim[n].snapshot
    BY <1>1, <2>2 DEF Inv, DiskInv, DiskOK
  <2> QED
    BY <2>1, <2>3 DEF HasVolume, Usable
<1> QED
  BY <1>1, Invariance, PTL

(***************************************************************************)
(* A disk is made in the zone of the storage class or else in one of the   *)
(* zones of the topology, with zone ids converted to names; an OK reply    *)
(* names such a zone, and its disks are there, unless a call for another   *)
(* topology had made them before.                                          *)
(***************************************************************************)
THEOREM InAskedZone == Spec => []PlacedWhereAsked
<1>1. ASSUME Inv PROVE PlacedWhereAsked
  <2>1. ASSUME NEW d \in Disks, disk[d] # Absent
        PROVE  /\ Placed(claim[disk[d].claim], disk[d].topology, disk[d].zone)
               /\ claim[disk[d].claim] \in Requests
               /\ disk[d].topology \in Requirements
    <3>1. PICK k \in DiskRecord : k = disk[d] /\ DiskOK(k)
      BY <1>1, <2>1, DiskFacts DEF Inv, StateTypeOK, DiskInv
    <3> QED
      BY <1>1, <3>1 DEF DiskOK, DiskRecord, Inv, StateTypeOK
  <2>2. ASSUME NEW d \in Disks, disk[d] # Absent
        PROVE  AsAsked(disk[d].zone, claim[disk[d].claim], disk[d].topology)
    BY <2>1, <2>2, ChosenIsAsked DEF Placed
  <2>3. ASSUME NEW n \in Claims, NEW a \in given[n]
        PROVE  /\ AsAsked(a.zone, claim[n], a.topology)
               /\ \A d \in a.ids :
                     claim[n].zone # NoZone \/ disk[d].topology = a.topology =>
                         disk[d].zone = a.zone
    <3>1. a.topology \in Requirements /\ claim[n] \in Requests
      BY <1>1 DEF Inv, StateTypeOK, VolumeRecord
    <3>2. HasVolume(n, a.ids) /\ Placed(claim[n], a.topology, a.zone)
      BY <1>1 DEF Inv, GivenInv
    <3>3. AsAsked(a.zone, claim[n], a.topology)
      BY <3>1, <3>2, ChosenIsAsked DEF Placed
    <3>4. ASSUME NEW d \in a.ids,
                 claim[n].zone # NoZone \/ disk[d].topology = a.topology
          PROVE  disk[d].zone = a.zone
      <4>1. d \in Disks /\ disk[d] # Absent /\ disk[d].claim = n
        BY <3>2 DEF HasVolume, Ordered
      <4>2. Placed(claim[n], disk[d].topology, disk[d].zone)
        BY <2>1, <4>1
      <4>3. ChooseZone(claim[n], disk[d].topology) = ChooseZone(claim[n], a.topology)
        BY <3>4 DEF ChooseZone
      <4> QED
        BY <3>2, <4>2, <4>3 DEF Placed
    <3> QED
      BY <3>3, <3>4
  <2> QED
    BY <2>2, <2>3 DEF PlacedWhereAsked
<1> QED
  BY <1>1, Invariance, PTL

(***************************************************************************)
(* Every disk has a type and a size that the cloud offered, the type of    *)
(* the claim unless it wants the default, and a period that can be bought. *)
(***************************************************************************)
THEOREM AsOffered == Spec => []MadeAsOffered
<1>1. ASSUME Inv PROVE MadeAsOffered
  <2> SUFFICES ASSUME NEW d \in Disks, disk[d] # Absent, NEW r, r = claim[disk[d].claim]
               PROVE  /\ \E q \in Quotas : \E i \in Offered(q, disk[d].type) :
                            disk[d].size \in q[i].min .. q[i].max
                      /\ r.type # "cbs" => disk[d].type = r.type
                      /\ disk[d].charge = "PREPAID" => r.validPeriod
    BY DEF MadeAsOffered
  <2>1. DiskOK(disk[d])
    BY <1>1 DEF Inv, DiskInv
  <2> QED
    BY <2>1 DEF DiskOK, OfferedTo, ValidCharge
<1> QED
  BY <1>1, Invariance, PTL
=============================================================================
