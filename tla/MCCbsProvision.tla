--------------------------- MODULE MCCbsProvision ---------------------------
(* Instances of CbsProvision for TLC.  A GB has two bytes.                  *)
EXTENDS CbsProvision, TLC

CONSTANTS c1, c2, d1, d2, n1

MCGB == 2

MCZones == {"ap-1", "ap-2"}

MCZoneName == [i \in {"100001"} |-> "ap-2"]

\* A plain disk whose class says nothing special.
Plain ==
    [type |-> "cbs", zone |-> "none", prepaid |-> FALSE, cdc |-> FALSE, validPeriod |-> TRUE,
     devicemapper |-> "", devices |-> 1, bytes |-> 4, snapshot |-> FALSE,
     validEncrypt |-> TRUE]

Striped == [Plain EXCEPT !.devicemapper = "LVM", !.devices = 2, !.snapshot = TRUE]

\* Classes that take every branch of the parameter checks.
MCRequests ==
    {Plain,
     Striped,
     [Plain EXCEPT !.type = "SSD", !.zone = "ap-1", !.bytes = 8],
     [Plain EXCEPT !.prepaid = TRUE, !.validPeriod = FALSE, !.cdc = TRUE, !.snapshot = TRUE],
     [Plain EXCEPT !.prepaid = TRUE, !.type = "SSD", !.bytes = 5],
     [Plain EXCEPT !.validEncrypt = FALSE],
     [Plain EXCEPT !.devices = 2],
     [Plain EXCEPT !.devices = -1],
     [Striped EXCEPT !.devices = 1],
     [Striped EXCEPT !.devicemapper = "RAID"]}

\* What the scheduler may ask for: nothing, an ordered choice, a zone by its id.
MCRequirements ==
    {[preferred |-> << >>, requisite |-> << >>],
     [preferred |-> <<"none", "ap-1">>, requisite |-> <<"ap-1", "ap-2">>],
     [preferred |-> << >>, requisite |-> <<"100001">>]}

Offer(type, available, min, max) ==
    [type |-> type, available |-> available, min |-> min, max |-> max]

MCQuotas ==
    {<<Offer("PREMIUM", TRUE, 1, 2), Offer("BASIC", FALSE, 1, 9), Offer("SSD", TRUE, 2, 3)>>,
     <<Offer("PREMIUM", TRUE, 1, 9), Offer("BASIC", TRUE, 3, 4)>>}
=============================================================================
