--------------------------- MODULE CfsturboDriver ---------------------------
(***************************************************************************)
(* The CFS Turbo driver (driver/cfsturbo/driver.go).  Every process serves *)
(* both the controller and the node calls; which of them it gets depends   *)
(* on where it is deployed, and no state is shared between deployments.    *)
(***************************************************************************)
EXTENDS CfsturboNode, CfsturboController

VARIABLE role    \* the calls that reach this process

driverVars == <<vars, controllerVars, role>>

DriverInit ==
    /\ Init
    /\ ControllerInit
    /\ role \in {"controller", "node"}

DriverNext ==
    \/ role = "node" /\ Next /\ UNCHANGED <<controllerVars, role>>
    \/ role = "controller" /\ ControllerNext /\ UNCHANGED <<vars, role>>

DriverSpec == DriverInit /\ [][DriverNext]_driverVars

(* The state of both servers has its type; a target has at most one bind    *)
(* mount, unless an abandoned call of the volume was overtaken by the next; *)
(* and the name that DeleteVolume takes out of a volume id is the one       *)
(* CreateVolume put in.                                                     *)
DriverTypeOK == TypeOK /\ ControllerTypeOK
=============================================================================
