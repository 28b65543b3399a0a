------------------------------ MODULE Deployment ------------------------------
(***************************************************************************)
(* What one installation of the demo enforcement point is given: its       *)
(* invocations, its adapter, its camera.  The other modules of the         *)
(* enforcement point extend this one.                                      *)
(***************************************************************************)
EXTENDS Naturals

CONSTANTS
    Inv,            \* invocation identifiers
    Ptz,            \* those that move the camera to the preset (the rest view a stream)
    Unauthorized,   \* those whose delegation has expired (scenario S3)
    Positions,      \* positions the camera can report
    Home,           \* where the operator parked the camera
    Preset,         \* the position of the one permitted preset
    None,           \* no position
    Vapix,          \* VAPIX adapter with digest authentication (TRUE), VMS mediator (FALSE)
    Fifo,           \* requests reach the device in the order they were sent
    MaxStarts       \* bound: how many runs the operator starts in all

ASSUME DeploymentAssumption ==
    /\ Ptz \subseteq Inv
    /\ Unauthorized \subseteq Inv
    /\ Home \in Positions
    /\ Preset \in Positions
    /\ None \notin Positions
    /\ Vapix \in BOOLEAN
    /\ Fifo \in BOOLEAN
    /\ MaxStarts \in Nat
=============================================================================
