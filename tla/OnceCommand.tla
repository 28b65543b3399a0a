------------------------------ MODULE OnceCommand ------------------------------
(***************************************************************************)
(* What the enforcement point promises about a consequential command, with *)
(* no journal, adapter or network: a command may be armed (it may still    *)
(* take effect), takes effect at most once and only while armed, and is    *)
(* reported without claiming more than that: refused only if it neither    *)
(* has taken nor can take effect, acknowledged only if it has,             *)
(* contradicted only if it has or could.  "unknown" claims nothing.        *)
(***************************************************************************)
EXTENDS Naturals

CONSTANT Inv

VARIABLES
    armed,                  \* the commands that may still take effect
    executed,               \* executed[i]: how often i has taken effect
    level                   \* level[i]: the outcome reported last for i

onceVars == <<armed, executed, level>>

OnceInit ==
    /\ armed = {}
    /\ executed = [i \in Inv |-> 0]
    /\ level = [i \in Inv |-> "none"]

Arm(i) ==
    /\ executed[i] = 0
    /\ armed' = armed \cup {i}
    /\ UNCHANGED <<executed, level>>

Disarm(i) ==
    /\ armed' = armed \ {i}
    /\ UNCHANGED <<executed, level>>

TakeEffect(i) ==
    /\ i \in armed
    /\ executed[i] = 0
    /\ executed' = [executed EXCEPT ![i] = 1]
    /\ armed' \in {armed, armed \ {i}}
    /\ UNCHANGED level

\* What may be said of i when it is reported.
Allowed(i, l) ==
    CASE l = "refused"             -> executed[i] = 0 /\ i \notin armed
      [] l = "device_acknowledged" -> executed[i] = 1
      [] l = "contradicted"        -> executed[i] = 1 \/ i \in armed
      [] l = "unknown"             -> TRUE
      [] OTHER                     -> FALSE

\* A report ends the attempt; what was only held by it is disarmed.
Report(i, l) ==
    /\ Allowed(i, l)
    /\ level' = [level EXCEPT ![i] = l]
    /\ armed' \in {armed, armed \ {i}}
    /\ UNCHANGED executed

OnceNext ==
    \E i \in Inv :
        \/ Arm(i) \/ Disarm(i) \/ TakeEffect(i)
        \/ \E l \in {"refused", "device_acknowledged", "contradicted", "unknown"} :
               Report(i, l)

OnceSpec == OnceInit /\ [][OnceNext]_onceVars
=============================================================================
