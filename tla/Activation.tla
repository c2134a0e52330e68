------------------------------- MODULE Activation -------------------------------
(***************************************************************************)
(* What the controller promises a host about the activations of its        *)
(* endpoints.  At most one endpoint is active, and another one only after  *)
(* the activation before has ended.  Every end the host asked for is       *)
(* reported to it once, in the order of the ends, and nothing is reported  *)
(* that did not happen.  A reset ends an activation without a report and   *)
(* takes back none that is outstanding.                                    *)
(***************************************************************************)
EXTENDS Naturals, Sequences

CONSTANTS
  ActiveId,   \* ids an active endpoint can have
  Reason      \* the ways to end an activation

VARIABLES
  active,  \* the id of the active endpoint, 0 if there is none
  owed     \* the ends the host has yet to be told of, the oldest first

actVars == <<active, owed>>

Init == active = 0 /\ owed = <<>>

Activate ==
  /\ active = 0
  /\ active' \in ActiveId
  /\ UNCHANGED owed

End(r) ==
  /\ active # 0
  /\ active' = 0
  /\ owed' = Append(owed, r)

Report ==
  /\ owed # <<>>
  /\ owed' = Tail(owed)
  /\ UNCHANGED active

Reset == active' = 0 /\ UNCHANGED owed

Next == Activate \/ (\E r \in Reason : End(r)) \/ Report \/ Reset

Spec == Init /\ [][Next]_actVars
================================================================================
