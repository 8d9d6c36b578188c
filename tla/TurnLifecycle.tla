---------------------------- MODULE TurnLifecycle ----------------------------
(***************************************************************************)
(* What the system promises about an agent message, without queue, runner  *)
(* or subprocess: it is opened once, closed once with a terminal status,   *)
(* and its end is announced on the live stream only after it is closed.    *)
(* The one exception is a message in "doubt": a delivery whose             *)
(* acknowledgement was lost is handled again and closed again.             *)
(***************************************************************************)
CONSTANT Turn

VARIABLES
  status,     \* [Turn -> "none", "streaming" or a terminal status]
  announced,  \* turns whose done event was published
  doubt       \* turns that may be handled more than once

vars == <<status, announced, doubt>>

Closed == {"complete", "cancelled", "error"}

TypeOK ==
  /\ status \in [Turn -> {"none", "streaming"} \cup Closed]
  /\ announced \subseteq Turn
  /\ doubt \subseteq Turn

Init ==
  /\ status = [t \in Turn |-> "none"]
  /\ announced = {}
  /\ doubt = {}

Open(t) ==
  /\ status[t] = "none"
  /\ status' = [status EXCEPT ![t] = "streaming"]
  /\ UNCHANGED <<announced, doubt>>

Close(t, s) ==
  /\ status[t] = "streaming" \/ t \in doubt
  /\ status' = [status EXCEPT ![t] = s]
  /\ UNCHANGED <<announced, doubt>>

Announce(t) ==
  /\ status[t] \in Closed
  /\ announced' = announced \cup {t}
  /\ UNCHANGED <<status, doubt>>

LoseAck(t) ==
  /\ status[t] # "none"
  /\ doubt' = doubt \cup {t}
  /\ UNCHANGED <<status, announced>>

Next == \E t \in Turn : \/ Open(t)
                        \/ \E s \in Closed : Close(t, s)
                        \/ Announce(t)
                        \/ LoseAck(t)

Spec == Init /\ [][Next]_vars
=============================================================================
