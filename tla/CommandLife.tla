---------------------------- MODULE CommandLife ----------------------------
(***************************************************************************)
(* What a command of the tool host promises to its caller, with no client, *)
(* request, sandbox or home in sight: it is refused, or it runs and is      *)
(* over once; it reports the exit of the command only if that was reached;  *)
(* and when it is refused or over, nothing of it is alive.                 *)
(***************************************************************************)
VARIABLES
  phase,   \* starting, then refused, or running and over
  exited,  \* the command has come to its end
  alive,   \* a process of it may be alive
  answer   \* what the caller was told

vars == <<phase, exited, alive, answer>>

Init == phase = "starting" /\ exited = FALSE /\ alive = FALSE /\ answer = "none"

Work == phase \in {"starting", "running"} /\ alive' \in BOOLEAN /\ UNCHANGED <<phase, exited, answer>>
Refuse == phase = "starting" /\ phase' = "refused" /\ alive' = FALSE /\ UNCHANGED <<exited, answer>>
Run == phase = "starting" /\ phase' = "running" /\ UNCHANGED <<exited, alive, answer>>
Exit == phase = "running" /\ exited' = TRUE /\ UNCHANGED <<phase, alive, answer>>
End ==
  /\ phase = "running" /\ phase' = "over"
  /\ alive' = FALSE
  /\ answer' \in {"error"} \cup (IF exited THEN {"exit"} ELSE {})
  /\ UNCHANGED exited

Next == Work \/ Refuse \/ Run \/ Exit \/ End

Spec == Init /\ [][Next]_vars
=============================================================================
