---------------------------- MODULE MscpService ----------------------------
(***************************************************************************)
(* What an MSCP port and server promise their host: every command gets one  *)
(* response, in the order of the commands, unless a reset comes first, and  *)
(* nothing from before a reset shows up behind it.                          *)
(***************************************************************************)
EXTENDS Naturals, Sequences

CONSTANTS
  ServiceRefs,     \* the reference numbers of commands
  ServiceCredits   \* how many commands the host may have outstanding

VARIABLES
  waiting,   \* reference numbers of the commands the controller has
  answered   \* those of the responses the host has not taken yet

service_vars == <<waiting, answered>>

ServiceInit == waiting = <<>> /\ answered = <<>>

Give ==
  /\ Len(waiting) + Len(answered) < ServiceCredits
  /\ \E r \in ServiceRefs : waiting' = Append(waiting, r)
  /\ UNCHANGED answered

Answer ==
  /\ waiting # <<>>
  /\ answered' = Append(answered, Head(waiting))
  /\ waiting' = Tail(waiting)

Take ==
  /\ answered # <<>>
  /\ answered' = Tail(answered)
  /\ UNCHANGED waiting

ServiceReset ==
  /\ service_vars # <<<<>>, <<>>>>
  /\ waiting' = <<>> /\ answered' = <<>>

ServiceNext == Give \/ Answer \/ Take \/ ServiceReset

ServiceSpec == ServiceInit /\ [][ServiceNext]_service_vars
=============================================================================
