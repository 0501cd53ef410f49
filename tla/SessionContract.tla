-------------------------- MODULE SessionContract ---------------------------
(***************************************************************************)
(* What the Cloud promises about sessions and the headsets in them,        *)
(* without saying how: commands, heartbeats, requests and the order in     *)
(* which they arrive are gone.  A headset is in one session at a time and  *)
(* leaves it once, for good.  It finishes only in a session that is being  *)
(* ended, the last one completes that session, and nothing else does.      *)
(* Nothing reopens a session, and one that is open has a headset.          *)
(***************************************************************************)
EXTENDS Naturals

CONSTANTS Session, Device

VARIABLES
  phase, \* of each session
  seat   \* of each session and headset: never, in, finished or failed

sessionVars == <<phase, seat>>

Phase == {"none", "open", "ending", "completed", "failed"}
Seat == {"never", "in", "finished", "failed"}

Occupied(s) == \E d \in Device : seat[s, d] = "in"
Last(s, d) == \A e \in Device : e # d => seat[s, e] # "in"
FreeHeadset(d) == \A s \in Session : seat[s, d] # "in"
Leave(s, d, how) == seat' = [seat EXCEPT ![<<s, d>>] = how]

ContractInit ==
  /\ phase = [s \in Session |-> "none"]
  /\ seat = [p \in Session \X Device |-> "never"]

Open(s, D) ==
  /\ phase[s] = "none"
  /\ D # {} /\ \A d \in D : FreeHeadset(d)
  /\ phase' = [phase EXCEPT ![s] = "open"]
  /\ seat' = [p \in Session \X Device |-> IF p[1] = s /\ p[2] \in D THEN "in" ELSE seat[p]]

\* The operator stops the session, or its time is up.
End(s) ==
  /\ phase[s] = "open"
  /\ phase' = [phase EXCEPT ![s] = "ending"]
  /\ UNCHANGED seat

\* The headset has confirmed its cleanup.
Finished(s, d) ==
  /\ phase[s] = "ending" /\ seat[s, d] = "in"
  /\ Leave(s, d, "finished")
  /\ phase' = [phase EXCEPT ![s] = IF Last(s, d) THEN "completed" ELSE @]

\* A start failed or was cancelled, before or after the end was requested.
StartFails(s, d) ==
  /\ phase[s] # "completed" /\ seat[s, d] = "in"
  /\ Leave(s, d, "failed")
  /\ phase' = [phase EXCEPT ![s] = IF @ = "open" /\ Last(s, d) THEN "failed" ELSE @]

\* A cleanup failed or was cancelled: so has the session.
EndFails(s, d) ==
  /\ phase[s] = "ending" /\ seat[s, d] = "in"
  /\ Leave(s, d, "failed")
  /\ phase' = [phase EXCEPT ![s] = "failed"]

ContractNext ==
  \/ \E s \in Session, D \in SUBSET Device : Open(s, D)
  \/ \E s \in Session : End(s)
  \/ \E s \in Session, d \in Device : Finished(s, d) \/ StartFails(s, d) \/ EndFails(s, d)

ContractSpec == ContractInit /\ [][ContractNext]_sessionVars
=============================================================================
