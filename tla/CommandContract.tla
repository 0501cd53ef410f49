--------------------------- MODULE CommandContract ---------------------------
(***************************************************************************)
(* What the command pipeline promises about the commands of a headset,     *)
(* without saying how: leases, journal, outbox, requests and crashes are   *)
(* gone.  Each command has at most one effect and ends with at most one    *)
(* known verdict; `succeeded' is never said of a command without effect;   *)
(* effects and verdicts of a headset follow the order of creation.  An     *)
(* unknown verdict may still be decided, and only in favour of success.    *)
(***************************************************************************)
EXTENDS Naturals

CONSTANTS
  Cmd,        \* command ids, in creation order
  Device,     \* headsets
  DeviceOf,   \* the target of each command
  Conclusive  \* commands whose known failure means that nothing happened

VARIABLES
  verdict,  \* what the operator is told of a command
  effect    \* how often the headset performed it

contractVars == <<verdict, effect>>

Verdict == {"open", "unknown", "succeeded", "failed", "cancelled"}
Settled(c) == verdict[c] \in {"succeeded", "failed", "cancelled"}
Earlier(c) == {k \in Cmd : k < c /\ DeviceOf[k] = DeviceOf[c]}
Later(c) == {k \in Cmd : c < k /\ DeviceOf[k] = DeviceOf[c]}

ContractInit ==
  /\ verdict = [c \in Cmd |-> "open"]
  /\ effect = [c \in Cmd |-> 0]

\* The headset performs a command.  The operator may have cancelled it: only
\* `succeeded' and `failed' say something about the headset.
TakeEffect(c) ==
  /\ verdict[c] \in {"open", "cancelled"}
  /\ effect[c] = 0
  /\ \A k \in Later(c) : effect[k] = 0
  /\ effect' = [effect EXCEPT ![c] = 1]
  /\ UNCHANGED verdict

\* The operator is told an outcome, of the oldest command not settled yet.
Decide(c, v) ==
  /\ \/ verdict[c] = "open"
     \/ verdict[c] = "unknown" /\ v = "succeeded"
  /\ v = "succeeded" => effect[c] = 1
  /\ v = "failed" /\ c \in Conclusive => effect[c] = 0
  /\ \A k \in Earlier(c) : Settled(k)
  /\ verdict' = [verdict EXCEPT ![c] = v]
  /\ UNCHANGED effect

\* The operator withdraws a command, whatever waits before it.
Withdraw(c) ==
  /\ verdict[c] = "open"
  /\ verdict' = [verdict EXCEPT ![c] = "cancelled"]
  /\ UNCHANGED effect

ContractNext ==
  \E c \in Cmd :
    \/ TakeEffect(c)
    \/ \E v \in {"unknown", "succeeded", "failed"} : Decide(c, v)
    \/ Withdraw(c)

ContractSpec == ContractInit /\ [][ContractNext]_contractVars
=============================================================================
