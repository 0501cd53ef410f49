--------------------------- MODULE CommandPipeline ---------------------------
(***************************************************************************)
(* The path of a device command from the Cloud API's device_commands table *)
(* to the headset and back:                                                *)
(*                                                                         *)
(*   Cloud      creates commands, leases the head command of every device  *)
(*              to a polling Local Hub and records the reported status;    *)
(*   Local Hub  polls, journals what it starts in SQLite, runs it over ADB *)
(*              under a per-device lock, writes the result to a durable    *)
(*              outbox and retries its delivery; after a restart it probes *)
(*              the device instead of repeating what it had started;       *)
(*   network    every status report is an HTTP request that may be lost,   *)
(*              whose answer may be lost, or that may arrive after the Hub *)
(*              gave it up.                                                *)
(*                                                                         *)
(* Time is abstracted: a lease is live or expired.  A claim token is a     *)
(* fresh UUID exactly when `attempt' grows, so the attempt number stands   *)
(* for the token.  outcome_state is 'unknown' exactly for a timeout (the   *)
(* Hub sends no other pair), so the status stands for it as well.          *)
(***************************************************************************)
EXTENDS Naturals, Sequences, FiniteSets

CONSTANTS
  Cmd,               \* command ids, in creation order
  Device,            \* headsets
  DeviceOf,          \* the target of each command
  Reconciliable,     \* commands whose effect a probe can observe
  Dangerous,         \* commands that must not be repeated blindly
  Compound,          \* commands of several ADB steps, of which a later one may
                     \* fail when an earlier one has had its effect
  Forget,            \* FORGET_DEVICE: its success deletes the headset
  StableInstanceId,  \* TRUE iff HUB_INSTANCE_ID is set in the environment
  MaxClaims,         \* bound: claims (tokens) per command
  MaxCrashes,        \* bound: Hub crashes
  MaxFaults,         \* bound: requests or answers lost or late
  MaxExpiries,       \* bound: leases that run out on a Hub that still runs
  MaxCancels,        \* bound: cancellations by the operator
  MaxUnknown         \* bound: executions that end without a known outcome

ASSUME CmdAssumption ==
  /\ Cmd \subseteq Nat \ {0}
  /\ DeviceOf \in [Cmd -> Device]
  /\ Reconciliable \subseteq Cmd
  /\ Dangerous \subseteq Cmd
  /\ Compound \subseteq Cmd
  /\ Forget \subseteq Dangerous \ Reconciliable
  /\ StableInstanceId \in BOOLEAN

ASSUME BoundAssumption ==
  /\ MaxClaims \in Nat
  /\ MaxCrashes \in Nat
  /\ MaxFaults \in Nat
  /\ MaxExpiries \in Nat
  /\ MaxCancels \in Nat
  /\ MaxUnknown \in Nat

VARIABLES
  cmd,      \* Cloud: the device_commands rows
  journal,  \* Hub, durable: command_execution rows
  outbox,   \* Hub, durable: result_outbox rows
  phase,    \* Hub: where the loop of syncWithCloud stands
  batch,    \* Hub: commands returned by the last sync, not yet dispatched
  tasks,    \* Hub: calls of processCommand that have not returned
  lockq,    \* Hub: per device, the chain of promises behind its lock
  calls,    \* network: status requests not yet processed by the Cloud
  applied,  \* headset: how often each command took effect
  used      \* how much of each bound has been used

vars == <<cmd, journal, outbox, phase, batch, tasks, lockq, calls, applied, used>>
hubVars == <<journal, outbox, phase, batch, tasks, lockq>>

-----------------------------------------------------------------------------
Active == {"accepted_by_hub", "running"}
Terminal == {"succeeded", "failed", "timeout", "cancelled"}
\* (A row is `gone' when its headset was deleted.)
Status == {"absent", "created", "gone"} \cup Active \cup Terminal

\* What a report or a journal row says happened: the values stand for result
\* hashes that differ.  "ok" and "rec" are the results of the handler and of
\* the reconciler, "unk" and "unk2" their two ways of not knowing.
Result == {"none", "started", "ok", "rec", "err", "unk", "unk2"}

\* (sent_to_hub is declared too, but nothing ever moves a command there.)
CommandTransitions ==
  [s \in Status |->
     CASE s = "created" -> {"accepted_by_hub", "cancelled", "timeout"}
       [] s = "accepted_by_hub" -> {"running"} \cup Terminal
       [] s = "running" -> Terminal
       [] OTHER -> {}]

JournalState == {"none", "running", "effect_applied", "completed", "unknown_outcome"}
CommandRow == [status: Status, attempt: 0..MaxClaims, owner: 0..MaxCrashes,
               live: BOOLEAN, result: Result]
JournalRow == [state: JournalState, result: Result]
OutboxRow == [status: {"none", "succeeded", "failed", "timeout"}, tok: 0..MaxClaims,
              result: Result, delivered: BOOLEAN]
NoCommand(status) == [status |-> status, attempt |-> 0, owner |-> 0,
                      live |-> FALSE, result |-> "none"]
NoRow == [status |-> "none", tok |-> 0, result |-> "none", delivered |-> FALSE]
Claim == [cmd: Cmd, tok: 0..MaxClaims, recovery: BOOLEAN]
TaskPc == {"resolve", "announce", "queued", "exec", "applied", "marked", "failing", "flush"}
Task == [cmd: Cmd, tok: 0..MaxClaims, kind: {"exec", "probe"}, pc: TaskPc, awaited: BOOLEAN]

\* A delivery loop: the one of syncWithCloud or the one of a processCommand.
SyncLoop == <<0, "sync">>
Loop == (Cmd \X {"exec", "probe"}) \cup {SyncLoop}
Call == [cmd: Cmd, tok: 0..MaxClaims, status: {"running", "succeeded", "failed", "timeout"},
         result: Result, reconciled: BOOLEAN, by: Loop, awaited: BOOLEAN]

\* The bounded events, and what is left of a bound.
Budget == {"crash", "fault", "expiry", "cancel", "unknown"}
Bound(b) == CASE b = "crash" -> MaxCrashes
              [] b = "fault" -> MaxFaults
              [] b = "expiry" -> MaxExpiries
              [] b = "cancel" -> MaxCancels
              [] b = "unknown" -> MaxUnknown
Spend(b) == /\ used[b] < Bound(b)
            /\ used' = [used EXCEPT ![b] = @ + 1]

\* config.HUB_INSTANCE_ID: from the environment, or drawn by every process.
Instance == IF StableInstanceId THEN 0 ELSE used["crash"]

LoopOf(t) == <<t.cmd, t.kind>>
Idle(l) == ~\E m \in calls : m.awaited /\ m.by = l
LoopActive(l) == IF l = SyncLoop THEN phase = "flush"
                 ELSE \E t \in tasks : t.pc = "flush" /\ LoopOf(t) = l

-----------------------------------------------------------------------------
Init ==
  /\ cmd = [c \in Cmd |-> NoCommand("absent")]
  /\ journal = [c \in Cmd |-> [state |-> "none", result |-> "none"]]
  /\ outbox = [c \in Cmd |-> NoRow]
  /\ phase = "idle"
  /\ batch = {}
  /\ tasks = {}
  /\ lockq = [d \in Device |-> <<>>]
  /\ calls = {}
  /\ applied = [c \in Cmd |-> 0]
  /\ used = [b \in Budget |-> 0]

-----------------------------------------------------------------------------
(* Cloud: creation, cancellation, claims.                                  *)

CreateDeviceCommand(c) ==
  /\ cmd[c].status = "absent"
  /\ \A k \in Cmd : DeviceOf[k] = DeviceOf[c] =>
       /\ k < c => cmd[k].status # "absent"
       /\ cmd[k].status # "gone"
  /\ cmd' = [cmd EXCEPT ![c].status = "created"]
  /\ UNCHANGED <<hubVars, calls, applied, used>>

\* A running command only gets cancel_requested_at, which nothing reads.
CancelDeviceCommand(c) ==
  /\ cmd[c].status \in {"created", "accepted_by_hub"}
  /\ Spend("cancel")
  /\ cmd' = [cmd EXCEPT ![c].status = "cancelled"]
  /\ UNCHANGED <<hubVars, calls, applied>>

\* A Hub that polls renews its leases, so that they run out only if it stalls;
\* those of a process that is gone run out by themselves.
LeaseExpires(c) ==
  /\ cmd[c].status \in Active
  /\ cmd[c].live
  /\ IF cmd[c].owner = Instance THEN Spend("expiry") ELSE UNCHANGED used
  /\ cmd' = [cmd EXCEPT ![c].live = FALSE]
  /\ UNCHANGED <<hubVars, calls, applied>>

\* An earlier command of the device that is not settled holds the queue.
Unsettled(k) == cmd[k].status \in {"created", "timeout"} \cup Active
\* (Faulty variants, here and below, are bugs the properties must notice.)
\* Faulty: an unknown outcome does not hold the queue.
HeadIgnoringUnknown(c) ==
  \A k \in Cmd : k < c /\ DeviceOf[k] = DeviceOf[c]
                   => cmd[k].status \notin {"created"} \cup Active
\* Faulty: nothing holds the queue.
NoQueue(c) == c \in Cmd
HeadOfDevice(c) ==
  \A k \in Cmd : k < c /\ DeviceOf[k] = DeviceOf[c] => ~Unsettled(k)

OwnedLive(c) == cmd[c].status \in Active /\ cmd[c].live /\ cmd[c].owner = Instance
NeedsToken(c) == cmd[c].status \in {"created", "timeout"} \/ ~cmd[c].live
\* Faulty: a live claim is not handed out again to its owner.
CandidateOnce(c) == /\ cmd[c].status \in {"created", "timeout"} \cup Active
                    /\ cmd[c].status \in Active => ~cmd[c].live
                    /\ HeadOfDevice(c)
Candidate(c) == /\ cmd[c].status \in {"created", "timeout"} \cup Active
                /\ cmd[c].status \in Active => ~cmd[c].live \/ OwnedLive(c)
                /\ HeadOfDevice(c)

\* The commands one sync claims.  The attempt budget of the code applies to
\* commands that are still 'created', whose attempt is 0: it never bites, and
\* only MaxClaims bounds the claims here.
Claimed == {c \in Cmd : Candidate(c) /\ (NeedsToken(c) => cmd[c].attempt < MaxClaims)}

ClaimRow(c) ==
  [cmd[c] EXCEPT !.status = IF @ = "created" THEN "accepted_by_hub" ELSE @,
                 !.attempt = IF NeedsToken(c) THEN @ + 1 ELSE @,
                 !.owner = Instance,
                 !.live = TRUE]

\* Faulty: a claim that was taken over does not say so.
ClaimAsNew(c) ==
  [cmd |-> c, tok |-> ClaimRow(c).attempt, recovery |-> FALSE]
ClaimFor(c) ==
  [cmd |-> c, tok |-> ClaimRow(c).attempt,
   recovery |-> cmd[c].status # "created" /\ ~OwnedLive(c)]

ClaimCommands == cmd' = [c \in Cmd |-> IF c \in Claimed THEN ClaimRow(c) ELSE cmd[c]]

\* syncWithCloud up to the answer of POST /sync.
Sync ==
  /\ phase = "idle"
  /\ ClaimCommands
  /\ batch' = {ClaimFor(c) : c \in Claimed}
  /\ phase' = "flush"
  /\ UNCHANGED <<journal, outbox, tasks, lockq, calls, applied, used>>

\* The claims are committed but the answer does not reach the Hub.
SyncAnswerLost ==
  /\ phase = "idle"
  /\ Spend("fault")
  /\ ClaimCommands
  /\ UNCHANGED <<hubVars, calls, applied>>

-----------------------------------------------------------------------------
(* Hub: what processCommand decides from the journal.                      *)

\* recoverAfterRestart: a reclaimed command this Hub knows nothing of ...
Untraced(b) == /\ b.recovery
               /\ journal[b.cmd].state = "none"
               /\ b.cmd \in Reconciliable \cup Dangerous
\* ... and one that was under way when its lease ran out.
Interrupted(b) == b.recovery /\ journal[b.cmd].state \in {"running", "effect_applied"}

\* Faulty: what a restart interrupted is simply run again.
RunsAgain(b) == journal[b.cmd].state \in {"none", "running"} /\ ~Untraced(b)
Runs(b) == journal[b.cmd].state = "none" /\ ~Untraced(b)
Probes(b) == Untraced(b) \/ Interrupted(b) \/ journal[b.cmd].state = "unknown_outcome"
BecomesUnknown(b) == Untraced(b) \/ (Interrupted(b) /\ b.cmd \notin Reconciliable)

NewTask(b) == [cmd |-> b.cmd, tok |-> b.tok, kind |-> IF Runs(b) THEN "exec" ELSE "probe",
               pc |-> "resolve", awaited |-> TRUE]

\* Promise.all(commands.map(processCommand)) runs every processCommand up to
\* its first await: the journal decides, the others return.
Dispatch ==
  /\ phase = "flush"
  /\ Idle(SyncLoop)
  /\ tasks' = tasks \cup {NewTask(b) : b \in {a \in batch : Runs(a) \/ Probes(a)}}
  /\ journal' = [c \in Cmd |->
       IF \E b \in batch : b.cmd = c /\ Runs(b)
         THEN [journal[c] EXCEPT !.state = "running"]
       ELSE IF \E b \in batch : b.cmd = c /\ BecomesUnknown(b)
         THEN [journal[c] EXCEPT !.state = "unknown_outcome"]
       ELSE journal[c]]
  /\ batch' = {}
  /\ phase' = "busy"
  /\ UNCHANGED <<cmd, outbox, lockq, calls, applied, used>>

SyncDone ==
  /\ phase = "busy"
  /\ \A t \in tasks : ~t.awaited
  /\ phase' = "idle"
  /\ UNCHANGED <<cmd, journal, outbox, batch, tasks, lockq, calls, applied, used>>

-----------------------------------------------------------------------------
(* Hub: the steps of one processCommand between its awaits.                *)

Goto(t, pc) == tasks' = (tasks \ {t}) \cup {[t EXCEPT !.pc = pc]}

\* An exception ends processCommand; if a sync awaits it, Promise.all rejects
\* and the sync is over while its other commands go on.
Throw(t) ==
  /\ tasks' = IF t.awaited THEN {[u EXCEPT !.awaited = FALSE] : u \in tasks \ {t}}
                           ELSE tasks \ {t}
  /\ phase' = IF t.awaited THEN "idle" ELSE phase

SetJournal(c, state, result) ==
  journal' = [journal EXCEPT ![c] = [state |-> state, result |-> result]]

ReleaseLock(c) == lockq' = [lockq EXCEPT ![DeviceOf[c]] = Tail(@)]

\* enqueue keeps the first row of a command, except that a success replaces a
\* timeout, and refuses another result.
EnqueueConflict(c, status, result) ==
  /\ outbox[c].status # "none"
  /\ outbox[c].result # result
  /\ ~(outbox[c].status = "timeout" /\ status = "succeeded")

\* executionStore.fail: the journal row is written first ...
FailJournal(t) ==
  IF journal[t.cmd].state = "running"
  THEN SetJournal(t.cmd, "completed", "err")
  ELSE UNCHANGED journal

\* No route to the headset: DEVICE_UNAVAILABLE.  Forgetting needs none.
NoRoute(t) ==
  /\ t.kind = "exec" /\ t.pc = "resolve"
  /\ t.cmd \notin Forget
  /\ FailJournal(t)
  /\ Goto(t, "failing")
  /\ UNCHANGED <<cmd, outbox, phase, batch, lockq, calls, applied, used>>

\* ... the outbox row next; the report that follows carries errorCode where
\* the row has error_code, so that enqueue finds another hash and throws.
RecordFailure(t) ==
  /\ t.pc = "failing"
  /\ outbox' = IF outbox[t.cmd].status # "none" THEN outbox
               ELSE [outbox EXCEPT ![t.cmd] = [status |-> "failed", tok |-> t.tok,
                                               result |-> "err", delivered |-> FALSE]]
  /\ Throw(t)
  /\ UNCHANGED <<cmd, journal, batch, lockq, calls, applied, used>>

AnnounceRunning(t) ==
  /\ t.kind = "exec" /\ t.pc = "resolve"
  /\ calls' = calls \cup {[cmd |-> t.cmd, tok |-> t.tok, status |-> "running",
                           result |-> "started", reconciled |-> FALSE,
                           by |-> LoopOf(t), awaited |-> TRUE]}
  /\ Goto(t, "announce")
  /\ UNCHANGED <<cmd, journal, outbox, phase, batch, lockq, applied, used>>

\* The handler behind the device lock.
\* Faulty: the handler does not wait for the lock.
StartUnlocked(t) ==
  /\ t.pc = "queued"
  /\ Goto(t, "exec")
  /\ UNCHANGED <<cmd, journal, outbox, phase, batch, lockq, calls, applied, used>>
StartExec(t) ==
  /\ t.pc = "queued"
  /\ Head(lockq[DeviceOf[t.cmd]]) = t.cmd
  /\ Goto(t, "exec")
  /\ UNCHANGED <<cmd, journal, outbox, phase, batch, lockq, calls, applied, used>>

ApplyEffect(t) ==
  /\ t.pc = "exec"
  /\ applied' = [applied EXCEPT ![t.cmd] = @ + 1]
  /\ Goto(t, "applied")
  /\ UNCHANGED <<cmd, journal, outbox, phase, batch, lockq, calls, used>>

\* result.success: markEffectApplied, refused if the journal moved meanwhile.
ExecSucceeds(t) ==
  /\ t.pc = "applied"
  /\ ReleaseLock(t.cmd)
  /\ \/ /\ journal[t.cmd].state = "running"
        /\ SetJournal(t.cmd, "effect_applied", "ok")
        /\ Goto(t, "marked")
        /\ UNCHANGED phase
     \/ /\ journal[t.cmd].state # "running"
        /\ Throw(t)
        /\ UNCHANGED journal
  /\ UNCHANGED <<cmd, outbox, batch, calls, applied, used>>

\* complete: journal and outbox in one transaction.  A row of another result
\* than a timeout's keeps its result and only takes the new token.
CompleteRow(c, tok, result) ==
  IF outbox[c].status \in {"none", "timeout"} \/ outbox[c].result = result
  THEN [status |-> "succeeded", tok |-> tok, result |-> result,
        delivered |-> outbox[c].delivered /\ outbox[c].status # "timeout"]
  ELSE [outbox[c] EXCEPT !.tok = tok]

Complete(t, result) ==
  \/ /\ journal[t.cmd].result \in {"none", result}
     /\ SetJournal(t.cmd, "completed", result)
     /\ outbox' = [outbox EXCEPT ![t.cmd] = CompleteRow(t.cmd, t.tok, result)]
     /\ Goto(t, "flush")
     /\ UNCHANGED phase
  \/ /\ journal[t.cmd].result \notin {"none", result}
     /\ Throw(t)
     /\ UNCHANGED <<journal, outbox>>

RecordSuccess(t) ==
  /\ t.pc = "marked"
  /\ Complete(t, "ok")
  /\ UNCHANGED <<cmd, batch, lockq, calls, applied, used>>

\* markUnknown and the report of a timeout.
ReportUnknown(t, result) ==
  /\ journal' = IF journal[t.cmd].state \in {"running", "effect_applied"}
                THEN [journal EXCEPT ![t.cmd].state = "unknown_outcome"] ELSE journal
  /\ IF EnqueueConflict(t.cmd, "timeout", result)
     THEN Throw(t) /\ UNCHANGED outbox
     ELSE /\ outbox' = IF outbox[t.cmd].status # "none" THEN outbox
                       ELSE [outbox EXCEPT ![t.cmd] = [status |-> "timeout", tok |-> t.tok,
                                                       result |-> result, delivered |-> FALSE]]
          /\ Goto(t, "flush")
          /\ UNCHANGED phase

\* The command timed out or the transport failed: it may have taken effect.
ExecUnknown(t) ==
  /\ t.pc \in {"exec", "applied"}
  /\ Spend("unknown")
  /\ ReleaseLock(t.cmd)
  /\ ReportUnknown(t, "unk")
  /\ UNCHANGED <<cmd, batch, calls, applied>>

\* The commands whose known failure means that nothing happened.  A timeout or
\* a transport failure counts as a failure unless the command is dangerous; and
\* of a command of one ADB step adb's exit code says whether it was done, but
\* START, PAUSE, RESUME, SWITCH, END and INSTALL_APK return the failure of their
\* later steps, with neither `timedOut' nor `unknown', once an earlier one is
\* done.
Conclusive == Dangerous \ Compound
\* Faulty: a timeout is a failure whatever the command is.
AnyFailure(t) == t.pc \in {"exec", "applied"}
KnownFailure(t) == t.pc = "exec" \/ (t.pc = "applied" /\ t.cmd \notin Conclusive)

ExecFails(t) ==
  /\ KnownFailure(t)
  /\ ReleaseLock(t.cmd)
  /\ FailJournal(t)
  /\ Goto(t, "failing")
  /\ UNCHANGED <<cmd, outbox, phase, batch, calls, applied, used>>

\* reconciler.reconcile sees the effect on the headset, or is not sure.
ProbeSucceeds(t) ==
  /\ t.kind = "probe" /\ t.pc = "resolve"
  /\ t.cmd \in Reconciliable
  /\ applied[t.cmd] > 0
  /\ Complete(t, "rec")
  /\ UNCHANGED <<cmd, batch, lockq, calls, applied, used>>

ProbeFails(t) ==
  /\ t.kind = "probe" /\ t.pc = "resolve"
  /\ ReportUnknown(t, "unk2")
  /\ UNCHANGED <<cmd, batch, lockq, calls, applied, used>>

TaskDone(t) ==
  /\ t.pc = "flush"
  /\ Idle(LoopOf(t))
  /\ tasks' = tasks \ {t}
  /\ UNCHANGED <<cmd, journal, outbox, phase, batch, lockq, calls, applied, used>>

-----------------------------------------------------------------------------
(* Delivery of results.                                                    *)

\* The request flushResultOutbox makes of a row: `reconciled' is not part of
\* the row, so it is never set.
OutboxCall(c, l) ==
  [cmd |-> c, tok |-> outbox[c].tok, status |-> outbox[c].status,
   result |-> outbox[c].result, reconciled |-> FALSE, by |-> l, awaited |-> TRUE]

\* Faulty: whether there is a row at all is not looked at.
Undelivered(c) == ~outbox[c].delivered
Pending(c) == outbox[c].status # "none" /\ ~outbox[c].delivered

\* One request of a delivery loop; which rows are past their back-off when the
\* loop runs is left open.
FlushSend(l, c) ==
  /\ LoopActive(l)
  /\ Idle(l)
  /\ Pending(c)
  /\ calls' = calls \cup {OutboxCall(c, l)}
  /\ UNCHANGED <<cmd, hubVars, applied, used>>

\* updateCommandStatus: what the Cloud makes of a report.
TokenMatches(m) == m.tok = cmd[m.cmd].attempt
Repeated(m) == cmd[m.cmd].status \in Terminal /\ cmd[m.cmd].status = m.status
Reconciles(m) == cmd[m.cmd].status = "timeout" /\ m.status = "succeeded" /\ m.reconciled
\* Faulty: a report is applied without looking at the previous status.
MovesAnyway(m) == TokenMatches(m) /\ ~Repeated(m)
Moves(m) == TokenMatches(m) /\ ~Repeated(m)
            /\ (m.status \in CommandTransitions[cmd[m.cmd].status] \/ Reconciles(m))
\* Faulty: a rejected report counts as delivered.
AcceptsAll(m) == m \in calls
Accepts(m) == Moves(m) \/ (TokenMatches(m) /\ Repeated(m) /\ cmd[m.cmd].result = m.result)

\* A forgotten headset takes all its commands with it.  (Of the one that forgot
\* it a tombstone remains, but the route answers 404 before it is looked up.)
Forgets(m) == Moves(m) /\ m.cmd \in Forget /\ m.status = "succeeded"
Without(device) ==
  [c \in Cmd |-> IF DeviceOf[c] = device /\ cmd[c].status # "absent"
                 THEN NoCommand("gone") ELSE cmd[c]]

UpdateCommandStatus(m) ==
  cmd' = IF Forgets(m) THEN Without(DeviceOf[m.cmd])
         ELSE IF Moves(m)
           THEN [cmd EXCEPT ![m.cmd].status = m.status, ![m.cmd].result = m.result]
         ELSE cmd

\* The Hub's continuation of a report it awaits.  A row is marked delivered by
\* command id, whatever it says by then; 'running' is awaited only to be logged.
Continue(m, ok) ==
  IF m.status = "running"
  THEN /\ \E t \in tasks : t.cmd = m.cmd /\ t.pc = "announce" /\ Goto(t, "queued")
       /\ lockq' = [lockq EXCEPT ![DeviceOf[m.cmd]] = Append(@, m.cmd)]
       /\ UNCHANGED outbox
  ELSE /\ outbox' = IF ok THEN [outbox EXCEPT ![m.cmd].delivered = TRUE] ELSE outbox
       /\ UNCHANGED <<tasks, lockq>>

\* The request arrives and, unless it was given up, so does its answer.
Deliver(m) ==
  /\ UpdateCommandStatus(m)
  /\ calls' = calls \ {m}
  /\ IF m.awaited THEN Continue(m, Accepts(m)) ELSE UNCHANGED <<outbox, tasks, lockq>>
  /\ UNCHANGED <<journal, phase, batch, applied, used>>

\* The request arrives, its answer does not.
DeliverUnanswered(m) ==
  /\ m.awaited
  /\ Spend("fault")
  /\ UpdateCommandStatus(m)
  /\ calls' = calls \ {m}
  /\ Continue(m, FALSE)
  /\ UNCHANGED <<journal, phase, batch, applied>>

\* The Hub's timeout: the request may still arrive, or never.
GiveUp(m) ==
  /\ m.awaited
  /\ Spend("fault")
  /\ calls' = (calls \ {m}) \cup {[m EXCEPT !.awaited = FALSE]}
  /\ Continue(m, FALSE)
  /\ UNCHANGED <<cmd, journal, phase, batch, applied>>

\* The Hub process dies and is started again.
Crash ==
  /\ Spend("crash")
  /\ phase' = "idle"
  /\ batch' = {}
  /\ tasks' = {}
  /\ lockq' = [d \in Device |-> <<>>]
  /\ calls' = {[m EXCEPT !.awaited = FALSE] : m \in calls}
  /\ UNCHANGED <<cmd, journal, outbox, applied>>

-----------------------------------------------------------------------------
TaskStep(t) ==
  \/ NoRoute(t) \/ RecordFailure(t) \/ AnnounceRunning(t) \/ StartExec(t)
  \/ ApplyEffect(t) \/ ExecSucceeds(t) \/ RecordSuccess(t) \/ ExecUnknown(t)
  \/ ExecFails(t) \/ ProbeSucceeds(t) \/ ProbeFails(t) \/ TaskDone(t)

CloudStep(c) == CreateDeviceCommand(c) \/ CancelDeviceCommand(c) \/ LeaseExpires(c)
SyncStep == Sync \/ SyncAnswerLost \/ Dispatch \/ SyncDone
CallStep(m) == Deliver(m) \/ DeliverUnanswered(m) \/ GiveUp(m)

Next ==
  \/ \E c \in Cmd : CloudStep(c)
  \/ SyncStep
  \/ \E t \in tasks : TaskStep(t)
  \/ \E l \in Loop, c \in Cmd : FlushSend(l, c)
  \/ \E m \in calls : CallStep(m)
  \/ Crash

Spec == Init /\ [][Next]_vars

(***************************************************************************)
(* Fairness.  setInterval polls for ever; every await of processCommand    *)
(* ends (ADB processes and HTTP requests have timeouts); a delivery loop   *)
(* runs over a finite snapshot, so it ends, and the back-off of a row ends,*)
(* so that some loop sends it; a lease of a process that is gone runs out; *)
(* a headset that shows an effect is reachable by some probe.  Nothing     *)
(* makes the operator act, a fault happen or a late request arrive.        *)
(***************************************************************************)
EndsAwait(t) == NoRoute(t) \/ RecordFailure(t) \/ AnnounceRunning(t) \/ StartExec(t)
                \/ ExecSucceeds(t) \/ RecordSuccess(t) \/ ExecFails(t) \/ ProbeFails(t)
Fairness ==
  /\ WF_vars(Sync)
  /\ SF_vars(Dispatch)
  /\ WF_vars(SyncDone)
  /\ \A c \in Cmd :
       /\ WF_vars(\E t \in tasks : t.cmd = c /\ EndsAwait(t))
       /\ SF_vars(\E t \in tasks : t.cmd = c /\ TaskDone(t))
       /\ SF_vars(\E t \in tasks : t.cmd = c /\ ProbeSucceeds(t))
       /\ SF_vars(\E l \in Loop : FlushSend(l, c))
       /\ WF_vars(\E m \in calls : m.cmd = c /\ m.awaited /\ Deliver(m))
       /\ WF_vars(cmd[c].owner # Instance /\ LeaseExpires(c))

FairSpec == Spec /\ Fairness

-----------------------------------------------------------------------------
(* Properties.                                                             *)

\* Type invariant: the rows of both databases, the tasks and the requests.
TypeOK ==
  /\ cmd \in [Cmd -> CommandRow]
  /\ journal \in [Cmd -> JournalRow]
  /\ outbox \in [Cmd -> OutboxRow]
  /\ phase \in {"idle", "flush", "busy"}
  /\ batch \subseteq Claim
  /\ tasks \subseteq Task
  /\ lockq \in [Device -> Seq(Cmd)]
  /\ calls \subseteq Call
  /\ applied \in [Cmd -> Nat]
  /\ used \in [Budget -> Nat]
  /\ \A b \in Budget : used[b] <= Bound(b)

\* No command takes effect twice, whatever is reclaimed, lost, late or
\* restarted: the journal suppresses every second execution.
EffectAtMostOnce == \A c \in Cmd : applied[c] <= 1

\* Two operations never run on a headset at a time, not even when a sync has
\* ended early and the next one dispatches what the Cloud hands out meanwhile.
ExclusiveHeadset == \A t, u \in tasks :
  /\ t.pc \in {"exec", "applied"}
  /\ u.pc \in {"exec", "applied"}
  /\ DeviceOf[t.cmd] = DeviceOf[u.cmd]
  => t = u

\* What the Cloud tells the operator is what happened on the headset and what
\* the Hub's journal says: the three stores never contradict each other.  A
\* failure denies the effect of the conclusive commands only.
CloudAgreesWithHub == \A c \in Cmd :
  /\ cmd[c].status = "succeeded" =>
       /\ applied[c] = 1
       /\ journal[c].state = "completed"
       /\ journal[c].result = cmd[c].result
  /\ cmd[c].status = "failed" =>
       /\ journal[c] = [state |-> "completed", result |-> "err"]
       /\ c \in Conclusive => applied[c] = 0

\* No later command of a headset has been handed out while an earlier one is
\* still open or its outcome unknown.
HeadOfLine == \A c, d \in Cmd :
  c < d /\ DeviceOf[c] = DeviceOf[d] /\ Unsettled(c)
    => cmd[d].status \in {"absent", "created", "cancelled"}

\* A row is only taken off the retry list when the Cloud has its result.  The
\* one exception is a row replaced while its older copy was on its way (it is
\* marked by command id): then the Cloud has the unknown outcome of the copy
\* and the row the success that was proved since, never anything else.
DeliveredIsSettled == \A c \in Cmd :
  outbox[c].delivered /\ cmd[c].status # "gone" =>
    \/ cmd[c].status = outbox[c].status /\ cmd[c].result = outbox[c].result
    \/ cmd[c].status = "timeout" /\ outbox[c].status = "succeeded"

\* The exception needs two headsets (pipeline_lost_result.cfg finds it).
DeliveredIsRecorded == \A c \in Cmd :
  outbox[c].delivered /\ cmd[c].status # "gone"
    => cmd[c].status = outbox[c].status /\ cmd[c].result = outbox[c].result

\* Two commands of a headset take effect in the order they were created.
EffectOrder == \A c, d \in Cmd :
  c < d /\ DeviceOf[c] = DeviceOf[d] /\ applied[d] > 0 => applied'[c] = applied[c]
EffectsInOrder == [][EffectOrder]_vars

\* Every command that is created is settled in the Cloud in the end.
EventuallySettled == \A c \in Cmd :
  cmd[c].status # "absent" ~> cmd[c].status \in Terminal \cup {"gone"}

\* What a crash interrupted is looked at again: no open command stays `running'
\* in the journal of a Hub that does not run it.
Orphaned(c) == /\ journal[c].state = "running" /\ ~\E t \in tasks : t.cmd = c
               /\ cmd[c].status \in Active
RestartRecovers == \A c \in Cmd : Orphaned(c) ~> ~Orphaned(c)

\* A result that waits in the outbox reaches the Cloud.  Not so if its claim was
\* renewed meanwhile (pipeline_stale_outbox_token.cfg): nothing gives the row of
\* a completed command its new token.
ResultReachesCloud == \A c \in Cmd : Pending(c) ~> cmd[c].status \in Terminal \cup {"gone"}

\* A success the reconciler proves after an unknown outcome becomes the
\* Cloud's result.
ReconciliationReachesCloud == \A c \in Cmd :
  cmd[c].status = "timeout" /\ journal[c].result = "rec" ~> cmd[c].status = "succeeded"

-----------------------------------------------------------------------------
(* The pipeline implements its contract (as long as no headset is deleted, *)
(* after which there is nothing left to agree upon).                       *)

VerdictOf(c) == CASE cmd[c].status \in {"absent", "created"} \cup Active -> "open"
                  [] cmd[c].status = "timeout" -> "unknown"
                  [] OTHER -> cmd[c].status

Contract == INSTANCE CommandContract
  WITH verdict <- [c \in Cmd |-> VerdictOf(c)], effect <- applied

\* Every step of Cloud, Hub and network is a step of the contract or none.
ImplementsContract == Contract!ContractSpec
=============================================================================
