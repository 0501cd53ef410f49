----------------------- MODULE CommandContractProofs ------------------------
(***************************************************************************)
(* What the pipeline promises of a Hub with one headset, for every set of  *)
(* commands and every bound: commands take effect in the order they were   *)
(* created, and the pipeline implements CommandContract.  With two headsets*)
(* both can fail: one headset's exception ends the sync that awaits the    *)
(* other.                                                                  *)
(***************************************************************************)
EXTENDS CommandAgreementProofs

OneHeadset == \A c, d \in Cmd : DeviceOf[c] = DeviceOf[d]

(***************************************************************************)
(* The inductive invariant.  A sync brings the head of the queue, at most  *)
(* one command, and is over when that command's handler is; so there is at *)
(* most one task, and its sync awaits it.                                  *)
(***************************************************************************)
OneTask == /\ \A t \in tasks : phase = "busy" /\ t.awaited
           /\ \A t, u \in tasks : t = u
OneBatch == /\ phase # "flush" => batch = {}
            /\ \A a, b \in batch : a = b

\* What a delivery loop awaits is what the outbox says meanwhile.
Tracked(m) ==
  /\ ~m.reconciled
  /\ m.awaited /\ m.status # "running" =>
       /\ LoopActive(m.by)
       /\ outbox[m.cmd].status = m.status
       /\ outbox[m.cmd].result = m.result

\* No later command was claimed before this one was settled, and what was never
\* claimed left no trace on the Hub.
ClaimedInOrder == \A c, d \in Cmd :
  c < d /\ DeviceOf[c] = DeviceOf[d] /\ Unsettled(c) => cmd[d].attempt = 0
TraceOfClaim == \A c \in Cmd :
  journal[c].state # "none" => cmd[c].attempt > 0 \/ cmd[c].status = "gone"
TraceOfTask == \A t \in tasks : journal[t.cmd].state # "none"

\* A command is only started while the later ones have had no effect.
LaterUntouched(c) == \A d \in Cmd : c < d => applied[d] = 0
Starting(t) == t.kind = "exec" /\ t.pc \in {"resolve", "announce", "queued", "exec"}
EffectsFollow ==
  /\ \A b \in batch : LaterUntouched(b.cmd)
  /\ \A t \in tasks : Starting(t) => LaterUntouched(t.cmd)

\* A timeout is reported by a handler that is through with the headset, or by a
\* probe, which finds no handler.
TimedOut(c) == /\ journal[c].state # "none"
               /\ \A t \in tasks : t.cmd = c => ~Starting(t)
TimeoutsFollow ==
  /\ \A c \in Cmd : outbox[c].status = "timeout" \/ cmd[c].status = "timeout" => TimedOut(c)
  /\ \A m \in calls : m.status = "timeout" => TimedOut(m.cmd)

SerialInv ==
  /\ OneTask /\ OneBatch
  /\ \A m \in calls : Tracked(m)
  /\ DeliveredIsRecorded
  /\ ClaimedInOrder /\ TraceOfClaim /\ TraceOfTask
  /\ EffectsFollow /\ TimeoutsFollow

\* Together with what holds for any number of headsets.
HubInv == ExecInv /\ QueueInv /\ AgreeInv /\ SerialInv
\* What is known of both ends of a step.
HubStep == HubInv /\ StepKeeps /\ ExecInv' /\ QueueInv' /\ AgreeInv'

-----------------------------------------------------------------------------
(* What has been said stays true.                                          *)

\* A delivered result and the Cloud's row stay as they are.
LEMMA RecordedStays ==
  ASSUME HubStep, NEW c \in Cmd,
         outbox'[c].delivered => outbox[c].delivered,
         outbox'[c].status = outbox[c].status,
         outbox'[c].result = outbox[c].result,
         \/ cmd'[c].status = cmd[c].status /\ cmd'[c].result = cmd[c].result
         \/ cmd[c].status \notin {"succeeded", "failed", "timeout"}
         \/ cmd'[c].status = "gone",
         outbox'[c].delivered, cmd'[c].status # "gone"
  PROVE  cmd'[c].status = outbox'[c].status /\ cmd'[c].result = outbox'[c].result
<1>1. outbox[c] \in OutboxRow /\ cmd[c] \in CommandRow
  BY DEF HubStep, HubInv, ExecInv, TypeOK
<1>2. cmd[c].status # "gone"
  BY DEF HubStep, StepKeeps, TokensGrow
<1>3. cmd[c].status = outbox[c].status /\ cmd[c].result = outbox[c].result
  BY <1>2 DEF HubStep, HubInv, SerialInv, DeliveredIsRecorded
<1>4. outbox[c].status # "none"
  BY <1>1, <1>3 DEF CommandRow, Status, Active, Terminal
<1>. QED  BY <1>1, <1>3, <1>4 DEF OutboxRow

\* Nobody starts but who was about to, and the handler of an untraced command.
NoNewStarter == \A v \in tasks' : Starting(v) =>
  \/ \E u \in tasks : Starting(u) /\ u.cmd = v.cmd
  \/ journal[v.cmd].state = "none"

LEMMA TimedOutStays ==
  ASSUME HubStep, NoNewStarter, NEW c \in Cmd, TimedOut(c)
  PROVE  TimedOut(c)'
BY DEF HubStep, StepKeeps, JournalKept, NoNewStarter, TimedOut

\* Nothing awaits the answer to a result unless a sync flushes or a handler does.
LEMMA NobodyAwaits ==
  ASSUME HubInv, phase # "flush", \A t \in tasks : t.pc # "flush"
  PROVE  \A m \in calls : ~(m.awaited /\ m.status # "running")
BY DEF HubInv, SerialInv, Tracked, LoopActive

LEMMA TrackedUnawaited ==
  ASSUME HubInv, NEW m \in calls, ~(m.awaited /\ m.status # "running")
  PROVE  Tracked(m)'
BY DEF HubInv, SerialInv, Tracked

\* The queue: only the head is claimed, and what is settled stays settled.
LEMMA ClaimOrderKeeps ==
  ASSUME HubStep,
         \A c \in Cmd : Unsettled(c)' => Unsettled(c),
         \A d \in Cmd : cmd'[d].attempt \in {0, cmd[d].attempt} \/ HeadOfDevice(d)
  PROVE  ClaimedInOrder'
BY DEF HubStep, HubInv, SerialInv, ClaimedInOrder, HeadOfDevice

LEMMA ClaimOrderOfClaims ==
  ASSUME HubStep, ClaimCommands
  PROVE  ClaimedInOrder'
<1>1. ASSUME NEW c \in Cmd
      PROVE  /\ Unsettled(c)' => Unsettled(c)
             /\ cmd'[c].attempt = cmd[c].attempt \/ HeadOfDevice(c)
  <2>1. CASE c \in Claimed
    BY <2>1 DEF Claimed, Candidate, Unsettled
  <2>2. CASE c \notin Claimed
    BY <2>2 DEF ClaimCommands, Unsettled
  <2>. QED  BY <2>1, <2>2
<1>. QED  BY <1>1, ClaimOrderKeeps

\* Where a report may move a command.
LEMMA MovesFrom ==
  ASSUME HubInv, NEW m \in calls, Moves(m)
  PROVE  /\ m.cmd \in Cmd /\ m.status \in {"running", "succeeded", "failed", "timeout"}
         /\ cmd[m.cmd].status \in Active
<1>1. m \in Call /\ m.cmd \in Cmd /\ m.tok > 0 /\ ~m.reconciled /\ cmd[m.cmd] \in CommandRow
  BY DEF HubInv, ExecInv, TypeOK, Call, QueueInv, TokensIssued, CallTokens, SerialInv, Tracked
<1>2. cmd[m.cmd].status \notin {"absent", "created"}
  BY <1>1 DEF Moves, TokenMatches, HubInv, QueueInv, CloudInv, TokenOfClaim
<1>. QED
  BY <1>1, <1>2
     DEF Call, Moves, Reconciles, CommandTransitions, CommandRow, Status, Active, Terminal

LEMMA UpdateMoves ==
  ASSUME HubInv, NEW m \in calls, UpdateCommandStatus(m), NEW c \in Cmd
  PROVE  \/ cmd'[c] = cmd[c]
         \/ cmd'[c].status = "gone" /\ cmd'[c].attempt = 0 /\ m.cmd \in Forget
         \/ /\ c = m.cmd /\ Moves(m) /\ cmd'[c].attempt = cmd[c].attempt
            /\ cmd'[c].status = m.status /\ cmd'[c].result = m.result
<1>1. CASE Forgets(m)
  BY <1>1 DEF UpdateCommandStatus, Without, NoCommand, Forgets
<1>2. CASE ~Forgets(m) /\ Moves(m)
  BY <1>2 DEF UpdateCommandStatus, HubInv, ExecInv, TypeOK, CommandRow
<1>3. CASE ~Forgets(m) /\ ~Moves(m)
  BY <1>3 DEF UpdateCommandStatus
<1>. QED  BY <1>1, <1>2, <1>3

\* What leaves a trace in the journal was claimed.
LEMMA TraceKeeps ==
  ASSUME HubStep,
         \A c \in Cmd : journal'[c].state # "none" =>
           \/ journal[c].state # "none"
           \/ \E b \in batch : b.cmd = c
  PROVE  TraceOfClaim'
<1> SUFFICES ASSUME NEW c \in Cmd, journal'[c].state # "none"
             PROVE  cmd'[c].attempt > 0 \/ cmd'[c].status = "gone"
  BY DEF TraceOfClaim
<1>1. cmd[c].attempt \in Nat /\ cmd'[c].attempt \in Nat
  BY BoundAssumption DEF HubStep, HubInv, ExecInv, TypeOK, CommandRow
<1>2. CASE journal[c].state # "none"
  BY <1>1, <1>2 DEF HubStep, HubInv, SerialInv, TraceOfClaim, StepKeeps, TokensGrow
<1>3. ASSUME NEW b \in batch, b.cmd = c
      PROVE  cmd'[c].attempt > 0 \/ cmd'[c].status = "gone"
  <2>1. b.tok \in Nat /\ b.tok > 0 /\ TokenKnown(c, b.tok)
    BY <1>3, BoundAssumption
       DEF HubStep, HubInv, ExecInv, TypeOK, Claim, QueueInv, TokensIssued, BatchTokens,
           AgreeInv, BatchAgrees
  <2>. QED  BY <1>1, <2>1 DEF TokenKnown, HubStep, StepKeeps, TokensGrow
<1>. QED  BY <1>2, <1>3

-----------------------------------------------------------------------------
(* The steps of the one handler or probe.                                  *)

\* It is alone, and nobody awaits anything else.
LEMMA AloneStep ==
  ASSUME HubInv, NEW t \in tasks
  PROVE  /\ tasks = {t} /\ phase = "busy" /\ batch = {} /\ t.awaited
         /\ Throw(t) => tasks' = {} /\ phase' = "idle"
         /\ \A pc : Goto(t, pc) => tasks' = {[t EXCEPT !.pc = pc]}
<1>1. tasks = {t} /\ phase = "busy" /\ t.awaited
  BY DEF HubInv, SerialInv, OneTask
<1>2. batch = {}
  BY <1>1 DEF HubInv, SerialInv, OneBatch
<1>3. tasks \ {t} = {}
  BY <1>1
<1>. QED  BY <1>1, <1>2, <1>3 DEF Throw, Goto

\* Where it goes: away, or to another place, where it still starts the handler
\* only if it was about to, and only if nothing has had an effect.
Goes(t) ==
  \/ Throw(t)
  \/ tasks' = {} /\ phase' = phase
  \/ \E pc \in TaskPc :
       /\ Goto(t, pc)
       /\ phase' = phase
       /\ t.kind = "exec" /\ pc \in {"resolve", "announce", "queued", "exec"}
            => Starting(t) /\ applied' = applied

LEMMA AloneGoes ==
  ASSUME HubStep, NEW t \in tasks, Goes(t), batch' = batch
  PROVE  OneTask' /\ OneBatch' /\ EffectsFollow' /\ NoNewStarter
         /\ \A v \in tasks' : v.cmd = t.cmd
<1>. HubInv /\ tasks = {t} /\ phase = "busy" /\ batch = {} /\ t.awaited
  BY AloneStep DEF HubStep
<1>. t \in Task
  BY DEF HubInv, ExecInv, TypeOK
<1>1. CASE tasks' = {}
  BY <1>1 DEF OneTask, OneBatch, EffectsFollow, NoNewStarter
<1>2. ASSUME NEW pc \in TaskPc, Goto(t, pc), phase' = phase,
             t.kind = "exec" /\ pc \in {"resolve", "announce", "queued", "exec"}
               => Starting(t) /\ applied' = applied
      PROVE  OneTask' /\ OneBatch' /\ EffectsFollow' /\ NoNewStarter
             /\ \A v \in tasks' : v.cmd = t.cmd
  <2> DEFINE new == [t EXCEPT !.pc = pc]
  <2>1. /\ tasks' = {new} /\ new.cmd = t.cmd /\ new.kind = t.kind /\ new.pc = pc
        /\ new.awaited
    BY <1>2, AloneStep DEF Task
  <2>2. OneTask' /\ OneBatch' /\ NoNewStarter
    BY <1>2, <2>1 DEF OneTask, OneBatch, NoNewStarter, Starting
  <2>3. EffectsFollow'
    BY <1>2, <2>1 DEF EffectsFollow, Starting, LaterUntouched, HubInv, SerialInv
  <2>. QED  BY <2>1, <2>2, <2>3
<1>. QED  BY <1>1, <1>2, AloneStep DEF Goes

\* What it writes: one journal row, and a row of the outbox that is not yet
\* delivered or was the same before.
Writes(t) ==
  /\ \A c \in Cmd \ {t.cmd} : journal'[c] = journal[c] /\ outbox'[c] = outbox[c]
  /\ outbox'[t.cmd].delivered /\ cmd[t.cmd].status # "gone" =>
       /\ outbox[t.cmd].delivered
       /\ outbox'[t.cmd].status = outbox[t.cmd].status
       /\ outbox'[t.cmd].result = outbox[t.cmd].result
  /\ outbox'[t.cmd].status = "timeout" =>
       \/ outbox[t.cmd].status = "timeout"
       \/ \A v \in tasks' : ~Starting(v)

LEMMA AloneKeeps ==
  ASSUME HubStep, NEW t \in tasks, UNCHANGED <<cmd, batch>>, Goes(t), Writes(t),
         t.pc = "flush" => Idle(LoopOf(t)),
         \A m \in calls' \ calls : ~m.reconciled /\ m.status = "running"
  PROVE  SerialInv'
<1>. HubInv /\ tasks = {t} /\ phase = "busy" /\ batch = {} /\ t.awaited
  BY AloneStep DEF HubStep
<1>. t \in Task /\ t.cmd \in Cmd /\ TypeOK /\ TypeOK'
  BY DEF HubInv, ExecInv, TypeOK, Task, HubStep
<1>1. OneTask' /\ OneBatch' /\ EffectsFollow' /\ NoNewStarter /\ \A v \in tasks' : v.cmd = t.cmd
  BY AloneGoes
<1>2. \A m \in calls' : Tracked(m)'
  <2>1. ASSUME NEW m \in calls, m.awaited, m.status # "running"
        PROVE  FALSE
    <3>1. LoopActive(m.by)
      BY <2>1 DEF HubInv, SerialInv, Tracked
    <3>2. t.pc = "flush" /\ LoopOf(t) = m.by
      BY <3>1 DEF LoopActive
    <3>. QED  BY <2>1, <3>2 DEF Idle
  <2>2. \A m \in calls : Tracked(m)'
    BY <2>1, TrackedUnawaited
  <2>3. \A m \in calls' \ calls : Tracked(m)'
    BY DEF Tracked
  <2>. QED  BY <2>2, <2>3
<1>3. journal[t.cmd].state # "none"
  BY DEF HubInv, SerialInv, TraceOfTask
<1>4. ClaimedInOrder' /\ TraceOfClaim' /\ TraceOfTask'
  <2>1. ClaimedInOrder'
    BY DEF HubInv, SerialInv, ClaimedInOrder, Unsettled
  <2>2. TraceOfClaim'
    BY <1>3, TraceKeeps DEF Writes
  <2>3. TraceOfTask'
    BY <1>1, <1>3 DEF TraceOfTask, HubStep, StepKeeps, JournalKept
  <2>. QED  BY <2>1, <2>2, <2>3
<1>5. DeliveredIsRecorded'
  <2>1. SUFFICES ASSUME NEW c \in Cmd, outbox'[c].delivered, cmd'[c].status # "gone"
                 PROVE  cmd'[c].status = outbox'[c].status /\ cmd'[c].result = outbox'[c].result
    BY DEF DeliveredIsRecorded
  <2>2. outbox[c].delivered /\ outbox'[c].status = outbox[c].status
        /\ outbox'[c].result = outbox[c].result
    BY <2>1 DEF Writes
  <2>. QED  BY <2>1, <2>2, RecordedStays
<1>6. TimeoutsFollow'
  <2>1. \A c \in Cmd : TimedOut(c) => TimedOut(c)'
    BY <1>1, TimedOutStays
  <2>2. ASSUME NEW c \in Cmd, outbox'[c].status = "timeout" \/ cmd'[c].status = "timeout"
        PROVE  TimedOut(c)'
    <3>1. CASE outbox[c].status = "timeout" \/ cmd[c].status = "timeout"
      BY <2>1, <3>1 DEF HubInv, SerialInv, TimeoutsFollow
    <3>2. CASE c = t.cmd /\ \A v \in tasks' : ~Starting(v)
      BY <1>3, <3>2 DEF TimedOut, HubStep, StepKeeps, JournalKept
    <3>. QED  BY <2>2, <3>1, <3>2 DEF Writes
  <2>3. ASSUME NEW m \in calls', m.status = "timeout"
        PROVE  TimedOut(m.cmd)'
    <3>1. m \in calls /\ m.cmd \in Cmd
      BY <2>3 DEF TypeOK, Call
    <3>. QED  BY <2>1, <2>3, <3>1 DEF HubInv, SerialInv, TimeoutsFollow
  <2>. QED  BY <2>2, <2>3 DEF TimeoutsFollow
<1>. QED  BY <1>1, <1>2, <1>4, <1>5, <1>6 DEF SerialInv

LEMMA SerialTaskStep ==
  ASSUME HubStep, NEW t \in tasks, TaskStep(t)
  PROVE  SerialInv'
<1>. HubInv /\ tasks = {t} /\ phase = "busy" /\ batch = {} /\ t.awaited
  BY AloneStep DEF HubStep
<1>. t \in Task /\ t.cmd \in Cmd /\ TypeOK /\ TypeOK' /\ TaskInv(t)
  BY DEF HubInv, ExecInv, TypeOK, Task, HubStep, TasksInv
<1>1. UNCHANGED <<cmd, batch>>
  BY DEF TaskStep, NoRoute, RecordFailure, AnnounceRunning, StartExec, ApplyEffect,
         ExecSucceeds, RecordSuccess, ExecUnknown, ExecFails, ProbeSucceeds, ProbeFails,
         TaskDone
<1>2. ASSUME outbox' = outbox, \A c \in Cmd \ {t.cmd} : journal'[c] = journal[c]
      PROVE  Writes(t)
  BY <1>2 DEF Writes
<1>3. ASSUME NEW pc \in {"applied", "marked", "failing", "flush"}, Goto(t, pc), phase' = phase
      PROVE  Goes(t)
  BY <1>3 DEF Goes, TaskPc
<1>4. FailJournal(t) => \A c \in Cmd \ {t.cmd} : journal'[c] = journal[c]
  BY DEF FailJournal, SetJournal, TypeOK
<1>5. ASSUME NEW result \in {"ok", "rec"}, Complete(t, result)
      PROVE  Goes(t) /\ Writes(t)
  <2>1. CASE Throw(t) /\ UNCHANGED <<journal, outbox>>
    BY <1>2, <2>1 DEF Goes
  <2>2. CASE /\ journal[t.cmd].result \in {"none", result}
             /\ SetJournal(t.cmd, "completed", result)
             /\ outbox' = [outbox EXCEPT ![t.cmd] = CompleteRow(t.cmd, t.tok, result)]
             /\ Goto(t, "flush") /\ phase' = phase
    <3> DEFINE c == t.cmd
    <3>1. outbox'[c] = CompleteRow(c, t.tok, result) /\ outbox[c] \in OutboxRow
          /\ cmd[c] \in CommandRow
      BY <2>2 DEF TypeOK
    <3>2. \A k \in Cmd \ {c} : journal'[k] = journal[k] /\ outbox'[k] = outbox[k]
      BY <2>2 DEF SetJournal, TypeOK
    <3>3. outbox'[c].status = "timeout" => outbox[c].status = "timeout"
      BY <3>1 DEF CompleteRow, OutboxRow
    <3>4. ASSUME outbox'[c].delivered, cmd[c].status # "gone"
          PROVE  /\ outbox[c].delivered
                 /\ outbox'[c].status = outbox[c].status
                 /\ outbox'[c].result = outbox[c].result
      <4>1. CASE outbox[c].status \in {"none", "timeout"} \/ outbox[c].result = result
        <5>1. outbox'[c] = [status |-> "succeeded", tok |-> t.tok, result |-> result,
                 delivered |-> outbox[c].delivered /\ outbox[c].status # "timeout"]
          BY <3>1, <4>1 DEF CompleteRow
        <5>2. outbox[c].delivered /\ outbox[c].status # "timeout"
          <6> DEFINE kept == outbox[c].delivered /\ outbox[c].status # "timeout"
          <6>1. outbox'[c] = [status |-> "succeeded", tok |-> t.tok, result |-> result,
                              delivered |-> kept]
            BY <5>1
          <6> HIDE DEF kept
          <6>2. outbox'[c].delivered = kept
            BY <6>1
          <6>3. kept
            BY <3>4, <6>2
          <6>. QED  BY <6>3 DEF kept
        <5>3. cmd[c].status = outbox[c].status
          BY <3>4, <5>2 DEF HubInv, SerialInv, DeliveredIsRecorded
        <5>4. outbox[c].status # "none"
          BY <3>1, <5>3 DEF CommandRow, Status, Active, Terminal
        <5>5. outbox[c].status # "failed"
          BY <2>2, <5>3 DEF HubInv, AgreeInv, CloudAgrees, FailureJournaled
        <5>. QED  BY <3>1, <3>4, <4>1, <5>1, <5>2, <5>4, <5>5 DEF OutboxRow
      <4>2. CASE ~(outbox[c].status \in {"none", "timeout"} \/ outbox[c].result = result)
        <5>1. outbox'[c] = [outbox[c] EXCEPT !.tok = t.tok]
          BY <3>1, <4>2 DEF CompleteRow
        <5>. QED  BY <3>1, <3>4, <5>1 DEF OutboxRow
      <4>. QED  BY <4>1, <4>2
    <3>. QED  BY <1>3, <2>2, <3>2, <3>3, <3>4 DEF Writes
  <2>. QED  BY <1>5, <2>1, <2>2 DEF Complete
<1>6. ASSUME NEW result, ReportUnknown(t, result)
      PROVE  Goes(t) /\ Writes(t)
  <2>1. Goes(t) /\ (tasks' = {} \/ tasks' = {[t EXCEPT !.pc = "flush"]})
    BY <1>3, <1>6, AloneStep DEF ReportUnknown, Goes
  <2>2. \A v \in tasks' : ~Starting(v)
    BY <2>1 DEF Starting, Task
  <2>3. \A c \in Cmd \ {t.cmd} : journal'[c] = journal[c] /\ outbox'[c] = outbox[c]
    BY <1>6 DEF ReportUnknown, TypeOK
  <2>4. outbox' = outbox \/ ~outbox'[t.cmd].delivered
    BY <1>6 DEF ReportUnknown, TypeOK
  <2>. QED  BY <2>1, <2>2, <2>3, <2>4 DEF Writes
<1>7. CASE NoRoute(t)
  BY <1>1, <1>2, <1>3, <1>4, <1>7, AloneKeeps DEF NoRoute
<1>8. CASE RecordFailure(t)
  <2>1. Writes(t)
    BY <1>8 DEF RecordFailure, Writes, TypeOK
  <2>. QED  BY <1>1, <1>8, <2>1, AloneKeeps DEF RecordFailure, Goes
<1>9. CASE AnnounceRunning(t)
  <2>1. Goes(t)
    BY <1>9 DEF AnnounceRunning, Goes, Starting, TaskPc
  <2>2. \A m \in calls' \ calls : ~m.reconciled /\ m.status = "running"
    BY <1>9 DEF AnnounceRunning
  <2>. QED  BY <1>1, <1>2, <1>9, <2>1, <2>2, AloneKeeps DEF AnnounceRunning
<1>10. CASE StartExec(t)
  <2>1. Goes(t)
    BY <1>10 DEF StartExec, Goes, Starting, TaskPc, TaskInv, OnlyHandler
  <2>. QED  BY <1>1, <1>2, <1>10, <2>1, AloneKeeps DEF StartExec
<1>11. CASE ApplyEffect(t)
  BY <1>1, <1>2, <1>3, <1>11, AloneKeeps DEF ApplyEffect
<1>12. CASE ExecSucceeds(t)
  <2>1. Goes(t)
    BY <1>3, <1>12 DEF ExecSucceeds, Goes
  <2>2. \A c \in Cmd \ {t.cmd} : journal'[c] = journal[c]
    BY <1>12 DEF ExecSucceeds, SetJournal, TypeOK
  <2>. QED  BY <1>1, <1>2, <1>12, <2>1, <2>2, AloneKeeps DEF ExecSucceeds
<1>13. CASE RecordSuccess(t)
  BY <1>1, <1>5, <1>13, AloneKeeps DEF RecordSuccess
<1>14. CASE ExecUnknown(t)
  BY <1>1, <1>6, <1>14, AloneKeeps DEF ExecUnknown
<1>15. CASE ExecFails(t)
  BY <1>1, <1>2, <1>3, <1>4, <1>15, AloneKeeps DEF ExecFails, KnownFailure
<1>16. CASE ProbeSucceeds(t)
  BY <1>1, <1>5, <1>16, AloneKeeps DEF ProbeSucceeds
<1>17. CASE ProbeFails(t)
  BY <1>1, <1>6, <1>17, AloneKeeps DEF ProbeFails
<1>18. CASE TaskDone(t)
  <2>1. tasks' = {} /\ phase' = phase
    BY <1>18 DEF TaskDone
  <2>. QED  BY <1>1, <1>2, <1>18, <2>1, AloneKeeps DEF TaskDone, Goes
<1>. QED
  BY <1>7, <1>8, <1>9, <1>10, <1>11, <1>12, <1>13, <1>14, <1>15, <1>16, <1>17, <1>18
     DEF TaskStep

-----------------------------------------------------------------------------
(* The other steps.                                                        *)

\* Steps of the Cloud and the network that leave Hub and headset alone, but for
\* a handler that joins the queue of its lock and the mark of a delivered row.
LEMMA SerialRemote ==
  ASSUME HubStep, UNCHANGED <<journal, applied>>,
         OneTask', OneBatch', NoNewStarter, EffectsFollow', TraceOfTask',
         \A c \in Cmd : outbox'[c].status = outbox[c].status
                        /\ outbox'[c].result = outbox[c].result,
         DeliveredIsRecorded', ClaimedInOrder',
         \A c \in Cmd : cmd'[c].status = "timeout" =>
           \/ cmd[c].status = "timeout" \/ outbox[c].status = "timeout"
           \/ \E m \in calls : m.cmd = c /\ m.status = "timeout",
         \A m \in calls' : Tracked(m)',
         \A m \in calls' : m.status = "timeout" =>
           \/ outbox[m.cmd].status = "timeout"
           \/ \E n \in calls : n.cmd = m.cmd /\ n.status = "timeout"
  PROVE  SerialInv'
<1>. HubInv /\ TypeOK'
  BY DEF HubStep, ExecInv
<1>1. TraceOfClaim'
  BY TraceKeeps
<1>2. \A c \in Cmd : TimedOut(c) => TimedOut(c)'
  BY TimedOutStays
<1>3. \A c \in Cmd : outbox[c].status = "timeout" \/ cmd[c].status = "timeout"
                       \/ (\E m \in calls : m.cmd = c /\ m.status = "timeout") => TimedOut(c)'
  BY <1>2 DEF HubInv, SerialInv, TimeoutsFollow
<1>4. TimeoutsFollow'
  <2>1. \A m \in calls' : m.cmd \in Cmd
    BY DEF TypeOK, Call
  <2>. QED  BY <1>3, <2>1 DEF TimeoutsFollow
<1>. QED  BY <1>1, <1>4 DEF SerialInv

LEMMA SerialCloudStep ==
  ASSUME HubStep, NEW c \in Cmd, CloudStep(c)
  PROVE  SerialInv'
<1>. HubInv /\ TypeOK /\ TypeOK'
  BY DEF HubStep, HubInv, ExecInv
<1>1. UNCHANGED <<hubVars, calls, applied>>
  BY DEF CloudStep, CreateDeviceCommand, CancelDeviceCommand, LeaseExpires
<1>2. /\ \A k \in Cmd \ {c} : cmd'[k] = cmd[k]
      /\ cmd'[c].attempt = cmd[c].attempt
      /\ \/ cmd[c].status = "absent" /\ cmd'[c].status = "created"
         \/ cmd[c].status \in {"created", "accepted_by_hub"} /\ cmd'[c].status = "cancelled"
         \/ cmd'[c].status = cmd[c].status /\ cmd'[c].result = cmd[c].result
  <2>1. CASE CreateDeviceCommand(c)
    BY <2>1 DEF CreateDeviceCommand, TypeOK, CommandRow
  <2>2. CASE CancelDeviceCommand(c)
    BY <2>2 DEF CancelDeviceCommand, TypeOK, CommandRow
  <2>3. CASE LeaseExpires(c)
    BY <2>3 DEF LeaseExpires, TypeOK, CommandRow
  <2>. QED  BY <2>1, <2>2, <2>3 DEF CloudStep
<1>3. ClaimedInOrder'
  <2>1. SUFFICES ASSUME NEW a \in Cmd, NEW b \in Cmd, a < b,
                        DeviceOf[a] = DeviceOf[b], Unsettled(a)'
                 PROVE  cmd'[b].attempt = 0
    BY DEF ClaimedInOrder
  <2>2. cmd'[b].attempt = cmd[b].attempt
    BY <1>2
  <2>3. CASE Unsettled(a)
    BY <2>1, <2>2, <2>3 DEF HubInv, SerialInv, ClaimedInOrder
  <2>4. CASE ~Unsettled(a)
    <3>1. cmd[a].status = "absent"
      BY <1>2, <2>1, <2>4 DEF Unsettled, Active
    <3>2. cmd[b].attempt = 0
      BY <2>1, <3>1 DEF HubInv, QueueInv, CloudInv, InOrder, TokenOfClaim
    <3>. QED  BY <2>2, <3>2
  <2>. QED  BY <2>3, <2>4
<1>4. DeliveredIsRecorded'
  <2>1. SUFFICES ASSUME NEW k \in Cmd, outbox'[k].delivered, cmd'[k].status # "gone"
                 PROVE  cmd'[k].status = outbox'[k].status /\ cmd'[k].result = outbox'[k].result
    BY DEF DeliveredIsRecorded
  <2>2. outbox' = outbox
    BY <1>1 DEF hubVars
  <2>. QED  BY <1>2, <2>1, <2>2, RecordedStays
<1>5. OneTask' /\ OneBatch' /\ NoNewStarter /\ EffectsFollow' /\ TraceOfTask'
  BY <1>1 DEF hubVars, HubInv, SerialInv, OneTask, OneBatch, NoNewStarter, EffectsFollow,
              LaterUntouched, TraceOfTask
<1>6. \A m \in calls' : Tracked(m)'
  BY <1>1 DEF hubVars, HubInv, SerialInv, Tracked, LoopActive
<1>. QED  BY <1>1, <1>2, <1>3, <1>4, <1>5, <1>6, SerialRemote DEF hubVars

LEMMA SerialFlush ==
  ASSUME HubStep, NEW l \in Loop, NEW c \in Cmd, FlushSend(l, c)
  PROVE  SerialInv'
<1>. HubInv /\ TypeOK /\ TypeOK'
  BY DEF HubStep, HubInv, ExecInv
<1>1. UNCHANGED <<hubVars, applied, cmd>> /\ LoopActive(l)
      /\ calls' = calls \cup {OutboxCall(c, l)}
  BY DEF FlushSend
<1>2. ClaimedInOrder' /\ DeliveredIsRecorded'
  BY <1>1 DEF hubVars, HubInv, SerialInv, ClaimedInOrder, Unsettled, DeliveredIsRecorded
<1>3. OneTask' /\ OneBatch' /\ NoNewStarter /\ EffectsFollow' /\ TraceOfTask'
  BY <1>1 DEF hubVars, HubInv, SerialInv, OneTask, OneBatch, NoNewStarter, EffectsFollow,
              LaterUntouched, TraceOfTask
<1>4. ASSUME NEW m, m = OutboxCall(c, l)
      PROVE  m.cmd = c /\ m.status = outbox[c].status /\ Tracked(m)'
  <2>1. m.cmd = c /\ m.status = outbox[c].status /\ m.result = outbox[c].result
        /\ ~m.reconciled /\ m.by = l
    BY <1>4 DEF OutboxCall
  <2>2. LoopActive(l)'
    BY <1>1 DEF LoopActive, hubVars
  <2>. QED  BY <1>1, <2>1, <2>2 DEF Tracked, LoopActive, hubVars
<1>5. \A m \in calls : Tracked(m)'
  BY <1>1 DEF hubVars, HubInv, SerialInv, Tracked, LoopActive
<1>6. \A m \in calls' : Tracked(m)'
  BY <1>1, <1>4, <1>5
<1>7. \A m \in calls' : m.status = "timeout" =>
           \/ outbox[m.cmd].status = "timeout"
           \/ \E n \in calls : n.cmd = m.cmd /\ n.status = "timeout"
  BY <1>1, <1>4
<1>. QED  BY <1>1, <1>2, <1>3, <1>6, <1>7, SerialRemote DEF hubVars

\* With one headset a sync brings at most one command: the head of the queue.
LEMMA OneClaimed ==
  ASSUME OneHeadset, NEW c \in Claimed, NEW d \in Claimed
  PROVE  c = d
<1>1. c \in Cmd /\ d \in Cmd /\ c \in Nat /\ d \in Nat /\ DeviceOf[c] = DeviceOf[d]
  BY CmdAssumption DEF Claimed, OneHeadset
<1>2. Unsettled(c) /\ Unsettled(d) /\ HeadOfDevice(c) /\ HeadOfDevice(d)
  BY DEF Claimed, Candidate, Unsettled
<1>3. ~(c < d) /\ ~(d < c)
  BY <1>1, <1>2 DEF HeadOfDevice
<1>. QED  BY <1>1, <1>3

\* Nothing after it has had an effect.
LEMMA ClaimedIsFirst ==
  ASSUME OneHeadset, HubInv, NEW c \in Claimed
  PROVE  LaterUntouched(c)
<1>1. c \in Cmd /\ Unsettled(c)
  BY DEF Claimed, Candidate, Unsettled
<1>2. SUFFICES ASSUME NEW d \in Cmd, c < d
               PROVE  applied[d] = 0
  BY DEF LaterUntouched
<1>3. DeviceOf[c] = DeviceOf[d]
  BY <1>1 DEF OneHeadset
<1>4. cmd[d].attempt = 0
  BY <1>1, <1>2, <1>3 DEF HubInv, SerialInv, ClaimedInOrder
<1>5. cmd[d].status # "gone"
  BY <1>1, <1>3 DEF HubInv, QueueInv, CloudInv, GoneTogether, Unsettled, Active
<1>6. journal[d].state = "none"
  BY <1>4, <1>5 DEF HubInv, SerialInv, TraceOfClaim
<1>. QED  BY <1>6 DEF HubInv, ExecInv, Untouched

LEMMA SerialSync ==
  ASSUME OneHeadset, HubStep, Sync \/ SyncAnswerLost
  PROVE  SerialInv'
<1>. HubInv /\ TypeOK /\ TypeOK'
  BY DEF HubStep, HubInv, ExecInv
<1>1. /\ UNCHANGED <<journal, outbox, tasks, calls, applied>> /\ ClaimCommands
      /\ phase = "idle"
      /\ \/ phase' = "flush" /\ batch' = {ClaimFor(c) : c \in Claimed}
         \/ UNCHANGED <<phase, batch>>
  BY DEF Sync, SyncAnswerLost, hubVars
<1>2. tasks = {}
  BY <1>1 DEF HubInv, SerialInv, OneTask
<1>3. OneTask' /\ NoNewStarter /\ TraceOfTask'
  BY <1>1, <1>2 DEF OneTask, NoNewStarter, TraceOfTask
<1>4. OneBatch' /\ EffectsFollow'
  <2>1. CASE phase' = "flush" /\ batch' = {ClaimFor(c) : c \in Claimed}
    <3>1. OneBatch'
      BY <2>1, OneClaimed DEF OneBatch
    <3>2. \A b \in batch' : LaterUntouched(b.cmd)
      BY <2>1, ClaimedIsFirst DEF ClaimFor
    <3>. QED  BY <1>1, <1>2, <3>1, <3>2 DEF EffectsFollow, LaterUntouched
  <2>2. CASE UNCHANGED <<phase, batch>>
    BY <1>1, <2>2 DEF HubInv, SerialInv, OneBatch, EffectsFollow, LaterUntouched
  <2>. QED  BY <1>1, <2>1, <2>2
<1>5. ASSUME NEW c \in Cmd
      PROVE  \/ cmd'[c].status = cmd[c].status /\ cmd'[c].result = cmd[c].result
             \/ (cmd[c].status = "created" /\ cmd'[c].status = "accepted_by_hub")
  <2>1. CASE c \in Claimed
    BY <1>1, <2>1 DEF ClaimCommands, ClaimRow, TypeOK, CommandRow
  <2>2. CASE c \notin Claimed
    BY <1>1, <2>2 DEF ClaimCommands
  <2>. QED  BY <2>1, <2>2
<1>6. DeliveredIsRecorded'
  <2>1. SUFFICES ASSUME NEW k \in Cmd, outbox'[k].delivered, cmd'[k].status # "gone"
                 PROVE  cmd'[k].status = outbox'[k].status /\ cmd'[k].result = outbox'[k].result
    BY DEF DeliveredIsRecorded
  <2>. QED  BY <1>1, <1>5, <2>1, RecordedStays
<1>7. \A m \in calls' : Tracked(m)'
  BY <1>1, <1>2, NobodyAwaits, TrackedUnawaited
<1>8. ClaimedInOrder'
  BY <1>1, ClaimOrderOfClaims
<1>. QED  BY <1>1, <1>3, <1>4, <1>5, <1>6, <1>7, <1>8, SerialRemote

LEMMA SerialDispatch ==
  ASSUME HubStep, Dispatch
  PROVE  SerialInv'
<1>. HubInv /\ TypeOK /\ TypeOK'
  BY DEF HubStep, HubInv, ExecInv
<1>1. /\ UNCHANGED <<cmd, outbox, calls, applied>> /\ phase = "flush" /\ phase' = "busy"
      /\ batch' = {} /\ Idle(SyncLoop)
  BY DEF Dispatch
<1>2. tasks = {}
  BY <1>1 DEF HubInv, SerialInv, OneTask
<1>3. ASSUME NEW v \in tasks'
      PROVE  \E b \in batch : v = NewTask(b) /\ (Runs(b) \/ Probes(b))
  BY <1>2 DEF Dispatch
<1>4. OneTask' /\ OneBatch'
  <2>1. \A v \in tasks' : v.awaited
    BY <1>3 DEF NewTask
  <2>2. \A u, v \in tasks' : u = v
    BY <1>3 DEF HubInv, SerialInv, OneBatch
  <2>. QED  BY <1>1, <2>1, <2>2 DEF OneTask, OneBatch
<1>5. EffectsFollow' /\ NoNewStarter
  BY <1>1, <1>3 DEF EffectsFollow, LaterUntouched, NoNewStarter, NewTask, Starting, Runs,
                    HubInv, SerialInv
<1>6. TraceOfTask'
  <2>1. SUFFICES ASSUME NEW v \in tasks'
                 PROVE  journal'[v.cmd].state # "none"
    BY DEF TraceOfTask
  <2>2. PICK b \in batch : v = NewTask(b) /\ (Runs(b) \/ Probes(b))
    BY <1>3
  <2>3. b.cmd \in Cmd /\ v.cmd = b.cmd
    BY <2>2 DEF NewTask, TypeOK, Claim
  <2>4. Runs(b) \/ BecomesUnknown(b) \/ journal[b.cmd].state # "none"
    BY <2>2 DEF Probes, BecomesUnknown, Interrupted
  <2>. QED  BY <2>3, <2>4 DEF Dispatch, TypeOK, JournalRow
<1>7. \A m \in calls' : Tracked(m)'
  <2>1. \A m \in calls : m.awaited /\ m.status # "running" => m.by = SyncLoop
    BY <1>2 DEF HubInv, SerialInv, Tracked, LoopActive
  <2>2. \A m \in calls : ~(m.awaited /\ m.status # "running")
    BY <1>1, <2>1 DEF Idle
  <2>. QED  BY <1>1, <2>2, TrackedUnawaited
<1>8. TraceOfClaim'
  <2>1. ASSUME NEW c \in Cmd, journal'[c].state # "none"
        PROVE  journal[c].state # "none" \/ \E b \in batch : b.cmd = c
    BY <2>1 DEF Dispatch
  <2>. QED  BY <2>1, TraceKeeps
<1>9. ClaimedInOrder' /\ DeliveredIsRecorded'
  BY <1>1 DEF HubInv, SerialInv, ClaimedInOrder, Unsettled, DeliveredIsRecorded
<1>10. TimeoutsFollow'
  <2>1. \A c \in Cmd : TimedOut(c) => TimedOut(c)'
    BY <1>5, TimedOutStays
  <2>2. \A m \in calls : m.cmd \in Cmd
    BY DEF TypeOK, Call
  <2>. QED  BY <1>1, <2>1, <2>2 DEF HubInv, SerialInv, TimeoutsFollow
<1>. QED  BY <1>4, <1>5, <1>6, <1>7, <1>8, <1>9, <1>10 DEF SerialInv

\* The sync of the one command is over when nothing is left of it.
LEMMA SerialSyncDone ==
  ASSUME HubStep, SyncDone
  PROVE  SerialInv'
<1>. HubInv
  BY DEF HubStep
<1>1. /\ UNCHANGED <<cmd, journal, outbox, batch, tasks, lockq, calls, applied>>
      /\ phase = "busy" /\ phase' = "idle" /\ \A t \in tasks : ~t.awaited
  BY DEF SyncDone
<1>2. tasks = {} /\ batch = {}
  BY <1>1 DEF HubInv, SerialInv, OneTask, OneBatch
<1>3. OneTask' /\ OneBatch' /\ NoNewStarter /\ EffectsFollow' /\ TraceOfTask'
  BY <1>1, <1>2 DEF OneTask, OneBatch, NoNewStarter, EffectsFollow, TraceOfTask
<1>4. \A m \in calls' : Tracked(m)'
  BY <1>1, <1>2, NobodyAwaits, TrackedUnawaited
<1>5. ClaimedInOrder' /\ DeliveredIsRecorded'
  BY <1>1 DEF HubInv, SerialInv, ClaimedInOrder, Unsettled, DeliveredIsRecorded
<1>. QED  BY <1>1, <1>3, <1>4, <1>5, SerialRemote

LEMMA SerialCrash ==
  ASSUME HubStep, Crash
  PROVE  SerialInv'
<1>. HubInv /\ TypeOK
  BY DEF HubStep, HubInv, ExecInv
<1>1. /\ UNCHANGED <<cmd, journal, outbox, applied>> /\ tasks' = {} /\ batch' = {}
      /\ calls' = {[m EXCEPT !.awaited = FALSE] : m \in calls}
  BY DEF Crash
<1>2. OneTask' /\ OneBatch' /\ NoNewStarter /\ EffectsFollow' /\ TraceOfTask'
  BY <1>1 DEF OneTask, OneBatch, NoNewStarter, EffectsFollow, TraceOfTask
<1>3. ASSUME NEW n \in calls'
      PROVE  Tracked(n)' /\ \E m \in calls : n.cmd = m.cmd /\ n.status = m.status
  <2>1. PICK m \in calls : n = [m EXCEPT !.awaited = FALSE]
    BY <1>1
  <2>2. m \in Call /\ Tracked(m)
    BY DEF TypeOK, HubInv, SerialInv
  <2>3. n.cmd = m.cmd /\ n.status = m.status /\ n.reconciled = m.reconciled /\ ~n.awaited
    BY <2>1, <2>2 DEF Call
  <2>. QED  BY <2>2, <2>3 DEF Tracked
<1>4. ClaimedInOrder' /\ DeliveredIsRecorded'
  BY <1>1 DEF HubInv, SerialInv, ClaimedInOrder, Unsettled, DeliveredIsRecorded
<1>. QED  BY <1>1, <1>2, <1>3, <1>4, SerialRemote

\* A report: what the Hub marks as delivered is what the Cloud has recorded.
LEMMA SerialCallStep ==
  ASSUME HubStep, NEW m \in calls, CallStep(m)
  PROVE  SerialInv'
<1>. HubInv /\ TypeOK /\ TypeOK' /\ m \in Call /\ m.cmd \in Cmd
  BY DEF HubStep, HubInv, ExecInv, TypeOK, Call
<1>1. UNCHANGED <<journal, applied, batch, phase>>
  BY DEF CallStep, Deliver, DeliverUnanswered, GiveUp
<1>2. ASSUME NEW c \in Cmd
      PROVE  \/ cmd'[c] = cmd[c]
             \/ cmd'[c].status = "gone" /\ cmd'[c].attempt = 0
             \/ /\ c = m.cmd /\ Moves(m) /\ cmd'[c].attempt = cmd[c].attempt
                /\ cmd'[c].status = m.status /\ cmd'[c].result = m.result
  BY UpdateMoves DEF CallStep, Deliver, DeliverUnanswered, GiveUp
<1>3. (\E ok : Continue(m, ok)) \/ UNCHANGED <<outbox, tasks, lockq>>
  BY DEF CallStep, Deliver, DeliverUnanswered, GiveUp
<1>4. \A c \in Cmd : outbox'[c].status = outbox[c].status /\ outbox'[c].result = outbox[c].result
  BY <1>3, ContinueFollows
<1>5. ClaimedInOrder'
  <2>1. ASSUME NEW c \in Cmd, Unsettled(c)'
        PROVE  Unsettled(c)
    BY <1>2, <2>1, MovesFrom DEF Unsettled, Active
  <2>2. \A d \in Cmd : cmd'[d].attempt \in {0, cmd[d].attempt}
    BY <1>2
  <2>. QED  BY <2>1, <2>2, ClaimOrderKeeps
<1>6. ASSUME NEW t \in tasks, t.pc = "announce", Goto(t, "queued")
      PROVE  /\ OneTask' /\ NoNewStarter /\ EffectsFollow' /\ TraceOfTask'
             /\ \A n \in calls : ~(n.awaited /\ n.status # "running")
  <2>1. t.kind = "exec" /\ Starting(t) /\ journal[t.cmd].state # "none"
    BY <1>6 DEF HubInv, ExecInv, TasksInv, TaskInv, OnlyHandler, Starting, SerialInv, TraceOfTask
  <2>2. Goes(t)
    BY <1>1, <1>6, <2>1 DEF Goes, TaskPc
  <2>3. OneTask' /\ NoNewStarter /\ EffectsFollow' /\ \A v \in tasks' : v.cmd = t.cmd
    BY <1>1, <2>2, AloneGoes
  <2>4. tasks = {t} /\ phase = "busy"
    BY AloneStep
  <2>. QED  BY <1>1, <1>6, <2>1, <2>3, <2>4, NobodyAwaits DEF TraceOfTask
<1>7. ASSUME UNCHANGED tasks
      PROVE  OneTask' /\ NoNewStarter /\ EffectsFollow' /\ TraceOfTask'
  BY <1>1, <1>7
     DEF HubInv, SerialInv, OneTask, NoNewStarter, EffectsFollow, LaterUntouched, TraceOfTask
<1>8. OneTask' /\ OneBatch' /\ NoNewStarter /\ EffectsFollow' /\ TraceOfTask'
  <2>1. OneBatch'
    BY <1>1 DEF HubInv, SerialInv, OneBatch
  <2>. QED  BY <1>3, <1>6, <1>7, <2>1 DEF Continue
<1>9. \A n \in calls : Tracked(n)'
  <2>1. CASE UNCHANGED tasks
    <3>1. ASSUME NEW n \in calls, n.awaited, n.status # "running"
          PROVE  LoopActive(n.by)' /\ n.cmd \in Cmd
      BY <1>1, <2>1, <3>1 DEF LoopActive, HubInv, SerialInv, Tracked, TypeOK, Call
    <3>. QED  BY <1>4, <3>1 DEF HubInv, SerialInv, Tracked
  <2>2. CASE \E t \in tasks : t.pc = "announce" /\ Goto(t, "queued")
    BY <1>6, <2>2, TrackedUnawaited
  <2>. QED  BY <1>3, <2>1, <2>2 DEF Continue
<1>10. ASSUME NEW n \in calls'
       PROVE  Tracked(n)' /\ \E k \in calls : n.cmd = k.cmd /\ n.status = k.status
  <2>1. CASE n \in calls
    BY <1>9, <2>1
  <2>2. CASE n = [m EXCEPT !.awaited = FALSE]
    <3>1. n.cmd = m.cmd /\ n.status = m.status /\ n.reconciled = m.reconciled /\ ~n.awaited
      BY <2>2 DEF Call
    <3>. QED  BY <1>9, <3>1 DEF Tracked
  <2>. QED  BY <2>1, <2>2 DEF CallStep, Deliver, DeliverUnanswered, GiveUp
<1>11. DeliveredIsRecorded'
  <2>1. SUFFICES ASSUME NEW c \in Cmd, outbox'[c].delivered, cmd'[c].status # "gone"
                 PROVE  cmd'[c].status = outbox'[c].status /\ cmd'[c].result = outbox'[c].result
    BY DEF DeliveredIsRecorded
  <2>2. CASE outbox[c].delivered
    BY <1>2, <1>4, <2>1, <2>2, MovesFrom, RecordedStays DEF Active
  <2>3. CASE ~outbox[c].delivered
    <3>1. /\ m.awaited /\ m.status # "running" /\ c = m.cmd
          /\ Accepts(m) /\ UpdateCommandStatus(m)
      BY <2>1, <2>3
         DEF CallStep, Deliver, DeliverUnanswered, GiveUp, Continue, TypeOK, OutboxRow
    <3>2. outbox[c].status = m.status /\ outbox[c].result = m.result
      BY <3>1 DEF HubInv, SerialInv, Tracked
    <3>3. cmd'[c].status = m.status /\ cmd'[c].result = m.result
      <4>1. CASE Moves(m)
        <5>1. ~Forgets(m)
          BY <2>1, <3>1, <4>1, MovesFrom DEF UpdateCommandStatus, Without, NoCommand, Active
        <5>. QED  BY <3>1, <4>1, <5>1 DEF UpdateCommandStatus, TypeOK, CommandRow
      <4>2. CASE ~Moves(m)
        BY <3>1, <4>2 DEF UpdateCommandStatus, Forgets, Accepts, Repeated
      <4>. QED  BY <4>1, <4>2
    <3>. QED  BY <1>4, <3>2, <3>3
  <2>. QED  BY <2>2, <2>3
<1>12. \A c \in Cmd : cmd'[c].status = "timeout" =>
         cmd[c].status = "timeout" \/ \E n \in calls : n.cmd = c /\ n.status = "timeout"
  BY <1>2
<1>. QED  BY <1>1, <1>4, <1>5, <1>8, <1>10, <1>11, <1>12, SerialRemote

LEMMA HubNext ==
  ASSUME OneHeadset, HubInv, [Next]_vars
  PROVE  HubInv'
<1>1. ExecInv' /\ QueueInv' /\ AgreeInv' /\ StepKeeps
  BY ExecStep, QueueStep, AgreeStep, EveryStepKeeps DEF HubInv, ExecInv
<1>2. HubStep
  BY <1>1 DEF HubStep
<1>3. ASSUME NEW c \in Cmd, CloudStep(c)
      PROVE  SerialInv'
  BY <1>2, <1>3, SerialCloudStep
<1>4. ASSUME SyncStep
      PROVE  SerialInv'
  BY <1>2, <1>4, SerialSync, SerialDispatch, SerialSyncDone DEF SyncStep
<1>5. ASSUME NEW t \in tasks, TaskStep(t)
      PROVE  SerialInv'
  BY <1>2, <1>5, SerialTaskStep
<1>6. ASSUME NEW l \in Loop, NEW c \in Cmd, FlushSend(l, c)
      PROVE  SerialInv'
  BY <1>2, <1>6, SerialFlush
<1>7. ASSUME NEW m \in calls, CallStep(m)
      PROVE  SerialInv'
  BY <1>2, <1>7, SerialCallStep
<1>8. ASSUME Crash
      PROVE  SerialInv'
  BY <1>2, <1>8, SerialCrash
<1>9. ASSUME UNCHANGED vars
      PROVE  SerialInv'
  <2>1. OneTask' /\ OneBatch' /\ NoNewStarter /\ EffectsFollow' /\ TraceOfTask'
    BY <1>9 DEF vars, HubInv, SerialInv, OneTask, OneBatch, NoNewStarter, EffectsFollow,
                LaterUntouched, TraceOfTask
  <2>2. \A m \in calls' : Tracked(m)'
    BY <1>9 DEF vars, HubInv, SerialInv, Tracked, LoopActive
  <2>3. ClaimedInOrder' /\ DeliveredIsRecorded'
    BY <1>9 DEF vars, HubInv, SerialInv, ClaimedInOrder, Unsettled, DeliveredIsRecorded
  <2>. QED  BY <1>2, <1>9, <2>1, <2>2, <2>3, SerialRemote DEF vars
<1>10. SerialInv'
  BY <1>3, <1>4, <1>5, <1>6, <1>7, <1>8, <1>9 DEF Next
<1>. QED  BY <1>1, <1>10 DEF HubInv

LEMMA HubInit ==
  ASSUME Init
  PROVE  HubInv
<1>1. ExecInv /\ QueueInv /\ AgreeInv
  BY ExecInit, QueueInit, AgreeInit
<1>2. OneTask /\ OneBatch /\ EffectsFollow /\ TraceOfTask /\ \A m \in calls : Tracked(m)
  BY DEF Init, OneTask, OneBatch, EffectsFollow, TraceOfTask
<1>3. DeliveredIsRecorded /\ ClaimedInOrder /\ TraceOfClaim /\ TimeoutsFollow
  BY DEF Init, DeliveredIsRecorded, ClaimedInOrder, TraceOfClaim, TimeoutsFollow, NoCommand,
         NoRow
<1>. QED  BY <1>1, <1>2, <1>3 DEF HubInv, SerialInv

\* With one headset, the sync brings one command at a time and waits for it: the
\* inductive invariant of everything below.
THEOREM HubInvariant ==
  ASSUME OneHeadset
  PROVE  Spec => []HubInv
<1>1. Init => HubInv
  BY HubInit
<1>2. HubInv /\ [Next]_vars => HubInv'
  BY HubNext
<1>. QED  BY <1>1, <1>2, PTL DEF Spec

\* The commands of the headset take effect in the order they were created, a
\* cancelled one included.
LEMMA OrderKept ==
  ASSUME OneHeadset, HubInv, HubInv', [Next]_vars
  PROVE  EffectOrder
<1>1. SUFFICES ASSUME NEW c \in Cmd, NEW d \in Cmd, c < d, applied[d] > 0, applied'[c] # applied[c]
               PROVE  FALSE
  BY DEF EffectOrder
<1>2. PICK t \in tasks : t.kind = "exec" /\ t.pc = "exec" /\ t.cmd = c
  BY <1>1, EveryStepKeeps DEF HubInv, StepKeeps, OwnEffect
<1>3. applied[d] = 0
  BY <1>1, <1>2 DEF HubInv, SerialInv, EffectsFollow, Starting, LaterUntouched
<1>. QED  BY <1>1, <1>3

THEOREM EffectsOrdered ==
  ASSUME OneHeadset
  PROVE  Spec => EffectsInOrder
<1>1. HubInv /\ HubInv' /\ [Next]_vars => [EffectOrder]_vars
  BY OrderKept
<1>. QED  BY <1>1, HubInvariant, PTL DEF Spec, EffectsInOrder

-----------------------------------------------------------------------------
(* The pipeline implements its contract, as long as no headset is deleted. *)

NothingGone == \A c \in Cmd : cmd[c].status # "gone"

LEMMA NothingGoes ==
  ASSUME Forget = {}, HubInv, NothingGone, [Next]_vars
  PROVE  NothingGone'
<1>. TypeOK
  BY DEF HubInv, ExecInv
<1>1. UNCHANGED cmd => NothingGone'
  BY DEF NothingGone
<1>2. ASSUME NEW c \in Cmd, CloudStep(c)
      PROVE  NothingGone'
  <2>1. CASE CreateDeviceCommand(c)
    BY <2>1 DEF CreateDeviceCommand, NothingGone, TypeOK, CommandRow
  <2>2. CASE CancelDeviceCommand(c)
    BY <2>2 DEF CancelDeviceCommand, NothingGone, TypeOK, CommandRow
  <2>3. CASE LeaseExpires(c)
    BY <2>3 DEF LeaseExpires, NothingGone, TypeOK, CommandRow
  <2>. QED  BY <1>2, <2>1, <2>2, <2>3 DEF CloudStep
<1>3. ASSUME ClaimCommands
      PROVE  NothingGone'
  <2>1. SUFFICES ASSUME NEW c \in Cmd
                 PROVE  cmd'[c].status # "gone"
    BY DEF NothingGone
  <2>2. cmd[c] \in CommandRow
    BY DEF TypeOK
  <2>. QED  BY <1>3, <2>2 DEF ClaimCommands, ClaimRow, NothingGone, CommandRow
<1>4. ASSUME NEW m \in calls, UpdateCommandStatus(m)
      PROVE  NothingGone'
  BY <1>4, UpdateMoves, MovesFrom DEF NothingGone
<1>5. CASE SyncStep
  BY <1>1, <1>3, <1>5 DEF SyncStep, Sync, SyncAnswerLost, Dispatch, SyncDone
<1>6. ASSUME NEW t \in tasks, TaskStep(t)
      PROVE  NothingGone'
  BY <1>1, <1>6
     DEF TaskStep, NoRoute, RecordFailure, AnnounceRunning, StartExec, ApplyEffect,
         ExecSucceeds, RecordSuccess, ExecUnknown, ExecFails, ProbeSucceeds, ProbeFails,
         TaskDone
<1>7. ASSUME NEW m \in calls, CallStep(m)
      PROVE  NothingGone'
  BY <1>1, <1>4, <1>7 DEF CallStep, Deliver, DeliverUnanswered, GiveUp
<1>. QED
  BY <1>1, <1>2, <1>5, <1>6, <1>7 DEF Next, FlushSend, Crash, vars

\* The verdicts and effects of a step that the contract does not see.
LEMMA Unseen ==
  ASSUME \A c \in Cmd : VerdictOf(c)' = VerdictOf(c), applied' = applied
  PROVE  UNCHANGED Contract!contractVars
BY DEF Contract!contractVars

\* A handler acts: the command is open or was cancelled meanwhile, and neither
\* it nor a later one has had an effect.
LEMMA ActIsTakeEffect ==
  ASSUME OneHeadset, HubInv, NothingGone, NEW t \in tasks, ApplyEffect(t)
  PROVE  Contract!TakeEffect(t.cmd)
<1>. t \in Task /\ t.cmd \in Cmd /\ TypeOK /\ cmd[t.cmd] \in CommandRow
  BY DEF HubInv, ExecInv, TypeOK, Task
<1>1. t.kind = "exec" /\ t.pc = "exec" /\ Starting(t) /\ applied[t.cmd] = 0
  BY DEF ApplyEffect, HubInv, ExecInv, TasksInv, TaskInv, OnlyHandler, NotYetApplied, Starting
<1>2. cmd[t.cmd].status \notin {"succeeded", "failed", "timeout", "gone"}
  <2>1. CloudAgrees(t.cmd)
    BY DEF HubInv, AgreeInv
  <2>2. cmd[t.cmd].status # "succeeded"
    BY <1>1, <2>1 DEF CloudAgrees, Succeeded
  <2>3. cmd[t.cmd].status # "failed"
    BY <1>1, <2>1 DEF CloudAgrees, Concluded
  <2>4. cmd[t.cmd].status # "timeout"
    BY <1>1 DEF HubInv, SerialInv, TimeoutsFollow, TimedOut
  <2>. QED  BY <2>2, <2>3, <2>4 DEF NothingGone
<1>3. VerdictOf(t.cmd) \in {"open", "cancelled"}
  BY <1>2 DEF VerdictOf, CommandRow, Status, Active, Terminal
<1>4. \A k \in Contract!Later(t.cmd) : applied[k] = 0
  BY <1>1 DEF Contract!Later, HubInv, SerialInv, EffectsFollow, LaterUntouched
<1>5. applied' = [applied EXCEPT ![t.cmd] = 1]
  BY <1>1 DEF ApplyEffect, TypeOK
<1>6. [c \in Cmd |-> VerdictOf(c)]' = [c \in Cmd |-> VerdictOf(c)]
  BY DEF ApplyEffect, VerdictOf
<1>. QED  BY <1>1, <1>3, <1>4, <1>5, <1>6 DEF Contract!TakeEffect

\* What stands before an active command is settled.
LEMMA EarlierSettled ==
  ASSUME HubInv, NothingGone, NEW c \in Cmd, cmd[c].status \in Active
  PROVE  \A k \in Contract!Earlier(c) : Contract!Settled(k)
<1>1. SUFFICES ASSUME NEW k \in Cmd, k < c, DeviceOf[k] = DeviceOf[c]
               PROVE  VerdictOf(k) \in {"succeeded", "failed", "cancelled"}
  BY DEF Contract!Earlier, Contract!Settled
<1>2. cmd[k] \in CommandRow
  BY DEF HubInv, ExecInv, TypeOK
<1>3. ~Unsettled(k)
  BY <1>1 DEF HubInv, QueueInv, CloudInv, HeadOfLine, Active
<1>4. cmd[k].status # "absent"
  BY <1>1 DEF HubInv, QueueInv, CloudInv, InOrder, Active
<1>. QED
  BY <1>2, <1>3, <1>4 DEF NothingGone, Unsettled, VerdictOf, CommandRow, Status, Active, Terminal

\* The verdict a report stands for.
Told(m) == IF m.status = "timeout" THEN "unknown" ELSE m.status

\* A report that moves a command decides it: everything before it is settled.
LEMMA ReportIsDecide ==
  ASSUME HubInv, AgreeInv', NothingGone, NothingGone', NEW m \in calls, UpdateCommandStatus(m),
         Moves(m), m.status # "running", applied' = applied
  PROVE  Contract!Decide(m.cmd, Told(m))
<1>1. m.cmd \in Cmd /\ cmd[m.cmd].status \in Active
      /\ m.status \in {"succeeded", "failed", "timeout"}
  BY MovesFrom
<1>2. cmd'[m.cmd].status = m.status /\ \A c \in Cmd \ {m.cmd} : cmd'[c] = cmd[c]
  <2>1. cmd \in [Cmd -> CommandRow] /\ cmd[m.cmd] \in CommandRow
    BY <1>1 DEF HubInv, ExecInv, TypeOK
  <2>2. Forgets(m) => cmd'[m.cmd].status = "gone"
    BY <1>1 DEF UpdateCommandStatus, Without, NoCommand, Active
  <2>3. ~Forgets(m)
    BY <1>1, <2>2 DEF NothingGone
  <2>4. cmd' = [cmd EXCEPT ![m.cmd].status = m.status, ![m.cmd].result = m.result]
    BY <2>3 DEF UpdateCommandStatus
  <2>. QED  BY <1>1, <2>1, <2>4 DEF CommandRow
<1>3. VerdictOf(m.cmd) = "open"
  BY <1>1 DEF VerdictOf, Active
<1>4. VerdictOf(m.cmd)' = Told(m)
  BY <1>1, <1>2 DEF VerdictOf, Told, Active
<1>5. \A c \in Cmd \ {m.cmd} : VerdictOf(c)' = VerdictOf(c)
  BY <1>2 DEF VerdictOf
<1>6. [c \in Cmd |-> VerdictOf(c)]' = [[c \in Cmd |-> VerdictOf(c)] EXCEPT ![m.cmd] = Told(m)]
  BY <1>1, <1>4, <1>5
<1>7. CloudAgrees(m.cmd)'
  BY <1>1 DEF AgreeInv
<1>8. m.status = "succeeded" => applied[m.cmd] = 1
  BY <1>2, <1>7 DEF CloudAgrees, Succeeded
<1>9. m.status = "failed" /\ m.cmd \in Conclusive => applied[m.cmd] = 0
  BY <1>2, <1>7 DEF CloudAgrees, Unharmed
<1>10. \A k \in Contract!Earlier(m.cmd) : Contract!Settled(k)
  BY <1>1, EarlierSettled
<1>. QED
  BY <1>1, <1>3, <1>6, <1>8, <1>9, <1>10 DEF Contract!Decide, Told

\* What becomes of a report is a decision, or the contract does not see it.
LEMMA ReportImplements ==
  ASSUME HubInv, AgreeInv', NothingGone, NothingGone', NEW m \in calls, UpdateCommandStatus(m),
         applied' = applied
  PROVE  [Contract!ContractNext]_(Contract!contractVars)
<1>1. m.cmd \in Cmd /\ m.status \in {"running", "succeeded", "failed", "timeout"}
  BY DEF HubInv, ExecInv, TypeOK, Call
<1>2. CASE Moves(m) /\ m.status # "running"
  <2>1. Contract!Decide(m.cmd, Told(m))
    BY <1>2, ReportIsDecide
  <2>2. Told(m) \in {"unknown", "succeeded", "failed"}
    BY <1>1, <1>2 DEF Told
  <2>. QED  BY <1>1, <2>1, <2>2 DEF Contract!ContractNext
<1>3. CASE ~(Moves(m) /\ m.status # "running")
  <2>1. SUFFICES ASSUME NEW c \in Cmd
                 PROVE  VerdictOf(c)' = VerdictOf(c)
    BY Unseen
  <2>2. CASE cmd'[c] = cmd[c]
    BY <2>2 DEF VerdictOf
  <2>3. CASE cmd'[c] # cmd[c]
    <3>1. Moves(m) /\ c = m.cmd /\ cmd'[c].status = "running" /\ cmd[c].status \in Active
      BY <1>3, <2>3, UpdateMoves, MovesFrom DEF NothingGone
    <3>. QED  BY <3>1 DEF VerdictOf, Active
  <2>. QED  BY <2>2, <2>3
<1>. QED  BY <1>2, <1>3

\* What the Cloud does by itself: only a cancellation is seen.
LEMMA CloudImplements ==
  ASSUME HubInv, NEW c \in Cmd, CloudStep(c)
  PROVE  [Contract!ContractNext]_(Contract!contractVars)
<1>1. cmd[c] \in CommandRow /\ cmd \in [Cmd -> CommandRow]
  BY DEF HubInv, ExecInv, TypeOK
<1>2. CASE CreateDeviceCommand(c)
  <2>1. cmd'[c].status = "created" /\ \A k \in Cmd \ {c} : cmd'[k] = cmd[k]
    BY <1>1, <1>2 DEF CreateDeviceCommand, CommandRow
  <2>2. \A k \in Cmd : VerdictOf(k)' = VerdictOf(k)
    BY <1>2, <2>1 DEF CreateDeviceCommand, VerdictOf
  <2>. QED  BY <1>2, <2>2, Unseen DEF CreateDeviceCommand
<1>3. CASE CancelDeviceCommand(c)
  <2>1. cmd'[c].status = "cancelled" /\ \A k \in Cmd \ {c} : cmd'[k] = cmd[k]
    BY <1>1, <1>3 DEF CancelDeviceCommand, CommandRow
  <2>2. VerdictOf(c) = "open" /\ VerdictOf(c)' = "cancelled"
    BY <1>3, <2>1 DEF CancelDeviceCommand, VerdictOf, Active
  <2>3. \A k \in Cmd \ {c} : VerdictOf(k)' = VerdictOf(k)
    BY <2>1 DEF VerdictOf
  <2>4. [k \in Cmd |-> VerdictOf(k)]' = [[k \in Cmd |-> VerdictOf(k)] EXCEPT ![c] = "cancelled"]
    BY <2>2, <2>3
  <2>5. Contract!Withdraw(c)
    BY <1>3, <2>2, <2>4 DEF CancelDeviceCommand, Contract!Withdraw
  <2>. QED  BY <2>5 DEF Contract!ContractNext
<1>4. CASE LeaseExpires(c)
  <2>1. \A k \in Cmd : cmd'[k].status = cmd[k].status
    BY <1>1, <1>4 DEF LeaseExpires, CommandRow
  <2>2. \A k \in Cmd : VerdictOf(k)' = VerdictOf(k)
    BY <2>1 DEF VerdictOf
  <2>. QED  BY <1>4, <2>2, Unseen DEF LeaseExpires
<1>. QED  BY <1>2, <1>3, <1>4 DEF CloudStep

\* A claim leaves every verdict as it is: created, accepted and running are all
\* open, and a timeout that is claimed again stays a timeout.
LEMMA ClaimUnseen ==
  ASSUME HubInv, ClaimCommands, NEW c \in Cmd
  PROVE  VerdictOf(c)' = VerdictOf(c)
<1>1. cmd[c] \in CommandRow
  BY DEF HubInv, ExecInv, TypeOK
<1>2. cmd'[c].status = cmd[c].status
      \/ (cmd[c].status = "created" /\ cmd'[c].status = "accepted_by_hub")
  <2>1. CASE c \in Claimed
    <3>1. cmd'[c] = ClaimRow(c)
      BY <2>1 DEF ClaimCommands
    <3>2. ClaimRow(c).status
          = IF cmd[c].status = "created" THEN "accepted_by_hub" ELSE cmd[c].status
      BY <1>1 DEF ClaimRow, CommandRow
    <3>. QED  BY <3>1, <3>2
  <2>2. CASE c \notin Claimed
    BY <2>2 DEF ClaimCommands
  <2>. QED  BY <2>1, <2>2
<1>. QED  BY <1>2 DEF VerdictOf, Active

\* Every step of Cloud, Hub and network is a step of the contract or none.
LEMMA StepImplements ==
  ASSUME OneHeadset, HubInv, HubInv', NothingGone, NothingGone', [Next]_vars
  PROVE  [Contract!ContractNext]_(Contract!contractVars)
<1>1. UNCHANGED <<cmd, applied>> => [Contract!ContractNext]_(Contract!contractVars)
  BY Unseen DEF VerdictOf
<1>2. ClaimCommands /\ UNCHANGED applied => [Contract!ContractNext]_(Contract!contractVars)
  BY ClaimUnseen, Unseen
<1>3. CASE SyncStep
  BY <1>1, <1>2, <1>3 DEF SyncStep, Sync, SyncAnswerLost, Dispatch, SyncDone
<1>4. ASSUME NEW t \in tasks, TaskStep(t)
      PROVE  [Contract!ContractNext]_(Contract!contractVars)
  <2>1. CASE ApplyEffect(t)
    <3>1. t.cmd \in Cmd
      BY DEF HubInv, ExecInv, TypeOK, Task
    <3>. QED  BY <2>1, <3>1, ActIsTakeEffect DEF Contract!ContractNext
  <2>2. CASE UNCHANGED <<cmd, applied>>
    BY <1>1, <2>2
  <2>. QED
    BY <1>4, <2>1, <2>2
       DEF TaskStep, NoRoute, RecordFailure, AnnounceRunning, StartExec, ExecSucceeds,
           RecordSuccess, ExecUnknown, ExecFails, ProbeSucceeds, ProbeFails, TaskDone
<1>5. ASSUME NEW m \in calls, CallStep(m)
      PROVE  [Contract!ContractNext]_(Contract!contractVars)
  <2>1. CASE GiveUp(m)
    BY <1>1, <2>1 DEF GiveUp
  <2>2. CASE Deliver(m) \/ DeliverUnanswered(m)
    <3>1. UpdateCommandStatus(m) /\ applied' = applied /\ AgreeInv'
      BY <2>2 DEF Deliver, DeliverUnanswered, HubInv
    <3>. QED  BY <3>1, ReportImplements
  <2>. QED  BY <1>5, <2>1, <2>2 DEF CallStep
<1>6. ASSUME NEW c \in Cmd, CloudStep(c)
      PROVE  [Contract!ContractNext]_(Contract!contractVars)
  BY <1>6, CloudImplements
<1>7. CASE UNCHANGED vars
  BY <1>1, <1>7 DEF vars
<1>8. CASE Crash
  BY <1>1, <1>8 DEF Crash
<1>9. ASSUME NEW l \in Loop, NEW c \in Cmd, FlushSend(l, c)
      PROVE  [Contract!ContractNext]_(Contract!contractVars)
  BY <1>1, <1>9 DEF FlushSend
<1>. QED  BY <1>3, <1>4, <1>5, <1>6, <1>7, <1>8, <1>9 DEF Next

LEMMA InitImplements == Init => Contract!ContractInit /\ NothingGone
BY DEF Init, NoCommand, Contract!ContractInit, VerdictOf, NothingGone

\* The pipeline implements its contract: with one headset that is never
\* deleted, whatever is claimed, crashes, expires, is lost or comes late, what
\* the operator is told and what the headset did follow CommandContract.
THEOREM PipelineImplementsContract ==
  ASSUME OneHeadset, Forget = {}
  PROVE  Spec => ImplementsContract
<1>1. HubInv /\ NothingGone /\ [Next]_vars => NothingGone'
  BY NothingGoes
<1>2. Spec => []NothingGone
  BY <1>1, InitImplements, HubInvariant, PTL DEF Spec
<1>3. HubInv /\ HubInv' /\ NothingGone /\ NothingGone' /\ [Next]_vars
      => [Contract!ContractNext]_(Contract!contractVars)
  BY StepImplements
<1>. QED
  BY <1>2, <1>3, InitImplements, HubInvariant, PTL
     DEF Spec, ImplementsContract, Contract!ContractSpec

=============================================================================
