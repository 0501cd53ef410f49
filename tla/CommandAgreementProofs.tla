----------------------- MODULE CommandAgreementProofs -----------------------
(***************************************************************************)
(* What the operator is told of a command agrees with the headset and with *)
(* the Hub's journal, and what the Hub stops retrying has reached the      *)
(* Cloud, for every set of commands and headsets and every bound.          *)
(***************************************************************************)
EXTENDS CommandPipelineProofs

(***************************************************************************)
(* The inductive invariant.  A success is written down together with the   *)
(* journal row that proves it, and that row is final.  A failure is not:   *)
(* its handler may find that the journal says `unknown' by now.  That only *)
(* happens after a newer claim of the same command (RecoveryIsNewer), so   *)
(* that the report carries a token the Cloud refuses (Outdated).           *)
(***************************************************************************)
Outdated(c, tok) == cmd[c].status = "gone" \/ tok < cmd[c].attempt

\* Nobody will apply the command any more.
Concluded(c) == /\ journal[c].state # "none"
                /\ \A t \in tasks : t.cmd = c => t.kind # "exec"
FailureJournaled(c) == journal[c] = [state |-> "completed", result |-> "err"]
Unharmed(c) == c \in Conclusive => applied[c] = 0

Succeeded(c, result) ==
  /\ result \in {"ok", "rec"}
  /\ journal[c] = [state |-> "completed", result |-> result]
  /\ applied[c] = 1
Failed(c, tok) ==
  /\ Concluded(c)
  /\ FailureJournaled(c) \/ (c \notin Reconciliable /\ Outdated(c, tok))
  /\ Unharmed(c)

\* A handler on its way to a verdict.
HasApplied(t) == t.pc \in {"applied", "marked"} => applied[t.cmd] = 1
Recorded(t) == \/ outbox[t.cmd].status # "none"
               \/ t.cmd \notin Reconciliable /\ Outdated(t.cmd, t.tok)
MayStillFail(t) ==
  /\ t.kind = "exec" /\ t.pc \in {"resolve", "announce", "queued", "exec", "applied"}
       => journal[t.cmd].state = "running" \/ Recorded(t)
  /\ t.pc = "failing" => (FailureJournaled(t.cmd) \/ Recorded(t)) /\ Unharmed(t.cmd)
TokenKnown(c, tok) == cmd[c].status = "gone" \/ tok <= cmd[c].attempt
TaskAgrees(t) == HasApplied(t) /\ MayStillFail(t) /\ TokenKnown(t.cmd, t.tok)

BatchAgrees(b) ==
  /\ TokenKnown(b.cmd, b.tok)
  /\ \A t \in tasks : b.recovery /\ t.cmd = b.cmd => Outdated(b.cmd, t.tok)

RowAgrees(c) ==
  /\ outbox[c].status = "succeeded" => Succeeded(c, outbox[c].result)
  /\ outbox[c].status = "failed" => Failed(c, outbox[c].tok)
CallAgrees(m) ==
  /\ m.status = "succeeded" => Succeeded(m.cmd, m.result)
  /\ m.status = "failed" => Failed(m.cmd, m.tok)
CloudAgrees(c) ==
  /\ cmd[c].status = "succeeded" => Succeeded(c, cmd[c].result)
  /\ cmd[c].status = "failed" => Concluded(c) /\ FailureJournaled(c) /\ Unharmed(c)

AgreeInv ==
  /\ \A t \in tasks : TaskAgrees(t)
  /\ \A b \in batch : BatchAgrees(b)
  /\ \A c \in Cmd : RowAgrees(c) /\ CloudAgrees(c)
  /\ \A m \in calls : CallAgrees(m)

-----------------------------------------------------------------------------
(* What every step keeps.                                                  *)

FinalJournal == \A c \in Cmd :
  journal[c].state = "completed" /\ journal[c].result # "none" => journal'[c] = journal[c]
OwnEffect == \A c \in Cmd : applied'[c] # applied[c] =>
  \E t \in tasks : t.kind = "exec" /\ t.pc = "exec" /\ t.cmd = c
RowsKept == \A c \in Cmd : outbox[c].status # "none" => outbox'[c].status # "none"
TokensGrow == \A c \in Cmd :
  /\ cmd[c].status = "gone" => cmd'[c].status = "gone"
  /\ cmd'[c].status = "gone" \/ cmd[c].attempt <= cmd'[c].attempt
NoNewHandler == \A v \in tasks' : v.kind = "exec" =>
  \/ \E u \in tasks : u.kind = "exec" /\ u.cmd = v.cmd
  \/ journal[v.cmd].state = "none"
OldTokens == \A v \in tasks' : \E u \in tasks : u.cmd = v.cmd /\ u.tok = v.tok
StepKeeps == FinalJournal /\ OwnEffect /\ RowsKept /\ TokensGrow /\ NoNewHandler /\ JournalKept

\* The same tasks, or fewer, or one of them elsewhere.
LEMMA TasksFollow ==
  ASSUME TypeOK, NEW t \in tasks,
         \/ UNCHANGED tasks
         \/ tasks' = tasks \ {t}
         \/ tasks' = {}
         \/ Throw(t)
         \/ \E pc : Goto(t, pc)
  PROVE  NoNewHandler /\ OldTokens
<1>1. \A u \in tasks : u \in Task
  BY DEF TypeOK
<1>2. SUFFICES ASSUME NEW v \in tasks'
               PROVE  \E u \in tasks : u.cmd = v.cmd /\ u.tok = v.tok /\ u.kind = v.kind
  BY DEF NoNewHandler, OldTokens
<1>3. CASE Throw(t)
  <2>1. \A u \in tasks : /\ [u EXCEPT !.awaited = FALSE].cmd = u.cmd
                         /\ [u EXCEPT !.awaited = FALSE].tok = u.tok
                         /\ [u EXCEPT !.awaited = FALSE].kind = u.kind
    BY <1>1 DEF Task
  <2>. QED  BY <1>3, <2>1 DEF Throw
<1>4. ASSUME NEW pc, Goto(t, pc)
      PROVE  \E u \in tasks : u.cmd = v.cmd /\ u.tok = v.tok /\ u.kind = v.kind
  <2>1. /\ [t EXCEPT !.pc = pc].cmd = t.cmd
        /\ [t EXCEPT !.pc = pc].tok = t.tok
        /\ [t EXCEPT !.pc = pc].kind = t.kind
    BY <1>1 DEF Task
  <2>. QED  BY <1>4, <2>1 DEF Goto
<1>. QED  BY <1>3, <1>4

\* The steps of a handler or of a probe.
LEMMA TaskStepKeeps ==
  ASSUME ExecInv, NEW t \in tasks, TaskStep(t)
  PROVE  StepKeeps
<1>. t \in Task /\ t.cmd \in Cmd /\ TaskInv(t) /\ TypeOK /\ TasksInv
  BY DEF ExecInv, TypeOK, Task, TasksInv
<1>1. TokensGrow
  <2>1. cmd' = cmd
    BY DEF TaskStep, NoRoute, RecordFailure, AnnounceRunning, StartExec, ApplyEffect,
           ExecSucceeds, RecordSuccess, ExecUnknown, ExecFails, ProbeSucceeds, ProbeFails,
           TaskDone
  <2>2. \A c \in Cmd : cmd[c].attempt \in Nat
    BY BoundAssumption DEF TypeOK, CommandRow
  <2>. QED  BY <2>1, <2>2 DEF TokensGrow
<1>2. OwnEffect
  <2>1. CASE ApplyEffect(t)
    BY <2>1 DEF ApplyEffect, OwnEffect, TaskInv, OnlyHandler, TypeOK
  <2>2. CASE applied' = applied
    BY <2>2 DEF OwnEffect
  <2>. QED
    BY <2>1, <2>2
       DEF TaskStep, NoRoute, RecordFailure, AnnounceRunning, StartExec,
           ExecSucceeds, RecordSuccess, ExecUnknown, ExecFails, ProbeSucceeds, ProbeFails,
           TaskDone
<1>3. UNCHANGED journal => FinalJournal /\ JournalKept
  BY DEF FinalJournal, JournalKept
<1>4. UNCHANGED outbox => RowsKept
  BY DEF RowsKept
<1>5. ASSUME NEW state \in JournalState \ {"none"}, NEW result, SetJournal(t.cmd, state, result),
             \/ journal[t.cmd].state # "completed"
             \/ state = "completed" /\ journal[t.cmd].result \in {"none", result}
      PROVE  FinalJournal /\ JournalKept
  <2>1. journal[t.cmd] \in JournalRow
    BY DEF TypeOK
  <2>2. \A c \in Cmd \ {t.cmd} : journal'[c] = journal[c]
    BY <1>5 DEF SetJournal, TypeOK
  <2>3. journal'[t.cmd] = [state |-> state, result |-> result]
    BY <1>5 DEF SetJournal, TypeOK
  <2>4. journal[t.cmd].state = "completed" /\ journal[t.cmd].result # "none"
        => journal'[t.cmd] = journal[t.cmd]
    BY <1>5, <2>1, <2>3 DEF JournalRow
  <2>. QED  BY <2>2, <2>3, <2>4 DEF FinalJournal, JournalKept
<1>6. FailJournal(t) => FinalJournal /\ JournalKept
  BY <1>3, <1>5 DEF FailJournal, JournalState
<1>7. ASSUME NEW result, Complete(t, result)
      PROVE  FinalJournal /\ JournalKept /\ RowsKept /\ NoNewHandler
  <2>1. FinalJournal /\ JournalKept
    BY <1>3, <1>5, <1>7 DEF Complete, JournalState
  <2>2. CompleteRow(t.cmd, t.tok, result).status # "none"
    BY DEF CompleteRow, TypeOK, OutboxRow
  <2>3. RowsKept
    BY <1>4, <1>7, <2>2 DEF Complete, RowsKept, TypeOK
  <2>4. NoNewHandler
    BY <1>7, TasksFollow DEF Complete
  <2>. QED  BY <2>1, <2>3, <2>4
<1>8. ASSUME NEW result, ReportUnknown(t, result)
      PROVE  FinalJournal /\ JournalKept /\ RowsKept /\ NoNewHandler
  <2>1. FinalJournal /\ JournalKept
    BY <1>8 DEF ReportUnknown, FinalJournal, JournalKept, TypeOK, JournalRow
  <2>2. RowsKept
    BY <1>8 DEF ReportUnknown, RowsKept, TypeOK
  <2>3. Throw(t) \/ Goto(t, "flush")
    BY <1>8 DEF ReportUnknown
  <2>. QED  BY <2>1, <2>2, <2>3, TasksFollow
<1>9. FinalJournal /\ JournalKept /\ RowsKept /\ NoNewHandler
  <2>1. CASE NoRoute(t)
    BY <1>4, <1>6, <2>1, TasksFollow DEF NoRoute
  <2>2. CASE RecordFailure(t)
    BY <1>3, <2>2, TasksFollow DEF RecordFailure, RowsKept, TypeOK
  <2>3. CASE AnnounceRunning(t)
    BY <1>3, <1>4, <2>3, TasksFollow DEF AnnounceRunning
  <2>4. CASE StartExec(t) \/ ApplyEffect(t) \/ TaskDone(t)
    BY <1>3, <1>4, <2>4, TasksFollow DEF StartExec, ApplyEffect, TaskDone
  <2>5. CASE ExecSucceeds(t)
    BY <1>3, <1>4, <1>5, <2>5, TasksFollow DEF ExecSucceeds, JournalState
  <2>6. CASE RecordSuccess(t) \/ ProbeSucceeds(t)
    BY <1>7, <2>6 DEF RecordSuccess, ProbeSucceeds
  <2>7. CASE ExecUnknown(t) \/ ProbeFails(t)
    BY <1>8, <2>7 DEF ExecUnknown, ProbeFails
  <2>8. CASE ExecFails(t)
    BY <1>4, <1>6, <2>8, TasksFollow DEF ExecFails
  <2>. QED  BY <2>1, <2>2, <2>3, <2>4, <2>5, <2>6, <2>7, <2>8 DEF TaskStep
<1>. QED  BY <1>1, <1>2, <1>9 DEF StepKeeps

\* Neither a claim nor a report takes a token back or revives a command.
LEMMA TokensOfRows ==
  ASSUME TypeOK, TypeOK',
         \A c \in Cmd : cmd[c].status = "gone" => cmd'[c].status = "gone",
         \A c \in Cmd : cmd'[c].status # "gone" => cmd[c].attempt <= cmd'[c].attempt
  PROVE  TokensGrow
BY DEF TokensGrow

LEMMA ClaimTokens ==
  ASSUME TypeOK, TypeOK', ClaimCommands
  PROVE  TokensGrow
<1>1. ASSUME NEW c \in Cmd
      PROVE  /\ cmd[c].status = "gone" => cmd'[c].status = "gone"
             /\ cmd'[c].status # "gone" => cmd[c].attempt <= cmd'[c].attempt
  <2>1. cmd[c] \in CommandRow /\ cmd[c].attempt \in Nat
    BY BoundAssumption DEF TypeOK, CommandRow
  <2>2. CASE c \in Claimed
    <3>1. cmd'[c] = ClaimRow(c)
      BY <2>2 DEF ClaimCommands
    <3>2. cmd[c].status # "gone"
      BY <2>2 DEF Claimed, Candidate, Active
    <3>. QED  BY <2>1, <3>1, <3>2 DEF ClaimRow, CommandRow
  <2>3. CASE c \notin Claimed
    BY <2>1, <2>3 DEF ClaimCommands
  <2>. QED  BY <2>2, <2>3
<1>. QED  BY <1>1, TokensOfRows

LEMMA UpdateTokens ==
  ASSUME TypeOK, TypeOK', NEW m \in calls, UpdateCommandStatus(m)
  PROVE  TokensGrow
<1>1. m.cmd \in Cmd /\ m.status \in {"running", "succeeded", "failed", "timeout"}
  BY DEF TypeOK, Call
<1>2. ASSUME NEW c \in Cmd
      PROVE  /\ cmd[c].status = "gone" => cmd'[c].status = "gone"
             /\ cmd'[c].status # "gone" => cmd[c].attempt <= cmd'[c].attempt
  <2>1. cmd[c] \in CommandRow /\ cmd[c].attempt \in Nat
    BY BoundAssumption DEF TypeOK, CommandRow
  <2>2. CASE Forgets(m)
    BY <2>1, <2>2 DEF UpdateCommandStatus, Without, NoCommand
  <2>3. CASE ~Forgets(m) /\ Moves(m)
    <3>1. cmd[m.cmd].status # "gone"
      BY <1>1, <2>3 DEF Moves, CommandTransitions, Reconciles, Status
    <3>2. cmd'[c].attempt = cmd[c].attempt /\ (c # m.cmd => cmd'[c] = cmd[c])
      BY <1>1, <2>1, <2>3 DEF UpdateCommandStatus, TypeOK, CommandRow
    <3>. QED  BY <2>1, <3>1, <3>2
  <2>4. CASE ~Forgets(m) /\ ~Moves(m)
    BY <2>1, <2>4 DEF UpdateCommandStatus
  <2>. QED  BY <2>2, <2>3, <2>4
<1>. QED  BY <1>2, TokensOfRows

\* The continuation of an answered report changes the place of a handler or
\* the mark of an outbox row, and nothing else of them.
LEMMA ContinueFollows ==
  ASSUME TypeOK, NEW m \in calls, NEW ok, Continue(m, ok)
  PROVE  /\ NoNewHandler
         /\ RowsKept
         /\ \A c \in Cmd : /\ outbox'[c].status = outbox[c].status
                           /\ outbox'[c].tok = outbox[c].tok
                           /\ outbox'[c].result = outbox[c].result
<1>1. m.cmd \in Cmd
  BY DEF TypeOK, Call
<1>2. CASE m.status = "running"
  <2>1. PICK t \in tasks : Goto(t, "queued")
    BY <1>2 DEF Continue
  <2>2. NoNewHandler
    BY <2>1, TasksFollow
  <2>. QED  BY <1>2, <2>2 DEF Continue, RowsKept
<1>3. CASE m.status # "running"
  <2>1. NoNewHandler
    BY <1>3 DEF Continue, NoNewHandler
  <2>2. \A c \in Cmd : /\ outbox'[c].status = outbox[c].status
                       /\ outbox'[c].tok = outbox[c].tok
                       /\ outbox'[c].result = outbox[c].result
    <3>1. CASE outbox' = outbox
      BY <3>1
    <3>2. CASE outbox' = [outbox EXCEPT ![m.cmd].delivered = TRUE]
      BY <1>1, <3>2 DEF TypeOK, OutboxRow
    <3>. QED  BY <1>3, <3>1, <3>2 DEF Continue
  <2>. QED  BY <2>1, <2>2 DEF RowsKept
<1>. QED  BY <1>2, <1>3

\* Every step.
LEMMA EveryStepKeeps ==
  ASSUME ExecInv, ExecInv', [Next]_vars
  PROVE  StepKeeps
<1>. TypeOK /\ TypeOK'
  BY DEF ExecInv
<1>1. ASSUME UNCHANGED <<journal, applied>>, RowsKept, TokensGrow, NoNewHandler
      PROVE  StepKeeps
  BY <1>1 DEF StepKeeps, FinalJournal, OwnEffect, JournalKept
<1>2. UNCHANGED cmd => TokensGrow
  BY TokensOfRows, BoundAssumption DEF TypeOK, CommandRow
<1>3. UNCHANGED outbox => RowsKept
  BY DEF RowsKept
<1>4. tasks' = tasks \/ tasks' = {} => NoNewHandler
  BY DEF NoNewHandler
<1>5. ASSUME NEW c \in Cmd, CloudStep(c)
      PROVE  StepKeeps
  <2>1. /\ \A k \in Cmd : cmd'[k].attempt = cmd[k].attempt /\ cmd[k].attempt \in Nat
        /\ \A k \in Cmd : cmd[k].status = "gone" => cmd'[k].status = "gone"
    <3>1. CASE CreateDeviceCommand(c)
      BY <3>1, BoundAssumption DEF CreateDeviceCommand, TypeOK, CommandRow
    <3>2. CASE CancelDeviceCommand(c)
      BY <3>2, BoundAssumption DEF CancelDeviceCommand, TypeOK, CommandRow
    <3>3. CASE LeaseExpires(c)
      BY <3>3, BoundAssumption DEF LeaseExpires, TypeOK, CommandRow
    <3>. QED  BY <1>5, <3>1, <3>2, <3>3 DEF CloudStep
  <2>2. TokensGrow
    BY <2>1, TokensOfRows
  <2>. QED
    BY <1>1, <1>3, <1>4, <1>5, <2>2
       DEF CloudStep, CreateDeviceCommand, CancelDeviceCommand, LeaseExpires, hubVars
<1>6. CASE Sync \/ SyncAnswerLost
  BY <1>1, <1>3, <1>4, <1>6, ClaimTokens DEF Sync, SyncAnswerLost, hubVars
<1>7. CASE Dispatch
  <2>1. FinalJournal /\ JournalKept
    BY <1>7
       DEF Dispatch, FinalJournal, JournalKept, TypeOK, JournalRow, Runs, BecomesUnknown,
           Untraced, Interrupted
  <2>2. ASSUME NEW v \in tasks', v.kind = "exec", v \notin tasks
        PROVE  journal[v.cmd].state = "none"
    <3>1. PICK b \in batch : v = NewTask(b)
      BY <1>7, <2>2 DEF Dispatch
    <3>. QED  BY <2>2, <3>1 DEF NewTask, Runs
  <2>3. NoNewHandler
    BY <2>2 DEF NoNewHandler
  <2>. QED
    BY <1>2, <1>3, <1>7, <2>1, <2>3 DEF Dispatch, StepKeeps, OwnEffect
<1>8. CASE SyncDone
  BY <1>1, <1>2, <1>3, <1>4, <1>8 DEF SyncDone
<1>9. ASSUME NEW t \in tasks, TaskStep(t)
      PROVE  StepKeeps
  BY <1>9, TaskStepKeeps
<1>10. ASSUME NEW l \in Loop, NEW c \in Cmd, FlushSend(l, c)
       PROVE  StepKeeps
  BY <1>1, <1>2, <1>3, <1>4, <1>10 DEF FlushSend, hubVars
<1>11. ASSUME NEW m \in calls, CallStep(m)
       PROVE  StepKeeps
  <2>1. RowsKept /\ NoNewHandler
    BY <1>3, <1>4, <1>11, ContinueFollows DEF CallStep, Deliver, DeliverUnanswered, GiveUp
  <2>2. TokensGrow
    BY <1>2, <1>11, UpdateTokens DEF CallStep, Deliver, DeliverUnanswered, GiveUp
  <2>. QED
    BY <1>1, <1>11, <2>1, <2>2 DEF CallStep, Deliver, DeliverUnanswered, GiveUp
<1>12. CASE Crash
  BY <1>1, <1>2, <1>3, <1>4, <1>12 DEF Crash
<1>13. CASE UNCHANGED vars
  BY <1>1, <1>2, <1>3, <1>4, <1>13 DEF vars
<1>. QED
  BY <1>5, <1>6, <1>7, <1>8, <1>9, <1>10, <1>11, <1>12, <1>13 DEF Next, SyncStep

-----------------------------------------------------------------------------
(* What has been said stays true.                                          *)

LEMMA TokensStay ==
  ASSUME TypeOK, TypeOK', TokensGrow, NEW c \in Cmd, NEW tok \in 0..MaxClaims
  PROVE  /\ Outdated(c, tok) => Outdated(c, tok)'
         /\ TokenKnown(c, tok) => TokenKnown(c, tok)'
<1>1. tok \in Nat /\ cmd[c].attempt \in Nat /\ cmd'[c].attempt \in Nat
  BY BoundAssumption DEF TypeOK, CommandRow
<1>. QED  BY <1>1 DEF TokensGrow, Outdated, TokenKnown

LEMMA SucceededStays ==
  ASSUME ExecInv, StepKeeps, NEW c \in Cmd, NEW result, Succeeded(c, result)
  PROVE  Succeeded(c, result)'
<1>1. journal'[c] = journal[c]
  BY DEF StepKeeps, FinalJournal, Succeeded
<1>2. applied'[c] = applied[c]
  BY DEF StepKeeps, OwnEffect, Succeeded, ExecInv, TasksInv, TaskInv, NotYetApplied
<1>. QED  BY <1>1, <1>2 DEF Succeeded

LEMMA ConcludedStays ==
  ASSUME ExecInv, StepKeeps, NEW c \in Cmd, Concluded(c)
  PROVE  /\ Concluded(c)'
         /\ FailureJournaled(c) => FailureJournaled(c)'
         /\ Unharmed(c) => Unharmed(c)'
<1>1. Concluded(c)'
  BY DEF StepKeeps, NoNewHandler, JournalKept, Concluded
<1>2. FailureJournaled(c) => FailureJournaled(c)'
  BY DEF StepKeeps, FinalJournal, FailureJournaled
<1>3. applied'[c] = applied[c]
  BY DEF StepKeeps, OwnEffect, Concluded
<1>. QED  BY <1>1, <1>2, <1>3 DEF Unharmed

LEMMA FailedStays ==
  ASSUME ExecInv, ExecInv', StepKeeps, NEW c \in Cmd, NEW tok \in 0..MaxClaims, Failed(c, tok)
  PROVE  Failed(c, tok)'
<1>1. Outdated(c, tok) => Outdated(c, tok)'
  BY TokensStay DEF ExecInv, StepKeeps
<1>. QED  BY <1>1, ConcludedStays DEF Failed

\* The rows of the outbox, the requests and the rows of the Cloud that the step
\* leaves as they are.
LEMMA RowStays ==
  ASSUME ExecInv, ExecInv', StepKeeps, NEW c \in Cmd, RowAgrees(c),
         outbox'[c].status = outbox[c].status,
         outbox'[c].tok = outbox[c].tok,
         outbox'[c].result = outbox[c].result
  PROVE  RowAgrees(c)'
<1>1. outbox[c].tok \in 0..MaxClaims
  BY DEF ExecInv, TypeOK, OutboxRow
<1>2. ASSUME NEW result, result = outbox[c].result, outbox[c].status = "succeeded"
      PROVE  Succeeded(c, result)'
  BY <1>2, SucceededStays DEF RowAgrees
<1>3. ASSUME NEW tok, tok = outbox[c].tok, outbox[c].status = "failed"
      PROVE  Failed(c, tok)'
  BY <1>1, <1>3, FailedStays DEF RowAgrees
<1>. QED
  BY <1>2, <1>3
     DEF RowAgrees, Succeeded, Failed, Concluded, FailureJournaled, Outdated, Unharmed

LEMMA CallStays ==
  ASSUME ExecInv, ExecInv', StepKeeps, NEW m \in calls, CallAgrees(m)
  PROVE  CallAgrees(m)'
<1>1. m.cmd \in Cmd /\ m.tok \in 0..MaxClaims
  BY DEF ExecInv, TypeOK, Call
<1>. QED  BY <1>1, SucceededStays, FailedStays DEF CallAgrees

LEMMA CloudStays ==
  ASSUME ExecInv, ExecInv', StepKeeps, NEW c \in Cmd, CloudAgrees(c),
         \/ cmd'[c].status \notin {"succeeded", "failed"}
         \/ cmd'[c].status = cmd[c].status /\ cmd'[c].result = cmd[c].result
  PROVE  CloudAgrees(c)'
<1>1. ASSUME NEW result, result = cmd[c].result, cmd[c].status = "succeeded"
      PROVE  Succeeded(c, result)'
  BY <1>1, SucceededStays DEF CloudAgrees
<1>2. cmd[c].status = "failed" => Concluded(c)' /\ FailureJournaled(c)' /\ Unharmed(c)'
  BY ConcludedStays DEF CloudAgrees
<1>. QED  BY <1>1, <1>2 DEF CloudAgrees, Succeeded

\* A handler or a probe that the step leaves where it is: only the journal row
\* of its command may have moved under it.
LEMMA TaskStays ==
  ASSUME ExecInv, ExecInv', StepKeeps, NEW u \in tasks, TaskAgrees(u),
         \/ u.kind # "exec"
         \/ journal[u.cmd].state = "running" => journal'[u.cmd].state = "running" \/ Recorded(u)'
  PROVE  TaskAgrees(u)'
<1>1. u \in Task /\ u.cmd \in Cmd /\ u.tok \in 0..MaxClaims /\ TaskInv(u)
  BY DEF ExecInv, TypeOK, Task, TasksInv
<1>2. HasApplied(u)'
  BY <1>1
     DEF TaskAgrees, HasApplied, StepKeeps, OwnEffect, ExecInv, TasksInv, TaskInv, NotYetApplied
<1>3. TokenKnown(u.cmd, u.tok)' /\ (Recorded(u) => Recorded(u)')
  BY <1>1, TokensStay DEF TaskAgrees, ExecInv, StepKeeps, Recorded, RowsKept
<1>4. u.pc = "failing" => FailureJournaled(u.cmd)' \/ Recorded(u)'
  BY <1>1, <1>3 DEF TaskAgrees, MayStillFail, StepKeeps, FinalJournal, FailureJournaled
<1>5. u.pc = "failing" => Unharmed(u.cmd)'
  BY <1>1
     DEF TaskAgrees, MayStillFail, Unharmed, StepKeeps, OwnEffect, ExecInv, TasksInv,
         OneHandler, TaskInv, OnlyHandler
<1>6. MayStillFail(u)'
  BY <1>3, <1>4, <1>5 DEF TaskAgrees, MayStillFail
<1>. QED  BY <1>2, <1>3, <1>6 DEF TaskAgrees

\* What is required of a task depends on its command, token, kind and place.
LEMMA SamePlace ==
  ASSUME NEW t, NEW u, TaskAgrees(t)',
         u.cmd = t.cmd, u.tok = t.tok, u.kind = t.kind, u.pc = t.pc
  PROVE  TaskAgrees(u)'
BY DEF TaskAgrees, HasApplied, MayStillFail, Recorded, TokenKnown, FailureJournaled,
       Unharmed, Outdated

-----------------------------------------------------------------------------
(* The steps of a handler or of a probe.                                   *)

\* Where a handler may go without breaking what is required of it.
LEMMA NewPlace ==
  ASSUME ExecInv, ExecInv', AgreeInv, StepKeeps, NEW t \in tasks, NEW pc \in TaskPc \ {"resolve"},
         pc \in {"applied", "marked"} => applied'[t.cmd] = 1,
         t.kind = "exec" /\ pc \in {"announce", "queued", "exec", "applied"}
           => journal'[t.cmd].state = "running" \/ Recorded(t)',
         pc = "failing" => (FailureJournaled(t.cmd)' \/ Recorded(t)') /\ Unharmed(t.cmd)'
  PROVE  TaskAgrees([t EXCEPT !.pc = pc])'
<1> DEFINE new == [t EXCEPT !.pc = pc]
<1>1. t \in Task /\ t.cmd \in Cmd /\ t.tok \in 0..MaxClaims /\ TaskAgrees(t)
  BY DEF ExecInv, TypeOK, Task, AgreeInv
<1>2. new.cmd = t.cmd /\ new.tok = t.tok /\ new.kind = t.kind /\ new.pc = pc
  BY <1>1 DEF Task
<1>3. TokenKnown(t.cmd, t.tok)'
  BY <1>1, TokensStay DEF TaskAgrees, ExecInv, StepKeeps
<1>. QED
  BY <1>2, <1>3
     DEF TaskPc, TaskAgrees, HasApplied, MayStillFail, Recorded, TokenKnown,
         FailureJournaled, Unharmed, Outdated

\* The tasks and the claims after a step of t.
LEMMA TasksAgree ==
  ASSUME ExecInv, ExecInv', AgreeInv, StepKeeps, NEW t \in tasks,
         \A u \in tasks \ {t} : TaskAgrees(u)',
         \/ Throw(t)
         \/ tasks' = tasks \ {t}
         \/ \E pc : Goto(t, pc) /\ TaskAgrees([t EXCEPT !.pc = pc])'
  PROVE  \A v \in tasks' : TaskAgrees(v)'
<1>1. CASE Throw(t)
  <2>1. \A u \in tasks : LET v == [u EXCEPT !.awaited = FALSE]
                         IN  v.cmd = u.cmd /\ v.tok = u.tok /\ v.kind = u.kind /\ v.pc = u.pc
    BY DEF ExecInv, TypeOK, Task
  <2>. QED  BY <1>1, <2>1, SamePlace DEF Throw
<1>. QED  BY <1>1 DEF Goto

LEMMA BatchStays ==
  ASSUME ExecInv, ExecInv', AgreeInv, StepKeeps, batch' \subseteq batch, OldTokens
  PROVE  \A b \in batch' : BatchAgrees(b)'
<1> SUFFICES ASSUME NEW b \in batch'
             PROVE  BatchAgrees(b)'
  OBVIOUS
<1>1. b \in batch /\ b.cmd \in Cmd /\ b.tok \in 0..MaxClaims /\ BatchAgrees(b)
  BY DEF ExecInv, TypeOK, Claim, AgreeInv
<1>2. TokenKnown(b.cmd, b.tok)'
  BY <1>1, TokensStay DEF BatchAgrees, ExecInv, StepKeeps
<1>3. ASSUME NEW v \in tasks', b.recovery, v.cmd = b.cmd
      PROVE  Outdated(b.cmd, v.tok)'
  <2>1. PICK u \in tasks : u.cmd = v.cmd /\ u.tok = v.tok
    BY DEF OldTokens
  <2>2. u.tok \in 0..MaxClaims
    BY DEF ExecInv, TypeOK, Task
  <2>3. Outdated(b.cmd, u.tok)'
    BY <1>1, <1>3, <2>1, <2>2, TokensStay DEF BatchAgrees, ExecInv, StepKeeps
  <2>. QED  BY <2>1, <2>3
<1>. QED  BY <1>2, <1>3 DEF BatchAgrees

\* The row of a result: its verdict is what the journal says.
LEMMA CompletedRowAgrees ==
  ASSUME ExecInv, ExecInv', AgreeInv, StepKeeps, NEW t \in tasks, NEW result \in {"ok", "rec"},
         Complete(t, result), Goto(t, "flush"), applied' = applied, applied[t.cmd] = 1,
         \/ t.kind = "exec"
         \/ t.cmd \in Reconciliable
  PROVE  RowAgrees(t.cmd)'
<1> DEFINE c == t.cmd
<1>1. t \in Task /\ c \in Cmd /\ RowAgrees(c) /\ outbox[c] \in OutboxRow
  BY DEF ExecInv, TypeOK, Task, AgreeInv
<1>2. CASE UNCHANGED outbox
  BY <1>1, <1>2, RowStays
<1>3. CASE /\ journal[c].result \in {"none", result}
           /\ SetJournal(c, "completed", result)
           /\ outbox' = [outbox EXCEPT ![c] = CompleteRow(c, t.tok, result)]
  <2>1. journal'[c] = [state |-> "completed", result |-> result]
    BY <1>1, <1>3 DEF SetJournal, ExecInv, TypeOK
  <2>2. outbox'[c] = CompleteRow(c, t.tok, result)
    BY <1>1, <1>3 DEF ExecInv, TypeOK
  <2>3. Succeeded(c, result)'
    BY <2>1 DEF Succeeded
  <2>4. CASE outbox[c].status \in {"none", "timeout"} \/ outbox[c].result = result
    <3>1. outbox'[c].status = "succeeded" /\ outbox'[c].result = result
      BY <2>2, <2>4 DEF CompleteRow
    <3>. QED  BY <2>3, <3>1 DEF RowAgrees, Succeeded
  <2>5. CASE outbox[c].status = "succeeded" /\ outbox[c].result # result
    <3>1. journal[c].result = outbox[c].result /\ outbox[c].result \in {"ok", "rec"}
      BY <1>1, <2>5 DEF RowAgrees, Succeeded
    <3>. QED  BY <1>3, <2>5, <3>1
  <2>6. CASE outbox[c].status = "failed" /\ outbox[c].result # result
    <3>1. Failed(c, outbox[c].tok)
      BY <1>1, <2>6 DEF RowAgrees
    <3>2. journal[c].result # "err"
      BY <1>3
    <3>. QED  BY <3>1, <3>2 DEF Failed, FailureJournaled, Concluded
  <2>. QED  BY <1>1, <2>4, <2>5, <2>6 DEF OutboxRow
<1>. QED  BY <1>2, <1>3 DEF Complete

LEMMA AgreeTaskStep ==
  ASSUME ExecInv, ExecInv', AgreeInv, StepKeeps, NEW t \in tasks, TaskStep(t)
  PROVE  AgreeInv'
<1>. /\ t \in Task /\ t.cmd \in Cmd /\ TaskInv(t) /\ TypeOK /\ TypeOK' /\ TasksInv
     /\ TaskAgrees(t)
  BY DEF ExecInv, TypeOK, Task, TasksInv, AgreeInv
<1>1. cmd' = cmd /\ batch' = batch
  BY DEF TaskStep, NoRoute, RecordFailure, AnnounceRunning, StartExec, ApplyEffect,
         ExecSucceeds, RecordSuccess, ExecUnknown, ExecFails, ProbeSucceeds, ProbeFails,
         TaskDone
<1>2. ASSUME NEW u \in tasks \ {t}, t.kind = "exec" \/ UNCHANGED journal
                                      \/ outbox'[t.cmd].status # "none",
             \A c \in Cmd \ {t.cmd} : journal'[c] = journal[c]
      PROVE  TaskAgrees(u)'
  <2>1. u.cmd \in Cmd /\ TaskAgrees(u)
    BY DEF TypeOK, Task, AgreeInv
  <2>2. CASE u.cmd = t.cmd /\ u.kind = "exec" /\ t.kind = "exec"
    BY <2>2 DEF TasksInv, OneHandler
  <2>3. CASE u.cmd # t.cmd \/ u.kind # "exec" \/ UNCHANGED journal
    BY <1>2, <2>1, <2>3, TaskStays
  <2>4. CASE u.cmd = t.cmd /\ outbox'[t.cmd].status # "none"
    BY <2>1, <2>4, TaskStays DEF Recorded
  <2>. QED  BY <1>2, <2>2, <2>3, <2>4
<1>3. ASSUME \A v \in tasks' : TaskAgrees(v)',
             RowAgrees(t.cmd)', \A c \in Cmd \ {t.cmd} : outbox'[c] = outbox[c],
             OldTokens,
             \A m \in calls' \ calls : m.status = "running"
      PROVE  AgreeInv'
  <2>1. \A b \in batch' : BatchAgrees(b)'
    BY <1>1, <1>3, BatchStays
  <2>2. \A c \in Cmd : RowAgrees(c)'
    BY <1>3, RowStays DEF AgreeInv
  <2>3. \A c \in Cmd : CloudAgrees(c)'
    BY <1>1, CloudStays DEF AgreeInv
  <2>4. \A m \in calls' : CallAgrees(m)'
    <3>1. \A m \in calls : CallAgrees(m)'
      BY CallStays DEF AgreeInv
    <3>2. \A m \in calls' \ calls : CallAgrees(m)'
      BY <1>3 DEF CallAgrees
    <3>. QED  BY <3>1, <3>2
  <2>. QED  BY <1>3, <2>1, <2>2, <2>3, <2>4 DEF AgreeInv
<1>4. outbox' = outbox => RowAgrees(t.cmd)' /\ \A c \in Cmd \ {t.cmd} : outbox'[c] = outbox[c]
  BY RowStays DEF AgreeInv
<1>5. ASSUME Throw(t) \/ tasks' = tasks \ {t} \/ \E pc : Goto(t, pc)
      PROVE  OldTokens
  BY <1>5, TasksFollow
\* A verdict of failure: its journal row, and what it may say of the headset.
<1>6. ASSUME FailJournal(t), applied' = applied, outbox' = outbox, calls' = calls,
             t.kind = "exec", t.pc \in {"resolve", "exec", "applied"},
             t.pc = "applied" => t.cmd \notin Conclusive,
             Goto(t, "failing")
      PROVE  AgreeInv'
  <2>1. \A c \in Cmd \ {t.cmd} : journal'[c] = journal[c]
    BY <1>6 DEF FailJournal, SetJournal, TypeOK
  <2>2. FailureJournaled(t.cmd)' \/ Recorded(t)'
    <3>1. CASE journal[t.cmd].state = "running"
      BY <1>6, <3>1 DEF FailJournal, SetJournal, FailureJournaled, TypeOK
    <3>2. CASE journal[t.cmd].state # "running"
      BY <1>1, <1>6, <3>2 DEF TaskAgrees, MayStillFail, Recorded, Outdated
    <3>. QED  BY <3>1, <3>2
  <2>3. Unharmed(t.cmd)'
    BY <1>6 DEF Unharmed, TaskInv, NotYetApplied
  <2>4. TaskAgrees([t EXCEPT !.pc = "failing"])'
    BY <1>6, <2>2, <2>3, NewPlace DEF TaskPc
  <2>. QED  BY <1>2, <1>3, <1>4, <1>5, <1>6, <2>1, <2>4, TasksAgree
\* A handler that goes on with the same journal.
<1>7. ASSUME UNCHANGED <<journal, outbox>>, t.kind = "exec",
             NEW pc \in {"announce", "queued", "exec", "applied"}, Goto(t, pc),
             t.pc \in {"resolve", "announce", "queued", "exec"},
             pc = "applied" => applied'[t.cmd] = 1,
             \A m \in calls' \ calls : m.status = "running"
      PROVE  AgreeInv'
  <2>1. journal'[t.cmd].state = "running" \/ Recorded(t)'
    BY <1>1, <1>7 DEF TaskAgrees, MayStillFail, Recorded, Outdated
  <2>2. TaskAgrees([t EXCEPT !.pc = pc])'
    BY <1>7, <2>1, NewPlace DEF TaskPc
  <2>. QED  BY <1>2, <1>3, <1>4, <1>5, <1>7, <2>2, TasksAgree
<1>8. ASSUME NEW result \in {"ok", "rec"}, Complete(t, result), applied[t.cmd] = 1,
             applied' = applied, calls' = calls, t.kind = "exec" \/ t.cmd \in Reconciliable
      PROVE  AgreeInv'
  <2>1. CASE Throw(t) /\ UNCHANGED <<journal, outbox>>
    BY <1>2, <1>3, <1>4, <1>5, <1>8, <2>1, TasksAgree
  <2>2. CASE /\ SetJournal(t.cmd, "completed", result)
             /\ outbox' = [outbox EXCEPT ![t.cmd] = CompleteRow(t.cmd, t.tok, result)]
             /\ Goto(t, "flush")
    <3>1. RowAgrees(t.cmd)'
      BY <1>8, <2>2, CompletedRowAgrees
    <3>2. /\ \A c \in Cmd \ {t.cmd} : journal'[c] = journal[c] /\ outbox'[c] = outbox[c]
          /\ outbox'[t.cmd].status # "none"
      BY <2>2 DEF SetJournal, CompleteRow, TypeOK, OutboxRow
    <3>3. TaskAgrees([t EXCEPT !.pc = "flush"])'
      BY NewPlace DEF TaskPc
    <3>. QED  BY <1>2, <1>3, <1>5, <1>8, <2>2, <3>1, <3>2, <3>3, TasksAgree
  <2>. QED  BY <1>8, <2>1, <2>2 DEF Complete
<1>9. ASSUME NEW result, ReportUnknown(t, result), calls' = calls
      PROVE  AgreeInv'
  <2>1. /\ \A c \in Cmd \ {t.cmd} : journal'[c] = journal[c] /\ outbox'[c] = outbox[c]
        /\ outbox'[t.cmd].status # "none"
        /\ outbox' = outbox \/ outbox'[t.cmd].status = "timeout"
    BY <1>9 DEF ReportUnknown, EnqueueConflict, TypeOK
  <2>2. RowAgrees(t.cmd)'
    BY <1>4, <2>1 DEF RowAgrees
  <2>3. TaskAgrees([t EXCEPT !.pc = "flush"])'
    BY NewPlace DEF TaskPc
  <2>4. Throw(t) \/ Goto(t, "flush")
    BY <1>9 DEF ReportUnknown
  <2>. QED  BY <1>2, <1>3, <1>5, <1>9, <2>1, <2>2, <2>3, <2>4, TasksAgree
<1>10. CASE NoRoute(t)
  BY <1>6, <1>10 DEF NoRoute
<1>11. CASE RecordFailure(t)
  <2>1. t.kind = "exec" /\ journal' = journal /\ applied' = applied /\ Throw(t)
    BY <1>11 DEF RecordFailure, TaskInv, OnlyHandler
  <2>2. RowAgrees(t.cmd)' /\ \A c \in Cmd \ {t.cmd} : outbox'[c] = outbox[c]
    <3>1. CASE outbox' = outbox
      BY <1>4, <3>1
    <3>2. CASE /\ outbox[t.cmd].status = "none"
               /\ outbox' = [outbox EXCEPT ![t.cmd] = [status |-> "failed", tok |-> t.tok,
                                               result |-> "err", delivered |-> FALSE]]
      <4>1. \A v \in tasks' : v.cmd = t.cmd => v.kind # "exec"
        <5>1. \A u \in tasks \ {t} : u.cmd = t.cmd => u.kind # "exec"
          BY <2>1 DEF TasksInv, OneHandler
        <5>2. \A u \in tasks : /\ [u EXCEPT !.awaited = FALSE].cmd = u.cmd
                               /\ [u EXCEPT !.awaited = FALSE].kind = u.kind
          BY DEF TypeOK, Task
        <5>3. ASSUME NEW v \in tasks'
              PROVE  \E u \in tasks \ {t} : u.cmd = v.cmd /\ u.kind = v.kind
          BY <2>1, <5>2 DEF Throw
        <5>. QED  BY <5>1, <5>3
      <4>2. Concluded(t.cmd)'
        BY <2>1, <4>1 DEF Concluded, TaskInv, Journaled
      <4>3. FailureJournaled(t.cmd) \/ Recorded(t)
        BY <1>11 DEF RecordFailure, TaskAgrees, MayStillFail
      <4>4. FailureJournaled(t.cmd)' \/ (t.cmd \notin Reconciliable /\ Outdated(t.cmd, t.tok)')
        BY <1>1, <2>1, <3>2, <4>3 DEF FailureJournaled, Recorded, Outdated
      <4>5. Unharmed(t.cmd)'
        BY <1>11, <2>1 DEF RecordFailure, TaskAgrees, MayStillFail, Unharmed
      <4>6. Failed(t.cmd, t.tok)'
        BY <4>2, <4>4, <4>5 DEF Failed
      <4>7. outbox'[t.cmd].status = "failed" /\ outbox'[t.cmd].tok = t.tok
        BY <3>2 DEF TypeOK
      <4>8. RowAgrees(t.cmd)'
        BY <4>6, <4>7
           DEF RowAgrees, Failed, Concluded, FailureJournaled, Outdated, Unharmed
      <4>. QED  BY <3>2, <4>8 DEF TypeOK
    <3>. QED  BY <1>11, <3>1, <3>2 DEF RecordFailure
  <2>3. calls' = calls
    BY <1>11 DEF RecordFailure
  <2>. QED  BY <1>2, <1>3, <1>5, <2>1, <2>2, <2>3, TasksAgree
<1>12. CASE AnnounceRunning(t)
  BY <1>7, <1>12 DEF AnnounceRunning
<1>13. CASE StartExec(t)
  BY <1>7, <1>13 DEF StartExec, TaskInv, OnlyHandler
<1>14. CASE ApplyEffect(t)
  <2>1. applied'[t.cmd] = 1
    BY <1>14 DEF ApplyEffect, TaskInv, OnlyHandler, NotYetApplied, TypeOK
  <2>. QED  BY <1>7, <1>14, <2>1 DEF ApplyEffect, TaskInv, OnlyHandler
<1>15. CASE ExecSucceeds(t)
  <2>1. t.kind = "exec" /\ outbox' = outbox /\ calls' = calls /\ applied' = applied
    BY <1>15 DEF ExecSucceeds, TaskInv, OnlyHandler
  <2>2. \A c \in Cmd \ {t.cmd} : journal'[c] = journal[c]
    BY <1>15 DEF ExecSucceeds, SetJournal, TypeOK
  <2>3. TaskAgrees([t EXCEPT !.pc = "marked"])'
    BY <1>15, <2>1, NewPlace DEF ExecSucceeds, TaskAgrees, HasApplied, TaskPc
  <2>4. Throw(t) \/ Goto(t, "marked")
    BY <1>15 DEF ExecSucceeds
  <2>. QED  BY <1>2, <1>3, <1>4, <1>5, <2>1, <2>2, <2>3, <2>4, TasksAgree
<1>16. CASE RecordSuccess(t)
  BY <1>8, <1>16 DEF RecordSuccess, TaskAgrees, HasApplied, TaskInv, OnlyHandler
<1>17. CASE ExecUnknown(t)
  BY <1>9, <1>17 DEF ExecUnknown
<1>18. CASE ExecFails(t)
  BY <1>6, <1>18 DEF ExecFails, KnownFailure, TaskInv, OnlyHandler
<1>19. CASE ProbeSucceeds(t)
  <2>1. applied[t.cmd] = 1
    BY <1>19 DEF ProbeSucceeds, ExecInv, EffectAtMostOnce, TypeOK
  <2>. QED  BY <1>8, <1>19, <2>1 DEF ProbeSucceeds
<1>20. CASE ProbeFails(t)
  BY <1>9, <1>20 DEF ProbeFails
<1>21. CASE TaskDone(t)
  BY <1>2, <1>3, <1>4, <1>5, <1>21, TasksAgree DEF TaskDone
<1>. QED
  BY <1>10, <1>11, <1>12, <1>13, <1>14, <1>15, <1>16, <1>17, <1>18, <1>19, <1>20, <1>21
     DEF TaskStep

-----------------------------------------------------------------------------
(* The other steps.                                                        *)

\* Steps that touch no task, no row of the outbox and no request but by
\* withdrawing or giving up one.
LEMMA AgreeQuiet ==
  ASSUME ExecInv, ExecInv', AgreeInv, StepKeeps,
         UNCHANGED journal,
         tasks' = tasks \/ tasks' = {},
         batch' \subseteq batch \/ \A b \in batch' : BatchAgrees(b)',
         \A c \in Cmd : /\ outbox'[c].status = outbox[c].status
                        /\ outbox'[c].tok = outbox[c].tok
                        /\ outbox'[c].result = outbox[c].result,
         \A c \in Cmd : CloudAgrees(c)',
         \A m \in calls' : \/ m.status = "running"
                           \/ m \in calls
                           \/ CallAgrees(m)'
  PROVE  AgreeInv'
<1>1. \A v \in tasks' : TaskAgrees(v)'
  BY TaskStays DEF AgreeInv
<1>2. \A b \in batch' : BatchAgrees(b)'
  BY BatchStays DEF OldTokens
<1>3. \A c \in Cmd : RowAgrees(c)'
  BY RowStays DEF AgreeInv
<1>4. \A m \in calls' : CallAgrees(m)'
  BY CallStays DEF AgreeInv, CallAgrees
<1>. QED  BY <1>1, <1>2, <1>3, <1>4 DEF AgreeInv

LEMMA AgreeCloudStep ==
  ASSUME ExecInv, ExecInv', AgreeInv, StepKeeps, NEW c \in Cmd, CloudStep(c)
  PROVE  AgreeInv'
<1>1. UNCHANGED <<journal, outbox, tasks, batch, calls>>
  BY DEF CloudStep, CreateDeviceCommand, CancelDeviceCommand, LeaseExpires, hubVars
<1>2. ASSUME NEW k \in Cmd
      PROVE  \/ cmd'[k].status \notin {"succeeded", "failed"}
             \/ cmd'[k].status = cmd[k].status /\ cmd'[k].result = cmd[k].result
  <2>1. CASE CreateDeviceCommand(c)
    BY <2>1 DEF CreateDeviceCommand, ExecInv, TypeOK, CommandRow
  <2>2. CASE CancelDeviceCommand(c)
    BY <2>2 DEF CancelDeviceCommand, ExecInv, TypeOK, CommandRow
  <2>3. CASE LeaseExpires(c)
    BY <2>3 DEF LeaseExpires, ExecInv, TypeOK, CommandRow
  <2>. QED  BY <2>1, <2>2, <2>3 DEF CloudStep
<1>3. \A k \in Cmd : CloudAgrees(k)'
  BY <1>2, CloudStays DEF AgreeInv
<1>. QED  BY <1>1, <1>3, AgreeQuiet

\* A claim keeps every verdict, and tells a command it takes over from one that
\* its old owner may still work on: the token of the latter is outdated.
LEMMA AgreeClaim ==
  ASSUME ExecInv, ExecInv', AgreeInv, StepKeeps, ClaimCommands
  PROVE  /\ \A c \in Cmd : CloudAgrees(c)'
         /\ tasks' = tasks => \A b \in {ClaimFor(c) : c \in Claimed} : BatchAgrees(b)'
<1>1. ASSUME NEW c \in Cmd
      PROVE  CloudAgrees(c)'
  <2>1. CASE c \in Claimed
    <3>1. cmd'[c] = ClaimRow(c) /\ cmd[c].status \in {"created", "timeout"} \cup Active
      BY <2>1 DEF ClaimCommands, Claimed, Candidate
    <3>2. cmd'[c].status \notin {"succeeded", "failed"}
      BY <3>1 DEF ClaimRow, Active, ExecInv, TypeOK, CommandRow
    <3>. QED  BY <3>2, CloudStays DEF AgreeInv
  <2>2. CASE c \notin Claimed
    BY <2>2, CloudStays DEF AgreeInv, ClaimCommands
  <2>. QED  BY <2>1, <2>2
<1>2. ASSUME tasks' = tasks, NEW c \in Claimed, NEW b, b = ClaimFor(c)
      PROVE  BatchAgrees(b)'
  <2>1. /\ c \in Cmd /\ cmd'[c] = ClaimRow(c) /\ cmd[c] \in CommandRow
        /\ cmd[c].status \in {"created", "timeout"} \cup Active
        /\ cmd[c].status \in Active => ~cmd[c].live \/ OwnedLive(c)
    BY DEF ClaimCommands, Claimed, Candidate, ExecInv, TypeOK
  <2>2. b.cmd = c /\ b.tok = ClaimRow(c).attempt
        /\ (b.recovery => cmd[c].status # "created" /\ ~OwnedLive(c))
    BY <1>2 DEF ClaimFor
  <2>3. ClaimRow(c).attempt \in Nat
    BY <2>1, BoundAssumption DEF ExecInv, TypeOK, CommandRow
  <2>4. TokenKnown(c, b.tok)'
    BY <2>1, <2>2, <2>3 DEF TokenKnown
  <2>5. ASSUME b.recovery, NEW t \in tasks, t.cmd = c
        PROVE  Outdated(c, t.tok)'
    <3>1. NeedsToken(c)
      BY <2>1, <2>2, <2>5 DEF NeedsToken, Active
    <3>2. cmd'[c].attempt = cmd[c].attempt + 1
      BY <2>1, <3>1 DEF ClaimRow, CommandRow
    <3>3. TokenKnown(c, t.tok) /\ t.tok \in Nat /\ cmd[c].attempt \in Nat
      BY <2>1, <2>5, BoundAssumption
         DEF AgreeInv, TaskAgrees, ExecInv, TypeOK, Task, CommandRow
    <3>4. t.tok <= cmd[c].attempt
      BY <2>1, <3>3 DEF TokenKnown, Active
    <3>. QED  BY <3>2, <3>3, <3>4 DEF Outdated
  <2>. QED  BY <1>2, <2>2, <2>4, <2>5 DEF BatchAgrees
<1>. QED  BY <1>1, <1>2

\* What a sync brings is started, probed or left alone.  A handler of an earlier
\* sync whose command was taken over finds its journal row `unknown', and the
\* token it reports with is outdated.
LEMMA AgreeDispatch ==
  ASSUME ExecInv, ExecInv', AgreeInv, StepKeeps, Dispatch
  PROVE  AgreeInv'
<1>. TypeOK /\ TypeOK'
  BY DEF ExecInv
<1>1. UNCHANGED <<cmd, outbox, calls, applied>> /\ batch' = {}
  BY DEF Dispatch
<1>2. ASSUME NEW b \in batch, Runs(b) \/ Probes(b), NEW v, v = NewTask(b)
      PROVE  TaskAgrees(v)'
  <2>1. b.cmd \in Cmd /\ b.tok \in 0..MaxClaims /\ TokenKnown(b.cmd, b.tok)'
    BY <1>1, TokensStay DEF TypeOK, Claim, AgreeInv, BatchAgrees, StepKeeps
  <2>2. Runs(b) => journal'[b.cmd].state = "running"
    BY <2>1 DEF Dispatch, TypeOK, JournalRow
  <2>3. v.cmd = b.cmd /\ v.tok = b.tok /\ v.pc = "resolve" /\ (v.kind = "exec" <=> Runs(b))
    BY <1>2 DEF NewTask
  <2>. QED
    BY <2>1, <2>2, <2>3 DEF TaskAgrees, HasApplied, MayStillFail, TokenKnown
<1>3. ASSUME NEW u \in tasks
      PROVE  TaskAgrees(u)'
  <2>1. u.cmd \in Cmd /\ u.tok \in 0..MaxClaims
    BY DEF TypeOK, Task
  <2>2. ASSUME journal[u.cmd].state = "running", journal'[u.cmd].state # "running"
        PROVE  Recorded(u)'
    <3>1. PICK b \in batch : b.cmd = u.cmd /\ BecomesUnknown(b)
      BY <2>1, <2>2 DEF Dispatch, Runs, TypeOK, JournalRow
    <3>2. b.recovery /\ u.cmd \notin Reconciliable
      BY <2>2, <3>1 DEF BecomesUnknown, Untraced, Interrupted
    <3>3. Outdated(u.cmd, u.tok)
      BY <3>1, <3>2 DEF AgreeInv, BatchAgrees
    <3>. QED  BY <1>1, <3>2, <3>3 DEF Recorded, Outdated
  <2>. QED  BY <2>2, TaskStays DEF AgreeInv
<1>4. \A v \in tasks' : TaskAgrees(v)'
  <2>1. tasks' = tasks \cup {NewTask(b) : b \in {a \in batch : Runs(a) \/ Probes(a)}}
    BY DEF Dispatch
  <2>2. ASSUME NEW v \in {NewTask(b) : b \in {a \in batch : Runs(a) \/ Probes(a)}}
        PROVE  TaskAgrees(v)'
    <3>1. PICK b \in batch : (Runs(b) \/ Probes(b)) /\ v = NewTask(b)
      OBVIOUS
    <3>. QED  BY <1>2, <3>1
  <2>. QED  BY <1>3, <2>1, <2>2
<1>5. \A c \in Cmd : RowAgrees(c)' /\ CloudAgrees(c)'
  BY <1>1, RowStays, CloudStays DEF AgreeInv
<1>6. \A m \in calls' : CallAgrees(m)'
  BY <1>1, CallStays DEF AgreeInv
<1>. QED  BY <1>1, <1>4, <1>5, <1>6 DEF AgreeInv

\* A report that moves a command carries the token of its last claim, so that a
\* failure it brings is in the journal.
LEMMA AgreeUpdate ==
  ASSUME ExecInv, ExecInv', AgreeInv, StepKeeps, NEW m \in calls, UpdateCommandStatus(m)
  PROVE  \A c \in Cmd : CloudAgrees(c)'
<1>. TypeOK /\ TypeOK'
  BY DEF ExecInv
<1>1. m \in Call /\ m.cmd \in Cmd /\ m.tok \in Nat
  BY BoundAssumption DEF TypeOK, Call
<1>2. CASE Forgets(m)
  <2>1. ASSUME NEW c \in Cmd
        PROVE  cmd'[c] = cmd[c] \/ cmd'[c].status = "gone"
    BY <1>2 DEF UpdateCommandStatus, Without, NoCommand
  <2>. QED  BY <2>1, CloudStays DEF AgreeInv
<1>3. CASE ~Forgets(m) /\ Moves(m)
  <2>1. /\ cmd'[m.cmd].status = m.status /\ cmd'[m.cmd].result = m.result
        /\ \A c \in Cmd \ {m.cmd} : cmd'[c] = cmd[c]
    BY <1>1, <1>3 DEF UpdateCommandStatus, TypeOK, CommandRow
  <2>2. m.status = "succeeded" => Succeeded(m.cmd, m.result)'
    BY <1>1, SucceededStays DEF AgreeInv, CallAgrees
  <2>3. ASSUME m.status = "failed"
        PROVE  Concluded(m.cmd) /\ FailureJournaled(m.cmd) /\ Unharmed(m.cmd)
    <3>1. Failed(m.cmd, m.tok)
      BY <2>3 DEF AgreeInv, CallAgrees
    <3>2. m.tok = cmd[m.cmd].attempt /\ cmd[m.cmd].status # "gone"
      BY <1>1, <1>3 DEF Moves, TokenMatches, CommandTransitions, Reconciles, Status
    <3>3. ~Outdated(m.cmd, m.tok)
      BY <1>1, <3>2 DEF Outdated
    <3>. QED  BY <3>1, <3>3 DEF Failed
  <2>4. CloudAgrees(m.cmd)'
    BY <1>1, <2>1, <2>2, <2>3, ConcludedStays DEF CloudAgrees, Succeeded
  <2>. QED  BY <2>1, <2>4, CloudStays DEF AgreeInv
<1>4. CASE ~Forgets(m) /\ ~Moves(m)
  BY <1>4, CloudStays DEF UpdateCommandStatus, AgreeInv
<1>. QED  BY <1>2, <1>3, <1>4

LEMMA AgreeCallStep ==
  ASSUME ExecInv, ExecInv', AgreeInv, StepKeeps, NEW m \in calls, CallStep(m)
  PROVE  AgreeInv'
<1>. TypeOK /\ TypeOK' /\ m \in Call
  BY DEF ExecInv, TypeOK
<1>1. UNCHANGED <<journal, applied, batch>>
  BY DEF CallStep, Deliver, DeliverUnanswered, GiveUp
<1>2. \A c \in Cmd : CloudAgrees(c)'
  BY AgreeUpdate, CloudStays DEF CallStep, Deliver, DeliverUnanswered, GiveUp, AgreeInv
<1>3. (\E ok : Continue(m, ok)) \/ UNCHANGED <<outbox, tasks, lockq>>
  BY DEF CallStep, Deliver, DeliverUnanswered, GiveUp
<1>4. OldTokens /\ \A c \in Cmd : /\ outbox'[c].status = outbox[c].status
                                  /\ outbox'[c].tok = outbox[c].tok
                                  /\ outbox'[c].result = outbox[c].result
  <2>1. ASSUME NEW t \in tasks, Goto(t, "queued")
        PROVE  OldTokens
    BY <2>1, TasksFollow
  <2>2. UNCHANGED tasks => OldTokens
    BY DEF OldTokens
  <2>. QED  BY <1>3, <2>1, <2>2, ContinueFollows DEF Continue
<1>5. \A v \in tasks' : TaskAgrees(v)'
  <2>1. \A u \in tasks : TaskAgrees(u)'
    BY <1>1, TaskStays DEF AgreeInv
  <2>2. ASSUME NEW t \in tasks, t.pc = "announce", Goto(t, "queued")
        PROVE  \A v \in tasks' : TaskAgrees(v)'
    <3>1. t.kind = "exec" /\ TaskAgrees(t)'
      BY <2>1, <2>2 DEF ExecInv, TasksInv, TaskInv, OnlyHandler
    <3>2. journal'[t.cmd].state = "running" \/ Recorded(t)'
      BY <2>2, <3>1 DEF TaskAgrees, MayStillFail
    <3>3. TaskAgrees([t EXCEPT !.pc = "queued"])'
      BY <3>2, NewPlace DEF TaskPc
    <3>. QED  BY <2>1, <2>2, <3>3 DEF Goto
  <2>. QED  BY <1>3, <2>1, <2>2 DEF Continue
<1>6. \A b \in batch' : BatchAgrees(b)'
  BY <1>1, <1>4, BatchStays
<1>7. \A c \in Cmd : RowAgrees(c)'
  BY <1>4, RowStays DEF AgreeInv
<1>8. \A n \in calls' : CallAgrees(n)'
  <2>1. \A n \in calls : CallAgrees(n)'
    BY CallStays DEF AgreeInv
  <2>2. /\ [m EXCEPT !.awaited = FALSE].cmd = m.cmd /\ [m EXCEPT !.awaited = FALSE].tok = m.tok
        /\ [m EXCEPT !.awaited = FALSE].status = m.status
        /\ [m EXCEPT !.awaited = FALSE].result = m.result
    BY DEF Call
  <2>3. CallAgrees([m EXCEPT !.awaited = FALSE])'
    BY <2>1, <2>2 DEF CallAgrees, Succeeded, Failed, Concluded, FailureJournaled, Outdated, Unharmed
  <2>4. calls' \subseteq calls \cup {[m EXCEPT !.awaited = FALSE]}
    BY DEF CallStep, Deliver, DeliverUnanswered, GiveUp
  <2>. QED  BY <2>1, <2>3, <2>4
<1>. QED  BY <1>2, <1>5, <1>6, <1>7, <1>8 DEF AgreeInv

\* What a delivery loop sends is what the outbox row says.
LEMMA AgreeFlush ==
  ASSUME ExecInv, ExecInv', AgreeInv, StepKeeps, NEW l \in Loop, NEW c \in Cmd, FlushSend(l, c)
  PROVE  AgreeInv'
<1>1. UNCHANGED <<cmd, journal, outbox, tasks, batch, applied>>
      /\ calls' = calls \cup {OutboxCall(c, l)}
  BY DEF FlushSend, hubVars
<1>2. ASSUME NEW m, m = OutboxCall(c, l)
      PROVE  CallAgrees(m)'
  <2>1. m.cmd = c /\ m.tok = outbox[c].tok /\ m.status = outbox[c].status
        /\ m.result = outbox[c].result
    BY <1>2 DEF OutboxCall
  <2>2. RowAgrees(c)'
    BY <1>1, RowStays DEF AgreeInv
  <2>. QED
    BY <1>1, <2>1, <2>2
       DEF CallAgrees, RowAgrees, Succeeded, Failed, Concluded, FailureJournaled, Outdated,
           Unharmed
<1>3. \A k \in Cmd : CloudAgrees(k)'
  BY <1>1, CloudStays DEF AgreeInv
<1>. QED  BY <1>1, <1>2, <1>3, AgreeQuiet

LEMMA AgreeStep == ExecInv /\ ExecInv' /\ AgreeInv /\ [Next]_vars => AgreeInv'
<1> SUFFICES ASSUME ExecInv, ExecInv', AgreeInv, [Next]_vars
             PROVE  AgreeInv'
  OBVIOUS
<1>. StepKeeps
  BY EveryStepKeeps
<1>1. ASSUME NEW c \in Cmd, CloudStep(c)
      PROVE  AgreeInv'
  BY <1>1, AgreeCloudStep
<1>2. CASE Sync
  <2>1. \A b \in batch' : BatchAgrees(b)'
    <3>1. batch' = {ClaimFor(c) : c \in Claimed} /\ tasks' = tasks /\ ClaimCommands
      BY <1>2 DEF Sync
    <3>. QED  BY <3>1, AgreeClaim
  <2>. QED  BY <1>2, <2>1, AgreeClaim, AgreeQuiet DEF Sync
<1>3. CASE SyncAnswerLost
  BY <1>3, AgreeClaim, AgreeQuiet DEF SyncAnswerLost, hubVars
<1>4. CASE Dispatch
  BY <1>4, AgreeDispatch
<1>5. CASE SyncDone
  <2>1. UNCHANGED <<cmd, journal, outbox, batch, tasks, calls, applied>>
    BY <1>5 DEF SyncDone
  <2>. QED  BY <2>1, AgreeQuiet, CloudStays DEF AgreeInv
<1>6. ASSUME NEW t \in tasks, TaskStep(t)
      PROVE  AgreeInv'
  BY <1>6, AgreeTaskStep
<1>7. ASSUME NEW l \in Loop, NEW c \in Cmd, FlushSend(l, c)
      PROVE  AgreeInv'
  BY <1>7, AgreeFlush
<1>8. ASSUME NEW m \in calls, CallStep(m)
      PROVE  AgreeInv'
  BY <1>8, AgreeCallStep
<1>9. CASE Crash
  <2>1. /\ UNCHANGED <<cmd, journal, outbox, applied>> /\ tasks' = {} /\ batch' = {}
        /\ calls' = {[m EXCEPT !.awaited = FALSE] : m \in calls}
    BY <1>9 DEF Crash
  <2>2. ASSUME NEW n \in calls'
        PROVE  CallAgrees(n)'
    <3>1. PICK m \in calls : n = [m EXCEPT !.awaited = FALSE]
      BY <2>1
    <3>2. m \in Call /\ CallAgrees(m)'
      BY CallStays DEF AgreeInv, ExecInv, TypeOK
    <3>3. n.cmd = m.cmd /\ n.tok = m.tok /\ n.status = m.status /\ n.result = m.result
      BY <3>1, <3>2 DEF Call
    <3>. QED
      BY <3>2, <3>3 DEF CallAgrees, Succeeded, Failed, Concluded, FailureJournaled, Outdated, Unharmed
  <2>3. \A c \in Cmd : CloudAgrees(c)'
    BY <2>1, CloudStays DEF AgreeInv
  <2>. QED  BY <2>1, <2>2, <2>3, AgreeQuiet
<1>10. CASE UNCHANGED vars
  BY <1>10, AgreeQuiet, CloudStays DEF vars, AgreeInv
<1>. QED
  BY <1>1, <1>2, <1>3, <1>4, <1>5, <1>6, <1>7, <1>8, <1>9, <1>10 DEF Next, SyncStep

LEMMA AgreeInit == Init => AgreeInv
BY DEF Init, AgreeInv, NoCommand, NoRow, RowAgrees, CloudAgrees

THEOREM AgreeInvariant == Spec => [](ExecInv /\ AgreeInv)
BY ExecInit, ExecStep, AgreeInit, AgreeStep, PTL DEF Spec

\* What the Cloud tells the operator of a command is what happened on the
\* headset and what the Hub's journal says: a success was applied once and is
\* journaled with the same result, a failure is journaled as one, and if the
\* command is a conclusive one (dangerous, of one ADB step), nothing happened.
THEOREM AgreementHolds == Spec => []CloudAgreesWithHub
<1>1. AgreeInv => CloudAgreesWithHub
  <2>1. SUFFICES ASSUME NEW c \in Cmd, CloudAgrees(c)
                 PROVE  /\ cmd[c].status = "succeeded" =>
                             /\ applied[c] = 1
                             /\ journal[c].state = "completed"
                             /\ journal[c].result = cmd[c].result
                        /\ cmd[c].status = "failed" =>
                             /\ journal[c] = [state |-> "completed", result |-> "err"]
                             /\ c \in Conclusive => applied[c] = 0
    BY DEF AgreeInv, CloudAgreesWithHub
  <2>2. CASE cmd[c].status = "succeeded"
    BY <2>1, <2>2 DEF CloudAgrees, Succeeded
  <2>3. CASE cmd[c].status = "failed"
    BY <2>1, <2>3 DEF CloudAgrees, FailureJournaled, Unharmed
  <2>. QED  BY <2>2, <2>3
<1>. QED  BY <1>1, AgreeInvariant, PTL
-----------------------------------------------------------------------------
(***************************************************************************)
(* What is taken off the retry list, for any number of headsets.  A report *)
(* and the Cloud's row say what the outbox row says, or the unknown        *)
(* outcome that a success has replaced there since.                        *)
(***************************************************************************)
Reported == {"succeeded", "failed", "timeout"}
Follows(status, result, c) ==
  \/ outbox[c].status = status /\ outbox[c].result = result
  \/ status = "timeout" /\ outbox[c].status = "succeeded"

SuccessRow(c) == outbox[c].result \in {"ok", "rec"} => outbox[c].status = "succeeded"
CallFollows(m) ==
  /\ ~m.reconciled
  /\ m.status \in Reported => Follows(m.status, m.result, m.cmd)
CloudFollows(c) == cmd[c].status \in Reported => Follows(cmd[c].status, cmd[c].result, c)
MarkedLate(c) == outbox[c].delivered => cmd[c].status \in Reported \cup {"gone"}

DeliveryInv ==
  /\ \A c \in Cmd : SuccessRow(c) /\ CloudFollows(c) /\ MarkedLate(c)
  /\ \A m \in calls : CallFollows(m)

\* A row keeps what it says, or is the first of its command, or a success that
\* replaces an unknown outcome.
RowMoves(c) ==
  \/ outbox'[c].status = outbox[c].status /\ outbox'[c].result = outbox[c].result
  \/ outbox[c].status = "none"
  \/ outbox[c].status = "timeout" /\ outbox'[c].status = "succeeded"
\* The Cloud's row takes its verdict from a report, and keeps it.
CloudMoves(c) ==
  /\ cmd'[c].status \in Reported =>
       \/ cmd'[c].status = cmd[c].status /\ cmd'[c].result = cmd[c].result
       \/ \E m \in calls : m.cmd = c /\ m.status = cmd'[c].status /\ m.result = cmd'[c].result
  /\ cmd[c].status \in Reported \cup {"gone"} => cmd'[c].status \in Reported \cup {"gone"}

LEMMA DeliveryKeeps ==
  ASSUME ExecInv, ExecInv', DeliveryInv,
         \A c \in Cmd : RowMoves(c) /\ CloudMoves(c) /\ SuccessRow(c)',
         \A c \in Cmd : outbox'[c].delivered =>
           outbox[c].delivered \/ cmd'[c].status \in Reported \cup {"gone"},
         \A m \in calls' : \/ ~m.reconciled /\ m.status = "running"
                           \/ CallFollows(m)'
                           \/ \E n \in calls : /\ n.cmd = m.cmd /\ n.status = m.status
                                               /\ n.result = m.result
                                               /\ n.reconciled = m.reconciled
  PROVE  DeliveryInv'
<1>1. ASSUME NEW c \in Cmd, NEW status \in Reported, NEW result, Follows(status, result, c)
      PROVE  Follows(status, result, c)'
  BY <1>1 DEF RowMoves, Follows, Reported
<1>2. ASSUME NEW m \in calls PROVE m.cmd \in Cmd /\ CallFollows(m)
  BY DEF ExecInv, TypeOK, Call, DeliveryInv
<1>3. ASSUME NEW m \in calls' PROVE CallFollows(m)'
  <2>1. CASE ~m.reconciled /\ m.status = "running"
    BY <2>1 DEF CallFollows, Reported
  <2>2. ASSUME NEW n \in calls, n.cmd = m.cmd, n.status = m.status, n.result = m.result,
               n.reconciled = m.reconciled
        PROVE  CallFollows(m)'
    BY <1>1, <1>2, <2>2 DEF CallFollows
  <2>. QED  BY <2>1, <2>2
<1>4. ASSUME NEW c \in Cmd PROVE CloudFollows(c)'
  <2>1. SUFFICES ASSUME NEW status \in Reported, NEW result,
                        cmd'[c].status = status, cmd'[c].result = result
                 PROVE  Follows(status, result, c)'
    BY DEF CloudFollows, Follows
  <2>2. CASE status = cmd[c].status /\ result = cmd[c].result
    BY <1>1, <2>1, <2>2 DEF DeliveryInv, CloudFollows
  <2>3. ASSUME NEW m \in calls, m.cmd = c, m.status = status, m.result = result
        PROVE  Follows(status, result, c)'
    BY <1>1, <1>2, <2>1, <2>3 DEF CallFollows
  <2>. QED  BY <2>1, <2>2, <2>3 DEF CloudMoves
<1>5. ASSUME NEW c \in Cmd PROVE MarkedLate(c)'
  BY DEF MarkedLate, CloudMoves, DeliveryInv
<1>. QED  BY <1>3, <1>4, <1>5 DEF DeliveryInv

\* A handler or a probe writes the row of its own command.
LEMMA TaskRows ==
  ASSUME ExecInv, DeliveryInv, NEW t \in tasks, TaskStep(t), NEW c \in Cmd
  PROVE  /\ RowMoves(c) /\ SuccessRow(c)'
         /\ outbox'[c].delivered => outbox[c].delivered
<1>. t.cmd \in Cmd /\ outbox[c] \in OutboxRow /\ outbox[t.cmd] \in OutboxRow /\ SuccessRow(c)
     /\ SuccessRow(t.cmd) /\ TypeOK
  BY DEF ExecInv, TypeOK, Task, DeliveryInv
<1>1. CASE outbox'[c] = outbox[c]
  BY <1>1 DEF RowMoves, SuccessRow
<1>2. ASSUME NEW result \in {"ok", "rec"}, Complete(t, result), c = t.cmd
      PROVE  /\ RowMoves(c) /\ SuccessRow(c)'
             /\ outbox'[c].delivered => outbox[c].delivered
  <2>1. CASE UNCHANGED outbox
    BY <1>1, <2>1
  <2>2. CASE outbox' = [outbox EXCEPT ![t.cmd] = CompleteRow(t.cmd, t.tok, result)]
    <3>1. outbox'[c] = CompleteRow(c, t.tok, result)
      BY <1>2, <2>2 DEF TypeOK
    <3>2. CASE outbox[c].status \in {"none", "timeout"} \/ outbox[c].result = result
      <4> DEFINE kept == outbox[c].delivered /\ outbox[c].status # "timeout"
      <4>1. outbox'[c] = [status |-> "succeeded", tok |-> t.tok, result |-> result,
                          delivered |-> kept]
        BY <3>1, <3>2 DEF CompleteRow
      <4> HIDE DEF kept
      <4>2. /\ outbox'[c].status = "succeeded" /\ outbox'[c].result = result
            /\ outbox'[c].delivered = kept
        BY <4>1
      <4>3. RowMoves(c) /\ SuccessRow(c)'
        BY <3>2, <4>2 DEF RowMoves, SuccessRow
      <4>4. kept => outbox[c].delivered
        BY DEF kept
      <4>. QED  BY <4>2, <4>3, <4>4
    <3>3. CASE ~(outbox[c].status \in {"none", "timeout"} \/ outbox[c].result = result)
      <4>1. outbox'[c] = [outbox[c] EXCEPT !.tok = t.tok]
        BY <3>1, <3>3 DEF CompleteRow
      <4>. QED  BY <4>1 DEF RowMoves, SuccessRow, OutboxRow
    <3>. QED  BY <3>2, <3>3
  <2>. QED  BY <1>2, <2>1, <2>2 DEF Complete
<1>3. ASSUME NEW result \in {"unk", "unk2"}, ReportUnknown(t, result), c = t.cmd
      PROVE  /\ RowMoves(c) /\ SuccessRow(c)'
             /\ outbox'[c].delivered => outbox[c].delivered
  <2>1. CASE outbox' = outbox
    BY <1>1, <2>1
  <2>2. CASE /\ outbox[c].status = "none"
             /\ outbox' = [outbox EXCEPT ![c] = [status |-> "timeout", tok |-> t.tok,
                                                 result |-> result, delivered |-> FALSE]]
    BY <2>2 DEF RowMoves, SuccessRow, TypeOK
  <2>. QED  BY <1>3, <2>1, <2>2 DEF ReportUnknown
<1>4. CASE RecordFailure(t) /\ c = t.cmd
  BY <1>1, <1>4 DEF RecordFailure, RowMoves, SuccessRow, TypeOK
<1>5. c # t.cmd => outbox'[c] = outbox[c]
  BY DEF TaskStep, NoRoute, RecordFailure, AnnounceRunning, StartExec, ApplyEffect,
         ExecSucceeds, RecordSuccess, ExecUnknown, ExecFails, ProbeSucceeds, ProbeFails,
         TaskDone, Complete, ReportUnknown, TypeOK
<1>6. \/ outbox' = outbox \/ RecordFailure(t)
      \/ Complete(t, "ok") \/ Complete(t, "rec")
      \/ ReportUnknown(t, "unk") \/ ReportUnknown(t, "unk2")
  BY DEF TaskStep, NoRoute, AnnounceRunning, StartExec, ApplyEffect,
         ExecSucceeds, RecordSuccess, ExecUnknown, ExecFails, ProbeSucceeds, ProbeFails,
         TaskDone
<1>. QED  BY <1>1, <1>2, <1>3, <1>4, <1>5, <1>6

\* A report moves a command that has no verdict yet, or takes a headset away.
LEMMA ReportMoves ==
  ASSUME ExecInv, DeliveryInv, NEW m \in calls, UpdateCommandStatus(m), NEW c \in Cmd
  PROVE  /\ CloudMoves(c)
         /\ c = m.cmd /\ Accepts(m) /\ m.status # "running" =>
              cmd'[c].status \in Reported \cup {"gone"}
<1>. /\ m \in Call /\ m.cmd \in Cmd /\ ~m.reconciled /\ cmd[c] \in CommandRow
     /\ cmd[m.cmd] \in CommandRow /\ TypeOK
  BY DEF ExecInv, TypeOK, Call, DeliveryInv, CallFollows
<1>1. m.status # "running" => m.status \in Reported
  BY DEF Call, Reported
<1>2. CASE Forgets(m)
  <2>1. cmd'[c] = cmd[c] \/ cmd'[c].status = "gone"
    BY <1>2 DEF UpdateCommandStatus, Without, NoCommand
  <2>2. c = m.cmd => cmd'[c].status = "gone"
    <3>1. cmd[m.cmd].status # "absent"
      BY <1>2 DEF Forgets, Moves, Reconciles, CommandTransitions, Status
    <3>. QED  BY <1>2, <3>1 DEF UpdateCommandStatus, Without, NoCommand
  <2>. QED  BY <2>1, <2>2 DEF CloudMoves, Reported
<1>3. CASE ~Forgets(m) /\ Moves(m)
  <2>1. cmd' = [cmd EXCEPT ![m.cmd].status = m.status, ![m.cmd].result = m.result]
    BY <1>3 DEF UpdateCommandStatus
  <2>2. cmd[m.cmd].status \notin Reported \cup {"gone"}
    BY <1>3 DEF Moves, Reconciles, CommandTransitions, CommandRow, Status, Terminal, Active, Reported
  <2>3. c = m.cmd => cmd'[c].status = m.status /\ cmd'[c].result = m.result
    BY <2>1 DEF TypeOK, CommandRow
  <2>4. c # m.cmd => cmd'[c] = cmd[c]
    BY <2>1 DEF TypeOK
  <2>. QED  BY <1>1, <2>2, <2>3, <2>4 DEF CloudMoves
<1>4. CASE ~Forgets(m) /\ ~Moves(m)
  <2>1. cmd' = cmd
    BY <1>4 DEF UpdateCommandStatus
  <2>2. Accepts(m) => cmd[m.cmd].status = m.status
    BY <1>4 DEF Accepts, Repeated
  <2>. QED  BY <1>1, <2>1, <2>2 DEF CloudMoves
<1>. QED  BY <1>2, <1>3, <1>4

LEMMA DeliveryStep ==
  ASSUME ExecInv, ExecInv', DeliveryInv, [Next]_vars
  PROVE  DeliveryInv'
<1>. \A c \in Cmd : outbox[c] \in OutboxRow /\ SuccessRow(c) /\ cmd[c] \in CommandRow
  BY DEF ExecInv, TypeOK, DeliveryInv
<1>1. ASSUME UNCHANGED outbox
      PROVE  \A c \in Cmd : /\ RowMoves(c) /\ SuccessRow(c)'
                            /\ outbox'[c].delivered => outbox[c].delivered
  BY <1>1 DEF RowMoves, SuccessRow
<1>2. ASSUME UNCHANGED cmd PROVE \A c \in Cmd : CloudMoves(c)
  BY <1>2 DEF CloudMoves
<1>3. ASSUME NEW t \in tasks, TaskStep(t)
      PROVE  DeliveryInv'
  <2>1. UNCHANGED cmd /\ \A m \in calls' : m \in calls \/ (~m.reconciled /\ m.status = "running")
    BY <1>3 DEF TaskStep, NoRoute, RecordFailure, AnnounceRunning, StartExec, ApplyEffect,
           ExecSucceeds, RecordSuccess, ExecUnknown, ExecFails, ProbeSucceeds, ProbeFails,
           TaskDone
  <2>. QED  BY <1>2, <1>3, <2>1, TaskRows, DeliveryKeeps
<1>4. ASSUME NEW c \in Cmd, CloudStep(c)
      PROVE  DeliveryInv'
  <2>1. UNCHANGED <<outbox, calls>>
    BY <1>4 DEF CloudStep, CreateDeviceCommand, CancelDeviceCommand, LeaseExpires, hubVars
  <2>2. \A k \in Cmd : CloudMoves(k)
    <3>1. CASE CreateDeviceCommand(c)
      BY <3>1 DEF CreateDeviceCommand, CloudMoves, CommandRow, Reported, ExecInv, TypeOK
    <3>2. CASE CancelDeviceCommand(c)
      BY <3>2 DEF CancelDeviceCommand, CloudMoves, CommandRow, Reported, ExecInv, TypeOK
    <3>3. CASE LeaseExpires(c)
      BY <3>3 DEF LeaseExpires, CloudMoves, CommandRow, Reported, ExecInv, TypeOK
    <3>. QED  BY <1>4, <3>1, <3>2, <3>3 DEF CloudStep
  <2>. QED  BY <1>1, <2>1, <2>2, DeliveryKeeps
<1>5. CASE SyncStep
  <2>1. UNCHANGED <<outbox, calls>>
    BY <1>5 DEF SyncStep, Sync, SyncAnswerLost, Dispatch, SyncDone, hubVars
  <2>2. \A k \in Cmd : CloudMoves(k)
    <3>1. CASE ClaimCommands
      <4>1. ASSUME NEW k \in Cmd
            PROVE  /\ cmd'[k].result = cmd[k].result
                   /\ \/ cmd'[k].status = cmd[k].status
                      \/ cmd[k].status = "created" /\ cmd'[k].status = "accepted_by_hub"
        <5>1. CASE k \in Claimed
          BY <3>1, <5>1 DEF ClaimCommands, ClaimRow, CommandRow
        <5>2. CASE k \notin Claimed
          BY <3>1, <5>2 DEF ClaimCommands
        <5>. QED  BY <5>1, <5>2
      <4>. QED  BY <4>1 DEF CloudMoves, Reported
    <3>. QED  BY <1>2, <1>5, <3>1 DEF SyncStep, Sync, SyncAnswerLost, Dispatch, SyncDone
  <2>3. \A m \in calls' : m \in calls
    BY <2>1
  <2>4. \A c \in Cmd : /\ RowMoves(c) /\ SuccessRow(c)'
                       /\ outbox'[c].delivered => outbox[c].delivered
    BY <1>1, <2>1
  <2>. QED  BY <2>2, <2>3, <2>4, DeliveryKeeps
<1>6. ASSUME NEW l \in Loop, NEW c \in Cmd, FlushSend(l, c)
      PROVE  DeliveryInv'
  <2>1. UNCHANGED <<cmd, outbox>> /\ calls' = calls \cup {OutboxCall(c, l)}
    BY <1>6 DEF FlushSend, hubVars
  <2>2. ASSUME NEW m \in calls' PROVE m \in calls \/ CallFollows(m)'
    <3>1. CASE m = OutboxCall(c, l)
      BY <2>1, <3>1 DEF CallFollows, OutboxCall, Follows
    <3>. QED  BY <2>1, <3>1
  <2>3. \A k \in Cmd : /\ RowMoves(k) /\ SuccessRow(k)' /\ CloudMoves(k)
                       /\ outbox'[k].delivered => outbox[k].delivered
    BY <1>1, <1>2, <2>1
  <2>. QED  BY <2>2, <2>3, DeliveryKeeps
<1>7. ASSUME NEW m \in calls, CallStep(m)
      PROVE  DeliveryInv'
  <2>. m \in Call /\ m.cmd \in Cmd
    BY DEF ExecInv, TypeOK, Call
  <2>1. \A n \in calls' : \E k \in calls : /\ k.cmd = n.cmd /\ k.status = n.status
                                           /\ k.result = n.result /\ k.reconciled = n.reconciled
    <3>1. LET n == [m EXCEPT !.awaited = FALSE]
          IN n.cmd = m.cmd /\ n.status = m.status /\ n.result = m.result
             /\ n.reconciled = m.reconciled
      BY DEF Call
    <3>. QED  BY <1>7, <3>1 DEF CallStep, Deliver, DeliverUnanswered, GiveUp
  <2>2. \A c \in Cmd : CloudMoves(c)
    BY <1>2, <1>7, ReportMoves DEF CallStep, Deliver, DeliverUnanswered, GiveUp
  <2>3. \/ outbox' = outbox
        \/ /\ outbox' = [outbox EXCEPT ![m.cmd].delivered = TRUE]
           /\ Accepts(m) /\ m.status # "running" /\ UpdateCommandStatus(m)
    BY <1>7 DEF CallStep, Deliver, DeliverUnanswered, GiveUp, Continue
  <2>4. \A c \in Cmd : /\ RowMoves(c) /\ SuccessRow(c)'
                       /\ outbox'[c].delivered =>
                            outbox[c].delivered \/ cmd'[c].status \in Reported \cup {"gone"}
    <3>1. CASE outbox' = outbox
      BY <1>1, <3>1
    <3>2. CASE /\ outbox' = [outbox EXCEPT ![m.cmd].delivered = TRUE]
               /\ Accepts(m) /\ m.status # "running" /\ UpdateCommandStatus(m)
      <4>1. cmd'[m.cmd].status \in Reported \cup {"gone"}
        BY <3>2, ReportMoves
      <4>2. \A c \in Cmd : /\ outbox'[c].status = outbox[c].status
                           /\ outbox'[c].result = outbox[c].result
                           /\ c # m.cmd => outbox'[c] = outbox[c]
        BY <3>2 DEF ExecInv, TypeOK, OutboxRow
      <4>. QED  BY <4>1, <4>2 DEF RowMoves, SuccessRow
    <3>. QED  BY <2>3, <3>1, <3>2
  <2>. QED  BY <2>1, <2>2, <2>4, DeliveryKeeps
<1>8. CASE Crash
  <2>1. UNCHANGED <<cmd, outbox>> /\ calls' = {[m EXCEPT !.awaited = FALSE] : m \in calls}
    BY <1>8 DEF Crash
  <2>2. \A n \in calls' : \E k \in calls : /\ k.cmd = n.cmd /\ k.status = n.status
                                           /\ k.result = n.result /\ k.reconciled = n.reconciled
    BY <2>1 DEF ExecInv, TypeOK, Call
  <2>. QED  BY <1>1, <1>2, <2>1, <2>2, DeliveryKeeps
<1>9. CASE UNCHANGED vars
  BY <1>1, <1>2, <1>9, DeliveryKeeps DEF vars
<1>. QED
  BY <1>3, <1>4, <1>5, <1>6, <1>7, <1>8, <1>9 DEF Next

LEMMA DeliveryInit == Init => DeliveryInv
BY DEF Init, DeliveryInv, NoCommand, NoRow, SuccessRow, CloudFollows, MarkedLate, Reported

\* A row that is taken off the retry list, on whatever request, has told the
\* Cloud its result, or the unknown outcome that its success replaced while the
\* request was on its way; a failure or a success in the Cloud is always the one
\* the row holds.
THEOREM DeliveryHolds == Spec => []DeliveredIsSettled
<1>1. ExecInv /\ DeliveryInv => DeliveredIsSettled
  <2>1. ASSUME ExecInv, DeliveryInv, NEW c \in Cmd, outbox[c].delivered, cmd[c].status # "gone"
        PROVE  \/ cmd[c].status = outbox[c].status /\ cmd[c].result = outbox[c].result
               \/ cmd[c].status = "timeout" /\ outbox[c].status = "succeeded"
    BY <2>1 DEF DeliveryInv, MarkedLate, CloudFollows, Follows
  <2>. QED  BY <2>1 DEF DeliveredIsSettled
<1>. QED  BY <1>1, ExecInit, ExecStep, DeliveryInit, DeliveryStep, PTL DEF Spec

=============================================================================
