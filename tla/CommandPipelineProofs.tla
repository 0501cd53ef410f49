------------------------ MODULE CommandPipelineProofs ------------------------
(***************************************************************************)
(* What CommandPipeline guarantees for every set of commands and headsets  *)
(* and every bound: its types, one effect per command, one operation per   *)
(* headset at a time and the queue of a headset.                           *)
(***************************************************************************)
EXTENDS CommandPipeline, SequenceTheorems, TLAPS

(***************************************************************************)
(* The inductive invariant for execution.  Only Dispatch starts a handler, *)
(* and only for a command without journal row; so a command has at most    *)
(* one handler (OneHandler, Journaled), has had no effect before that      *)
(* handler is past the ADB call (Untouched, NotYetApplied), and the queue  *)
(* behind a device lock holds everyone who waits for it or has it.         *)
(***************************************************************************)
OnlyHandler(t) == t.pc \notin {"resolve", "flush"} => t.kind = "exec"
Journaled(t) == t.kind = "exec" => journal[t.cmd].state # "none"
NotYetApplied(t) ==
  t.kind = "exec" /\ t.pc \in {"resolve", "announce", "queued", "exec"} => applied[t.cmd] = 0
LockQueued(t) == t.pc \in {"queued", "exec", "applied"} =>
  \E i \in 1..Len(lockq[DeviceOf[t.cmd]]) : lockq[DeviceOf[t.cmd]][i] = t.cmd
LockHeld(t) == t.pc \in {"exec", "applied"} => lockq[DeviceOf[t.cmd]][1] = t.cmd
TaskInv(t) == /\ OnlyHandler(t) /\ Journaled(t) /\ NotYetApplied(t)
              /\ LockQueued(t) /\ LockHeld(t)

OneHandler == \A t, u \in tasks :
  t.kind = "exec" /\ u.kind = "exec" /\ t.cmd = u.cmd => t = u
TasksInv == OneHandler /\ \A t \in tasks : TaskInv(t)

OneClaim == \A a, b \in batch : a.cmd = b.cmd => a = b
Untouched == \A c \in Cmd : journal[c].state = "none" => applied[c] = 0

ExecInv == TypeOK /\ TasksInv /\ OneClaim /\ Untouched /\ EffectAtMostOnce

(***************************************************************************)
(* The inductive invariant for the queue: the commands of a headset are    *)
(* created in order and disappear together, and a report carries the token *)
(* of a claim, which a command that was never claimed does not have.       *)
(***************************************************************************)
InOrder == \A c, d \in Cmd :
  c < d /\ DeviceOf[c] = DeviceOf[d] /\ cmd[c].status = "absent" => cmd[d].status = "absent"
GoneTogether == \A c, d \in Cmd :
  DeviceOf[c] = DeviceOf[d] /\ cmd[d].status = "gone" => cmd[c].status \in {"absent", "gone"}
TokenOfClaim == \A c \in Cmd :
  /\ cmd[c].status \in {"absent", "created"} => cmd[c].attempt = 0
  /\ cmd[c].status \in Active => cmd[c].attempt > 0
CloudInv == InOrder /\ GoneTogether /\ TokenOfClaim /\ HeadOfLine

BatchTokens == \A b \in batch : b.tok > 0
TaskTokens == \A t \in tasks : t.tok > 0
CallTokens == \A m \in calls : m.tok > 0
OutboxTokens == \A c \in Cmd : outbox[c].status # "none" => outbox[c].tok > 0
TokensIssued == BatchTokens /\ TaskTokens /\ CallTokens /\ OutboxTokens

QueueInv == CloudInv /\ TokensIssued
-----------------------------------------------------------------------------
(* Types.                                                                  *)

\* The id of the Hub's process is one of those a lease can name.
LEMMA InstanceType ==
  ASSUME TypeOK
  PROVE  Instance \in 0..MaxCrashes
BY BoundAssumption DEF TypeOK, Instance, Budget, Bound

\* Spending from a bound stays within it.
LEMMA SpendType ==
  ASSUME TypeOK, NEW b \in Budget, Spend(b)
  PROVE  /\ used' \in [Budget -> Nat]
         /\ \A a \in Budget : used'[a] <= Bound(a)
<1>1. used' \in [Budget -> Nat]
  BY DEF TypeOK, Spend
<1>2. ASSUME NEW a \in Budget
      PROVE  used'[a] <= Bound(a)
  <2>1. Bound(a) \in Nat
    BY BoundAssumption DEF Bound, Budget
  <2>2. CASE a = b
    BY <2>1, <2>2 DEF TypeOK, Spend
  <2>3. CASE a # b
    BY <2>3 DEF TypeOK, Spend
  <2>. QED  BY <2>2, <2>3
<1>. QED  BY <1>1, <1>2

\* A task that moves on, and the tasks left behind by an exception.
LEMMA GotoType ==
  ASSUME TypeOK, NEW t \in tasks, NEW pc \in TaskPc, Goto(t, pc)
  PROVE  tasks' \subseteq Task
BY DEF TypeOK, Goto, Task

LEMMA ThrowType ==
  ASSUME TypeOK, NEW t \in tasks, Throw(t)
  PROVE  tasks' \subseteq Task /\ phase' \in {"idle", "flush", "busy"}
<1>1. ASSUME NEW u \in tasks
      PROVE  u \in Task /\ [u EXCEPT !.awaited = FALSE] \in Task
  BY DEF TypeOK, Task
<1>2. tasks' \subseteq Task
  BY <1>1 DEF Throw
<1>3. phase' \in {"idle", "flush", "busy"}
  BY DEF Throw, TypeOK
<1>. QED  BY <1>2, <1>3

LEMMA JournalType ==
  ASSUME TypeOK, NEW c \in Cmd, NEW state \in JournalState, NEW result \in Result,
         SetJournal(c, state, result)
  PROVE  journal' \in [Cmd -> JournalRow]
BY DEF TypeOK, SetJournal, JournalRow

\* What a sync writes and returns has the types of the rows and the claims.
LEMMA ClaimType ==
  ASSUME TypeOK, NEW c \in Claimed
  PROVE  ClaimRow(c) \in CommandRow /\ ClaimFor(c) \in Claim
<1>1. c \in Cmd /\ cmd[c] \in CommandRow
  BY DEF Claimed, TypeOK
<1>2. (IF NeedsToken(c) THEN cmd[c].attempt + 1 ELSE cmd[c].attempt) \in 0..MaxClaims
  BY <1>1, BoundAssumption DEF CommandRow, Claimed
<1>3. ClaimRow(c) \in CommandRow
  BY <1>1, <1>2, InstanceType DEF ClaimRow, CommandRow, Status, Active
<1>4. ClaimFor(c) \in Claim
  BY <1>1, <1>3 DEF ClaimFor, Claim, CommandRow
<1>. QED  BY <1>3, <1>4

LEMMA ClaimCommandsType ==
  ASSUME TypeOK, ClaimCommands
  PROVE  cmd' \in [Cmd -> CommandRow]
BY ClaimType DEF TypeOK, ClaimCommands

\* The row of a command that does not exist yet or no more.
LEMMA NoCommandType ==
  ASSUME NEW status \in Status
  PROVE  NoCommand(status) \in CommandRow
BY BoundAssumption DEF NoCommand, CommandRow, Result

LEMMA UpdateType ==
  ASSUME TypeOK, NEW m \in calls, UpdateCommandStatus(m)
  PROVE  cmd' \in [Cmd -> CommandRow]
<1>1. m \in Call /\ cmd[m.cmd] \in CommandRow /\ m.cmd \in Cmd
  BY DEF TypeOK, Call
<1>2. m.status \in Status /\ m.result \in Result
  BY <1>1 DEF Call, Status, Active, Terminal
<1>3. CASE Forgets(m)
  <2>1. NoCommand("gone") \in CommandRow
    BY NoCommandType DEF Status
  <2>. QED  BY <1>3, <2>1 DEF TypeOK, UpdateCommandStatus, Without
<1>4. CASE ~Forgets(m)
  BY <1>1, <1>2, <1>4 DEF TypeOK, UpdateCommandStatus, CommandRow
<1>. QED  BY <1>3, <1>4

\* A released lock leaves a queue of commands: whoever releases it was in it.
LEMMA ReleaseType ==
  ASSUME TypeOK, NEW t \in tasks, LockQueued(t), t.pc \in {"exec", "applied"},
         ReleaseLock(t.cmd)
  PROVE  /\ lockq' \in [Device -> Seq(Cmd)]
         /\ Len(lockq[DeviceOf[t.cmd]]) > 0
         /\ lockq'[DeviceOf[t.cmd]] = Tail(lockq[DeviceOf[t.cmd]])
<1> DEFINE d == DeviceOf[t.cmd]
<1>1. t.cmd \in Cmd /\ d \in Device /\ lockq[d] \in Seq(Cmd)
  BY CmdAssumption DEF TypeOK, Task
<1>2. Len(lockq[d]) > 0
  BY <1>1 DEF LockQueued
<1>3. Tail(lockq[d]) \in Seq(Cmd)
  BY <1>1, <1>2
<1>. QED  BY <1>1, <1>2, <1>3 DEF TypeOK, ReleaseLock

\* The continuation of an answered report.
LEMMA ContinueType ==
  ASSUME TypeOK, NEW m \in calls, NEW ok \in BOOLEAN, Continue(m, ok)
  PROVE  /\ outbox' \in [Cmd -> OutboxRow]
         /\ tasks' \subseteq Task
         /\ lockq' \in [Device -> Seq(Cmd)]
<1>1. m.cmd \in Cmd /\ DeviceOf[m.cmd] \in Device
  BY CmdAssumption DEF TypeOK, Call
<1>2. CASE m.status = "running"
  <2>1. PICK t \in tasks : Goto(t, "queued")
    BY <1>2 DEF Continue
  <2>2. tasks' \subseteq Task
    BY <2>1, GotoType DEF TaskPc
  <2>3. lockq[DeviceOf[m.cmd]] \in Seq(Cmd)
    BY <1>1 DEF TypeOK
  <2>4. Append(lockq[DeviceOf[m.cmd]], m.cmd) \in Seq(Cmd)
    BY <1>1, <2>3, AppendProperties
  <2>5. lockq' = [lockq EXCEPT ![DeviceOf[m.cmd]] = Append(@, m.cmd)]
    BY <1>2 DEF Continue
  <2>6. lockq' \in [Device -> Seq(Cmd)]
    BY <2>4, <2>5 DEF TypeOK
  <2>. QED  BY <1>2, <2>2, <2>6 DEF Continue, TypeOK
<1>3. CASE m.status # "running"
  <2>1. [outbox[m.cmd] EXCEPT !.delivered = TRUE] \in OutboxRow
    BY <1>1 DEF TypeOK, OutboxRow
  <2>2. outbox' \in [Cmd -> OutboxRow]
    BY <1>1, <1>3, <2>1 DEF Continue, TypeOK
  <2>. QED  BY <1>3, <2>2 DEF Continue, TypeOK
<1>. QED  BY <1>2, <1>3

LEMMA TypeInit == Init => TypeOK
BY CmdAssumption, BoundAssumption, NoCommandType
   DEF Init, TypeOK, JournalRow, OutboxRow, NoRow, Status, Result,
       JournalState, Budget, Bound

LEMMA TypeStep ==
  ASSUME TypeOK, TasksInv, [Next]_vars
  PROVE  TypeOK'
<1>. USE DEF TypeOK
<1>1. ASSUME NEW c \in Cmd, CreateDeviceCommand(c)
      PROVE  TypeOK'
  BY <1>1 DEF CreateDeviceCommand, hubVars, CommandRow, Status
<1>2. ASSUME NEW c \in Cmd, CancelDeviceCommand(c)
      PROVE  TypeOK'
  <2>1. cmd' \in [Cmd -> CommandRow]
    BY <1>2 DEF CancelDeviceCommand, CommandRow, Status, Terminal
  <2>. QED  BY <1>2, <2>1, SpendType DEF CancelDeviceCommand, hubVars, Budget
<1>3. ASSUME NEW c \in Cmd, LeaseExpires(c)
      PROVE  TypeOK'
  <2>1. cmd' \in [Cmd -> CommandRow]
    BY <1>3 DEF LeaseExpires, CommandRow
  <2>. QED  BY <1>3, <2>1, SpendType DEF LeaseExpires, hubVars, Budget
<1>4. CASE Sync
  <2>1. batch' \subseteq Claim
    BY <1>4, ClaimType DEF Sync
  <2>. QED  BY <1>4, <2>1, ClaimCommandsType DEF Sync
<1>5. CASE SyncAnswerLost
  BY <1>5, ClaimCommandsType, SpendType DEF SyncAnswerLost, hubVars, Budget
<1>6. CASE Dispatch
  <2>1. journal' \in [Cmd -> JournalRow]
    BY <1>6 DEF Dispatch, JournalRow, JournalState
  <2>2. ASSUME NEW b \in batch
        PROVE  NewTask(b) \in Task
    BY DEF NewTask, Task, Claim, TaskPc
  <2>. QED  BY <1>6, <2>1, <2>2 DEF Dispatch
<1>7. CASE SyncDone
  BY <1>7 DEF SyncDone
<1>8. ASSUME NEW t \in tasks, TaskStep(t)
      PROVE  TypeOK'
  <2>. t \in Task /\ t.cmd \in Cmd /\ t.tok \in 0..MaxClaims
    BY DEF Task
  <2>1. CASE NoRoute(t)
    <3>1. journal' \in [Cmd -> JournalRow]
      BY <2>1, JournalType DEF NoRoute, FailJournal, JournalState, Result
    <3>. QED  BY <2>1, <3>1, GotoType DEF NoRoute, TaskPc
  <2>2. CASE RecordFailure(t)
    <3>1. outbox' \in [Cmd -> OutboxRow]
      BY <2>2 DEF RecordFailure, OutboxRow, Result
    <3>. QED  BY <2>2, <3>1, ThrowType DEF RecordFailure
  <2>3. CASE AnnounceRunning(t)
    <3>1. LoopOf(t) \in Loop
      BY DEF LoopOf, Loop, Task
    <3> DEFINE call == [cmd |-> t.cmd, tok |-> t.tok, status |-> "running",
                        result |-> "started", reconciled |-> FALSE,
                        by |-> LoopOf(t), awaited |-> TRUE]
    <3>2. call \in Call
      BY <3>1 DEF Call, Result
    <3>3. calls' = calls \cup {call} /\ Goto(t, "announce")
      BY <2>3 DEF AnnounceRunning
    <3>4. tasks' \subseteq Task
      BY <3>3, GotoType DEF TaskPc
    <3>5. calls' \subseteq Call
      BY <3>2, <3>3
    <3>. QED  BY <2>3, <3>4, <3>5 DEF AnnounceRunning
  <2>4. CASE StartExec(t)
    BY <2>4, GotoType DEF StartExec, TaskPc
  <2>5. CASE ApplyEffect(t)
    BY <2>5, GotoType DEF ApplyEffect, TaskPc
  <2>6. CASE ExecSucceeds(t)
    <3>1. journal' \in [Cmd -> JournalRow]
      BY <2>6, JournalType DEF ExecSucceeds, JournalState, Result
    <3>2. tasks' \subseteq Task /\ phase' \in {"idle", "flush", "busy"}
      BY <2>6, GotoType, ThrowType DEF ExecSucceeds, TaskPc
    <3>. QED  BY <2>6, <3>1, <3>2, ReleaseType DEF ExecSucceeds, TasksInv, TaskInv
  <2>7. ASSUME NEW result \in Result, Complete(t, result)
        PROVE  /\ journal' \in [Cmd -> JournalRow] /\ outbox' \in [Cmd -> OutboxRow]
               /\ tasks' \subseteq Task /\ phase' \in {"idle", "flush", "busy"}
    <3>1. CompleteRow(t.cmd, t.tok, result) \in OutboxRow
      BY DEF CompleteRow, OutboxRow
    <3>2. journal' \in [Cmd -> JournalRow]
      BY <2>7, JournalType DEF Complete, JournalState
    <3>3. outbox' \in [Cmd -> OutboxRow]
      BY <2>7, <3>1 DEF Complete
    <3>. QED  BY <2>7, <3>2, <3>3, GotoType, ThrowType DEF Complete, TaskPc
  <2>8. CASE RecordSuccess(t)
    BY <2>7, <2>8 DEF RecordSuccess, Result
  <2>9. ASSUME NEW result \in Result, ReportUnknown(t, result)
        PROVE  /\ journal' \in [Cmd -> JournalRow] /\ outbox' \in [Cmd -> OutboxRow]
               /\ tasks' \subseteq Task /\ phase' \in {"idle", "flush", "busy"}
    <3> DEFINE row == [status |-> "timeout", tok |-> t.tok,
                       result |-> result, delivered |-> FALSE]
    <3>1. row \in OutboxRow
      BY DEF OutboxRow
    <3>2. outbox' = outbox \/ outbox' = [outbox EXCEPT ![t.cmd] = row]
      BY <2>9 DEF ReportUnknown
    <3>3. outbox' \in [Cmd -> OutboxRow]
      BY <3>1, <3>2
    <3>4. journal' \in [Cmd -> JournalRow]
      BY <2>9 DEF ReportUnknown, JournalRow, JournalState
    <3>5. CASE Throw(t)
      BY <3>3, <3>4, <3>5, ThrowType
    <3>6. CASE Goto(t, "flush") /\ phase' = phase
      BY <3>3, <3>4, <3>6, GotoType DEF TaskPc
    <3>. QED  BY <2>9, <3>5, <3>6 DEF ReportUnknown
  <2>10. CASE ExecUnknown(t)
    BY <2>9, <2>10, ReleaseType, SpendType DEF ExecUnknown, Result, Budget, TasksInv, TaskInv
  <2>11. CASE ExecFails(t)
    <3>1. journal' \in [Cmd -> JournalRow]
      BY <2>11, JournalType DEF ExecFails, FailJournal, JournalState, Result
    <3>. QED
      BY <2>11, <3>1, GotoType, ReleaseType
         DEF ExecFails, KnownFailure, TaskPc, TasksInv, TaskInv
  <2>12. CASE ProbeSucceeds(t)
    BY <2>7, <2>12 DEF ProbeSucceeds, Result
  <2>13. CASE ProbeFails(t)
    BY <2>9, <2>13 DEF ProbeFails, Result
  <2>14. CASE TaskDone(t)
    BY <2>14 DEF TaskDone
  <2>. QED
    BY <1>8, <2>1, <2>2, <2>3, <2>4, <2>5, <2>6, <2>8, <2>10, <2>11, <2>12, <2>13, <2>14
       DEF TaskStep
<1>9. ASSUME NEW l \in Loop, NEW c \in Cmd, FlushSend(l, c)
      PROVE  TypeOK'
  <2>1. OutboxCall(c, l) \in Call
    BY <1>9 DEF FlushSend, Pending, OutboxCall, Call, OutboxRow
  <2>. QED  BY <1>9, <2>1 DEF FlushSend, hubVars
<1>10. ASSUME NEW m \in calls, Deliver(m)
       PROVE  TypeOK'
  <2>1. Accepts(m) \in BOOLEAN
    BY DEF Accepts, Moves, TokenMatches, Repeated
  <2>2. CASE m.awaited
    BY <1>10, <2>1, <2>2, UpdateType, ContinueType DEF Deliver
  <2>3. CASE ~m.awaited
    BY <1>10, <2>3, UpdateType DEF Deliver
  <2>. QED  BY <2>2, <2>3
<1>11. ASSUME NEW m \in calls, DeliverUnanswered(m)
       PROVE  TypeOK'
  BY <1>11, UpdateType, ContinueType, SpendType DEF DeliverUnanswered, Budget
<1>12. ASSUME NEW m \in calls
       PROVE  [m EXCEPT !.awaited = FALSE] \in Call
  BY DEF Call
<1>13. ASSUME NEW m \in calls, GiveUp(m)
       PROVE  TypeOK'
  BY <1>12, <1>13, ContinueType, SpendType DEF GiveUp, Budget
<1>14. CASE Crash
  BY <1>12, <1>14, SpendType DEF Crash, Budget
<1>15. CASE UNCHANGED vars
  BY <1>15 DEF vars
<1>. QED
  BY <1>1, <1>2, <1>3, <1>4, <1>5, <1>6, <1>7, <1>8, <1>9, <1>10, <1>11, <1>13, <1>14, <1>15
     DEF Next, CloudStep, SyncStep, CallStep
-----------------------------------------------------------------------------
(* One handler, one effect.                                                *)

\* The journal never forgets that a command was started.
JournalKept == \A c \in Cmd : journal[c].state # "none" => journal'[c].state # "none"

\* A task that moves leaves at most one handler per command, if its new place
\* and everybody else are in order.
LEMMA GotoKeeps ==
  ASSUME TasksInv, NEW t \in tasks, NEW pc, Goto(t, pc), t \in Task,
         \A u \in tasks \ {t} : TaskInv(u)',
         TaskInv([t EXCEPT !.pc = pc])'
  PROVE  TasksInv'
<1> DEFINE new == [t EXCEPT !.pc = pc]
<1>1. tasks' = (tasks \ {t}) \cup {new}
  BY DEF Goto
<1>2. new.cmd = t.cmd /\ new.kind = t.kind
  BY DEF Task
<1>3. OneHandler'
  <2>1. SUFFICES ASSUME NEW a \in tasks', NEW b \in tasks',
                        a.kind = "exec", b.kind = "exec", a.cmd = b.cmd
                 PROVE  a = b
    BY DEF OneHandler
  <2>2. CASE a \in tasks \ {t} /\ b \in tasks \ {t}
    BY <2>1, <2>2 DEF TasksInv, OneHandler
  <2>3. CASE a = new /\ b \in tasks \ {t}
    <3>1. t = b
      BY <1>2, <2>1, <2>3 DEF TasksInv, OneHandler
    <3>. QED  BY <2>3, <3>1
  <2>4. CASE b = new /\ a \in tasks \ {t}
    <3>1. t = a
      BY <1>2, <2>1, <2>4 DEF TasksInv, OneHandler
    <3>. QED  BY <2>4, <3>1
  <2>. QED  BY <1>1, <2>2, <2>3, <2>4
<1>4. ASSUME NEW u \in tasks'
      PROVE  TaskInv(u)'
  BY <1>1, <1>4
<1>. QED  BY <1>3, <1>4 DEF TasksInv

\* The same for a task that ends with an exception, and for one that returns.
LEMMA ThrowKeeps ==
  ASSUME TypeOK, TasksInv, NEW t \in tasks, Throw(t),
         \A u \in tasks \ {t} : TaskInv(u)'
  PROVE  TasksInv'
<1> DEFINE Left(u) == [u EXCEPT !.awaited = FALSE]
<1>1. ASSUME NEW u \in tasks
      PROVE  Left(u).cmd = u.cmd /\ Left(u).kind = u.kind /\ Left(u).pc = u.pc
  BY DEF TypeOK, Task
<1>2. CASE t.awaited
  <2>1. tasks' = {Left(u) : u \in tasks \ {t}}
    BY <1>2 DEF Throw
  <2>2. OneHandler'
    <3>1. SUFFICES ASSUME NEW a \in tasks \ {t}, NEW b \in tasks \ {t},
                          Left(a).kind = "exec", Left(b).kind = "exec",
                          Left(a).cmd = Left(b).cmd
                   PROVE  Left(a) = Left(b)
      BY <2>1 DEF OneHandler
    <3>2. a = b
      BY <1>1, <3>1 DEF TasksInv, OneHandler
    <3>. QED  BY <3>2
  <2>3. ASSUME NEW v \in tasks'
        PROVE  TaskInv(v)'
    <3>1. PICK u \in tasks \ {t} : v = Left(u)
      BY <2>1
    <3>2. v.cmd = u.cmd /\ v.kind = u.kind /\ v.pc = u.pc
      BY <1>1, <3>1
    <3>3. TaskInv(u)'
      BY <3>1
    <3>. QED
      BY <3>2, <3>3 DEF TaskInv, OnlyHandler, Journaled, NotYetApplied, LockQueued, LockHeld
  <2>. QED  BY <2>2, <2>3 DEF TasksInv
<1>3. CASE ~t.awaited
  BY <1>3 DEF Throw, TasksInv, OneHandler
<1>. QED  BY <1>2, <1>3

\* Releasing a lock keeps everybody else in the queue; nobody else was at its
\* head.
LEMMA ReleaseKeeps ==
  ASSUME TypeOK, TasksInv, NEW t \in tasks, t.pc \in {"exec", "applied"},
         ReleaseLock(t.cmd), NEW u \in tasks, u # t
  PROVE  LockQueued(u)' /\ LockHeld(u)'
<1> DEFINE d == DeviceOf[t.cmd]
           e == DeviceOf[u.cmd]
<1>1. t.kind = "exec" /\ lockq[d][1] = t.cmd
  BY DEF TasksInv, TaskInv, OnlyHandler, LockHeld
<1>2. /\ t.cmd \in Cmd /\ u.cmd \in Cmd /\ d \in Device /\ e \in Device
      /\ lockq[d] \in Seq(Cmd) /\ lockq[e] \in Seq(Cmd)
  BY CmdAssumption DEF TypeOK, Task
<1>3. lockq'[d] = Tail(lockq[d]) /\ Len(lockq[d]) > 0
  BY ReleaseType DEF TasksInv, TaskInv
<1>4. CASE e # d
  <2>1. lockq'[e] = lockq[e]
    BY <1>2, <1>4 DEF ReleaseLock, TypeOK
  <2>. QED  BY <2>1 DEF TasksInv, TaskInv, LockQueued, LockHeld
<1>5. CASE e = d
  <2>1. ASSUME u.pc \in {"queued", "exec", "applied"}
        PROVE  /\ u.cmd # t.cmd
               /\ \E i \in 1..Len(lockq[d]) : lockq[d][i] = u.cmd
    <3>1. u.kind = "exec"
      BY <2>1 DEF TasksInv, TaskInv, OnlyHandler
    <3>2. u.cmd # t.cmd
      BY <1>1, <3>1 DEF TasksInv, OneHandler
    <3>. QED  BY <1>5, <2>1, <3>2 DEF TasksInv, TaskInv, LockQueued
  <2>2. ASSUME u.pc \in {"queued", "exec", "applied"}
        PROVE  \E i \in 1..Len(lockq'[e]) : lockq'[e][i] = u.cmd
    <3>1. PICK i \in 1..Len(lockq[d]) : lockq[d][i] = u.cmd
      BY <2>1, <2>2
    <3>2. i # 1 /\ i - 1 \in 1..Len(lockq'[d]) /\ lockq'[d][i - 1] = u.cmd
      BY <1>1, <1>2, <1>3, <2>1, <2>2, <3>1
    <3>. QED  BY <1>5, <3>2
  <2>3. u.pc \notin {"exec", "applied"}
    BY <1>1, <1>5, <2>1 DEF TasksInv, TaskInv, LockHeld
  <2>. QED  BY <2>2, <2>3 DEF LockQueued, LockHeld
<1>. QED  BY <1>4, <1>5

\* A step of one task leaves every other task in order: it forgets nothing in
\* the journal, releases at most its own lock and applies at most its own
\* command, of which it is the only handler.
LEMMA OthersKeep ==
  ASSUME TypeOK, TasksInv, NEW t \in tasks, JournalKept,
         lockq' = lockq \/ (t.pc \in {"exec", "applied"} /\ ReleaseLock(t.cmd)),
         applied' = applied \/ (t.pc = "exec" /\ applied' = [applied EXCEPT ![t.cmd] = @ + 1])
  PROVE  \A u \in tasks \ {t} : TaskInv(u)'
<1>1. SUFFICES ASSUME NEW u \in tasks, u # t
               PROVE  TaskInv(u)'
  OBVIOUS
<1>2. u.cmd \in Cmd /\ t.cmd \in Cmd
  BY DEF TypeOK, Task
<1>3. OnlyHandler(u)' /\ Journaled(u)'
  BY <1>2 DEF TasksInv, TaskInv, OnlyHandler, Journaled, JournalKept
<1>4. NotYetApplied(u)'
  <2>1. CASE applied' = applied
    BY <2>1 DEF TasksInv, TaskInv, NotYetApplied
  <2>2. CASE t.pc = "exec" /\ applied' = [applied EXCEPT ![t.cmd] = @ + 1]
    <3>1. t.kind = "exec"
      BY <2>2 DEF TasksInv, TaskInv, OnlyHandler
    <3>2. u.kind = "exec" => applied'[u.cmd] = applied[u.cmd]
      BY <1>1, <1>2, <2>2, <3>1 DEF TasksInv, OneHandler, TypeOK
    <3>. QED  BY <3>2 DEF TasksInv, TaskInv, NotYetApplied
  <2>. QED  BY <2>1, <2>2
<1>5. LockQueued(u)' /\ LockHeld(u)'
  <2>1. CASE lockq' = lockq
    BY <2>1 DEF TasksInv, TaskInv, LockQueued, LockHeld
  <2>2. CASE t.pc \in {"exec", "applied"} /\ ReleaseLock(t.cmd)
    BY <1>1, <2>2, ReleaseKeeps
  <2>. QED  BY <2>1, <2>2
<1>. QED  BY <1>3, <1>4, <1>5 DEF TaskInv

\* What the journal and the headset have in common survives such a step.
LEMMA UntouchedKeeps ==
  ASSUME TypeOK, TasksInv, Untouched, EffectAtMostOnce, JournalKept, NEW t \in tasks,
         applied' = applied \/ (t.pc = "exec" /\ applied' = [applied EXCEPT ![t.cmd] = @ + 1])
  PROVE  Untouched' /\ EffectAtMostOnce'
<1>1. CASE applied' = applied
  BY <1>1 DEF Untouched, EffectAtMostOnce, JournalKept
<1>2. CASE t.pc = "exec" /\ applied' = [applied EXCEPT ![t.cmd] = @ + 1]
  <2>1. t.cmd \in Cmd /\ applied[t.cmd] = 0 /\ journal[t.cmd].state # "none"
    BY <1>2 DEF TypeOK, Task, TasksInv, TaskInv, OnlyHandler, NotYetApplied, Journaled
  <2>. QED  BY <1>2, <2>1 DEF Untouched, EffectAtMostOnce, JournalKept, TypeOK
<1>. QED  BY <1>1, <1>2

\* Where a task may go: out of the lock, or anywhere its own part holds.
LEMMA TaskMoves ==
  ASSUME TypeOK, TasksInv, NEW t \in tasks, JournalKept,
         lockq' = lockq \/ (t.pc \in {"exec", "applied"} /\ ReleaseLock(t.cmd)),
         applied' = applied \/ (t.pc = "exec" /\ applied' = [applied EXCEPT ![t.cmd] = @ + 1]),
         \/ Throw(t)
         \/ tasks' = tasks \ {t}
         \/ \E pc \in {"marked", "failing"} : Goto(t, pc) /\ t.kind = "exec"
         \/ Goto(t, "flush")
         \/ \E pc \in TaskPc : Goto(t, pc) /\ TaskInv([t EXCEPT !.pc = pc])'
  PROVE  TasksInv'
<1>1. t \in Task /\ t.cmd \in Cmd
  BY DEF TypeOK, Task
<1>2. \A u \in tasks \ {t} : TaskInv(u)'
  BY OthersKeep
<1>3. CASE Throw(t)
  BY <1>2, <1>3, ThrowKeeps
<1>4. CASE tasks' = tasks \ {t}
  BY <1>2, <1>4 DEF TasksInv, OneHandler
<1>5. ASSUME NEW pc \in {"marked", "failing", "flush"}, pc = "flush" \/ t.kind = "exec"
      PROVE  TaskInv([t EXCEPT !.pc = pc])'
  <2> DEFINE new == [t EXCEPT !.pc = pc]
  <2>1. new.cmd = t.cmd /\ new.kind = t.kind /\ new.pc = pc
    BY <1>1 DEF Task
  <2>2. OnlyHandler(new)' /\ NotYetApplied(new)' /\ LockQueued(new)' /\ LockHeld(new)'
    BY <1>5, <2>1 DEF OnlyHandler, NotYetApplied, LockQueued, LockHeld
  <2>3. Journaled(new)'
    BY <1>1, <2>1 DEF Journaled, TasksInv, TaskInv, JournalKept
  <2>. QED  BY <2>2, <2>3 DEF TaskInv
<1>6. ASSUME NEW pc \in TaskPc, Goto(t, pc), TaskInv([t EXCEPT !.pc = pc])'
      PROVE  TasksInv'
  BY <1>1, <1>2, <1>6, GotoKeeps
<1>. QED  BY <1>3, <1>4, <1>5, <1>6 DEF TaskPc

\* The step of a report that arrives or is given up: the handler that awaited
\* 'running' joins the queue of its lock.
LEMMA ContinueKeeps ==
  ASSUME TypeOK, TasksInv, NEW m \in calls, NEW ok, Continue(m, ok),
         journal' = journal, applied' = applied
  PROVE  TasksInv'
<1>1. CASE m.status # "running"
  <2>1. tasks' = tasks /\ lockq' = lockq
    BY <1>1 DEF Continue
  <2>. QED
    BY <2>1 DEF TasksInv, OneHandler, TaskInv, OnlyHandler, Journaled, NotYetApplied,
                LockQueued, LockHeld
<1>2. CASE m.status = "running"
  <2>1. PICK t \in tasks : t.cmd = m.cmd /\ t.pc = "announce" /\ Goto(t, "queued")
    BY <1>2 DEF Continue
  <2> DEFINE d == DeviceOf[t.cmd]
             new == [t EXCEPT !.pc = "queued"]
  <2>2. /\ t \in Task /\ t.cmd \in Cmd /\ d \in Device
        /\ new.cmd = t.cmd /\ new.kind = t.kind /\ new.pc = "queued"
    BY CmdAssumption DEF TypeOK, Task
  <2>3. lockq' = [lockq EXCEPT ![d] = Append(@, t.cmd)]
    BY <1>2, <2>1 DEF Continue
  <2>4. lockq \in [Device -> Seq(Cmd)]
    BY DEF TypeOK
  <2>5. /\ lockq'[d] = Append(lockq[d], t.cmd)
        /\ Len(lockq'[d]) = Len(lockq[d]) + 1
        /\ lockq'[d][Len(lockq[d]) + 1] = t.cmd
        /\ \A i \in 1..Len(lockq[d]) : lockq'[d][i] = lockq[d][i]
    BY <2>2, <2>3, <2>4
  <2>6. ASSUME NEW u \in tasks \ {t}
        PROVE  TaskInv(u)'
    <3>1. OnlyHandler(u)' /\ Journaled(u)' /\ NotYetApplied(u)'
      BY DEF TasksInv, TaskInv, OnlyHandler, Journaled, NotYetApplied
    <3>2. DeviceOf[u.cmd] \in Device
      BY CmdAssumption DEF TypeOK, Task
    <3>3. CASE DeviceOf[u.cmd] # d
      <4>1. lockq'[DeviceOf[u.cmd]] = lockq[DeviceOf[u.cmd]]
        BY <2>2, <2>3, <2>4, <3>2, <3>3
      <4>. QED  BY <3>1, <4>1 DEF TasksInv, TaskInv, LockQueued, LockHeld
    <3>4. CASE DeviceOf[u.cmd] = d
      <4>1. Len(lockq[d]) \in Nat
        BY <2>2, <2>4
      <4>2. LockQueued(u)'
        BY <2>5, <3>4, <4>1 DEF TasksInv, TaskInv, LockQueued
      <4>3. LockHeld(u)'
        BY <2>5, <3>4, <4>1 DEF TasksInv, TaskInv, LockQueued, LockHeld
      <4>. QED  BY <3>1, <4>2, <4>3 DEF TaskInv
    <3>. QED  BY <3>3, <3>4
  <2>7. TaskInv(new)'
    <3>1. TaskInv(t)
      BY DEF TasksInv
    <3>2. Journaled(new)' /\ NotYetApplied(new)' /\ OnlyHandler(new)' /\ LockHeld(new)'
      BY <2>1, <2>2, <3>1
         DEF TaskInv, OnlyHandler, Journaled, NotYetApplied, LockHeld
    <3>3. Len(lockq[d]) + 1 \in 1..Len(lockq'[d])
      BY <2>2, <2>4, <2>5
    <3>4. LockQueued(new)'
      BY <2>2, <2>5, <3>3 DEF LockQueued
    <3>. QED  BY <3>2, <3>4 DEF TaskInv
  <2>. QED  BY <2>1, <2>2, <2>6, <2>7, GotoKeeps
<1>. QED  BY <1>1, <1>2

LEMMA ExecInit == Init => ExecInv
<1> SUFFICES ASSUME Init PROVE ExecInv
  OBVIOUS
<1>1. TypeOK
  BY TypeInit
<1>. QED
  BY <1>1 DEF Init, ExecInv, TasksInv, OneHandler, OneClaim, Untouched, EffectAtMostOnce

LEMMA ExecTaskStep ==
  ASSUME ExecInv, NEW t \in tasks, TaskStep(t)
  PROVE  TasksInv' /\ OneClaim' /\ Untouched' /\ EffectAtMostOnce'
<1>. t \in Task /\ t.cmd \in Cmd /\ TaskInv(t) /\ TypeOK /\ TasksInv
  BY DEF ExecInv, TypeOK, Task, TasksInv
<1>. Untouched /\ EffectAtMostOnce /\ OneClaim
  BY DEF ExecInv
<1>1. OneClaim'
  <2>1. batch' = batch
    BY DEF TaskStep, NoRoute, RecordFailure, AnnounceRunning, StartExec, ApplyEffect,
           ExecSucceeds, RecordSuccess, ExecUnknown, ExecFails, ProbeSucceeds, ProbeFails,
           TaskDone
  <2>. QED  BY <2>1 DEF OneClaim
<1>2. ASSUME JournalKept,
             lockq' = lockq \/ (t.pc \in {"exec", "applied"} /\ ReleaseLock(t.cmd)),
             applied' = applied \/ (t.pc = "exec" /\ applied' = [applied EXCEPT ![t.cmd] = @ + 1]),
             \/ Throw(t)
             \/ tasks' = tasks \ {t}
             \/ \E pc \in {"marked", "failing"} : Goto(t, pc) /\ t.kind = "exec"
             \/ Goto(t, "flush")
             \/ \E pc \in TaskPc : Goto(t, pc) /\ TaskInv([t EXCEPT !.pc = pc])'
      PROVE  TasksInv' /\ OneClaim' /\ Untouched' /\ EffectAtMostOnce'
  BY <1>1, <1>2, TaskMoves, UntouchedKeeps
<1>3. \A pc \in TaskPc : /\ [t EXCEPT !.pc = pc].cmd = t.cmd
                         /\ [t EXCEPT !.pc = pc].kind = t.kind
                         /\ [t EXCEPT !.pc = pc].pc = pc
  BY DEF Task
<1>4. UNCHANGED journal => JournalKept
  BY DEF JournalKept
<1>5. ASSUME NEW state \in JournalState \ {"none"}, NEW result, SetJournal(t.cmd, state, result)
      PROVE  JournalKept
  BY <1>5 DEF SetJournal, JournalKept, TypeOK
<1>6. FailJournal(t) => JournalKept
  BY <1>4, <1>5 DEF FailJournal, JournalState
<1>7. ASSUME NEW result, Complete(t, result)
      PROVE  JournalKept /\ (Throw(t) \/ Goto(t, "flush"))
  BY <1>4, <1>5, <1>7 DEF Complete, JournalState
<1>8. ASSUME NEW result, ReportUnknown(t, result)
      PROVE  JournalKept /\ (Throw(t) \/ Goto(t, "flush"))
  BY <1>8 DEF ReportUnknown, JournalKept, TypeOK, JournalRow
<1>9. CASE NoRoute(t)
  BY <1>2, <1>6, <1>9 DEF NoRoute
<1>10. CASE RecordFailure(t)
  BY <1>2, <1>4, <1>10 DEF RecordFailure
<1>11. CASE AnnounceRunning(t)
  <2>1. TaskInv([t EXCEPT !.pc = "announce"])'
    BY <1>3, <1>11
       DEF AnnounceRunning, TaskPc, TaskInv, OnlyHandler, Journaled, NotYetApplied,
           LockQueued, LockHeld
  <2>. QED  BY <1>2, <1>4, <1>11, <2>1 DEF AnnounceRunning, TaskPc
<1>12. CASE StartExec(t)
  <2>1. lockq[DeviceOf[t.cmd]][1] = t.cmd
    <3>1. lockq[DeviceOf[t.cmd]] \in Seq(Cmd)
      BY CmdAssumption DEF TypeOK
    <3>2. lockq[DeviceOf[t.cmd]] # <<>>
      BY <1>12, <3>1 DEF StartExec, TaskInv, LockQueued
    <3>. QED  BY <1>12, <3>1, <3>2 DEF StartExec
  <2>2. TaskInv([t EXCEPT !.pc = "exec"])'
    BY <1>3, <1>12, <2>1
       DEF StartExec, TaskPc, TaskInv, OnlyHandler, Journaled, NotYetApplied,
           LockQueued, LockHeld
  <2>. QED  BY <1>2, <1>4, <1>12, <2>2 DEF StartExec, TaskPc
<1>13. CASE ApplyEffect(t)
  <2>1. TaskInv([t EXCEPT !.pc = "applied"])'
    BY <1>3, <1>13
       DEF ApplyEffect, TaskPc, TaskInv, OnlyHandler, Journaled, NotYetApplied,
           LockQueued, LockHeld
  <2>. QED  BY <1>2, <1>4, <1>13, <2>1 DEF ApplyEffect, TaskPc
<1>14. CASE ExecSucceeds(t)
  BY <1>2, <1>4, <1>5, <1>14 DEF ExecSucceeds, TaskInv, OnlyHandler, JournalState
<1>15. CASE RecordSuccess(t)
  BY <1>2, <1>7, <1>15 DEF RecordSuccess
<1>16. CASE ExecUnknown(t)
  BY <1>2, <1>8, <1>16 DEF ExecUnknown
<1>17. CASE ExecFails(t)
  BY <1>2, <1>6, <1>17 DEF ExecFails, KnownFailure, TaskInv, OnlyHandler
<1>18. CASE ProbeSucceeds(t)
  BY <1>2, <1>7, <1>18 DEF ProbeSucceeds
<1>19. CASE ProbeFails(t)
  BY <1>2, <1>8, <1>19 DEF ProbeFails
<1>20. CASE TaskDone(t)
  BY <1>2, <1>4, <1>20 DEF TaskDone
<1>. QED
  BY <1>9, <1>10, <1>11, <1>12, <1>13, <1>14, <1>15, <1>16, <1>17, <1>18, <1>19, <1>20
     DEF TaskStep

LEMMA ExecStep == ExecInv /\ [Next]_vars => ExecInv'
<1> SUFFICES ASSUME ExecInv, [Next]_vars
             PROVE  ExecInv'
  OBVIOUS
<1>. TypeOK /\ TasksInv /\ OneClaim /\ Untouched /\ EffectAtMostOnce
  BY DEF ExecInv
<1>1. TypeOK'
  BY TypeStep
<1>2. ASSUME UNCHANGED <<journal, tasks, lockq, applied>>, batch' = batch \/ batch' = {}
      PROVE  ExecInv'
  BY <1>1, <1>2
     DEF ExecInv, TasksInv, OneHandler, TaskInv, OnlyHandler, Journaled, NotYetApplied,
         LockQueued, LockHeld, OneClaim, Untouched, EffectAtMostOnce
<1>3. ASSUME NEW c \in Cmd, CloudStep(c)
      PROVE  ExecInv'
  BY <1>2, <1>3
     DEF CloudStep, CreateDeviceCommand, CancelDeviceCommand, LeaseExpires, hubVars
<1>4. CASE Sync
  <2>1. OneClaim'
    BY <1>4 DEF Sync, ClaimFor, OneClaim
  <2>. QED
    BY <1>1, <1>4, <2>1
       DEF Sync, ExecInv, TasksInv, OneHandler, TaskInv, OnlyHandler, Journaled,
           NotYetApplied, LockQueued, LockHeld, Untouched, EffectAtMostOnce
<1>5. CASE SyncAnswerLost
  BY <1>2, <1>5 DEF SyncAnswerLost, hubVars
<1>6. CASE Dispatch
  <2> DEFINE Started == {NewTask(b) : b \in {a \in batch : Runs(a) \/ Probes(a)}}
  <2>1. tasks' = tasks \cup Started /\ UNCHANGED <<lockq, applied>> /\ batch' = {}
    BY <1>6 DEF Dispatch
  <2>2. ASSUME NEW b \in batch
        PROVE  /\ b.cmd \in Cmd
               /\ NewTask(b).cmd = b.cmd /\ NewTask(b).pc = "resolve"
               /\ NewTask(b).kind = "exec" <=> Runs(b)
               /\ Runs(b) => journal[b.cmd].state = "none" /\ journal'[b.cmd].state # "none"
    <3>1. b.cmd \in Cmd /\ journal[b.cmd] \in JournalRow
      BY DEF TypeOK, Claim
    <3>2. Runs(b) => journal[b.cmd].state = "none" /\ journal'[b.cmd].state # "none"
      BY <1>6, <3>1 DEF Dispatch, Runs, JournalRow
    <3>. QED  BY <3>1, <3>2 DEF NewTask
  <2>3. JournalKept
    BY <1>6 DEF Dispatch, JournalKept, TypeOK, JournalRow
  <2>4. ASSUME NEW u \in tasks
        PROVE  TaskInv(u)'
    <3>1. u.cmd \in Cmd /\ TaskInv(u)
      BY DEF TypeOK, Task, TasksInv
    <3>. QED
      BY <2>1, <2>3, <3>1
         DEF TaskInv, OnlyHandler, Journaled, NotYetApplied, LockQueued, LockHeld, JournalKept
  <2>5. ASSUME NEW v \in Started
        PROVE  TaskInv(v)'
    <3>1. PICK b \in batch : v = NewTask(b)
      OBVIOUS
    <3>2. OnlyHandler(v)' /\ LockQueued(v)' /\ LockHeld(v)'
      BY <2>2, <3>1 DEF OnlyHandler, LockQueued, LockHeld
    <3>3. Journaled(v)' /\ NotYetApplied(v)'
      BY <2>1, <2>2, <3>1 DEF Journaled, NotYetApplied, Untouched
    <3>. QED  BY <3>2, <3>3 DEF TaskInv
  <2>6. ASSUME NEW b \in batch, Runs(b), NEW u \in tasks, u.kind = "exec"
        PROVE  u.cmd # b.cmd
    BY <2>2, <2>6 DEF TasksInv, TaskInv, Journaled
  <2>7. OneHandler'
    <3>1. SUFFICES ASSUME NEW x \in tasks', NEW y \in tasks',
                          x.kind = "exec", y.kind = "exec", x.cmd = y.cmd
                   PROVE  x = y
      BY DEF OneHandler
    <3>2. CASE x \in tasks /\ y \in tasks
      BY <3>1, <3>2 DEF TasksInv, OneHandler
    <3>3. CASE x \in Started /\ y \in Started
      <4>1. PICK a \in batch, b \in batch : x = NewTask(a) /\ y = NewTask(b)
        BY <3>3
      <4>2. a = b
        BY <2>2, <3>1, <4>1 DEF OneClaim
      <4>. QED  BY <4>1, <4>2
    <3>4. CASE x \in tasks /\ y \in Started
      BY <2>2, <2>6, <3>1, <3>4
    <3>5. CASE x \in Started /\ y \in tasks
      BY <2>2, <2>6, <3>1, <3>5
    <3>. QED  BY <2>1, <3>2, <3>3, <3>4, <3>5
  <2>8. TasksInv'
    BY <2>1, <2>4, <2>5, <2>7 DEF TasksInv
  <2>9. OneClaim' /\ Untouched' /\ EffectAtMostOnce'
    BY <2>1, <2>3 DEF OneClaim, Untouched, EffectAtMostOnce, JournalKept
  <2>. QED  BY <1>1, <2>8, <2>9 DEF ExecInv
<1>7. CASE SyncDone
  BY <1>2, <1>7 DEF SyncDone
<1>8. ASSUME NEW t \in tasks, TaskStep(t)
      PROVE  ExecInv'
  BY <1>1, <1>8, ExecTaskStep DEF ExecInv
<1>9. ASSUME NEW l \in Loop, NEW c \in Cmd, FlushSend(l, c)
      PROVE  ExecInv'
  BY <1>2, <1>9 DEF FlushSend, hubVars
<1>10. ASSUME NEW m \in calls, CallStep(m)
       PROVE  ExecInv'
  <2>1. UNCHANGED <<journal, applied, batch>>
    BY <1>10 DEF CallStep, Deliver, DeliverUnanswered, GiveUp
  <2>2. CASE \E ok \in BOOLEAN : Continue(m, ok)
    <3>1. TasksInv'
      BY <2>1, <2>2, ContinueKeeps
    <3>. QED
      BY <1>1, <2>1, <3>1 DEF ExecInv, OneClaim, Untouched, EffectAtMostOnce
  <2>3. CASE UNCHANGED <<tasks, lockq>>
    BY <1>2, <2>1, <2>3
  <2>4. Accepts(m) \in BOOLEAN
    BY DEF Accepts, Moves, TokenMatches, Repeated
  <2>. QED
    BY <1>10, <2>2, <2>3, <2>4 DEF CallStep, Deliver, DeliverUnanswered, GiveUp
<1>11. CASE Crash
  <2>1. tasks' = {} /\ batch' = {} /\ UNCHANGED <<journal, applied>>
    BY <1>11 DEF Crash
  <2>. QED
    BY <1>1, <2>1 DEF ExecInv, TasksInv, OneHandler, OneClaim, Untouched, EffectAtMostOnce
<1>12. CASE UNCHANGED vars
  BY <1>2, <1>12 DEF vars
<1>. QED
  BY <1>3, <1>4, <1>5, <1>6, <1>7, <1>8, <1>9, <1>10, <1>11, <1>12 DEF Next, SyncStep

THEOREM ExecInvariant == Spec => []ExecInv
BY ExecInit, ExecStep, PTL DEF Spec

\* The rows of both databases, the tasks of the Hub and the requests under way
\* keep their types, whatever the commands, headsets and bounds are.
THEOREM TypeCorrect == Spec => []TypeOK
<1>1. ExecInv => TypeOK
  BY DEF ExecInv
<1>. QED  BY <1>1, ExecInvariant, PTL

\* No command takes effect twice: neither a claim handed out again, nor a lost
\* or late report, nor a restart of the Hub at any point repeats it.
THEOREM EffectOnce == Spec => []EffectAtMostOnce
<1>1. ExecInv => EffectAtMostOnce
  BY DEF ExecInv
<1>. QED  BY <1>1, ExecInvariant, PTL

\* Two handlers that are past their lock and drive the same headset are one:
\* both are at the head of its queue, and a command has one handler.
THEOREM LockExcludes == Spec => []ExclusiveHeadset
<1>1. ExecInv => ExclusiveHeadset
  BY DEF ExecInv, TasksInv, TaskInv, OnlyHandler, LockHeld, OneHandler, ExclusiveHeadset
<1>. QED  BY <1>1, ExecInvariant, PTL

-----------------------------------------------------------------------------
(* The queue of a headset.                                                 *)

\* The queue is kept by every change of statuses that opens nothing, creates
\* nothing and hands out only the head.
NotIssued == {"absent", "created", "cancelled"}
LEMMA QueueKeeps ==
  ASSUME TypeOK, CloudInv,
         \A c \in Cmd : cmd'[c].status = "absent" <=> cmd[c].status = "absent",
         \A c \in Cmd : cmd'[c].status = "gone" <=> cmd[c].status = "gone",
         \A c \in Cmd : Unsettled(c)' => Unsettled(c),
         \A c \in Cmd : cmd[c].status \in NotIssued /\ cmd'[c].status \notin NotIssued
                          => HeadOfDevice(c),
         TokenOfClaim'
  PROVE  CloudInv'
<1>1. InOrder'
  BY DEF CloudInv, InOrder
<1>2. HeadOfLine'
  BY DEF CloudInv, HeadOfLine, HeadOfDevice, NotIssued
<1>3. GoneTogether'
  BY DEF CloudInv, GoneTogether
<1>. QED  BY <1>1, <1>2, <1>3 DEF CloudInv

\* A sync hands out the heads only, each with the token of a claim.
LEMMA ClaimKeeps ==
  ASSUME TypeOK, CloudInv, ClaimCommands
  PROVE  CloudInv' /\ \A c \in Claimed : ClaimFor(c).tok > 0
<1>1. ASSUME NEW c \in Claimed
      PROVE  /\ c \in Cmd /\ HeadOfDevice(c)
             /\ cmd[c].status \in {"created", "timeout"} \cup Active
             /\ ClaimRow(c).status = IF cmd[c].status = "created" THEN "accepted_by_hub"
                                                                 ELSE cmd[c].status
             /\ ClaimRow(c).attempt > 0
  <2>1. c \in Cmd /\ cmd[c] \in CommandRow /\ Candidate(c)
    BY DEF Claimed, TypeOK
  <2>2. ClaimRow(c).attempt = IF NeedsToken(c) THEN cmd[c].attempt + 1 ELSE cmd[c].attempt
    BY <2>1 DEF ClaimRow, CommandRow
  <2>3. ~NeedsToken(c) => cmd[c].status \in Active
    BY <2>1 DEF NeedsToken, Candidate
  <2>4. ClaimRow(c).attempt > 0
    BY <2>1, <2>2, <2>3, BoundAssumption DEF CommandRow, CloudInv, TokenOfClaim
  <2>. QED  BY <2>1, <2>4 DEF ClaimRow, CommandRow, Candidate
<1>2. ASSUME NEW c \in Cmd
      PROVE  cmd'[c] = IF c \in Claimed THEN ClaimRow(c) ELSE cmd[c]
  BY DEF ClaimCommands
<1>3. \A c \in Cmd : /\ cmd'[c].status = "absent" <=> cmd[c].status = "absent"
                     /\ cmd'[c].status = "gone" <=> cmd[c].status = "gone"
  BY <1>1, <1>2 DEF Active
<1>4. \A c \in Cmd : Unsettled(c)' => Unsettled(c)
  BY <1>1, <1>2 DEF Unsettled, Active
<1>5. \A c \in Cmd : cmd[c].status \in NotIssued /\ cmd'[c].status \notin NotIssued
                     => HeadOfDevice(c)
  BY <1>1, <1>2
<1>6. TokenOfClaim'
  BY <1>1, <1>2 DEF TokenOfClaim, CloudInv, Active
<1>7. CloudInv'
  BY <1>3, <1>4, <1>5, <1>6, QueueKeeps
<1>. QED  BY <1>1, <1>7 DEF ClaimFor

\* A report only moves a command that was handed out, and reopens none; or it
\* removes a headset with all its commands.
LEMMA UpdateKeeps ==
  ASSUME TypeOK, CloudInv, NEW m \in calls, m.tok > 0, UpdateCommandStatus(m)
  PROVE  CloudInv'
<1>1. CASE ~Moves(m)
  BY <1>1 DEF UpdateCommandStatus, Forgets, CloudInv, InOrder, GoneTogether, TokenOfClaim,
              HeadOfLine, Unsettled
<1>2. CASE Forgets(m)
  <2>1. ASSUME NEW c \in Cmd
        PROVE  IF DeviceOf[c] = DeviceOf[m.cmd] /\ cmd[c].status # "absent"
               THEN cmd'[c].status = "gone" /\ cmd'[c].attempt = 0
               ELSE cmd'[c] = cmd[c]
    BY <1>2 DEF UpdateCommandStatus, Without, NoCommand
  <2>2. InOrder'
    BY <2>1 DEF CloudInv, InOrder
  <2>3. GoneTogether'
    BY <2>1 DEF CloudInv, GoneTogether
  <2>4. TokenOfClaim'
    BY <2>1 DEF CloudInv, TokenOfClaim, Active
  <2>5. HeadOfLine'
    BY <2>1 DEF CloudInv, HeadOfLine, Unsettled, Active
  <2>. QED  BY <2>2, <2>3, <2>4, <2>5 DEF CloudInv
<1>3. CASE Moves(m) /\ ~Forgets(m)
  <2> DEFINE k == m.cmd
  <2>1. /\ k \in Cmd /\ cmd[k] \in CommandRow
        /\ m.status \in {"running", "succeeded", "failed", "timeout"}
    BY DEF TypeOK, Call
  <2>2. cmd[k].attempt > 0 /\ cmd[k].status \notin {"absent", "created"}
    BY <1>3, <2>1 DEF Moves, TokenMatches, CloudInv, TokenOfClaim, CommandRow
  <2>3. cmd[k].status \in Active \cup {"timeout"}
    BY <1>3, <2>1, <2>2
       DEF Moves, Reconciles, CommandTransitions, CommandRow, Status, Active, Terminal
  <2>4. /\ \A c \in Cmd \ {k} : cmd'[c] = cmd[c]
        /\ cmd'[k].status = m.status /\ cmd'[k].attempt = cmd[k].attempt
    BY <1>3, <2>1 DEF UpdateCommandStatus, TypeOK, CommandRow
  <2>5. \A c \in Cmd : /\ cmd'[c].status = "absent" <=> cmd[c].status = "absent"
                       /\ cmd'[c].status = "gone" <=> cmd[c].status = "gone"
    BY <2>1, <2>2, <2>3, <2>4 DEF Active
  <2>6. \A c \in Cmd : Unsettled(c)' => Unsettled(c)
    BY <2>1, <2>3, <2>4 DEF Unsettled
  <2>7. \A c \in Cmd : cmd[c].status \in NotIssued => cmd'[c].status \in NotIssued
    BY <2>3, <2>4 DEF NotIssued, Active
  <2>8. TokenOfClaim'
    BY <2>1, <2>2, <2>4 DEF TokenOfClaim, CloudInv, Active
  <2>. QED  BY <2>5, <2>6, <2>7, <2>8, QueueKeeps
<1>. QED  BY <1>1, <1>2, <1>3

LEMMA CloudStepKeeps ==
  ASSUME TypeOK, CloudInv, NEW c \in Cmd, CloudStep(c)
  PROVE  CloudInv'
<1>1. CASE CreateDeviceCommand(c)
  <2>1. /\ \A k \in Cmd \ {c} : cmd'[k] = cmd[k]
        /\ cmd'[c].status = "created" /\ cmd'[c].attempt = cmd[c].attempt
        /\ cmd[c].status = "absent"
    BY <1>1 DEF CreateDeviceCommand, TypeOK, CommandRow
  <2>2. TokenOfClaim'
    BY <2>1 DEF CloudInv, TokenOfClaim, Active
  <2>3. InOrder'
    BY <1>1, <2>1, CmdAssumption DEF CreateDeviceCommand, CloudInv, InOrder
  <2>4. HeadOfLine'
    <3>1. SUFFICES ASSUME NEW a \in Cmd, NEW b \in Cmd, a < b,
                          DeviceOf[a] = DeviceOf[b], Unsettled(a)'
                   PROVE  cmd'[b].status \in {"absent", "created", "cancelled"}
      BY DEF HeadOfLine
    <3>2. CASE a = c
      BY <2>1, <3>1, <3>2, CmdAssumption DEF CloudInv, InOrder
    <3>3. CASE a # c
      BY <2>1, <3>1, <3>3 DEF CloudInv, HeadOfLine, Unsettled
    <3>. QED  BY <3>2, <3>3
  <2>5. GoneTogether'
    BY <1>1, <2>1 DEF CreateDeviceCommand, CloudInv, GoneTogether
  <2>. QED  BY <2>2, <2>3, <2>4, <2>5 DEF CloudInv
<1>2. CASE CancelDeviceCommand(c)
  <2>1. /\ \A k \in Cmd \ {c} : cmd'[k] = cmd[k]
        /\ cmd'[c].status = "cancelled"
        /\ cmd[c].status \in {"created", "accepted_by_hub"}
    BY <1>2 DEF CancelDeviceCommand, TypeOK, CommandRow
  <2>2. TokenOfClaim'
    BY <2>1 DEF CloudInv, TokenOfClaim, Active
  <2>. QED  BY <2>1, <2>2, QueueKeeps DEF Unsettled, Active, NotIssued
<1>3. CASE LeaseExpires(c)
  <2>1. \A k \in Cmd : cmd'[k].status = cmd[k].status /\ cmd'[k].attempt = cmd[k].attempt
    BY <1>3 DEF LeaseExpires, TypeOK, CommandRow
  <2>. QED
    BY <2>1 DEF CloudInv, InOrder, GoneTogether, TokenOfClaim, HeadOfLine, Unsettled
<1>. QED  BY <1>1, <1>2, <1>3 DEF CloudStep

\* Every token in the Hub and on the network was issued by a claim.
LEMMA TokenTaskStep ==
  ASSUME TypeOK, TokensIssued, NEW t \in tasks, TaskStep(t)
  PROVE  TokensIssued'
<1>. t \in Task /\ t.cmd \in Cmd /\ t.tok \in Nat /\ t.tok > 0
  BY BoundAssumption DEF TypeOK, Task, TokensIssued, TaskTokens
<1>1. ASSUME NEW pc, Goto(t, pc)
      PROVE  TaskTokens'
  BY <1>1 DEF Goto, TokensIssued, TaskTokens, Task
<1>2. ASSUME Throw(t)
      PROVE  TaskTokens'
  <2>1. ASSUME NEW u \in tasks
        PROVE  [u EXCEPT !.awaited = FALSE].tok = u.tok
    BY DEF TypeOK, Task
  <2>. QED  BY <1>2, <2>1 DEF Throw, TokensIssued, TaskTokens
<1>3. BatchTokens'
  <2>1. batch' = batch
    BY DEF TaskStep, NoRoute, RecordFailure, AnnounceRunning, StartExec, ApplyEffect,
           ExecSucceeds, RecordSuccess, ExecUnknown, ExecFails, ProbeSucceeds, ProbeFails,
           TaskDone
  <2>. QED  BY <2>1 DEF TokensIssued, BatchTokens
<1>4. UNCHANGED calls => CallTokens'
  BY DEF TokensIssued, CallTokens
<1>5. UNCHANGED outbox => OutboxTokens'
  BY DEF TokensIssued, OutboxTokens
<1>6. ASSUME NEW result, Complete(t, result)
      PROVE  TaskTokens' /\ OutboxTokens'
  <2>1. CompleteRow(t.cmd, t.tok, result).tok = t.tok
    BY DEF CompleteRow, TypeOK, OutboxRow
  <2>2. OutboxTokens'
    BY <1>6, <2>1 DEF Complete, TokensIssued, OutboxTokens, TypeOK
  <2>. QED  BY <1>1, <1>2, <1>6, <2>2 DEF Complete
<1>7. ASSUME NEW result, ReportUnknown(t, result)
      PROVE  TaskTokens' /\ OutboxTokens'
  <2> DEFINE row == [status |-> "timeout", tok |-> t.tok,
                     result |-> result, delivered |-> FALSE]
  <2>1. outbox' = outbox \/ outbox' = [outbox EXCEPT ![t.cmd] = row]
    BY <1>7 DEF ReportUnknown
  <2>2. OutboxTokens'
    BY <2>1 DEF TokensIssued, OutboxTokens, TypeOK
  <2>3. Throw(t) \/ Goto(t, "flush")
    BY <1>7 DEF ReportUnknown
  <2>. QED  BY <1>1, <1>2, <2>2, <2>3
<1>8. CASE NoRoute(t)
  BY <1>1, <1>3, <1>4, <1>5, <1>8 DEF NoRoute, TokensIssued
<1>9. CASE RecordFailure(t)
  <2>1. OutboxTokens'
    BY <1>9 DEF RecordFailure, TokensIssued, OutboxTokens, TypeOK
  <2>. QED  BY <1>2, <1>3, <1>4, <1>9, <2>1 DEF RecordFailure, TokensIssued
<1>10. CASE AnnounceRunning(t)
  <2>1. CallTokens'
    BY <1>10 DEF AnnounceRunning, TokensIssued, CallTokens
  <2>. QED  BY <1>1, <1>3, <1>5, <1>10, <2>1 DEF AnnounceRunning, TokensIssued
<1>11. CASE StartExec(t)
  BY <1>1, <1>3, <1>4, <1>5, <1>11 DEF StartExec, TokensIssued
<1>12. CASE ApplyEffect(t)
  BY <1>1, <1>3, <1>4, <1>5, <1>12 DEF ApplyEffect, TokensIssued
<1>13. CASE ExecSucceeds(t)
  BY <1>1, <1>2, <1>3, <1>4, <1>5, <1>13 DEF ExecSucceeds, TokensIssued
<1>14. CASE RecordSuccess(t)
  BY <1>3, <1>4, <1>6, <1>14 DEF RecordSuccess, TokensIssued
<1>15. CASE ExecUnknown(t)
  BY <1>3, <1>4, <1>7, <1>15 DEF ExecUnknown, TokensIssued
<1>16. CASE ExecFails(t)
  BY <1>1, <1>3, <1>4, <1>5, <1>16 DEF ExecFails, TokensIssued
<1>17. CASE ProbeSucceeds(t)
  BY <1>3, <1>4, <1>6, <1>17 DEF ProbeSucceeds, TokensIssued
<1>18. CASE ProbeFails(t)
  BY <1>3, <1>4, <1>7, <1>18 DEF ProbeFails, TokensIssued
<1>19. CASE TaskDone(t)
  BY <1>3, <1>4, <1>5, <1>19 DEF TaskDone, TokensIssued, TaskTokens
<1>. QED
  BY <1>8, <1>9, <1>10, <1>11, <1>12, <1>13, <1>14, <1>15, <1>16, <1>17, <1>18, <1>19
     DEF TaskStep

LEMMA QueueInit == Init => QueueInv
BY DEF Init, NoCommand, QueueInv, CloudInv, InOrder, GoneTogether, TokenOfClaim, HeadOfLine, Unsettled, Active,
       TokensIssued, BatchTokens, TaskTokens, CallTokens, OutboxTokens, NoRow

LEMMA QueueStep == TypeOK /\ QueueInv /\ [Next]_vars => QueueInv'
<1> SUFFICES ASSUME TypeOK, QueueInv, [Next]_vars
             PROVE  QueueInv'
  OBVIOUS
<1>. CloudInv /\ TokensIssued
  BY DEF QueueInv
<1>1. UNCHANGED cmd => CloudInv'
  BY DEF CloudInv, InOrder, GoneTogether, TokenOfClaim, HeadOfLine, Unsettled
<1>2. UNCHANGED <<batch, tasks, calls, outbox>> => TokensIssued'
  BY DEF TokensIssued, BatchTokens, TaskTokens, CallTokens, OutboxTokens
<1>3. ASSUME NEW c \in Cmd, CloudStep(c)
      PROVE  QueueInv'
  <2>1. UNCHANGED <<batch, tasks, calls, outbox>>
    BY <1>3 DEF CloudStep, CreateDeviceCommand, CancelDeviceCommand, LeaseExpires, hubVars
  <2>. QED  BY <1>2, <1>3, <2>1, CloudStepKeeps DEF QueueInv
<1>4. CASE Sync
  <2>1. CloudInv' /\ BatchTokens'
    BY <1>4, ClaimKeeps DEF Sync, BatchTokens
  <2>. QED
    BY <1>4, <2>1
       DEF Sync, QueueInv, TokensIssued, TaskTokens, CallTokens, OutboxTokens
<1>5. CASE SyncAnswerLost
  BY <1>2, <1>5, ClaimKeeps DEF SyncAnswerLost, hubVars, QueueInv
<1>6. CASE Dispatch
  <2>1. TaskTokens'
    BY <1>6 DEF Dispatch, NewTask, TokensIssued, TaskTokens, BatchTokens
  <2>. QED
    BY <1>1, <1>6, <2>1
       DEF Dispatch, QueueInv, TokensIssued, BatchTokens, CallTokens, OutboxTokens
<1>7. CASE SyncDone
  BY <1>1, <1>2, <1>7 DEF SyncDone, QueueInv
<1>8. ASSUME NEW t \in tasks, TaskStep(t)
      PROVE  QueueInv'
  <2>1. cmd' = cmd
    BY <1>8
       DEF TaskStep, NoRoute, RecordFailure, AnnounceRunning, StartExec, ApplyEffect,
           ExecSucceeds, RecordSuccess, ExecUnknown, ExecFails, ProbeSucceeds, ProbeFails,
           TaskDone
  <2>. QED  BY <1>1, <1>8, <2>1, TokenTaskStep DEF QueueInv
<1>9. ASSUME NEW l \in Loop, NEW c \in Cmd, FlushSend(l, c)
      PROVE  QueueInv'
  <2>1. CallTokens'
    BY <1>9 DEF FlushSend, Pending, OutboxCall, TokensIssued, CallTokens, OutboxTokens
  <2>. QED
    BY <1>1, <1>9, <2>1
       DEF FlushSend, hubVars, QueueInv, TokensIssued, BatchTokens, TaskTokens, OutboxTokens
<1>10. ASSUME NEW m \in calls, NEW ok, Continue(m, ok)
       PROVE  TaskTokens' /\ OutboxTokens'
  <2>1. CASE m.status = "running"
    <3>1. TaskTokens'
      <4>1. PICK t \in tasks : Goto(t, "queued")
        BY <1>10, <2>1 DEF Continue
      <4>. QED  BY <4>1 DEF Goto, TokensIssued, TaskTokens, TypeOK, Task
    <3>. QED  BY <1>10, <2>1, <3>1 DEF Continue, TokensIssued, OutboxTokens
  <2>2. CASE m.status # "running"
    <3>1. ASSUME NEW c \in Cmd
          PROVE  outbox'[c].status = outbox[c].status /\ outbox'[c].tok = outbox[c].tok
      <4>1. outbox' = outbox \/ outbox' = [outbox EXCEPT ![m.cmd].delivered = TRUE]
        BY <1>10, <2>2 DEF Continue
      <4>2. outbox[c] \in OutboxRow
        BY DEF TypeOK
      <4>3. outbox'[c] = outbox[c] \/ outbox'[c] = [outbox[c] EXCEPT !.delivered = TRUE]
        BY <4>1 DEF TypeOK
      <4>. QED  BY <4>2, <4>3 DEF OutboxRow
    <3>. QED
      BY <1>10, <2>2, <3>1 DEF Continue, TokensIssued, OutboxTokens, TaskTokens
  <2>. QED  BY <2>1, <2>2
<1>11. ASSUME NEW m \in calls
       PROVE  m.tok > 0 /\ [m EXCEPT !.awaited = FALSE].tok > 0
  BY DEF TypeOK, Call, TokensIssued, CallTokens
<1>12. ASSUME NEW m \in calls, CallStep(m)
       PROVE  QueueInv'
  <2>1. BatchTokens'
    BY <1>12
       DEF CallStep, Deliver, DeliverUnanswered, GiveUp, TokensIssued, BatchTokens
  <2>2. CallTokens'
    BY <1>11, <1>12
       DEF CallStep, Deliver, DeliverUnanswered, GiveUp, TokensIssued, CallTokens
  <2>3. TaskTokens' /\ OutboxTokens'
    <3>1. CASE \E ok : Continue(m, ok)
      BY <1>10, <3>1
    <3>2. CASE UNCHANGED <<outbox, tasks, lockq>>
      BY <3>2 DEF TokensIssued, TaskTokens, OutboxTokens
    <3>. QED  BY <1>12, <3>1, <3>2 DEF CallStep, Deliver, DeliverUnanswered, GiveUp
  <2>4. CloudInv'
    <3>1. CASE UpdateCommandStatus(m)
      BY <1>11, <3>1, UpdateKeeps
    <3>2. CASE UNCHANGED cmd
      BY <1>1, <3>2
    <3>. QED  BY <1>12, <3>1, <3>2 DEF CallStep, Deliver, DeliverUnanswered, GiveUp
  <2>. QED  BY <2>1, <2>2, <2>3, <2>4 DEF QueueInv, TokensIssued
<1>13. CASE Crash
  <2>1. CallTokens'
    BY <1>11, <1>13 DEF Crash, CallTokens
  <2>. QED
    BY <1>1, <1>13, <2>1
       DEF Crash, QueueInv, TokensIssued, BatchTokens, TaskTokens, OutboxTokens
<1>14. CASE UNCHANGED vars
  BY <1>1, <1>2, <1>14 DEF vars, QueueInv
<1>. QED
  BY <1>3, <1>4, <1>5, <1>6, <1>7, <1>8, <1>9, <1>12, <1>13, <1>14 DEF Next, SyncStep

\* While a command of a headset is open or its outcome unknown, no later one
\* has been handed out, whoever cancels, expires, crashes or reports late.
THEOREM QueueOrder == Spec => []HeadOfLine
<1>1. QueueInv => HeadOfLine
  BY DEF QueueInv, CloudInv
<1>. QED  BY <1>1, TypeCorrect, QueueInit, QueueStep, PTL DEF Spec
=============================================================================
