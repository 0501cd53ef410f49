----------------------- MODULE SessionLifecycleProofs -----------------------
(***************************************************************************)
(* Proofs about SessionLifecycle for every set of sessions, headsets and   *)
(* applications and every bound: no headset is in two sessions, and what   *)
(* is being ended is not taken back.                                       *)
(***************************************************************************)
EXTENDS SessionLifecycle, TLAPS

-----------------------------------------------------------------------------
(* The invariant.  Revisions are not bounded here.                         *)

Row == [status: {"none", "finished", "failed"} \cup ActiveRow,
        op: {"idle", "reconciliation_required"} \cup PendingOp,
        rev: Nat, app: App, expired: BOOLEAN]
Sent == [type: CommandType, sess: Session, rev: Nat, app: App, prevApp: App,
         paused: BOOLEAN, prevPaused: BOOLEAN, launch: BOOLEAN,
         st: CommandState, done: BOOLEAN]

SessTyped == sess \in [Session -> SessionRow]
RowsTyped == sd \in [Session \X Device -> Row]
QueueTyped == queue \in [Device -> Seq(Sent)]

\* Only a row that is on waits for something, except that a failed END leaves
\* finish_pending behind: this is why a result that settles or restores `its'
\* operation cannot make a row active that is over.
OpHolds == \A s \in Session, d \in Device :
  sd[s, d].op \in PendingOp \ {"finish_pending"} => Holds(s, d)

SInv == SessTyped /\ RowsTyped /\ QueueTyped /\ OpHolds /\ OneSession

\* The rows after a step: none becomes active.
NoneRevived == \A s \in Session, d \in Device : Holds(s, d)' => Holds(s, d)

LEMMA KeepsOneSession ==
  ASSUME OneSession, NoneRevived
  PROVE  OneSession'
BY DEF OneSession, NoneRevived

-----------------------------------------------------------------------------
(* Queues.                                                                 *)

\* The command a headset works on is one that was sent.
LEMMA CurrentSent ==
  ASSUME QueueTyped, NEW d \in Device, Busy(d)
  PROVE  Current(d) \in Sent
BY DEF QueueTyped, Busy, Current

\* Dropping the oldest command.
LEMMA DropTyped ==
  ASSUME QueueTyped, NEW d \in Device, Busy(d), Drop(d)
  PROVE  QueueTyped'
BY DEF QueueTyped, Busy, Drop

\* Changing the oldest command.
LEMMA SetCurrentTyped ==
  ASSUME QueueTyped, NEW d \in Device, Busy(d), NEW c \in Sent, SetCurrent(d, c)
  PROVE  QueueTyped'
<1>1. Tail(queue[d]) \in Seq(Sent)
  BY DEF QueueTyped, Busy
<1>2. <<c>> \o Tail(queue[d]) \in Seq(Sent)
  BY <1>1
<1> QED
  BY <1>2 DEF QueueTyped, SetCurrent

\* Queueing the command of a request.
LEMMA EnqueueTyped ==
  ASSUME QueueTyped, NEW d \in Device, NEW s \in Session, NEW type \in CommandType,
         NEW row \in Row, NEW old \in Row, Enqueue(d, type, s, row, old)
  PROVE  QueueTyped'
<1> DEFINE c == [type |-> type, sess |-> s, rev |-> row.rev, app |-> row.app,
                 prevApp |-> old.app,
                 paused |-> ShownPaused(sess'[s].status, row),
                 prevPaused |-> ShownPaused(sess[s].status, old),
                 launch |-> row.status = "running", st |-> "created", done |-> FALSE]
<1>1. c \in Sent
  BY Zenon DEF Sent, Row, ShownPaused, CommandState
<1>2. Append(queue[d], c) \in Seq(Sent)
  BY <1>1 DEF QueueTyped
<1>3. queue' = [queue EXCEPT ![d] = Append(@, c)]
  BY DEF Enqueue
<1> QED
  BY <1>2, <1>3 DEF QueueTyped

-----------------------------------------------------------------------------
(* Statuses of a session.                                                  *)

Statuses == {"none"} \cup ActiveSession \cup TerminalSession

\* Moving a session changes its status alone.
LEMMA MoveTyped ==
  ASSUME SessTyped, NEW s \in Session, NEW next \in Statuses, Move(s, next)
  PROVE  /\ SessTyped'
         /\ sess'[s].status = next
         /\ \A t \in Session : t # s => sess'[t] = sess[t]
BY DEF SessTyped, Move, SessionRow, Statuses

\* A move that is no revocation.
Allowed(s, next) ==
  /\ sess[s].status = "finishing" => next \in {"finishing"} \cup TerminalSession
  /\ sess[s].status \in TerminalSession => next = sess[s].status

LEMMA AllowedMove ==
  ASSUME SessTyped, NEW s \in Session, NEW next \in Statuses, Move(s, next), Allowed(s, next)
  PROVE  SessTyped' /\ Irrevocable
BY MoveTyped DEF Irrevocable, Allowed

LEMMA NoMove ==
  ASSUME SessTyped, UNCHANGED sess
  PROVE  SessTyped' /\ Irrevocable
BY DEF SessTyped, Irrevocable

\* transitionSessionStatus moves only along the table.
LEMMA CanMoveAllowed ==
  ASSUME SessTyped, NEW s \in Session, NEW next \in Statuses, NEW expected, CanMove(s, next, expected)
  PROVE  Allowed(s, next)
<1>1. sess[s].status \in Statuses
  BY DEF SessTyped, SessionRow, Statuses
<1>2. Transitions["finishing"] = {"completed", "failed"}
  BY DEF Transitions, ActiveSession
<1>3. ASSUME NEW t \in TerminalSession
      PROVE  Transitions[t] = {}
  BY DEF Transitions, TerminalSession
<1> QED
  BY <1>1, <1>2, <1>3 DEF CanMove, Allowed, TerminalSession

\* refreshSessionAggregate leaves alone what is being ended or is over.
LEMMA AggregateAllowed ==
  ASSUME SessTyped, NEW s \in Session, NEW rows
  PROVE  Aggregate(s, rows) \in Statuses /\ Allowed(s, Aggregate(s, rows))
<1>1. sess[s].status \in Statuses
  BY DEF SessTyped, SessionRow, Statuses
<1>2. ASSUME NEW t \in TerminalSession
      PROVE  Transitions[t] = {}
  BY DEF Transitions, TerminalSession
<1>3. ASSUME NEW t \in Statuses
      PROVE  Transitions[t] \subseteq Statuses
  BY <1>3 DEF Transitions, Statuses, ActiveSession, TerminalSession
<1>4. PICK target : Aggregate(s, rows) = IF sess[s].status # "finishing"
                                            /\ target \in Transitions[sess[s].status]
                                         THEN target ELSE sess[s].status
  BY DEF Aggregate
<1> QED
  BY <1>1, <1>2, <1>3, <1>4 DEF Allowed

-----------------------------------------------------------------------------
(* What a request does to the rows and the queue.                          *)

LEMMA RowWith ==
  ASSUME NEW row \in Row, NEW op \in {"idle", "reconciliation_required"} \cup PendingOp,
         NEW rev \in Nat
  PROVE  [row EXCEPT !.op = op, !.rev = rev] \in Row
         /\ [row EXCEPT !.op = op, !.rev = rev].status = row.status
BY DEF Row

LEMMA RequestRows ==
  ASSUME RowsTyped, QueueTyped, OpHolds,
         NEW s \in Session, NEW d \in Device, NEW type \in CommandType, NEW row \in Row,
         Holds(s, d), row.status \in ActiveRow, Request(s, d, type, row)
  PROVE  RowsTyped' /\ QueueTyped' /\ OpHolds' /\ NoneRevived
<1> DEFINE new == [row EXCEPT !.op = OpOf(type), !.rev = @ + 1]
<1>1. OpOf(type) \in PendingOp
  BY DEF OpOf, CommandType, PendingOp
<1>2. new \in Row /\ new.status = row.status
  <2>1. OpOf(type) \in {"idle", "reconciliation_required"} \cup PendingOp
    BY <1>1
  <2>2. row.rev + 1 \in Nat
    BY DEF Row
  <2> QED
    BY <2>1, <2>2, RowWith
<1>3. sd' = [sd EXCEPT ![<<s, d>>] = new] /\ Enqueue(d, type, s, new, sd[s, d])
  BY DEF Request
<1>4. RowsTyped'
  BY <1>2, <1>3 DEF RowsTyped
<1>5. QueueTyped'
  <2>1. sd[s, d] \in Row
    BY DEF RowsTyped
  <2> QED
    BY <1>2, <1>3, <2>1, EnqueueTyped
<1>6. ASSUME NEW t \in Session, NEW e \in Device
      PROVE  \/ sd'[t, e] = sd[t, e]
             \/ t = s /\ e = d /\ sd'[t, e].status \in ActiveRow
  BY <1>2, <1>3 DEF RowsTyped
<1>7. OpHolds'
  BY <1>6 DEF OpHolds, Holds
<1>8. NoneRevived
  BY <1>6 DEF NoneRevived, Holds
<1> QED
  BY <1>4, <1>5, <1>7, <1>8

-----------------------------------------------------------------------------
(* What a result does to the sessions and the rows.                        *)

ResultHolds == SessTyped' /\ RowsTyped' /\ OpHolds' /\ NoneRevived /\ Irrevocable

\* A result that changes the status, the operation or the application of one
\* row, which is on or is not made active.
LEMMA RowChange ==
  ASSUME RowsTyped, OpHolds, NEW s \in Session, NEW d \in Device, NEW new \in Row,
         sd' = [sd EXCEPT ![<<s, d>>] = new],
         new.status \in ActiveRow => Holds(s, d),
         new.op \in PendingOp \ {"finish_pending"} => new.status \in ActiveRow
  PROVE  RowsTyped' /\ OpHolds' /\ NoneRevived
<1>1. RowsTyped'
  BY DEF RowsTyped
<1>2. ASSUME NEW t \in Session, NEW e \in Device
      PROVE  sd'[t, e] = IF t = s /\ e = d THEN new ELSE sd[t, e]
  BY DEF RowsTyped
<1>3. ASSUME NEW t \in Session, NEW e \in Device, sd'[t, e].op \in PendingOp \ {"finish_pending"}
      PROVE  Holds(t, e)'
  <2>1. CASE t = s /\ e = d
    BY <1>2, <1>3, <2>1 DEF Holds
  <2>2. CASE ~(t = s /\ e = d)
    <3>1. sd'[t, e] = sd[t, e]
      BY <1>2, <2>2
    <3> QED
      BY <1>3, <3>1 DEF OpHolds, Holds
  <2> QED
    BY <2>1, <2>2
<1>4. NoneRevived
  BY <1>2 DEF NoneRevived, Holds
<1> QED
  BY <1>1, <1>3, <1>4 DEF OpHolds

LEMMA NoRowChange ==
  ASSUME RowsTyped, OpHolds, UNCHANGED sd
  PROVE  RowsTyped' /\ OpHolds' /\ NoneRevived
BY DEF RowsTyped, OpHolds, NoneRevived, Holds

LEMMA StartSucceededHolds ==
  ASSUME SInv, NEW d \in Device, NEW c \in Sent, StartSucceeded(d, c)
  PROVE  ResultHolds
<1>1. c.sess \in Session /\ c.app \in App /\ sd[c.sess, d] \in Row
  BY DEF Sent, SInv, RowsTyped
<1>2. CASE sd[c.sess, d].op = "start_pending"
  <2> DEFINE new == [sd[c.sess, d] EXCEPT !.status = "running", !.op = "idle", !.app = c.app]
  <2>1. sd' = [sd EXCEPT ![<<c.sess, d>>] = new]
    BY <1>1, <1>2 DEF StartSucceeded, SInv, RowsTyped
  <2>2. new \in Row /\ new.op = "idle"
    BY <1>1 DEF Row, ActiveRow
  <2>3. Holds(c.sess, d)
    BY <1>1, <1>2 DEF SInv, OpHolds, PendingOp
  <2>4. RowsTyped' /\ OpHolds' /\ NoneRevived
    BY <1>1, <2>1, <2>2, <2>3, RowChange DEF SInv, PendingOp
  <2>5. Move(c.sess, Aggregate(c.sess, sd'))
    BY <1>2 DEF StartSucceeded
  <2>6. SessTyped' /\ Irrevocable
    BY <1>1, <2>5, AggregateAllowed, AllowedMove DEF SInv
  <2> QED
    BY <2>4, <2>6 DEF ResultHolds
<1>3. CASE sd[c.sess, d].op # "start_pending"
  BY <1>3, NoMove, NoRowChange DEF StartSucceeded, SInv, ResultHolds
<1> QED
  BY <1>2, <1>3

LEMMA StartFailedHolds ==
  ASSUME SInv, NEW d \in Device, NEW c \in Sent, StartFailed(d, c)
  PROVE  ResultHolds
<1>1. c.sess \in Session /\ sd[c.sess, d] \in Row
  BY DEF Sent, SInv, RowsTyped
<1>2. RowsTyped' /\ OpHolds' /\ NoneRevived
  <2>1. CASE sd[c.sess, d].op = "start_pending"
    <3> DEFINE new == [sd[c.sess, d] EXCEPT !.status = "failed", !.op = "idle"]
    <3>1. sd' = [sd EXCEPT ![<<c.sess, d>>] = new]
      BY <1>1, <2>1 DEF StartFailed, SInv, RowsTyped
    <3>2. new \in Row /\ new.op = "idle" /\ new.status = "failed"
      BY <1>1 DEF Row
    <3> QED
      BY <1>1, <3>1, <3>2, RowChange DEF SInv, PendingOp, ActiveRow
  <2>2. CASE sd[c.sess, d].op # "start_pending"
    BY <2>2, NoRowChange DEF StartFailed, SInv
  <2> QED
    BY <2>1, <2>2
<1>3. SessTyped' /\ Irrevocable
  BY <1>1, AggregateAllowed, AllowedMove DEF StartFailed, SInv
<1> QED
  BY <1>2, <1>3 DEF ResultHolds

LEMMA ConfirmedHolds ==
  ASSUME SInv, NEW d \in Device, NEW c \in Sent, Confirmed(d, c)
  PROVE  ResultHolds
<1>1. c.sess \in Session /\ sd[c.sess, d] \in Row
  BY DEF Sent, SInv, RowsTyped
<1>2. RowsTyped' /\ OpHolds' /\ NoneRevived
  <2>1. CASE sd[c.sess, d].op = OpOf(c.type)
    <3> DEFINE new == [sd[c.sess, d] EXCEPT !.op = "idle"]
    <3>1. sd' = [sd EXCEPT ![<<c.sess, d>>] = new]
      BY <1>1, <2>1 DEF Confirmed, SInv, RowsTyped
    <3>2. new \in Row /\ new.op = "idle" /\ new.status = sd[c.sess, d].status
      BY <1>1 DEF Row
    <3> QED
      BY <1>1, <3>1, <3>2, RowChange DEF SInv, PendingOp, Holds
  <2>2. CASE sd[c.sess, d].op # OpOf(c.type)
    BY <2>2, NoRowChange DEF Confirmed, SInv
  <2> QED
    BY <2>1, <2>2
<1>3. SessTyped' /\ Irrevocable
  BY NoMove DEF Confirmed, SInv
<1> QED
  BY <1>2, <1>3 DEF ResultHolds


\* The status a failure gives back to a session that is not being ended.
LEMMA RestoreHolds ==
  ASSUME SInv, NEW d \in Device, NEW c \in Sent, c.type \in {"PAUSE", "RESUME", "SWITCH"},
         Restore(d, c)
  PROVE  ResultHolds
<1> DEFINE back == IF c.prevPaused THEN "paused" ELSE "running"
<1>1. c.sess \in Session /\ c.prevApp \in App /\ sd[c.sess, d] \in Row
  BY DEF Sent, SInv, RowsTyped
<1>2. OpOf(c.type) \in PendingOp \ {"finish_pending"}
  BY DEF OpOf, PendingOp
<1>3. back \in ActiveRow /\ back \in Statuses
  BY DEF ActiveRow, Statuses, ActiveSession
<1>4. CASE sd[c.sess, d].op = OpOf(c.type)
  <2> DEFINE new == [sd[c.sess, d] EXCEPT !.status = back, !.op = "idle", !.app = c.prevApp]
  <2>1. sd' = [sd EXCEPT ![<<c.sess, d>>] = new]
    BY <1>1, <1>4 DEF Restore, SInv, RowsTyped
  <2>2. new \in Row /\ new.op = "idle"
    BY <1>1, <1>3 DEF Row
  <2>3. Holds(c.sess, d)
    BY <1>1, <1>2, <1>4 DEF SInv, OpHolds
  <2>4. RowsTyped' /\ OpHolds' /\ NoneRevived
    BY <1>1, <2>1, <2>2, <2>3, RowChange DEF SInv, PendingOp
  <2>5. SessTyped' /\ Irrevocable
    <3>1. CASE sess[c.sess].status \in TerminalSession \cup {"finishing"}
      BY <1>4, <3>1, NoMove DEF Restore, SInv
    <3>2. CASE sess[c.sess].status \notin TerminalSession \cup {"finishing"}
      <4>1. Move(c.sess, back)
        BY <1>4, <3>2 DEF Restore
      <4>2. Allowed(c.sess, back)
        BY <3>2 DEF Allowed
      <4> QED
        BY <1>1, <1>3, <4>1, <4>2, AllowedMove DEF SInv
    <3> QED
      BY <3>1, <3>2
  <2> QED
    BY <2>4, <2>5 DEF ResultHolds
<1>5. CASE sd[c.sess, d].op # OpOf(c.type)
  BY <1>5, NoMove, NoRowChange DEF Restore, SInv, ResultHolds
<1> QED
  BY <1>4, <1>5

LEMMA ExtendFailedHolds ==
  ASSUME SInv, NEW d \in Device, NEW c \in Sent, ExtendFailed(d, c)
  PROVE  ResultHolds
<1>1. c.sess \in Session /\ sd[c.sess, d] \in Row
  BY DEF Sent, SInv, RowsTyped
<1>2. RowsTyped' /\ OpHolds' /\ NoneRevived
  <2>1. CASE sd[c.sess, d].op = "extend_pending"
    <3> DEFINE new == [sd[c.sess, d] EXCEPT !.op = "reconciliation_required"]
    <3>1. sd' = [sd EXCEPT ![<<c.sess, d>>] = new]
      BY <1>1, <2>1 DEF ExtendFailed, SInv, RowsTyped
    <3>2. new \in Row /\ new.op = "reconciliation_required"
          /\ new.status = sd[c.sess, d].status
      BY <1>1 DEF Row
    <3> QED
      BY <1>1, <3>1, <3>2, RowChange DEF SInv, PendingOp, Holds
  <2>2. CASE sd[c.sess, d].op # "extend_pending"
    BY <2>2, NoRowChange DEF ExtendFailed, SInv
  <2> QED
    BY <2>1, <2>2
<1>3. SessTyped' /\ Irrevocable
  BY NoMove DEF ExtendFailed, SInv
<1> QED
  BY <1>2, <1>3 DEF ResultHolds

LEMMA EndSucceededHolds ==
  ASSUME SInv, NEW d \in Device, NEW c \in Sent, EndSucceeded(d, c)
  PROVE  ResultHolds
<1>1. c.sess \in Session /\ sd[c.sess, d] \in Row
  BY DEF Sent, SInv, RowsTyped
<1>2. RowsTyped' /\ OpHolds' /\ NoneRevived
  <2>1. CASE sd[c.sess, d].op = "finish_pending"
    <3> DEFINE new == [sd[c.sess, d] EXCEPT !.status = "finished", !.op = "idle"]
    <3>1. sd' = [sd EXCEPT ![<<c.sess, d>>] = new]
      BY <1>1, <2>1 DEF EndSucceeded, SInv, RowsTyped
    <3>2. new \in Row /\ new.op = "idle" /\ new.status = "finished"
      BY <1>1 DEF Row
    <3> QED
      BY <1>1, <3>1, <3>2, RowChange DEF SInv, PendingOp, ActiveRow
  <2>2. CASE sd[c.sess, d].op # "finish_pending"
    BY <2>2, NoRowChange DEF EndSucceeded, SInv
  <2> QED
    BY <2>1, <2>2
<1>3. SessTyped' /\ Irrevocable
  <2>1. "completed" \in Statuses /\ (sess[c.sess].status = "finishing" => Allowed(c.sess, "completed"))
    BY DEF Statuses, TerminalSession, Allowed
  <2>2. \/ sess[c.sess].status = "finishing" /\ Move(c.sess, "completed")
        \/ UNCHANGED sess
    BY DEF EndSucceeded
  <2> QED
    BY <1>1, <2>1, <2>2, AllowedMove, NoMove DEF SInv
<1> QED
  BY <1>2, <1>3 DEF ResultHolds

LEMMA EndFailedHolds ==
  ASSUME SInv, NEW d \in Device, NEW c \in Sent, EndFailed(d, c)
  PROVE  ResultHolds
<1>1. c.sess \in Session /\ sd[c.sess, d] \in Row
  BY DEF Sent, SInv, RowsTyped
<1>2. CASE sd[c.sess, d].op = "finish_pending"
  <2> DEFINE new == [sd[c.sess, d] EXCEPT !.status = "failed"]
  <2>1. sd' = [sd EXCEPT ![<<c.sess, d>>] = new]
    BY <1>1, <1>2 DEF EndFailed, SInv, RowsTyped
  <2>2. new \in Row /\ new.op = "finish_pending" /\ new.status = "failed"
    BY <1>1, <1>2 DEF Row
  <2>3. RowsTyped' /\ OpHolds' /\ NoneRevived
    BY <1>1, <2>1, <2>2, RowChange DEF SInv, ActiveRow
  <2>4. "failed" \in Statuses /\ (sess[c.sess].status = "finishing" => Allowed(c.sess, "failed"))
    BY DEF Statuses, TerminalSession, Allowed
  <2>5. \/ sess[c.sess].status = "finishing" /\ Move(c.sess, "failed")
        \/ UNCHANGED sess
    BY <1>2 DEF EndFailed
  <2>6. SessTyped' /\ Irrevocable
    BY <1>1, <2>4, <2>5, AllowedMove, NoMove DEF SInv
  <2> QED
    BY <2>3, <2>6 DEF ResultHolds
<1>3. CASE sd[c.sess, d].op # "finish_pending"
  BY <1>3, NoMove, NoRowChange DEF EndFailed, SInv, ResultHolds
<1> QED
  BY <1>2, <1>3

LEMMA SucceededHolds ==
  ASSUME SInv, NEW d \in Device, NEW c \in Sent, Succeeded(d, c)
  PROVE  ResultHolds
BY StartSucceededHolds, ConfirmedHolds, EndSucceededHolds DEF Succeeded

LEMMA FailedHolds ==
  ASSUME SInv, NEW d \in Device, NEW c \in Sent, Failed(d, c)
  PROVE  ResultHolds
BY StartFailedHolds, RestoreHolds, ExtendFailedHolds, EndFailedHolds DEF Failed

-----------------------------------------------------------------------------
(* One lemma per action, or per group of actions of the same shape.        *)

StepHolds == SInv' /\ Irrevocable

LEMMA StepFrom ==
  ASSUME SInv, ResultHolds, QueueTyped'
  PROVE  StepHolds
BY KeepsOneSession DEF SInv, ResultHolds, StepHolds

\* Steps that change neither sessions nor rows.
LEMMA QueueStep ==
  ASSUME SInv, UNCHANGED <<sess, sd>>, QueueTyped'
  PROVE  StepHolds
BY NoMove, NoRowChange, StepFrom DEF SInv, ResultHolds

LEMMA CreateSessionHolds ==
  ASSUME SInv, NEW s \in Session, NEW D \in SUBSET Device, NEW a \in App, CreateSession(s, D, a)
  PROVE  StepHolds
<1> DEFINE row == [status |-> "preparing", op |-> "start_pending", rev |-> 1,
                   app |-> a, expired |-> FALSE]
           start == [type |-> "START", sess |-> s, rev |-> 1, app |-> a, prevApp |-> a,
                     paused |-> FALSE, prevPaused |-> FALSE, launch |-> TRUE,
                     st |-> "created", done |-> FALSE]
<1>1. SessTyped' /\ Irrevocable
  <2>1. "preparing" \in Statuses /\ Allowed(s, "preparing")
    BY DEF CreateSession, Statuses, ActiveSession, TerminalSession, Allowed
  <2> QED
    BY <2>1, AllowedMove DEF CreateSession, SInv
<1>2. row \in Row
  BY DEF Row, ActiveRow, PendingOp
<1>3. start \in Sent
  BY DEF Sent, CommandType, CommandState
<1>4. sd' = [p \in Session \X Device |-> IF p[1] = s /\ p[2] \in D THEN row ELSE sd[p]]
  BY DEF CreateSession
<1>5. RowsTyped'
  BY <1>2, <1>4 DEF RowsTyped, SInv
<1>6. ASSUME NEW t \in Session, NEW e \in Device
      PROVE  sd'[t, e] = IF t = s /\ e \in D THEN row ELSE sd[t, e]
  BY <1>4
<1>7. OpHolds'
  <2> SUFFICES ASSUME NEW t \in Session, NEW e \in Device,
                      sd'[t, e].op \in PendingOp \ {"finish_pending"}
               PROVE  Holds(t, e)'
    BY DEF OpHolds
  <2>1. CASE t = s /\ e \in D
    <3>1. sd'[t, e] = row
      BY <1>6, <2>1
    <3>2. row.status \in ActiveRow
      BY DEF ActiveRow
    <3>3. sd'[t, e].status \in ActiveRow
      BY <3>1, <3>2
    <3> QED
      BY <3>3 DEF Holds
  <2>2. CASE ~(t = s /\ e \in D)
    <3>1. sd'[t, e] = sd[t, e]
      BY <1>6, <2>2
    <3> QED
      BY <3>1 DEF SInv, OpHolds, Holds
  <2> QED
    BY <2>1, <2>2
<1>8. OneSession'
  <2> SUFFICES ASSUME NEW t \in Session, NEW u \in Session, NEW e \in Device,
                      Holds(t, e)', Holds(u, e)'
               PROVE  t = u
    BY DEF OneSession
  <2>1. ASSUME NEW v \in Session, Holds(v, e)'
        PROVE  (v = s /\ e \in D) \/ Holds(v, e)
    BY <1>6, <2>1 DEF Holds
  <2>2. e \in D => \A v \in Session : ~Holds(v, e)
    BY DEF CreateSession, Free
  <2> QED
    BY <2>1, <2>2 DEF SInv, OneSession
<1>9. QueueTyped'
  <2>1. \A e \in Device : Append(queue[e], start) \in Seq(Sent)
    BY <1>3 DEF SInv, QueueTyped
  <2>2. queue' = [e \in Device |-> IF e \in D THEN Append(queue[e], start) ELSE queue[e]]
    BY DEF CreateSession
  <2> QED
    BY <2>1, <2>2 DEF SInv, QueueTyped
<1> QED
  BY <1>1, <1>5, <1>7, <1>8, <1>9 DEF SInv, StepHolds

\* A request on the row of an active session that moves the session, or not.
LEMMA RequestHolds ==
  ASSUME SInv, NEW s \in Session, NEW d \in Device, NEW type \in CommandType, NEW row \in Row,
         IsActive(s, d), row.status \in ActiveRow, Request(s, d, type, row),
         SessTyped', Irrevocable
  PROVE  StepHolds
BY RequestRows, StepFrom DEF SInv, IsActive, Holds, ResultHolds

LEMMA TransitionHolds ==
  ASSUME SInv, NEW s \in Session, NEW next \in Statuses, NEW expected,
         CanMove(s, next, expected), Move(s, next)
  PROVE  SessTyped' /\ Irrevocable
BY CanMoveAllowed, AllowedMove DEF SInv

LEMMA OperatorHolds ==
  ASSUME SInv, NEW s \in Session, NEW d \in Device, Operator(s, d)
  PROVE  StepHolds
<1>1. sd[s, d] \in Row
  BY DEF SInv, RowsTyped
<1>2. CASE PauseSession(s, d)
  <2>1. SessTyped' /\ Irrevocable
    BY <1>2, TransitionHolds DEF PauseSession, Statuses, ActiveSession
  <2>2. [sd[s, d] EXCEPT !.status = "paused"] \in Row
        /\ [sd[s, d] EXCEPT !.status = "paused"].status = "paused"
    BY <1>1 DEF Row, ActiveRow
  <2> QED
    BY <1>2, <2>1, <2>2, RequestHolds DEF PauseSession, FirstActive, CommandType, ActiveRow
<1>3. CASE ResumeSession(s, d)
  <2>1. SessTyped' /\ Irrevocable
    BY <1>3, TransitionHolds DEF ResumeSession, Statuses, ActiveSession
  <2>2. [sd[s, d] EXCEPT !.status = "running"] \in Row
        /\ [sd[s, d] EXCEPT !.status = "running"].status = "running"
    BY <1>1 DEF Row, ActiveRow
  <2> QED
    BY <1>3, <2>1, <2>2, RequestHolds DEF ResumeSession, FirstActive, CommandType, ActiveRow
<1>4. CASE ExtendSession(s, d)
  <2>1. SessTyped' /\ Irrevocable
    BY <1>4, TransitionHolds DEF ExtendSession, Statuses, ActiveSession
  <2>2. PICK e \in {FALSE, sd[s, d].expired} :
          Request(s, d, "EXTEND", [sd[s, d] EXCEPT !.expired = e])
    BY <1>4 DEF ExtendSession
  <2>3. [sd[s, d] EXCEPT !.expired = e] \in Row
        /\ [sd[s, d] EXCEPT !.expired = e].status = sd[s, d].status
    BY <1>1, <2>2 DEF Row
  <2> QED
    BY <1>4, <2>1, <2>2, <2>3, RequestHolds DEF ExtendSession, FirstActive, CommandType, ActiveRow
<1>5. CASE Finish(s, d)
  <2>1. SessTyped' /\ Irrevocable
    BY <1>5, TransitionHolds DEF Finish, Statuses, ActiveSession
  <2> QED
    BY <1>1, <1>5, <2>1, RequestHolds DEF Finish, IsActive, CommandType
<1>6. CASE \E a \in App : SwitchSessionApp(s, d, a)
  <2>1. PICK a \in App : SwitchSessionApp(s, d, a)
    BY <1>6
  <2>2. [sd[s, d] EXCEPT !.app = a] \in Row
        /\ [sd[s, d] EXCEPT !.app = a].status = sd[s, d].status
    BY <1>1 DEF Row
  <2>3. SessTyped' /\ Irrevocable
    BY <2>1, NoMove DEF SwitchSessionApp, SInv
  <2> QED
    BY <2>1, <2>2, <2>3, RequestHolds DEF SwitchSessionApp, FirstActive, CommandType, ActiveRow
<1> QED
  BY <1>2, <1>3, <1>4, <1>5, <1>6 DEF Operator


LEMMA ExpiryHolds ==
  ASSUME SInv, NEW s \in Session, NEW d \in Device,
         TimeUp(s, d) \/ ReconcileExpired(s, d)
  PROVE  StepHolds
<1>1. sd[s, d] \in Row
  BY DEF SInv, RowsTyped
<1>2. CASE TimeUp(s, d)
  <2> DEFINE new == [sd[s, d] EXCEPT !.expired = TRUE]
  <2>1. sd' = [sd EXCEPT ![<<s, d>>] = new]
    BY <1>2 DEF TimeUp, SInv, RowsTyped
  <2>2. new \in Row /\ new.status = sd[s, d].status /\ new.op = sd[s, d].op
    BY <1>1 DEF Row
  <2>3. RowsTyped' /\ OpHolds' /\ NoneRevived
    <3>1. new.op \in PendingOp \ {"finish_pending"} => new.status \in ActiveRow
      BY <2>2 DEF SInv, OpHolds, Holds
    <3>2. new.status \in ActiveRow => Holds(s, d)
      BY <2>2 DEF Holds
    <3> HIDE DEF new
    <3> QED
      BY <2>1, <2>2, <3>1, <3>2, RowChange DEF SInv
  <2>4. SessTyped' /\ Irrevocable /\ QueueTyped'
    BY <1>2, NoMove DEF TimeUp, SInv, QueueTyped
  <2> QED
    BY <2>3, <2>4, StepFrom DEF ResultHolds
<1>3. CASE ReconcileExpired(s, d)
  <2>1. SessTyped' /\ Irrevocable
    <3>1. sess' = [sess EXCEPT ![s] = [status |-> "finishing", autoEnd |-> TRUE]]
          /\ sess[s].status \in {"running", "extended"}
      BY <1>3 DEF ReconcileExpired, Expires
    <3>2. [status |-> "finishing", autoEnd |-> TRUE] \in SessionRow
      BY DEF SessionRow, ActiveSession
    <3> QED
      BY <3>1, <3>2 DEF SInv, SessTyped, Irrevocable, TerminalSession
  <2>2. CASE sd[s, d].op = "finish_pending"
    <3>1. UNCHANGED <<sd, queue>>
      BY <1>3, <2>2 DEF ReconcileExpired
    <3>2. QueueTyped'
      BY <3>1 DEF SInv, QueueTyped
    <3> QED
      BY <2>1, <3>1, <3>2, NoRowChange, StepFrom DEF SInv, ResultHolds
  <2>3. CASE sd[s, d].op # "finish_pending"
    <3>1. Request(s, d, "END", sd[s, d]) /\ IsActive(s, d)
      BY <1>3, <2>3 DEF ReconcileExpired, Expires, FirstActive
    <3> QED
      BY <1>1, <2>1, <3>1, RequestHolds DEF IsActive, CommandType
  <2> QED
    BY <2>2, <2>3
<1> QED
  BY <1>2, <1>3

LEMMA CloudHeartbeatHolds ==
  ASSUME SInv, NEW s \in Session, NEW d \in Device, CloudHeartbeat(s, d)
  PROVE  StepHolds
<1>1. sd[s, d] \in Row /\ Holds(s, d) /\ QueueTyped'
  BY DEF SInv, RowsTyped, CloudHeartbeat, IsActive, Holds, QueueTyped
<1>2. ASSUME NEW status \in ActiveRow,
             sd' = [sd EXCEPT ![<<s, d>>].status = status, ![<<s, d>>].op = "idle"]
      PROVE  RowsTyped' /\ OpHolds' /\ NoneRevived
  <2> DEFINE new == [sd[s, d] EXCEPT !.status = status, !.op = "idle"]
  <2>1. sd' = [sd EXCEPT ![<<s, d>>] = new]
    BY <1>2 DEF SInv, RowsTyped
  <2>2. new \in Row /\ new.op = "idle"
    BY <1>1 DEF Row
  <2> QED
    BY <1>1, <2>1, <2>2, RowChange DEF SInv, PendingOp
<1>3. "running" \in ActiveRow /\ "paused" \in ActiveRow
  BY DEF ActiveRow
<1>4. CASE ReconcileRunning(s, d)
  <2>1. RowsTyped' /\ OpHolds' /\ NoneRevived
    BY <1>2, <1>3, <1>4, NoRowChange DEF ReconcileRunning, SInv
  <2>2. "running" \in Statuses /\ (sess[s].status = "starting" => Allowed(s, "running"))
    BY DEF Statuses, ActiveSession, TerminalSession, Allowed
  <2>3. SessTyped' /\ Irrevocable
    BY <1>4, <2>2, AllowedMove, NoMove DEF ReconcileRunning, SInv
  <2> QED
    BY <1>1, <2>1, <2>3, StepFrom DEF ResultHolds
<1>5. CASE sess[s].status \in {"running", "extended", "paused"} /\ ReconcilePaused(s, d)
  <2>1. RowsTyped' /\ OpHolds' /\ NoneRevived
    BY <1>2, <1>3, <1>5, NoRowChange DEF ReconcilePaused, SInv
  <2>2. "paused" \in Statuses /\ Allowed(s, "paused")
    BY <1>5 DEF Statuses, ActiveSession, TerminalSession, Allowed
  <2>3. SessTyped' /\ Irrevocable
    BY <1>5, <2>2, AllowedMove, NoMove DEF ReconcilePaused, SInv
  <2> QED
    BY <1>1, <2>1, <2>3, StepFrom DEF ResultHolds
<1>6. CASE UNCHANGED <<sess, sd>>
  BY <1>1, <1>6, QueueStep
<1> QED
  BY <1>4, <1>5, <1>6 DEF CloudHeartbeat

\* Steps of the Hub and its environment.
LEMMA SentAgain ==
  ASSUME NEW c \in Sent, NEW st \in CommandState
  PROVE  [c EXCEPT !.st = st] \in Sent /\ [c EXCEPT !.done = TRUE] \in Sent
BY DEF Sent

LEMMA HubStepHolds ==
  ASSUME SInv, NEW d \in Device,
         HubStep(d) \/ AnnounceLost(d) \/ OutcomeUnknown(d)
  PROVE  StepHolds
<1>1. Busy(d)
  BY DEF HubStep, AnnounceLost, OutcomeUnknown, Claim, Announce, RunCommand, CommandSucceeds,
         CommandFails, GhostDone
<1>2. Current(d) \in Sent
  BY <1>1, CurrentSent DEF SInv
<1>3. ASSUME NEW c \in Sent, SetCurrent(d, c)
      PROVE  QueueTyped'
  BY <1>1, <1>3, SetCurrentTyped DEF SInv
<1>4. Drop(d) => QueueTyped'
  BY <1>1, DropTyped DEF SInv
<1>5. CASE Claim(d) \/ AnnounceLost(d) \/ OutcomeUnknown(d) \/ RunCommand(d)
  <2>1. UNCHANGED <<sess, sd>>
    BY <1>5 DEF Claim, AnnounceLost, OutcomeUnknown, RunCommand
  <2>2. QueueTyped'
    BY <1>2, <1>3, <1>5, SentAgain
    DEF Claim, AnnounceLost, OutcomeUnknown, RunCommand, CommandState
  <2> QED
    BY <2>1, <2>2, QueueStep
<1>6. CASE Announce(d)
  <2>1. QueueTyped'
    BY <1>2, <1>3, <1>6, SentAgain DEF Announce, CommandState
  <2>2. Current(d).sess \in Session /\ "starting" \in Statuses
    BY <1>2 DEF Sent, Statuses, ActiveSession
  <2>3. \/ sess[Current(d).sess].status = "preparing" /\ Move(Current(d).sess, "starting")
        \/ UNCHANGED sess
    BY <1>6 DEF Announce
  <2>4. sess[Current(d).sess].status = "preparing" => Allowed(Current(d).sess, "starting")
    BY DEF Allowed, TerminalSession
  <2>5. SessTyped' /\ Irrevocable
    BY <2>2, <2>3, <2>4, AllowedMove, NoMove DEF SInv
  <2>6. UNCHANGED sd
    BY <1>6 DEF Announce
  <2> QED
    BY <2>1, <2>5, <2>6, NoRowChange, StepFrom DEF SInv, ResultHolds
<1>7. CASE CommandSucceeds(d)
  BY <1>2, <1>4, <1>7, SucceededHolds, StepFrom DEF CommandSucceeds
<1>8. CASE CommandFails(d)
  BY <1>2, <1>4, <1>8, FailedHolds, StepFrom DEF CommandFails
<1>9. CASE GhostDone(d)
  BY <1>4, <1>9, QueueStep DEF GhostDone
<1> QED
  BY <1>5, <1>6, <1>7, <1>8, <1>9 DEF HubStep

LEMMA CancelHolds ==
  ASSUME SInv, NEW d \in Device, NEW i \in DOMAIN queue[d], CancelDeviceCommand(d, i)
  PROVE  StepHolds
<1> DEFINE q == queue[d]
<1>1. q \in Seq(Sent) /\ i \in 1..Len(q)
  BY DEF SInv, QueueTyped
<1>2. q[i] \in Sent
  BY <1>1
<1>3. Removed(q, i) \in Seq(Sent)
  <2>1. SubSeq(q, 1, i - 1) \in Seq(Sent) /\ SubSeq(q, i + 1, Len(q)) \in Seq(Sent)
    BY <1>1
  <2> QED
    BY <2>1 DEF Removed
<1>4. [q EXCEPT ![i].st = "ghost"] \in Seq(Sent)
  <2>1. [q[i] EXCEPT !.st = "ghost"] \in Sent
    BY <1>2, SentAgain DEF CommandState
  <2> QED
    BY <1>1, <2>1
<1>5. QueueTyped'
  <2>1. queue' = [queue EXCEPT ![d] = IF q[i].st = "created" THEN Removed(q, i)
                                      ELSE [q EXCEPT ![i].st = "ghost"]]
    BY DEF CancelDeviceCommand
  <2> QED
    BY <1>3, <1>4, <2>1 DEF SInv, QueueTyped
<1>6. ResultHolds
  BY <1>2, FailedHolds DEF CancelDeviceCommand
<1> QED
  BY <1>5, <1>6, StepFrom

-----------------------------------------------------------------------------
(* The theorems.                                                           *)

LEMMA InitHolds ==
  ASSUME Init
  PROVE  SInv
<1>1. PICK a \in App :
        /\ sess = [s \in Session |-> [status |-> "none", autoEnd |-> FALSE]]
        /\ sd = [p \in Session \X Device |->
                   [status |-> "none", op |-> "idle", rev |-> 0, app |-> a, expired |-> FALSE]]
        /\ queue = [d \in Device |-> <<>>]
  BY DEF Init
<1>2. SessTyped /\ QueueTyped
  BY <1>1 DEF SessTyped, QueueTyped, SessionRow
<1>3. RowsTyped
  BY <1>1 DEF RowsTyped, Row
<1>4. \A s \in Session, d \in Device : sd[s, d].status = "none" /\ sd[s, d].op = "idle"
  BY <1>1
<1>5. OpHolds /\ OneSession
  BY <1>4 DEF OpHolds, OneSession, Holds, PendingOp, ActiveRow
<1> QED
  BY <1>2, <1>3, <1>5 DEF SInv

LEMMA NextHolds ==
  ASSUME SInv, [Next]_vars
  PROVE  StepHolds
<1>1. CASE \E s \in Session, D \in SUBSET Device, a \in App : CreateSession(s, D, a)
  BY <1>1, CreateSessionHolds
<1>2. ASSUME NEW s \in Session, NEW d \in Device,
             Operator(s, d) \/ TimeUp(s, d) \/ ReconcileExpired(s, d) \/ CloudHeartbeat(s, d)
      PROVE  StepHolds
  BY <1>2, OperatorHolds, ExpiryHolds, CloudHeartbeatHolds
<1>3. ASSUME NEW d \in Device, HubStep(d) \/ AnnounceLost(d) \/ OutcomeUnknown(d)
      PROVE  StepHolds
  BY <1>3, HubStepHolds
<1>4. ASSUME NEW d \in Device, AgentHeartbeat(d) \/ AgentTimeUp(d) \/ Telemetry(d)
      PROVE  StepHolds
  BY <1>4, QueueStep DEF AgentHeartbeat, AgentTimeUp, Telemetry, SInv, QueueTyped
<1>5. ASSUME NEW d \in Device, NEW i \in 1..Len(queue[d]), CancelDeviceCommand(d, i)
      PROVE  StepHolds
  BY <1>5, CancelHolds DEF CancelDeviceCommand
<1>6. CASE UNCHANGED vars
  BY <1>6, QueueStep DEF vars, SInv, QueueTyped
<1> QED
  BY <1>1, <1>2, <1>3, <1>4, <1>5, <1>6 DEF Next

\* The invariant holds of every behaviour.
THEOREM SessionInvariant == Spec => []SInv
<1>1. Init => SInv
  BY InitHolds
<1>2. SInv /\ [Next]_vars => SInv'
  BY NextHolds DEF StepHolds
<1> QED
  BY <1>1, <1>2, PTL DEF Spec

\* No headset is in two sessions: the unique index on session_devices is never
\* violated by a result, a restored state or a heartbeat, only asked by
\* createSession.
THEOREM OneSessionHolds == Spec => []OneSession
<1>1. SInv => OneSession
  BY DEF SInv
<1> QED
  BY <1>1, SessionInvariant, PTL

\* What is being ended is ended, and what has ended stays so: no late result,
\* heartbeat or retry takes a session back.
THEOREM StopHolds == Spec => StopIsIrrevocable
<1>1. SInv /\ [Next]_vars => Irrevocable
  BY NextHolds DEF StepHolds
<1>2. SInv /\ [Next]_vars => [Irrevocable]_vars
  BY <1>1
<1> QED
  BY <1>2, SessionInvariant, PTL DEF Spec, StopIsIrrevocable
=============================================================================
