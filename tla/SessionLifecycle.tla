-------------------------- MODULE SessionLifecycle --------------------------
(***************************************************************************)
(* A play session, as the Cloud's services and the headsets see it.        *)
(*                                                                         *)
(*   operator   creates, pauses, resumes, extends, switches and stops;     *)
(*   Cloud      keeps `sessions', `session_devices' and `devices', queues  *)
(*              one command per request, and changes the rows again when   *)
(*              the result of a command, a heartbeat or the 5 s expiry     *)
(*              timer says so;                                             *)
(*   Hub        runs the commands of a headset one after the other;        *)
(*   Agent      on the headset, takes the session over from the intent a   *)
(*              command carries and repeats it in its heartbeats.          *)
(*                                                                         *)
(* How a command travels is the subject of CommandPipeline; what is kept   *)
(* of it here is the order it establishes (HeadOfLine, EffectsInOrder) and *)
(* the outcomes it allows.  Remaining time is abstracted to `used up or    *)
(* not'.  A repeated idempotency key answers without a change of state     *)
(* (every request is one synchronous transaction), so requests here are    *)
(* those with new keys.  Only the statuses the code sets appear: nothing   *)
(* makes a session draft, ready or cancelled, or a device row ready.       *)
(***************************************************************************)
EXTENDS Naturals, Sequences, FiniteSets

CONSTANTS
  Session,    \* session ids, in creation order
  Device,     \* headsets; the order of ids is that of the rows of a session
  App,        \* packages that are installed
  None,       \* no session
  MaxRequests,\* bound: pauses, resumes, extensions and switches in all
  MaxCancels, \* bound: cancelled commands
  MaxLost,    \* bound: reports of `running' that did not arrive in time
  MaxUnknown  \* bound: commands that end with an unknown outcome

ASSUME SessionAssumption ==
  /\ Session \subseteq Nat
  /\ Device \subseteq Nat
  /\ None \notin Session

ASSUME SessionBoundAssumption ==
  MaxRequests \in Nat /\ MaxCancels \in Nat /\ MaxLost \in Nat /\ MaxUnknown \in Nat

VARIABLES
  sess,   \* Cloud: the sessions rows
  sd,     \* Cloud: the session_devices rows, by session and device
  dev,    \* Cloud: devices.status
  queue,  \* per headset, the commands not yet settled, oldest first
  agent,  \* Quest Agent: what the last intent made of it
  hb,     \* Hub: the latest heartbeat it holds of each headset
  used    \* how much of each bound has been used

vars == <<sess, sd, dev, queue, agent, hb, used>>

-----------------------------------------------------------------------------
ActiveSession == {"preparing", "starting", "running", "paused", "extended", "finishing"}
TerminalSession == {"completed", "failed"}
ActiveRow == {"preparing", "running", "paused"}
PendingOp == {"start_pending", "pause_pending", "resume_pending", "extend_pending",
              "switch_pending", "finish_pending"}

\* SESSION_STATUS_TRANSITIONS, without the statuses that are never set.
Transitions ==
  [t \in {"none"} \cup ActiveSession \cup TerminalSession |->
     CASE t = "preparing" -> {"starting", "finishing", "failed"}
       [] t = "starting" -> {"running", "finishing", "failed"}
       [] t = "running" -> {"paused", "extended", "finishing", "failed"}
       [] t = "paused" -> {"running", "extended", "finishing", "failed"}
       [] t = "extended" -> {"running", "paused", "finishing", "failed"}
       [] t = "finishing" -> {"completed", "failed"}
       [] OTHER -> {}]

CommandType == {"START", "PAUSE", "RESUME", "EXTEND", "SWITCH", "END"}
\* The operation a command settles.
OpOf(type) == CASE type = "START" -> "start_pending"
                [] type = "PAUSE" -> "pause_pending"
                [] type = "RESUME" -> "resume_pending"
                [] type = "EXTEND" -> "extend_pending"
                [] type = "SWITCH" -> "switch_pending"
                [] type = "END" -> "finish_pending"

\* Where a command stands: at the Cloud; at the Hub, which has not announced
\* it; announced; run although the announcement did not arrive; cancelled
\* while the Hub already had it; ended without a known outcome.
\* A row is created with revision 1 and gets one END.
Revision == 0..MaxRequests + 2
CommandState == {"created", "accepted", "running", "silent", "ghost", "unknown"}

SessionRow == [status: {"none"} \cup ActiveSession \cup TerminalSession, autoEnd: BOOLEAN]
DeviceRow == [status: {"none", "finished", "failed"} \cup ActiveRow,
              op: {"idle", "reconciliation_required"} \cup PendingOp,
              rev: Revision, app: App, expired: BOOLEAN]
AgentState == [sess: Session \cup {None}, paused: BOOLEAN, rev: Revision, app: App]
\* A command with its payload: session_state, previous_session_state and
\* launch_immediately (which only SWITCH reads).
Command == [type: CommandType, sess: Session, rev: Revision, app: App, prevApp: App,
            paused: BOOLEAN, prevPaused: BOOLEAN, launch: BOOLEAN,
            st: CommandState, done: BOOLEAN]

Budget == {"request", "cancel", "lost", "unknown"}
Bound(b) == CASE b = "request" -> MaxRequests
              [] b = "cancel" -> MaxCancels
              [] b = "lost" -> MaxLost
              [] b = "unknown" -> MaxUnknown
Spend(b) == used[b] < Bound(b) /\ used' = [used EXCEPT ![b] = @ + 1]

-----------------------------------------------------------------------------
\* Lookups: the rows of active sessions.
IsActive(s, d) == sess[s].status \in ActiveSession /\ sd[s, d].status \in ActiveRow
Holds(s, d) == sd[s, d].status \in ActiveRow
FirstActive(s, d) == IsActive(s, d) /\ \A e \in Device : IsActive(s, e) => d <= e

\* transitionSessionStatus: nothing to do, or an expected and legal move.
CanMove(s, next, expected) ==
  \/ sess[s].status = next
  \/ sess[s].status \in expected /\ next \in Transitions[sess[s].status]
Move(s, next) == sess' = [sess EXCEPT ![s].status = next]

\* mapActiveSessionRow: a payload says `paused' of a paused row, unless the
\* session is starting or finishing.
ShownPaused(status, row) ==
  row.status = "paused" /\ status \notin {"preparing", "starting", "finishing"}

\* createDeviceCommand, with the state the row has after the request.
Enqueue(d, type, s, row, old) ==
  queue' = [queue EXCEPT ![d] = Append(@,
    [type |-> type, sess |-> s, rev |-> row.rev, app |-> row.app, prevApp |-> old.app,
     paused |-> ShownPaused(sess'[s].status, row),
     prevPaused |-> ShownPaused(sess[s].status, old),
     launch |-> row.status = "running", st |-> "created", done |-> FALSE])]

Init ==
  \E a \in App :
    /\ sess = [s \in Session |-> [status |-> "none", autoEnd |-> FALSE]]
    /\ sd = [p \in Session \X Device |->
               [status |-> "none", op |-> "idle", rev |-> 0, app |-> a, expired |-> FALSE]]
    /\ dev = [d \in Device |-> "online"]
    /\ queue = [d \in Device |-> <<>>]
    /\ agent = [d \in Device |-> [sess |-> None, paused |-> FALSE, rev |-> 0, app |-> a]]
    /\ hb = [d \in Device |-> [sess |-> None, paused |-> FALSE, rev |-> 0, app |-> a]]
    /\ used = [b \in Budget |-> 0]

-----------------------------------------------------------------------------
(* Requests of the operator, and the expiry timer.                         *)

\* Faulty: a headset that is being prepared counts as free.
FreeUnlessStarted(d) == \A s \in Session : sd[s, d].status \notin {"running", "paused"}
\* Preflight (active sessions) and the partial unique index (any session).
Free(d) == \A s \in Session : ~Holds(s, d)

CreateSession(s, D, a) ==
  /\ sess[s].status = "none"
  /\ \A t \in Session : t < s => sess[t].status # "none"
  /\ D # {} /\ \A d \in D : Free(d)
  /\ Move(s, "preparing")
  /\ sd' = [p \in Session \X Device |->
              IF p[1] = s /\ p[2] \in D
              THEN [status |-> "preparing", op |-> "start_pending", rev |-> 1,
                    app |-> a, expired |-> FALSE]
              ELSE sd[p]]
  /\ dev' = [d \in Device |-> IF d \in D THEN "busy" ELSE dev[d]]
  /\ queue' = [d \in Device |->
                 IF d \in D
                 THEN Append(queue[d],
                        [type |-> "START", sess |-> s, rev |-> 1, app |-> a, prevApp |-> a,
                         paused |-> FALSE, prevPaused |-> FALSE, launch |-> TRUE,
                         st |-> "created", done |-> FALSE])
                 ELSE queue[d]]
  /\ UNCHANGED <<agent, hb, used>>

\* The part that the requests on a running session share: the row takes the
\* request (status, operation, revision) and the command is queued.
Request(s, d, type, row) ==
  /\ LET new == [row EXCEPT !.op = OpOf(type), !.rev = @ + 1] IN
       /\ sd' = [sd EXCEPT ![<<s, d>>] = new]
       /\ Enqueue(d, type, s, new, sd[s, d])
  /\ UNCHANGED <<dev, agent, hb>>

PauseSession(s, d) ==
  /\ FirstActive(s, d)
  /\ sd[s, d].status = "running" /\ sd[s, d].op = "idle"
  /\ CanMove(s, "paused", {"running", "extended"})
  /\ Move(s, "paused")
  /\ Spend("request")
  /\ Request(s, d, "PAUSE", [sd[s, d] EXCEPT !.status = "paused"])

ResumeSession(s, d) ==
  /\ FirstActive(s, d)
  /\ sd[s, d].status = "paused" /\ sd[s, d].op \in {"idle", "pause_pending"}
  /\ CanMove(s, "running", {"paused", "extended"})
  /\ Move(s, "running")
  /\ Spend("request")
  /\ Request(s, d, "RESUME", [sd[s, d] EXCEPT !.status = "running"])

\* The minutes added may or may not bring back a remainder.
ExtendSession(s, d) ==
  /\ FirstActive(s, d)
  /\ sd[s, d].status \in {"running", "paused"} /\ sd[s, d].op = "idle"
  /\ CanMove(s, "extended", {"running", "paused", "extended"})
  /\ Move(s, "extended")
  /\ Spend("request")
  /\ \E e \in {FALSE, sd[s, d].expired} :
       Request(s, d, "EXTEND", [sd[s, d] EXCEPT !.expired = e])

SwitchSessionApp(s, d, a) ==
  /\ FirstActive(s, d)
  /\ sd[s, d].status \in {"running", "paused"} /\ sd[s, d].op = "idle"
  /\ UNCHANGED sess
  /\ Spend("request")
  /\ Request(s, d, "SWITCH", [sd[s, d] EXCEPT !.app = a])

\* Faulty: a stop may be repeated.
FinishAgain(s, d) ==
  /\ IsActive(s, d)
  /\ CanMove(s, "finishing", ActiveSession)
  /\ Move(s, "finishing")
  /\ Request(s, d, "END", sd[s, d])
  /\ UNCHANGED used
\* finishActiveSessionForDevice.  A session that is finishing already is left
\* alone, whichever headset made it so.
Finish(s, d) ==
  /\ IsActive(s, d)
  /\ sess[s].status # "finishing" /\ sd[s, d].op # "finish_pending"
  /\ CanMove(s, "finishing", ActiveSession)
  /\ Move(s, "finishing")
  /\ Request(s, d, "END", sd[s, d])
  /\ UNCHANGED used

TimeUp(s, d) ==
  /\ IsActive(s, d) /\ sd[s, d].status = "running" /\ ~sd[s, d].expired
  /\ sd' = [sd EXCEPT ![<<s, d>>].expired = TRUE]
  /\ UNCHANGED <<sess, dev, queue, agent, hb, used>>

\* Faulty: only sessions that were not extended run out.
ExpiresUnlessExtended(s, d) ==
  /\ sess[s].status = "running" /\ sd[s, d].status = "running"
  /\ FirstActive(s, d) /\ sd[s, d].expired
  /\ ~sess[s].autoEnd
\* The candidates of reconcileExpiredSessions: paused rows do not run out, and
\* of a session only its first headset is looked at.
Expires(s, d) ==
  /\ sess[s].status \in {"running", "extended"} /\ sd[s, d].status = "running"
  /\ FirstActive(s, d) /\ sd[s, d].expired
  /\ ~sess[s].autoEnd

ReconcileExpired(s, d) ==
  /\ Expires(s, d)
  /\ sess' = [sess EXCEPT ![s] = [status |-> "finishing", autoEnd |-> TRUE]]
  /\ IF sd[s, d].op = "finish_pending"
     THEN UNCHANGED <<sd, dev, queue, agent, hb, used>>
     ELSE Request(s, d, "END", sd[s, d]) /\ UNCHANGED used

-----------------------------------------------------------------------------
(* Results: applyCommandLifecycleSideEffects.                              *)

\* refreshSessionAggregate over the rows `rows' (next values).
Aggregate(s, rows) ==
  LET now == sess[s].status
      in == {rows[s, d].status : d \in {e \in Device : rows[s, e].status # "none"}}
      target == IF in = {"finished"} THEN "completed"
                ELSE IF in = {"failed"} THEN "failed"
                ELSE IF "running" \in in THEN "running"
                ELSE IF "paused" \in in
                  THEN IF "preparing" \in in THEN "running" ELSE "paused"
                ELSE IF "preparing" \in in THEN "starting"
                ELSE now
  IN IF now # "finishing" /\ target \in Transitions[now] THEN target ELSE now

\* Each operator gives the rows after the result of command c of headset d.
\* Faulty: the aggregate is not refreshed.
StartSucceededAlone(d, c) ==
  /\ sd' = IF sd[c.sess, d].op = "start_pending"
           THEN [sd EXCEPT ![<<c.sess, d>>].status = "running", ![<<c.sess, d>>].op = "idle",
                           ![<<c.sess, d>>].app = c.app] ELSE sd
  /\ dev' = [dev EXCEPT ![d] = "in_session"]
  /\ UNCHANGED sess
StartSucceeded(d, c) ==
  IF sd[c.sess, d].op = "start_pending"
  THEN /\ sd' = [sd EXCEPT ![<<c.sess, d>>].status = "running", ![<<c.sess, d>>].op = "idle",
                           ![<<c.sess, d>>].app = c.app]
       /\ Move(c.sess, Aggregate(c.sess, sd'))
       /\ dev' = [dev EXCEPT ![d] = "in_session"]
  ELSE UNCHANGED <<sess, sd, dev>>

\* Faulty: the aggregate is not refreshed.
StartFailedAlone(d, c) ==
  /\ sd' = IF sd[c.sess, d].op = "start_pending"
           THEN [sd EXCEPT ![<<c.sess, d>>].status = "failed", ![<<c.sess, d>>].op = "idle"] ELSE sd
  /\ dev' = [dev EXCEPT ![d] = "error"]
  /\ UNCHANGED sess
StartFailed(d, c) ==
  /\ sd' = IF sd[c.sess, d].op = "start_pending"
           THEN [sd EXCEPT ![<<c.sess, d>>].status = "failed", ![<<c.sess, d>>].op = "idle"] ELSE sd
  /\ Move(c.sess, Aggregate(c.sess, sd'))
  /\ dev' = [dev EXCEPT ![d] = "error"]

\* PAUSE, RESUME, EXTEND and SWITCH: the operation is over, if it is still on.
Confirmed(d, c) ==
  /\ sd' = IF sd[c.sess, d].op = OpOf(c.type)
           THEN [sd EXCEPT ![<<c.sess, d>>].op = "idle"] ELSE sd
  /\ dev' = IF c.type = "EXTEND" THEN dev ELSE [dev EXCEPT ![d] = "in_session"]
  /\ UNCHANGED sess

\* restoreSessionState: back to previous_session_state.
Restore(d, c) ==
  /\ IF sd[c.sess, d].op = OpOf(c.type)
     THEN /\ sd' = [sd EXCEPT ![<<c.sess, d>>].status = IF c.prevPaused THEN "paused" ELSE "running",
                              ![<<c.sess, d>>].op = "idle", ![<<c.sess, d>>].app = c.prevApp]
          /\ IF sess[c.sess].status \in TerminalSession \cup {"finishing"}
             THEN UNCHANGED sess
             ELSE Move(c.sess, IF c.prevPaused THEN "paused" ELSE "running")
     ELSE UNCHANGED <<sess, sd>>
  /\ UNCHANGED dev

ExtendFailed(d, c) ==
  /\ sd' = IF sd[c.sess, d].op = "extend_pending"
           THEN [sd EXCEPT ![<<c.sess, d>>].op = "reconciliation_required"] ELSE sd
  /\ UNCHANGED <<sess, dev>>

\* Faulty: the other headsets of the session are not looked at.
EndCompletesSession(d, c) ==
  /\ sd' = IF sd[c.sess, d].op = "finish_pending"
           THEN [sd EXCEPT ![<<c.sess, d>>].status = "finished", ![<<c.sess, d>>].op = "idle"] ELSE sd
  /\ dev' = [dev EXCEPT ![d] = "online"]
  /\ IF sess[c.sess].status = "finishing" THEN Move(c.sess, "completed") ELSE UNCHANGED sess
EndSucceeded(d, c) ==
  /\ sd' = IF sd[c.sess, d].op = "finish_pending"
           THEN [sd EXCEPT ![<<c.sess, d>>].status = "finished", ![<<c.sess, d>>].op = "idle"] ELSE sd
  /\ dev' = [dev EXCEPT ![d] = "online"]
  /\ IF sess[c.sess].status = "finishing" /\ \A e \in Device : sd'[c.sess, e].status \notin ActiveRow
     THEN Move(c.sess, "completed")
     ELSE UNCHANGED sess

\* Faulty: the session waits for a cleanup that failed.
EndFailedAlone(d, c) ==
  /\ sd' = IF sd[c.sess, d].op = "finish_pending"
           THEN [sd EXCEPT ![<<c.sess, d>>].status = "failed"] ELSE sd
  /\ dev' = [dev EXCEPT ![d] = "error"]
  /\ UNCHANGED sess
\* (operation_state stays finish_pending on the failed row.)
EndFailed(d, c) ==
  IF sd[c.sess, d].op = "finish_pending"
  THEN /\ sd' = [sd EXCEPT ![<<c.sess, d>>].status = "failed"]
       /\ dev' = [dev EXCEPT ![d] = "error"]
       /\ IF sess[c.sess].status = "finishing" THEN Move(c.sess, "failed") ELSE UNCHANGED sess
  ELSE UNCHANGED <<sess, sd, dev>>

Succeeded(d, c) ==
  \/ c.type = "START" /\ StartSucceeded(d, c)
  \/ c.type \in {"PAUSE", "RESUME", "EXTEND", "SWITCH"} /\ Confirmed(d, c)
  \/ c.type = "END" /\ EndSucceeded(d, c)

\* failed and cancelled have the same consequences.
Failed(d, c) ==
  \/ c.type = "START" /\ StartFailed(d, c)
  \/ c.type \in {"PAUSE", "RESUME", "SWITCH"} /\ Restore(d, c)
  \/ c.type = "EXTEND" /\ ExtendFailed(d, c)
  \/ c.type = "END" /\ EndFailed(d, c)

-----------------------------------------------------------------------------
(* The Hub's run of the oldest command of a headset.                       *)

Current(d) == Head(queue[d])
Busy(d) == queue[d] # <<>>
SetCurrent(d, c) == queue' = [queue EXCEPT ![d] = <<c>> \o Tail(@)]
Drop(d) == queue' = [queue EXCEPT ![d] = Tail(@)]

\* The Cloud hands the command out once everything older is settled.
Claim(d) ==
  /\ Busy(d) /\ Current(d).st = "created"
  /\ SetCurrent(d, [Current(d) EXCEPT !.st = "accepted"])
  /\ UNCHANGED <<sess, sd, dev, agent, hb, used>>

\* The report of `running'; it may also arrive after the Hub gave it up.
Announce(d) ==
  /\ Busy(d) /\ Current(d).st \in {"accepted", "silent"}
  /\ SetCurrent(d, [Current(d) EXCEPT !.st = "running"])
  /\ IF Current(d).type = "START" /\ sess[Current(d).sess].status = "preparing"
     THEN Move(Current(d).sess, "starting")
     ELSE UNCHANGED sess
  /\ UNCHANGED <<sd, dev, agent, hb, used>>

\* The report is lost and the Hub goes on without it.
AnnounceLost(d) ==
  /\ Busy(d) /\ Current(d).st = "accepted"
  /\ Spend("lost")
  /\ SetCurrent(d, [Current(d) EXCEPT !.st = "silent"])
  /\ UNCHANGED <<sess, sd, dev, agent, hb>>

\* No session (the rest is of no consequence then).
Out(a) == [a EXCEPT !.sess = None, !.paused = FALSE, !.rev = 0]

\* Faulty: START is ignored during any session.
IgnoresStart(c, a) ==
  CASE c.type = "START" /\ a.sess # None -> a
    [] c.type = "END" -> Out(a)
    [] OTHER -> [sess |-> c.sess, paused |-> c.paused, rev |-> c.rev, app |-> c.app]
\* What the intent of a command makes of the Agent: the session it plays, whether
\* or not it keeps the id to say so (see AgentHeartbeat).
AfterIntent(c, a) ==
  CASE c.type = "START" /\ a.sess = c.sess -> a
    [] c.type = "END" -> Out(a)
    [] OTHER -> [sess |-> c.sess, paused |-> c.paused, rev |-> c.rev, app |-> c.app]

Underway(c) == c.st \in {"running", "silent", "ghost"}

RunCommand(d) ==
  /\ Busy(d) /\ Underway(Current(d)) /\ ~Current(d).done
  /\ agent' = [agent EXCEPT ![d] = AfterIntent(Current(d), agent[d])]
  /\ SetCurrent(d, [Current(d) EXCEPT !.done = TRUE])
  /\ UNCHANGED <<sess, sd, dev, hb, used>>

\* Faulty: success does not wait for the confirmation.
SucceedsUnconfirmed(d) ==
  /\ Busy(d) /\ Current(d).st \in {"running", "silent"}
  /\ Succeeded(d, Current(d))
  /\ Drop(d)
  /\ UNCHANGED <<agent, hb, used>>
CommandSucceeds(d) ==
  /\ Busy(d) /\ Current(d).st \in {"running", "silent"} /\ Current(d).done
  /\ Succeeded(d, Current(d))
  /\ Drop(d)
  /\ UNCHANGED <<agent, hb, used>>

\* A failure after the intent: the application was not seen in front, or the
\* cleanup not confirmed.
MayFail(c) == c.done => \/ c.type \in {"START", "RESUME", "END"}
                        \/ c.type = "SWITCH" /\ c.launch
CommandFails(d) ==
  /\ Busy(d) /\ Current(d).st \in {"running", "silent"} /\ MayFail(Current(d))
  /\ Failed(d, Current(d))
  /\ Drop(d)
  /\ UNCHANGED <<agent, hb, used>>

\* A timeout with unknown outcome: only an event, and a barrier for the queue.
OutcomeUnknown(d) ==
  /\ Busy(d) /\ Current(d).st \in {"running", "silent"}
  /\ Spend("unknown")
  /\ SetCurrent(d, [Current(d) EXCEPT !.st = "unknown"])
  /\ UNCHANGED <<sess, sd, dev, agent, hb>>

Removed(q, i) == SubSeq(q, 1, i - 1) \o SubSeq(q, i + 1, Len(q))
\* Faulty: only the command's row is changed.
CancelQuietly(d, i) ==
  /\ i \in DOMAIN queue[d]
  /\ queue[d][i].st \in {"created", "accepted", "silent"}
  /\ Spend("cancel")
  /\ queue' = [queue EXCEPT ![d] = IF @[i].st = "created" THEN Removed(@, i)
                                   ELSE [@ EXCEPT ![i].st = "ghost"]]
  /\ UNCHANGED <<sess, sd, dev, agent, hb>>
\* cancelDeviceCommand, before `running'.  What the Hub already has, it runs.
CancelDeviceCommand(d, i) ==
  /\ i \in DOMAIN queue[d]
  /\ queue[d][i].st \in {"created", "accepted", "silent"}
  /\ Spend("cancel")
  /\ Failed(d, queue[d][i])
  /\ queue' = [queue EXCEPT ![d] = IF @[i].st = "created" THEN Removed(@, i)
                                   ELSE [@ EXCEPT ![i].st = "ghost"]]
  /\ UNCHANGED <<agent, hb>>

\* The Hub is done with a cancelled command; its report is refused.
GhostDone(d) ==
  /\ Busy(d) /\ Current(d).st = "ghost"
  /\ Drop(d)
  /\ UNCHANGED <<sess, sd, dev, agent, hb, used>>

-----------------------------------------------------------------------------
(* Heartbeats and telemetry.                                               *)

\* The Hub keeps the latest heartbeat and repeats it in every sync.  It may come
\* without the session's id: SESSION_ID is sent as an int and read as a long,
\* and transitionTo does not keep it.
AgentHeartbeat(d) ==
  /\ \E h \in {agent[d], Out(agent[d])} :
       /\ hb[d] # h
       /\ hb' = [hb EXCEPT ![d] = h]
  /\ UNCHANGED <<sess, sd, dev, queue, agent, used>>

\* endSessionAutomatically: the Agent's clock is not the Cloud's.
AgentTimeUp(d) ==
  /\ agent[d].sess # None /\ ~agent[d].paused
  /\ agent' = [agent EXCEPT ![d] = Out(@)]
  /\ UNCHANGED <<sess, sd, dev, queue, hb, used>>

\* Faulty: the revision of the heartbeat is not compared.
SameSession(h, s, d) == h.sess = s
\* The heartbeat speaks of this session, as of its latest request.
UpToDate(h, s, d) == h.sess = s /\ h.rev >= sd[s, d].rev

\* reconcileSessionFromHeartbeat and the devices row.  One that was accepted
\* is not accepted again (last_agent_timestamp_ms); it is forgotten here.
ReconcileRunning(s, d) ==
  IF sd[s, d].op # "finish_pending"
  THEN /\ sd' = [sd EXCEPT ![<<s, d>>].status = "running", ![<<s, d>>].op = "idle"]
       /\ IF sess[s].status = "starting" THEN Move(s, "running") ELSE UNCHANGED sess
  ELSE UNCHANGED <<sess, sd>>
ReconcilePaused(s, d) ==
  IF sd[s, d].status = "running" /\ sd[s, d].op # "finish_pending"
  THEN /\ sd' = [sd EXCEPT ![<<s, d>>].status = "paused", ![<<s, d>>].op = "idle"]
       /\ Move(s, "paused")
  ELSE UNCHANGED <<sess, sd>>

CloudHeartbeat(s, d) ==
  /\ IsActive(s, d)
  /\ UpToDate(hb[d], s, d)
  /\ LET matches == hb[d].app = sd[s, d].app IN
       /\ \/ /\ matches /\ ~hb[d].paused /\ sess[s].status \in {"starting", "running", "extended"}
             /\ ReconcileRunning(s, d)
          \/ /\ matches /\ hb[d].paused /\ sess[s].status \in {"running", "extended", "paused"}
             /\ ReconcilePaused(s, d)
          \/ /\ ~matches \/ sess[s].status \notin (IF hb[d].paused
                               THEN {"running", "extended", "paused"}
                               ELSE {"starting", "running", "extended"})
             /\ UNCHANGED <<sess, sd>>
       /\ dev' = IF matches /\ sess[s].status # "finishing"
                 THEN [dev EXCEPT ![d] = "in_session"] ELSE dev
  /\ hb' = [hb EXCEPT ![d] = Out(@)]
  /\ UNCHANGED <<queue, agent, used>>

\* The device details of a sync: a headset that is not in use is in reach, or
\* not; `online' stands for both.
Telemetry(d) ==
  /\ dev[d] \notin {"online", "busy", "in_session"}
  /\ dev' = [dev EXCEPT ![d] = "online"]
  /\ UNCHANGED <<sess, sd, queue, agent, hb, used>>

-----------------------------------------------------------------------------
Operator(s, d) == \/ PauseSession(s, d) \/ ResumeSession(s, d) \/ ExtendSession(s, d)
                  \/ Finish(s, d)
                  \/ \E a \in App : SwitchSessionApp(s, d, a)
HubStep(d) == \/ Claim(d) \/ Announce(d) \/ RunCommand(d)
              \/ CommandSucceeds(d) \/ CommandFails(d) \/ GhostDone(d)
Next ==
  \/ \E s \in Session, D \in SUBSET Device, a \in App : CreateSession(s, D, a)
  \/ \E s \in Session, d \in Device :
       Operator(s, d) \/ TimeUp(s, d) \/ ReconcileExpired(s, d) \/ CloudHeartbeat(s, d)
  \/ \E d \in Device : \/ HubStep(d) \/ AnnounceLost(d) \/ OutcomeUnknown(d)
                       \/ AgentHeartbeat(d) \/ AgentTimeUp(d) \/ Telemetry(d)
                       \/ \E i \in 1..Len(queue[d]) : CancelDeviceCommand(d, i)

Spec == Init /\ [][Next]_vars

\* The Hub polls and works its queue off; the expiry timer runs every 5 s.
Fairness ==
  /\ \A d \in Device : WF_vars(HubStep(d))
  /\ \A s \in Session, d \in Device : WF_vars(ReconcileExpired(s, d))
FairSpec == Spec /\ Fairness

-----------------------------------------------------------------------------
TypeOK ==
  /\ sess \in [Session -> SessionRow]
  /\ sd \in [Session \X Device -> DeviceRow]
  /\ dev \in [Device -> {"online", "busy", "in_session", "error"}]
  /\ \A d \in Device : queue[d] \in Seq(Command)
  /\ agent \in [Device -> AgentState]
  /\ hb \in [Device -> AgentState]

InQueue(d, s, type) == \E i \in DOMAIN queue[d] :
                         queue[d][i].sess = s /\ queue[d][i].type = type /\ queue[d][i].st # "ghost"

\* No headset is in two sessions: no result, restored state or heartbeat makes a
\* row active again whose headset has been given away.
OneSession == \A s, t \in Session, d \in Device : Holds(s, d) /\ Holds(t, d) => s = t

\* A row that waits for an operation waits for a command that can still settle
\* it: no order of results, cancellations and heartbeats leaves the operator
\* with an operation that is pending for ever (operation_state).
PendingHasCommand == \A s \in Session, d \in Device :
  Holds(s, d) /\ sd[s, d].op \in PendingOp =>
    \E type \in CommandType : OpOf(type) = sd[s, d].op /\ InQueue(d, s, type)

\* What a session's status says of the row of its only headset.  (A session
\* whose START was not seen running stays `preparing': see AggregateRuns.)
RowStatus == [preparing |-> {"preparing", "running"}, starting |-> {"preparing"},
              running |-> {"running"}, paused |-> {"paused"},
              extended |-> {"running", "paused"}, finishing |-> ActiveRow,
              completed |-> {"finished"}, failed |-> {"failed"}, none |-> {"none"}]
StatusesAgree == \A s \in Session : \E d \in Device : sd[s, d].status \in RowStatus[sess[s].status]

\* Once a session is being ended no late result, heartbeat or retry takes it
\* back, and an ended session is never resurrected (part of SessionContract).
Irrevocable == \A s \in Session :
  /\ sess[s].status = "finishing" => sess'[s].status \in {"finishing"} \cup TerminalSession
  /\ sess[s].status \in TerminalSession => sess'[s].status = sess[s].status
StopIsIrrevocable == [][Irrevocable]_vars

\* A headset whose row is on in a session, its START settled, is not in another
\* session: what a cancelled or failed session left behind is taken over.
HeadsetServesItsSession == \A s \in Session, d \in Device :
  sd[s, d].status \in {"running", "paused"} /\ ~InQueue(d, s, "START") =>
    agent[d].sess \in {s, None}

\* A completed session is over on the headset, too.
CompletedIsClean == \A s \in Session, d \in Device :
  sess[s].status = "completed" => agent[d].sess # s

\* A pause the headset has confirmed holds until the operator resumes or ends
\* it: no heartbeat taken earlier and no late result takes it back.
PauseConfirmed(s, d) == sd[s, d].status = "paused" /\ sd[s, d].op = "idle" /\ queue[d] = <<>>
PauseHolds == [][\A s \in Session, d \in Device :
  PauseConfirmed(s, d) /\ sd'[s, d].status # "paused" => sd'[s, d].op = "resume_pending"]_vars

\* Ending ends: a stop requested is confirmed or known to have failed, unless a
\* command before it, or the END itself, has an outcome nobody knows (holds for
\* sessions of one headset only).
Stuck(d) == \E i \in DOMAIN queue[d] : queue[d][i].st = "unknown"
EndingEnds == \A s \in Session :
  sess[s].status = "finishing" ~>
    sess[s].status \in TerminalSession \/ \E d \in Device : Stuck(d)

\* A player whose time is up leaves the session, whatever request is on the way
\* then and however it ends (the expiry timer queues the END behind it): unless
\* the operator adds time or pauses, a command has an outcome nobody knows, or
\* a lost report has left the session where the timer does not look.
ExpiredEnds == \A s \in Session, d \in Device :
  sd[s, d].status = "running" /\ sd[s, d].expired ~>
    \/ sd[s, d].status # "running" \/ ~sd[s, d].expired
    \/ Stuck(d)
    \/ used["lost"] > 0 /\ sess[s].status = "preparing"

\* docs/session-reliability.md: the aggregate is running as soon as one player
\* runs (refreshSessionAggregate).
AggregateRuns == \A s \in Session, d \in Device :
  sd[s, d].status = "running" => sess[s].status \notin {"preparing", "starting"}

\* ... which holds as long as no report of `running' is lost: every way from
\* preparing to running leads through the report that moves to starting.
AggregateRunsIfReported == used["lost"] = 0 => AggregateRuns

\* A headset whose stop was confirmed is out of the session, and stays out:
\* nothing queued, cancelled or retried takes it back, whatever becomes of the
\* other headsets of the session.
FinishedIsClean == \A s \in Session, d \in Device :
  sd[s, d].status = "finished" => agent[d].sess # s

\* A session that is not being ended has a headset: when the last one has failed
\* the session has too (refreshSessionAggregate), so that no session without
\* a player waits to be stopped (an invariant of SessionContract).
OpenHasHeadset == \A s \in Session :
  sess[s].status \in ActiveSession \ {"finishing"} => \E d \in Device : Holds(s, d)

-----------------------------------------------------------------------------
(* What the rows say in the terms of SessionContract.                      *)
PhaseOf(s) == IF sess[s].status \in {"none", "completed", "failed"} THEN sess[s].status
              ELSE IF sess[s].status = "finishing" THEN "ending" ELSE "open"
SeatOf(s, d) == IF Holds(s, d) THEN "in"
                ELSE IF sd[s, d].status = "none" THEN "never" ELSE sd[s, d].status
Contract == INSTANCE SessionContract WITH
  phase <- [s \in Session |-> PhaseOf(s)],
  seat <- [p \in Session \X Device |-> SeatOf(p[1], p[2])]

\* Whatever happens to its commands, a headset is in one session at a time and
\* leaves it for good; only a confirmed end of the last one completes it.
ImplementsSessionContract == Contract!ContractSpec
=============================================================================
