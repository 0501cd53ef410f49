------------------------ MODULE AdbSupervisorProofs ------------------------
(***************************************************************************)
(* Proofs about AdbSupervisor for every set of addresses and every bound:  *)
(* types, a state in flight has a flight that will clear it, a command     *)
(* that must not be repeated takes effect once, and a reported success did *)
(* something.                                                              *)
(***************************************************************************)
EXTENDS AdbSupervisor, SequenceTheorems, TLAPS

-----------------------------------------------------------------------------
(* The invariant.  Addresses play no part in it, so that the fields that   *)
(* hold them may have any value.                                           *)

SupOK(S) ==
  S \in [there: BOOLEAN,
         status: {"idle", "reconnecting", "online", "failed", "unauthorized", "different_device"},
         inFlight: BOOLEAN, wait: BOOLEAN, in: {S.in}]
FlightOK(F) ==
  F \in [pc: {"none", "check", "disconnect", "connect", "verify", "drop_wrong", "drop_late"},
         cur: BOOLEAN, newer: BOOLEAN, ip: {F.ip}, todo: {F.todo}, old: {F.old}, init: {F.init}]

\* A second run is only begun when that is safe, each run does its work at
\* most once, and success ends the command.
CommandOK(c) ==
  /\ c \in Command
  /\ c.attempt = 1 => Safe
  /\ c.effects <= c.attempt + 1
  /\ c.ok => c.pc = "done" /\ c.effects > c.attempt

\* What InFlightIsReal says, of the states and flights between two steps.
Real(S, F) == S.inFlight => F.pc # "none" /\ F.cur /\ S.there

Inv == SupOK(sup) /\ FlightOK(flight) /\ CommandOK(cmd) /\ Real(sup, flight)

-----------------------------------------------------------------------------
(* The parts that steps are made of.                                       *)

\* An answer ends a command, or begins the second run of one that is safe.
LEMMA AnsweredOK ==
  ASSUME NEW c, CommandOK(c), NEW status
  PROVE  CommandOK(Answered(c, status))
<1>1. CASE c.pc = "reconnect"
  BY <1>1 DEF CommandOK, Command, Answered
<1>2. CASE c.pc = "recover"
  <2>1. CASE status = "online" /\ Safe
    <3> DEFINE again == [c EXCEPT !.pc = "resolve", !.attempt = 1]
    <3>1. Answered(c, status) = again
      BY <1>2, <2>1 DEF Answered, Retryable
    <3>2. 1 \in 0..1
      OBVIOUS
    <3>3. again \in Command
      BY <3>2 DEF CommandOK, Command
    <3>4. again.attempt = 1 /\ again.effects \in 0..2
      BY DEF CommandOK, Command
    <3>5. again.ok = c.ok /\ ~c.ok
      BY <1>2 DEF CommandOK, Command
    <3> HIDE DEF again
    <3> QED
      BY <2>1, <3>1, <3>3, <3>4, <3>5 DEF CommandOK
  <2>2. CASE ~(status = "online" /\ Safe)
    <3>1. Answered(c, status) = [c EXCEPT !.pc = "done"]
      BY <1>2, <2>2 DEF Answered, Retryable
    <3> QED
      BY <1>2, <3>1 DEF CommandOK, Command
  <2> QED
    BY <2>1, <2>2
<1>3. CASE c.pc \notin {"reconnect", "recover"}
  BY <1>3 DEF Answered
<1> QED
  BY <1>1, <1>2, <1>3

\* The end of a flight: one that is current, or that has not begun, clears
\* the mark; a cancelled one finds it cleared.
LEMMA FinishInv ==
  ASSUME Inv, NEW S, SupOK(S), Flying /\ ~flight.cur => ~S.inFlight,
         NEW c, CommandOK(c), NEW backoff \in BOOLEAN,
         NEW status \in {"failed", "unauthorized", "different_device", "idle", "reconnecting",
                         "online"},
         Finish(S, status, backoff, c)
  PROVE  Inv'
<1>1. SupOK(sup') /\ ~sup'.inFlight
  BY DEF Finish, Inv, SupOK, FlightOK
<1>2. FlightOK(flight')
  BY DEF Finish, FlightOK, NoFlight
<1>3. CommandOK(cmd')
  BY AnsweredOK DEF Finish
<1> QED
  BY <1>1, <1>2, <1>3 DEF Inv, Real

\* A pass: its flight goes on with the mark it has, or ends.
LEMMA PassInv ==
  ASSUME Inv, NEW S, SupOK(S), Flying /\ ~flight.cur => ~S.inFlight,
         NEW F, FlightOK(F), S.inFlight => F.cur,
         NEW c, CommandOK(c), Pass(S, F, c)
  PROVE  Inv'
<1> DEFINE in == IF S.in = <<None, None>> THEN F.init ELSE S.in
           todo == Candidates(IF in[1] = None THEN KnownIp ELSE in[1], in[2])
           T == [S EXCEPT !.there = TRUE]
<1>1. CASE todo = <<>>
  <2>1. SupOK(T) /\ T.inFlight = S.inFlight
    BY DEF SupOK
  <2>2. Finish(T, "failed", TRUE, c)
    BY <1>1 DEF Pass
  <2> QED
    BY <2>1, <2>2, FinishInv
<1>2. CASE todo # <<>>
  <2>1. /\ flight' = [F EXCEPT !.pc = "check", !.newer = FALSE, !.ip = Head(todo),
                               !.todo = Tail(todo), !.old = in[1]]
        /\ sup' = [S EXCEPT !.there = TRUE, !.status = "reconnecting"]
        /\ cmd' = c
    BY <1>2 DEF Pass
  <2>2. FlightOK(flight') /\ flight'.pc = "check" /\ flight'.cur = F.cur
    BY <2>1 DEF FlightOK
  <2>3. SupOK(sup') /\ sup'.there /\ sup'.inFlight = S.inFlight
    BY <2>1 DEF SupOK
  <2> QED
    BY <2>1, <2>2, <2>3 DEF Inv, Real
<1> QED
  BY <1>1, <1>2

\* A new route input.
LEMMA MarkedOK ==
  ASSUME Inv, NEW ip, NEW h
  PROVE  /\ SupOK(Marked(ip, h)) /\ Marked(ip, h).inFlight = sup.inFlight
         /\ Marked(ip, h).there
         /\ FlightOK(Newer(ip, h)) /\ Newer(ip, h).pc = flight.pc
         /\ Newer(ip, h).cur = flight.cur
<1>1. SupOK(Marked(ip, h)) /\ Marked(ip, h).inFlight = sup.inFlight /\ Marked(ip, h).there
  BY DEF Inv, SupOK, Marked
<1>2. (Flying /\ (flight.newer \/ sup.in # <<ip, h>>)) \in BOOLEAN
  OBVIOUS
<1>3. FlightOK(Newer(ip, h)) /\ Newer(ip, h).pc = flight.pc /\ Newer(ip, h).cur = flight.cur
  BY <1>2 DEF Inv, FlightOK, Newer
<1> QED
  BY <1>1, <1>3

\* A flight is joined, or a new one is marked and begun.
LEMMA StartReconnectInv ==
  ASSUME Inv, NEW ip, NEW h, NEW c, CommandOK(c), StartReconnect(ip, h, c)
  PROVE  Inv'
<1>1. CASE Flying
  <2>1. sup' = Marked(ip, h) /\ flight' = Newer(ip, h) /\ cmd' = c
    BY <1>1 DEF StartReconnect
  <2> QED
    BY <2>1, MarkedOK DEF Inv, Real
<1>2. CASE ~Flying
  <2> DEFINE S == [Marked(ip, h) EXCEPT !.inFlight = TRUE]
             F == [NoFlight EXCEPT !.cur = TRUE, !.init = <<ip, h>>]
  <2>1. SupOK(S)
    BY MarkedOK DEF SupOK
  <2>2. FlightOK(F) /\ F.cur
    BY DEF FlightOK, NoFlight
  <2>3. Pass(S, F, c)
    BY <1>2 DEF StartReconnect
  <2> QED
    BY <1>2, <2>1, <2>2, <2>3, PassInv
<1> QED
  BY <1>1, <1>2

\* What a refresh or the sync has seen.
LEMMA TickInv ==
  ASSUME Inv, NEW saw, NEW ip, NEW h, Tick(saw, ip, h)
  PROVE  Inv'
<1> DEFINE S == Marked(ip, h)
<1>0. SupOK(S) /\ FlightOK(Newer(ip, h)) /\ S.inFlight = sup.inFlight /\ S.there
      /\ Newer(ip, h).pc = flight.pc /\ Newer(ip, h).cur = flight.cur
  BY MarkedOK
<1>1. CASE /\ sup' = [S EXCEPT !.status = "online", !.inFlight = FALSE, !.wait = TRUE]
           /\ flight' = [Newer(ip, h) EXCEPT !.cur = @ /\ ~sup.inFlight]
           /\ UNCHANGED cmd
  <2>1. SupOK(sup') /\ ~sup'.inFlight
    BY <1>0, <1>1 DEF SupOK
  <2>2. FlightOK(flight')
    BY <1>0, <1>1 DEF FlightOK
  <2> QED
    BY <1>1, <2>1, <2>2 DEF Inv, Real
<1>2. CASE /\ sup' = [S EXCEPT !.status = "unauthorized", !.inFlight = FALSE, !.wait = FALSE]
           /\ flight' = Newer(ip, h) /\ UNCHANGED cmd
  <2>1. SupOK(sup') /\ ~sup'.inFlight
    BY <1>0, <1>2 DEF SupOK
  <2> QED
    BY <1>0, <1>2, <2>1 DEF Inv, Real
<1>3. CASE sup' = S /\ flight' = Newer(ip, h) /\ UNCHANGED cmd
  BY <1>0, <1>3 DEF Inv, Real
<1>4. CASE StartReconnect(ip, h, cmd)
  BY <1>4, StartReconnectInv DEF Inv
<1> QED
  BY <1>1, <1>2, <1>3, <1>4 DEF Tick

\* The next candidate, another pass, or the end.
LEMMA NextCandidateInv ==
  ASSUME Inv, Flying, NEW S, SupOK(S), S.inFlight = sup.inFlight, NextCandidate(S)
  PROVE  Inv'
<1>1. S.inFlight => flight.cur
  BY DEF Inv, Real
<1>2. CASE flight.todo # <<>>
  <2>1. /\ flight' = [flight EXCEPT !.pc = "check", !.ip = Head(flight.todo), !.todo = Tail(@)]
        /\ sup' = [S EXCEPT !.there = TRUE, !.status = "reconnecting"]
        /\ UNCHANGED cmd
    BY <1>2 DEF NextCandidate
  <2>2. FlightOK(flight') /\ flight'.pc = "check" /\ flight'.cur = flight.cur
    BY <2>1 DEF Inv, FlightOK
  <2>3. SupOK(sup') /\ sup'.there /\ sup'.inFlight = S.inFlight
    BY <2>1 DEF SupOK
  <2> QED
    BY <1>1, <2>1, <2>2, <2>3 DEF Inv, Real
<1>3. CASE Pass(S, flight, cmd)
  BY <1>1, <1>3, PassInv DEF Inv, SupOK
<1>4. CASE Finish(S, S.status, TRUE, cmd)
  <2>1. S.status \in {"failed", "unauthorized", "different_device", "idle", "reconnecting", "online"}
    BY DEF SupOK
  <2> QED
    BY <1>1, <1>4, <2>1, FinishInv DEF Inv
<1> QED
  BY <1>2, <1>3, <1>4 DEF NextCandidate

\* A step that leaves supervisor, flight and command alone.
LEMMA KeepsInv ==
  ASSUME Inv, UNCHANGED <<sup, flight, cmd>>
  PROVE  Inv'
BY DEF Inv

\* A step of the command alone.
LEMMA CommandInv ==
  ASSUME Inv, UNCHANGED <<sup, flight>>, CommandOK(cmd')
  PROVE  Inv'
BY DEF Inv

-----------------------------------------------------------------------------
(* The steps.                                                              *)

\* At an await that is looked after, the flight is current.
LEMMA FlightStepInv ==
  ASSUME Inv, FlightStep
  PROVE  Inv'
<1>1. CASE Stale
  <2>1. ~sup.inFlight
    BY <1>1 DEF Stale, Inv, Real
  <2>2. FlightOK(flight')
    BY <1>1 DEF Stale, FlightOK, NoFlight
  <2>3. CommandOK(cmd')
    BY <1>1, AnsweredOK DEF Stale, Inv
  <2> QED
    BY <1>1, <2>1, <2>2, <2>3 DEF Stale, Inv, Real
<1>2. CASE PortChecked
  <2>1. Flying
    BY <1>2 DEF PortChecked, AtAwait, Flying
  <2>2. CASE /\ flight' = [flight EXCEPT !.pc = IF flight.old \notin {None, flight.ip}
                                               THEN "disconnect" ELSE "connect"]
             /\ UNCHANGED <<sup, cmd>>
    <3>1. FlightOK(flight') /\ flight'.cur = flight.cur /\ flight'.pc # "none"
      BY <2>2 DEF Inv, FlightOK
    <3> QED
      BY <2>2, <3>1 DEF Inv, Real
  <2>3. CASE NextCandidate([sup EXCEPT !.status = "failed"])
    <3> DEFINE S == [sup EXCEPT !.status = "failed"]
    <3>1. SupOK(S) /\ S.inFlight = sup.inFlight
      BY DEF Inv, SupOK
    <3> QED
      BY <2>1, <2>3, <3>1, NextCandidateInv
  <2> QED
    BY <1>2, <2>2, <2>3 DEF PortChecked
<1>3. CASE OldDisconnected
  <2>1. FlightOK(flight') /\ flight'.cur = flight.cur /\ flight'.pc # "none"
    BY <1>3 DEF OldDisconnected, Inv, FlightOK
  <2> QED
    BY <1>3, <2>1 DEF OldDisconnected, Inv, Real
<1>4. CASE Connected
  <2>1. Flying
    BY <1>4 DEF Connected, AtAwait, Flying
  <2>2. CASE flight' = [flight EXCEPT !.pc = "verify"] /\ UNCHANGED <<sup, cmd>>
    <3>1. FlightOK(flight') /\ flight'.cur = flight.cur /\ flight'.pc # "none"
      BY <2>2 DEF Inv, FlightOK
    <3> QED
      BY <2>2, <3>1 DEF Inv, Real
  <2>3. CASE Finish(sup, "unauthorized", FALSE, cmd)
    BY <2>3, FinishInv DEF Inv, Real
  <2>4. CASE NextCandidate([sup EXCEPT !.status = "failed"])
    <3> DEFINE S == [sup EXCEPT !.status = "failed"]
    <3>1. SupOK(S) /\ S.inFlight = sup.inFlight
      BY DEF Inv, SupOK
    <3> QED
      BY <2>1, <2>4, <3>1, NextCandidateInv
  <2> QED
    BY <1>4, <2>2, <2>3, <2>4 DEF Connected
<1>5. CASE Verified
  <2>1. CASE /\ sup' = [sup EXCEPT !.status = "online", !.inFlight = FALSE, !.wait = TRUE]
             /\ flight' = NoFlight /\ cmd' = Answered(cmd, "online")
    <3>1. SupOK(sup') /\ ~sup'.inFlight
      BY <2>1 DEF Inv, SupOK
    <3>2. FlightOK(flight')
      BY <2>1 DEF FlightOK, NoFlight
    <3>3. CommandOK(cmd')
      BY <2>1, AnsweredOK DEF Inv
    <3> QED
      BY <3>1, <3>2, <3>3 DEF Inv, Real
  <2>2. CASE /\ \/ flight' = [flight EXCEPT !.pc = "drop_late"]
                \/ flight' = [flight EXCEPT !.pc = "drop_wrong"]
             /\ UNCHANGED <<sup, cmd>>
    <3>1. FlightOK(flight') /\ flight'.cur = flight.cur /\ flight'.pc # "none"
      BY <2>2 DEF Inv, FlightOK
    <3> QED
      BY <2>2, <3>1 DEF Inv, Real
  <2> QED
    BY <1>5, <2>1, <2>2 DEF Verified
<1>6. CASE Dropped
  <2> DEFINE S == [sup EXCEPT !.there = TRUE, !.status = "different_device"]
  <2>1. SupOK(S) /\ S.inFlight = sup.inFlight /\ SupOK(sup)
    BY DEF Inv, SupOK
  <2>2. Flying
    BY <1>6 DEF Dropped, Flying
  <2>3. NextCandidate(S) \/ NextCandidate(sup)
    BY <1>6 DEF Dropped
  <2> QED
    BY <2>1, <2>2, <2>3, NextCandidateInv
<1> QED
  BY <1>1, <1>2, <1>3, <1>4, <1>5, <1>6 DEF FlightStep

\* A transport failure: recovery, unless this was the second run.
LEMMA FailsInv ==
  ASSUME Inv, NEW c, CommandOK(c), ~c.ok, Fails(c)
  PROVE  Inv'
<1>1. CASE c.attempt = 1
  <2>1. CommandOK([c EXCEPT !.pc = "done"])
    BY DEF CommandOK, Command
  <2> QED
    BY <1>1, <2>1, CommandInv DEF Fails
<1>2. CASE c.attempt # 1
  <2>1. CommandOK([c EXCEPT !.pc = "recover"])
    BY DEF CommandOK, Command
  <2> QED
    BY <1>2, <2>1, StartReconnectInv DEF Fails
<1> QED
  BY <1>1, <1>2

\* A command: it acts once per run, and succeeds only if it has acted.
LEMMA CommandStepInv ==
  ASSUME Inv, CommandStep
  PROVE  Inv'
<1>0. CommandOK(cmd) /\ cmd.ok \in BOOLEAN
  BY DEF Inv, CommandOK, Command
<1>1. CASE Issue
  <2>1. CommandOK(cmd')
    BY <1>0, <1>1 DEF Issue, CommandOK, Command
  <2> QED
    BY <1>1, <2>1, CommandInv DEF Issue
<1>2. CASE Resolve
  <2>1. /\ CommandOK([cmd EXCEPT !.pc = "health"])
        /\ CommandOK([cmd EXCEPT !.pc = "reconnect"])
        /\ CommandOK([cmd EXCEPT !.pc = "done"])
    BY <1>0, <1>2 DEF Resolve, CommandOK, Command
  <2> QED
    BY <1>2, <2>1, CommandInv, StartReconnectInv DEF Resolve
<1>3. CASE Confirm
  <2>1. CommandOK(cmd')
    BY <1>0, <1>3 DEF Confirm, CommandOK, Command
  <2> QED
    BY <1>3, <2>1, CommandInv DEF Confirm
<1>4. CASE Healthy
  <2>1. CommandOK([cmd EXCEPT !.pc = "run"]) /\ ~cmd.ok
    BY <1>0, <1>4 DEF Healthy, CommandOK, Command
  <2> QED
    BY <1>0, <1>4, <2>1, CommandInv, FailsInv DEF Healthy
<1>5. CASE TakesEffect
  <2> DEFINE acted == [cmd EXCEPT !.effects = @ + 1]
  <2>1. cmd.attempt \in 0..1 /\ cmd.effects \in 0..2 /\ cmd.effects <= cmd.attempt /\ ~cmd.ok
    BY <1>0, <1>5 DEF TakesEffect, Acted, CommandOK, Command
  <2>2. cmd.effects + 1 \in 0..2
    BY <2>1
  <2>3. acted \in Command
    BY <1>0, <2>2 DEF CommandOK, Command
  <2>4. acted.attempt = cmd.attempt /\ acted.effects = cmd.effects + 1 /\ acted.ok = cmd.ok
    BY <1>0 DEF CommandOK, Command
  <2>5. CommandOK(acted)
    BY <1>0, <2>1, <2>3, <2>4 DEF CommandOK
  <2> QED
    BY <1>5, <2>5, CommandInv DEF TakesEffect
<1>6. CASE Signalled
  <2>1. \A why \in {"timeout", "output"} : CommandOK([cmd EXCEPT !.stop = why])
    BY <1>0 DEF CommandOK, Command
  <2> QED
    BY <1>6, <2>1, CommandInv DEF Signalled
<1>7. CASE KillGraceEnds
  <2>1. CommandOK([cmd EXCEPT !.killed = TRUE])
    BY <1>0 DEF CommandOK, Command
  <2> QED
    BY <1>7, <2>1, CommandInv DEF KillGraceEnds
<1>8. CASE ProcessExits
  <2> DEFINE c == [cmd EXCEPT !.stop = "no", !.killed = FALSE]
  <2>1. CommandOK(c) /\ ~c.ok /\ cmd.pc = "run" /\ c.ok = cmd.ok
    BY <1>0, <1>8 DEF ProcessExits, CommandOK, Command
  <2>2. PICK code \in IF Acted \/ cmd.stop # "no" THEN 0..1 ELSE {1} :
          \/ /\ RunOk(code)
             /\ cmd' = [c EXCEPT !.pc = "done", !.ok = TRUE] /\ UNCHANGED <<sup, flight>>
          \/ ~RunOk(code) /\ cmd.stop # "output" /\ Fails(c)
          \/ /\ ~RunOk(code) /\ cmd.stop # "timeout"
             /\ cmd' = [c EXCEPT !.pc = "done"] /\ UNCHANGED <<sup, flight>>
    BY <1>8 DEF ProcessExits
  <2>3. CASE /\ RunOk(code)
             /\ cmd' = [c EXCEPT !.pc = "done", !.ok = TRUE] /\ UNCHANGED <<sup, flight>>
    <3>1. cmd.effects > cmd.attempt
      BY <2>2, <2>3 DEF RunOk, Acted
    <3>2. c.effects > c.attempt
      BY <1>0, <3>1 DEF CommandOK, Command
    <3>3. CommandOK([c EXCEPT !.pc = "done", !.ok = TRUE])
      BY <2>1, <3>2 DEF CommandOK, Command
    <3> QED
      BY <2>3, <3>3, CommandInv
  <2>4. CASE Fails(c)
    BY <2>1, <2>4, FailsInv
  <2>5. CASE cmd' = [c EXCEPT !.pc = "done"] /\ UNCHANGED <<sup, flight>>
    <3>1. CommandOK([c EXCEPT !.pc = "done"])
      BY <2>1 DEF CommandOK, Command
    <3> QED
      BY <2>5, <3>1, CommandInv
  <2> QED
    BY <2>2, <2>3, <2>4, <2>5
<1> QED
  BY <1>1, <1>2, <1>3, <1>4, <1>5, <1>6, <1>7, <1>8 DEF CommandStep

\* Refreshes, the sync, and the end of a back-off.
LEMMA RefreshInv ==
  ASSUME Inv, (\E p \in Proc : LookStep(p)) \/ TellAgain \/ BackoffEnds
  PROVE  Inv'
<1>1. ASSUME NEW p \in Proc, Discover(p) PROVE Inv'
  BY <1>1, TickInv, KeepsInv DEF Discover
<1>2. ASSUME NEW p \in Proc, Tell(p) PROVE Inv'
  BY <1>2, TickInv, KeepsInv DEF Tell
<1>3. ASSUME NEW p \in Proc, Discovered(p) \/ SeenUnauthorized(p) PROVE Inv'
  BY <1>3, KeepsInv DEF Discovered, SeenUnauthorized
<1>4. CASE TellAgain
  BY <1>4, TickInv, KeepsInv DEF TellAgain
<1>5. CASE BackoffEnds
  BY <1>5 DEF BackoffEnds, Inv, SupOK, Real
<1> QED
  BY <1>1, <1>2, <1>3, <1>4, <1>5 DEF LookStep

\* The operator and the headset.
LEMMA OperatorInv ==
  ASSUME Inv, \/ ForceReconnect \/ RepairOverUsb \/ RepairConnects \/ Forget \/ Heartbeat
              \/ \E ip \in Address : Move(ip)
  PROVE  Inv'
<1>0. CommandOK(cmd)
  BY DEF Inv
<1>1. CASE ForceReconnect
  BY <1>0, <1>1, StartReconnectInv DEF ForceReconnect
<1>2. CASE RepairConnects
  BY <1>0, <1>2, StartReconnectInv, KeepsInv DEF RepairConnects
<1>3. CASE Forget
  <2>1. SupOK(sup') /\ ~sup'.inFlight
    BY <1>3 DEF Forget, SupOK, NoState
  <2>2. Flying \in BOOLEAN
    BY DEF Flying
  <2>3. FlightOK(flight')
    BY <1>3, <2>2 DEF Forget, Inv, FlightOK
  <2> QED
    BY <1>0, <1>3, <2>1, <2>3 DEF Forget, Inv, Real
<1>4. CASE RepairOverUsb \/ Heartbeat
  BY <1>4, KeepsInv DEF RepairOverUsb, Heartbeat
<1>5. CASE \E ip \in Address : Move(ip)
  BY <1>5, KeepsInv DEF Move
<1> QED
  BY <1>1, <1>2, <1>3, <1>4, <1>5

\* The invariant holds of every behaviour.
THEOREM SupervisorInvariant == Spec => []Inv
<1>1. Init => Inv
  <2> SUFFICES ASSUME Init PROVE Inv
    OBVIOUS
  <2>1. SupOK(sup) /\ ~sup.inFlight
    BY DEF Init, SupOK, NoState
  <2>2. FlightOK(flight)
    BY DEF Init, FlightOK, NoFlight
  <2>3. CommandOK(cmd)
    BY DEF Init, CommandOK, Command, NoCommand
  <2> QED
    BY <2>1, <2>2, <2>3 DEF Inv, Real
<1>2. Inv /\ [Next]_vars => Inv'
  <2> SUFFICES ASSUME Inv, [Next]_vars PROVE Inv'
    OBVIOUS
  <2>1. CASE UNCHANGED vars
    BY <2>1, KeepsInv DEF vars
  <2> QED
    BY <2>1, FlightStepInv, CommandStepInv, RefreshInv, OperatorInv DEF Next
<1> QED
  BY <1>1, <1>2, PTL DEF Spec

-----------------------------------------------------------------------------
\* A state in flight has a current flight: no tick waits for one that will
\* never clear the mark, whatever was forgotten or found online meanwhile.
THEOREM InFlightHolds == Spec => []InFlightIsReal
<1>1. Inv => InFlightIsReal
  BY DEF Inv, Real, InFlightIsReal, Flying
<1> QED
  BY <1>1, SupervisorInvariant, PTL

\* A command that is not safe to repeat takes effect at most once.
THEOREM OnceHolds == Spec => []ExecutesOnce
<1>1. Inv => ExecutesOnce
  BY DEF Inv, CommandOK, Command, ExecutesOnce
<1> QED
  BY <1>1, SupervisorInvariant, PTL

\* The success of a command is that of a run that has acted.
THEOREM SuccessHolds == Spec => []SuccessIsReal
<1>1. Inv => SuccessIsReal
  BY DEF Inv, CommandOK, SuccessIsReal
<1> QED
  BY <1>1, SupervisorInvariant, PTL

-----------------------------------------------------------------------------
(* Lists of addresses.                                                     *)

\* The addresses of a list.
Elems(s) == {s[i] : i \in DOMAIN s}

\* The place in a list of the j-th element of what is left without the k-th.
Skip(j, k) == IF j < k THEN j ELSE j + 1
LeftOutOf(s, k, w) ==
  /\ w \in Seq(Ip)
  /\ \A j \in DOMAIN w : Skip(j, k) \in DOMAIN s /\ Skip(j, k) # k /\ w[j] = s[Skip(j, k)]
  /\ \A i, j \in DOMAIN w : Skip(i, k) = Skip(j, k) => i = j
  /\ \A m \in DOMAIN s \ {k} : \E j \in DOMAIN w : w[j] = s[m]

\* A list without its k-th element.
LEMMA LeftOut ==
  ASSUME NEW s \in Seq(Ip), NEW k \in DOMAIN s,
         NEW w, w = SubSeq(s, 1, k - 1) \o SubSeq(s, k + 1, Len(s))
  PROVE  LeftOutOf(s, k, w)
<1> DEFINE n == Len(s)
           a == SubSeq(s, 1, k - 1)
           b == SubSeq(s, k + 1, n)
<1>1. n \in Nat /\ DOMAIN s = 1..n /\ k \in 1..n
  BY LenProperties
<1>2. a \in Seq(Ip) /\ Len(a) = k - 1 /\ \A j \in 1..(k - 1) : a[j] = s[j]
  BY <1>1, SubSeqProperties
<1>3. b \in Seq(Ip) /\ Len(b) = n - k /\ \A j \in 1..(n - k) : b[j] = s[j + k]
  <2>1. k + 1 \in Int /\ n \in Int /\ \A i \in (k + 1)..n : s[i] \in Ip
    BY <1>1
  <2>2. /\ b \in Seq(Ip)
        /\ Len(b) = IF k + 1 <= n THEN n - (k + 1) + 1 ELSE 0
        /\ \A j \in 1..(n - (k + 1) + 1) : b[j] = s[(k + 1) + j - 1]
    BY <2>1, SubSeqProperties
  <2> HIDE DEF b
  <2>3. n - (k + 1) + 1 = n - k /\ (k + 1 <= n => Len(b) = n - k)
    BY <1>1, <2>2
  <2>4. Len(b) = n - k
    BY <1>1, <2>2, <2>3
  <2>5. \A j \in 1..(n - k) : b[j] = s[(k + 1) + j - 1]
    BY <2>2, <2>3
  <2>6. \A j \in 1..(n - k) : (k + 1) + j - 1 = j + k
    BY <1>1
  <2>7. \A j \in 1..(n - k) : b[j] = s[j + k]
    BY <2>5, <2>6
  <2>. QED  BY <2>2, <2>4, <2>7
<1>4. w = a \o b
  OBVIOUS
<1> HIDE DEF a, b, n
<1>5. w \in Seq(Ip) /\ Len(w) = n - 1 /\ DOMAIN w = 1..(n - 1)
  <2>1. w \in Seq(Ip) /\ Len(w) = Len(a) + Len(b)
    BY <1>2, <1>3, <1>4, ConcatProperties
  <2>. QED  BY <1>1, <1>2, <1>3, <2>1, LenProperties
<1>6. \A j \in DOMAIN w : w[j] = IF j < k THEN s[j] ELSE s[j + 1]
  <2>1. \A j \in 1..(Len(a) + Len(b)) : w[j] = IF j <= Len(a) THEN a[j] ELSE b[j - Len(a)]
    <3>1. a \in Seq(Ip) /\ b \in Seq(Ip)
      BY <1>2, <1>3
    <3>2. \A j \in 1..(Len(a) + Len(b)) :
            (a \o b)[j] = IF j <= Len(a) THEN a[j] ELSE b[j - Len(a)]
      BY <3>1, ConcatProperties
    <3>. QED  BY <1>4, <3>2
  <2>2. Len(a) + Len(b) = n - 1
    BY <1>1, <1>2, <1>3
  <2>3. \A j \in 1..(n - 1) : w[j] = IF j <= k - 1 THEN a[j] ELSE b[j - (k - 1)]
    BY <1>2, <2>1, <2>2
  <2> SUFFICES ASSUME NEW j \in 1..(n - 1) PROVE w[j] = IF j < k THEN s[j] ELSE s[j + 1]
    BY <1>5
  <2>4. CASE j < k
    <3>1. j <= k - 1 /\ j \in 1..(k - 1)
      BY <1>1, <2>4
    <3>. QED  BY <1>2, <2>3, <2>4, <3>1
  <2>5. CASE ~(j < k)
    <3>1. ~(j <= k - 1) /\ j - (k - 1) \in 1..(n - k) /\ (j - (k - 1)) + k = j + 1
      BY <1>1, <2>5
    <3>. QED  BY <1>3, <2>3, <2>5, <3>1
  <2>. QED  BY <2>4, <2>5
<1>7. ASSUME NEW j \in DOMAIN w
      PROVE  Skip(j, k) \in DOMAIN s /\ Skip(j, k) # k /\ w[j] = s[Skip(j, k)]
  <2>1. j \in 1..(n - 1)
    BY <1>5
  <2>2. Skip(j, k) \in 1..n /\ Skip(j, k) # k
    BY <1>1, <2>1 DEF Skip
  <2>3. w[j] = s[Skip(j, k)]
    BY <1>6 DEF Skip
  <2>. QED  BY <1>1, <2>2, <2>3
<1>8. \A i, j \in DOMAIN w : Skip(i, k) = Skip(j, k) => i = j
  BY <1>1, <1>5 DEF Skip
<1>9. ASSUME NEW m \in DOMAIN s \ {k} PROVE \E j \in DOMAIN w : w[j] = s[m]
  <2>1. m \in 1..n /\ m # k
    BY <1>1
  <2>2. CASE m < k
    <3>1. m \in DOMAIN w
      BY <1>1, <1>5, <2>1, <2>2
    <3>. QED  BY <1>6, <2>2, <3>1
  <2>3. CASE m > k
    <3>1. m - 1 \in DOMAIN w /\ ~(m - 1 < k) /\ (m - 1) + 1 = m
      BY <1>1, <1>5, <2>1, <2>3
    <3>. QED  BY <1>6, <3>1
  <2>4. m < k \/ m > k
    BY <1>1, <2>1
  <2>. QED  BY <2>2, <2>3, <2>4
<1>. QED  BY <1>5, <1>7, <1>8, <1>9 DEF LeftOutOf

\* What is left of a list has its other elements, each of them once.
LEMMA WithoutProperties ==
  ASSUME NEW s \in Seq(Ip), Distinct(s), NEW ip
  PROVE  /\ Without(s, ip) \in Seq(Ip) /\ Distinct(Without(s, ip))
         /\ Elems(Without(s, ip)) = Elems(s) \ {ip}
<1>1. CASE \A i \in DOMAIN s : s[i] # ip
  BY <1>1 DEF Without, Elems
<1>2. CASE ~\A i \in DOMAIN s : s[i] # ip
  <2>1. PICK k : k = Place(s, ip) /\ k \in DOMAIN s /\ s[k] = ip
    BY <1>2 DEF Place
  <2>2. PICK w : w = SubSeq(s, 1, k - 1) \o SubSeq(s, k + 1, Len(s)) /\ w = Without(s, ip)
    BY <1>2, <2>1 DEF Without
  <2>3. LeftOutOf(s, k, w)
    BY <2>1, <2>2, LeftOut
  <2>4. Distinct(w) /\ \A j \in DOMAIN w : w[j] # ip
    BY <2>1, <2>3 DEF Distinct, LeftOutOf
  <2>5. Elems(w) \subseteq Elems(s) \ {ip}
    BY <2>3, <2>4 DEF Elems, LeftOutOf
  <2>6. Elems(s) \ {ip} \subseteq Elems(w)
    <3> SUFFICES ASSUME NEW m \in DOMAIN s, s[m] # ip PROVE \E j \in DOMAIN w : w[j] = s[m]
      BY DEF Elems
    <3>. QED  BY <2>1, <2>3 DEF LeftOutOf
  <2>. QED  BY <2>2, <2>3, <2>4, <2>5, <2>6 DEF LeftOutOf
<1>. QED  BY <1>1, <1>2

\* Two lists that share no address, one after the other.
LEMMA Joined ==
  ASSUME NEW a \in Seq(Ip), NEW b \in Seq(Ip), Distinct(a), Distinct(b),
         Elems(a) \cap Elems(b) = {}
  PROVE  a \o b \in Seq(Ip) /\ Distinct(a \o b) /\ Elems(a \o b) = Elems(a) \cup Elems(b)
<1> DEFINE c == a \o b
<1>1. /\ Len(a) \in Nat /\ DOMAIN a = 1..Len(a)
      /\ Len(b) \in Nat /\ DOMAIN b = 1..Len(b)
  BY LenProperties
<1>2. /\ c \in Seq(Ip) /\ Len(c) = Len(a) + Len(b)
      /\ \A j \in 1..(Len(a) + Len(b)) : c[j] = IF j <= Len(a) THEN a[j] ELSE b[j - Len(a)]
  BY ConcatProperties
<1>3. DOMAIN c = 1..(Len(a) + Len(b))
  BY <1>2, LenProperties
<1> HIDE DEF c
<1>4. \A j \in DOMAIN c : \/ j \in DOMAIN a /\ c[j] = a[j]
                          \/ ~(j <= Len(a)) /\ j - Len(a) \in DOMAIN b /\ c[j] = b[j - Len(a)]
  BY <1>1, <1>2, <1>3
<1>5. \A i, j \in DOMAIN c : i - Len(a) = j - Len(a) => i = j
  BY <1>1, <1>3
<1>6. Distinct(c)
  BY <1>4, <1>5 DEF Distinct, Elems
<1>7. \A j \in DOMAIN a : j \in DOMAIN c /\ c[j] = a[j]
  BY <1>1, <1>2, <1>3
<1>8. \A j \in DOMAIN b : j + Len(a) \in DOMAIN c /\ c[j + Len(a)] = b[j]
  <2> TAKE j \in DOMAIN b
  <2>1. j + Len(a) \in 1..(Len(a) + Len(b)) /\ ~(j + Len(a) <= Len(a)) /\ (j + Len(a)) - Len(a) = j
    BY <1>1
  <2>. QED  BY <1>2, <1>3, <2>1
<1>9. Elems(c) = Elems(a) \cup Elems(b)
  <2>1. Elems(c) \subseteq Elems(a) \cup Elems(b)
    BY <1>4 DEF Elems
  <2>2. Elems(a) \subseteq Elems(c)
    BY <1>7 DEF Elems
  <2>3. Elems(b) \subseteq Elems(c)
    BY <1>8 DEF Elems
  <2>. QED  BY <2>1, <2>2, <2>3
<1>. QED  BY <1>2, <1>6, <1>9 DEF c

LEMMA OneAddress ==
  ASSUME NEW ip \in Ip
  PROVE  <<ip>> \in Seq(Ip) /\ Distinct(<<ip>>) /\ Elems(<<ip>>) = {ip}
<1>1. DOMAIN <<ip>> = {1} /\ <<ip>>[1] = ip /\ <<ip>> \in Seq(Ip)
  OBVIOUS
<1>. QED  BY <1>1 DEF Distinct, Elems

LEMMA NoAddress == <<>> \in Seq(Ip) /\ Distinct(<<>>) /\ Elems(<<>>) = {}
<1>1. DOMAIN <<>> = {} /\ <<>> \in Seq(Ip)
  OBVIOUS
<1>. QED  BY <1>1 DEF Distinct, Elems

\* The newest address comes first, and no address twice.
LEMMA RememberedTyped ==
  ASSUME known \in Seq(Ip), Distinct(known), NEW ip \in Ip
  PROVE  Remembered(ip) \in Seq(Ip) /\ Distinct(Remembered(ip))
<1> DEFINE w == Without(known, ip)
<1>1. w \in Seq(Ip) /\ Distinct(w) /\ ip \notin Elems(w)
  BY WithoutProperties
<1> HIDE DEF w
<1>2. Remembered(ip) = <<ip>> \o w
  BY DEF Remembered, w
<1>3. /\ <<ip>> \in Seq(Ip) /\ Distinct(<<ip>>)
      /\ Elems(<<ip>>) \cap Elems(w) = {}
  BY <1>1, OneAddress
<1>4. <<ip>> \o w \in Seq(Ip) /\ Distinct(<<ip>> \o w)
  BY ONLY <1>1, <1>3, Joined
<1>. QED  BY <1>2, <1>4

\* A pass over the candidates tries every address that the heartbeat, the
\* route or the memory of the Hub names, each of them once, and no other.
THEOREM CandidatesComplete ==
  ASSUME known \in Seq(Ip), Distinct(known), NEW ip \in Address, NEW h \in Address
  PROVE  /\ Candidates(ip, h) \in Seq(Ip) /\ Distinct(Candidates(ip, h))
         /\ Elems(Candidates(ip, h)) = (Elems(known) \cup {ip, h}) \ {None}
<1> DEFINE first == IF h = None THEN <<>> ELSE <<h>>
           second == IF ip \in {None, h} THEN <<>> ELSE <<ip>>
           some == Without(known, ip)
           rest == Without(some, h)
<1>1. some \in Seq(Ip) /\ Distinct(some) /\ Elems(some) = Elems(known) \ {ip}
  BY WithoutProperties
<1> HIDE DEF some
<1>2. rest \in Seq(Ip) /\ Distinct(rest) /\ Elems(rest) = (Elems(known) \ {ip}) \ {h}
  BY <1>1, WithoutProperties
<1>3. first \in Seq(Ip) /\ Distinct(first) /\ Elems(first) = {h} \ {None}
  BY NoAddress, OneAddress DEF Address
<1>4. second \in Seq(Ip) /\ Distinct(second) /\ Elems(second) = {ip} \ {None, h}
  BY NoAddress, OneAddress DEF Address
<1>5. Candidates(ip, h) = first \o second \o rest
  BY DEF Candidates, some
<1> HIDE DEF first, second, rest
<1>6. /\ first \o second \in Seq(Ip) /\ Distinct(first \o second)
      /\ Elems(first \o second) = ({h} \ {None}) \cup ({ip} \ {None, h})
  BY <1>3, <1>4, Joined
<1>7. /\ Candidates(ip, h) \in Seq(Ip) /\ Distinct(Candidates(ip, h))
      /\ Elems(Candidates(ip, h)) = Elems(first \o second) \cup Elems(rest)
  <2> DEFINE both == first \o second
  <2>1. both \in Seq(Ip) /\ Distinct(both) /\ Elems(both) \cap Elems(rest) = {}
    BY <1>2, <1>6
  <2> HIDE DEF both
  <2>2. /\ both \o rest \in Seq(Ip) /\ Distinct(both \o rest)
        /\ Elems(both \o rest) = Elems(both) \cup Elems(rest)
    BY <1>2, <2>1, Joined
  <2>3. Candidates(ip, h) = both \o rest
    BY <1>5 DEF both
  <2>. QED  BY <2>2, <2>3 DEF both
<1>8. Elems(known) \subseteq Ip
  <2>1. \A i \in DOMAIN known : known[i] \in Ip
    OBVIOUS
  <2>. QED  BY <2>1 DEF Elems
<1>9. None \notin Elems(known)
  BY <1>8, AdbAssumption
<1>. QED  BY <1>2, <1>6, <1>7, <1>9

\* A list that is not empty has a first address and a rest.
LEMMA FirstOf ==
  ASSUME NEW s \in Seq(Ip), s # <<>>
  PROVE  Head(s) \in Ip /\ Tail(s) \in Seq(Ip)
BY HeadTailProperties

-----------------------------------------------------------------------------
(* The invariant of the addresses: every one the Hub holds is one it has   *)
(* learnt, and a flight in the air is on its way to one.                   *)

FlightAt(F) == F \in Flight /\ (F.pc # "none" => F.ip \in Ip)
Lists == known \in Seq(Ip) /\ Distinct(known)
Air == sup \in SupState /\ FlightAt(flight)
Ground == /\ at \in Address /\ hb \in Address /\ linked \in BOOLEAN /\ ignored \in BOOLEAN
          /\ linked => at # None
          /\ route \in Routes /\ look \in [Proc -> Looking] /\ used \in 0..MaxEvents
Typed == Ground /\ Lists /\ Air

LEMMA NothingInTheAir == FlightAt(NoFlight) /\ NoState \in SupState
<1>1. None \in Address /\ <<>> \in Seq(Ip)
  BY DEF Address
<1>. QED  BY <1>1 DEF FlightAt, NoFlight, Flight, NoState, SupState

LEMMA FinishAir ==
  ASSUME NEW S \in SupState, NEW c, NEW backoff \in BOOLEAN,
         NEW status \in {"failed", "unauthorized", "different_device", "idle", "reconnecting",
                         "online"},
         Finish(S, status, backoff, c)
  PROVE  Air'
<1>1. sup' \in SupState
  BY DEF Finish, SupState
<1>2. flight' = NoFlight
  BY DEF Finish
<1>. QED  BY <1>1, <1>2, NothingInTheAir DEF Air

\* The addresses of a route input, or of the start of a flight.
LEMMA RouteAddresses ==
  ASSUME Lists
  PROVE  /\ KnownIp \in Address
         /\ route \in Routes => RouteIp \in Address
<1>1. KnownIp \in Address
  BY FirstOf DEF Lists, KnownIp, Address
<1>. QED  BY <1>1 DEF Routes, RouteIp

LEMMA PassAir ==
  ASSUME Lists, NEW S \in SupState, NEW F, F \in Flight, NEW c, Pass(S, F, c)
  PROVE  Air'
<1> DEFINE in == IF S.in = <<None, None>> THEN F.init ELSE S.in
           todo == Candidates(IF in[1] = None THEN KnownIp ELSE in[1], in[2])
           T == [S EXCEPT !.there = TRUE]
<1>1. in \in Address \X Address /\ in[1] \in Address /\ in[2] \in Address
  <2>1. S.in \in Address \X Address /\ F.init \in Address \X Address
    BY DEF SupState, Flight
  <2>. QED  BY <2>1
<1> HIDE DEF in
<1>2. todo \in Seq(Ip)
  BY <1>1, CandidatesComplete, RouteAddresses DEF Lists
<1>3. CASE todo = <<>>
  <2>1. T \in SupState
    BY DEF SupState
  <2>2. Finish(T, "failed", TRUE, c)
    BY <1>3 DEF Pass, in
  <2>. QED  BY <2>1, <2>2, FinishAir
<1>4. CASE todo # <<>>
  <2>1. /\ flight' = [F EXCEPT !.pc = "check", !.newer = FALSE, !.ip = Head(todo),
                               !.todo = Tail(todo), !.old = in[1]]
        /\ sup' = [S EXCEPT !.there = TRUE, !.status = "reconnecting"]
    BY <1>4 DEF Pass, in
  <2>2. Head(todo) \in Ip /\ Tail(todo) \in Seq(Ip)
    BY <1>2, <1>4, FirstOf
  <2> HIDE DEF todo
  <2>3. Head(todo) \in Address
    BY <2>2 DEF Address
  <2>4. flight' \in Flight /\ flight'.ip \in Ip
    BY <1>1, <2>1, <2>2, <2>3 DEF Flight
  <2>5. sup' \in SupState
    BY <2>1 DEF SupState
  <2>. QED  BY <2>4, <2>5 DEF Air, FlightAt
<1>. QED  BY <1>3, <1>4

LEMMA MarkedAir ==
  ASSUME Air, NEW ip \in Address, NEW h \in Address
  PROVE  Marked(ip, h) \in SupState /\ FlightAt(Newer(ip, h))
<1>1. Marked(ip, h) \in SupState
  BY DEF Air, SupState, Marked
<1>2. (Flying /\ (flight.newer \/ sup.in # <<ip, h>>)) \in BOOLEAN
  OBVIOUS
<1>3. FlightAt(Newer(ip, h))
  BY <1>2 DEF Air, FlightAt, Flight, Newer
<1>. QED  BY <1>1, <1>3

LEMMA StartReconnectAir ==
  ASSUME Lists, Air, NEW ip \in Address, NEW h \in Address, NEW c, StartReconnect(ip, h, c)
  PROVE  Air'
<1>1. CASE Flying
  BY <1>1, MarkedAir DEF StartReconnect, Air
<1>2. CASE ~Flying
  <2> DEFINE S == [Marked(ip, h) EXCEPT !.inFlight = TRUE]
             F == [NoFlight EXCEPT !.cur = TRUE, !.init = <<ip, h>>]
  <2>1. S \in SupState
    <3>1. Marked(ip, h) \in SupState
      BY MarkedAir
    <3>. QED  BY <3>1 DEF SupState
  <2>2. F \in Flight
    BY NothingInTheAir DEF FlightAt, Flight
  <2>3. Pass(S, F, c)
    BY <1>2 DEF StartReconnect
  <2>. QED  BY <2>1, <2>2, <2>3, PassAir
<1>. QED  BY <1>1, <1>2

LEMMA TickAir ==
  ASSUME Lists, Air, NEW saw, NEW ip \in Address, NEW h \in Address, Tick(saw, ip, h)
  PROVE  Air'
<1> DEFINE S == Marked(ip, h)
<1>0. S \in SupState /\ FlightAt(Newer(ip, h))
  BY MarkedAir
<1>1. CASE /\ sup' = [S EXCEPT !.status = "online", !.inFlight = FALSE, !.wait = TRUE]
           /\ flight' = [Newer(ip, h) EXCEPT !.cur = @ /\ ~sup.inFlight]
  <2>1. sup' \in SupState
    BY <1>0, <1>1 DEF SupState
  <2>2. FlightAt(flight')
    BY <1>0, <1>1 DEF FlightAt, Flight
  <2>. QED  BY <2>1, <2>2 DEF Air
<1>2. CASE /\ sup' = [S EXCEPT !.status = "unauthorized", !.inFlight = FALSE, !.wait = FALSE]
           /\ flight' = Newer(ip, h)
  BY <1>0, <1>2 DEF Air, SupState
<1>3. CASE sup' = S /\ flight' = Newer(ip, h)
  BY <1>0, <1>3 DEF Air
<1>4. CASE StartReconnect(ip, h, cmd)
  BY <1>4, StartReconnectAir
<1>. QED  BY <1>1, <1>2, <1>3, <1>4 DEF Tick

LEMMA NextCandidateAir ==
  ASSUME Lists, Air, NEW S \in SupState, NextCandidate(S)
  PROVE  Air'
<1>1. CASE flight.todo # <<>>
  <2>1. /\ flight' = [flight EXCEPT !.pc = "check", !.ip = Head(flight.todo), !.todo = Tail(@)]
        /\ sup' = [S EXCEPT !.there = TRUE, !.status = "reconnecting"]
    BY <1>1 DEF NextCandidate
  <2>2. Head(flight.todo) \in Ip /\ Tail(flight.todo) \in Seq(Ip) /\ Head(flight.todo) \in Address
    BY <1>1, FirstOf DEF Air, FlightAt, Flight, Address
  <2>3. flight' \in Flight /\ flight'.ip \in Ip
    BY <2>1, <2>2 DEF Air, FlightAt, Flight
  <2>4. sup' \in SupState
    BY <2>1 DEF SupState
  <2>. QED  BY <2>3, <2>4 DEF Air, FlightAt
<1>2. CASE Pass(S, flight, cmd)
  BY <1>2, PassAir DEF Air, FlightAt
<1>3. CASE Finish(S, S.status, TRUE, cmd)
  <2>1. S.status \in {"failed", "unauthorized", "different_device", "idle", "reconnecting", "online"}
    BY DEF SupState
  <2>. QED  BY <1>3, <2>1, FinishAir
<1>. QED  BY <1>1, <1>2, <1>3 DEF NextCandidate
-----------------------------------------------------------------------------
(* The steps and the addresses.                                            *)

LEMMA SpendTyped ==
  ASSUME used \in 0..MaxEvents, Spend \/ UNCHANGED used
  PROVE  used' \in 0..MaxEvents
BY AdbAssumption DEF Spend

\* Connections only come of an answer at the headset's own address.
LEMMA ConnectionTyped ==
  ASSUME Ground, NEW ip
  PROVE  /\ DisconnectedFrom(ip) \in BOOLEAN
         /\ DisconnectedFrom(ip) => at # None
         /\ ConnectedTo(ip) \in BOOLEAN
         /\ ip \in Ip => (ConnectedTo(ip) => at # None)
BY AdbAssumption DEF Ground, DisconnectedFrom, ConnectedTo

\* What a refresh is told when it waited.
LEMMA ConnectionLooking ==
  ASSUME NEW S, NEW ip \in Address
  PROVE  Connection(S, ip) \in Looking
BY DEF Connection, Looking, Address

LEMMA NotLookingTyped == NotLooking \in Looking
BY DEF NotLooking, Looking, Address

LEMMA ContinuedTyped ==
  ASSUME look \in [Proc -> Looking]
  PROVE  [p \in Proc |-> Continued(look[p])] \in [Proc -> Looking]
<1> SUFFICES ASSUME NEW p \in Proc PROVE Continued(look[p]) \in Looking
  OBVIOUS
<1>1. look[p] \in Looking /\ look[p].ip \in Address
  BY DEF Looking
<1>2. CASE look[p].pc = "connecting"
  BY <1>1, <1>2, ConnectionLooking DEF Continued
<1>3. CASE look[p].pc # "connecting"
  BY <1>1, <1>3, NotLookingTyped DEF Continued
<1>. QED  BY <1>2, <1>3

LEMMA FlightStepTyped ==
  ASSUME Typed, FlightStep
  PROVE  Typed'
<1>0. Ground /\ Lists /\ Air
  BY DEF Typed
<1>a. look' \in [Proc -> Looking]
  BY <1>0, ContinuedTyped DEF FlightStep, Ground
<1>1. CASE Stale
  <2>1. Air'
    BY <1>0, <1>1, NothingInTheAir DEF Stale, Air
  <2>2. \/ linked' \in {linked, DisconnectedFrom(flight.old)}
        \/ linked' = ConnectedTo(flight.ip) /\ flight.ip \in Ip
    <3>1. flight.pc \notin {"none", "disconnect", "connect"} => linked' = linked
      BY <1>1 DEF Stale, Landed
    <3>2. flight.pc = "disconnect" => linked' = DisconnectedFrom(flight.old)
      BY <1>1 DEF Stale, Landed
    <3>3. flight.pc = "connect" => linked' \in {linked, ConnectedTo(flight.ip)}
      BY <1>1 DEF Stale, Landed
    <3>4. flight.pc # "none" /\ (flight.pc = "connect" => flight.ip \in Ip)
      BY <1>0, <1>1 DEF Stale, Flying, Air, FlightAt
    <3>. QED  BY <1>1, <3>1, <3>2, <3>3, <3>4 DEF Stale
  <2>3. linked' \in BOOLEAN /\ (linked' => at # None)
    BY <1>0, <2>2, ConnectionTyped DEF Ground
  <2>4. Ground' /\ Lists'
    BY <1>0, <1>a, <1>1, <2>3 DEF Stale, Ground, Lists, Environment
  <2>. QED  BY <2>1, <2>4 DEF Typed
<1>2. CASE PortChecked
  <2>1. UNCHANGED <<Environment, linked, known>> /\ (Spend \/ UNCHANGED used)
    BY <1>2 DEF PortChecked
  <2>2. Ground' /\ Lists'
    BY <1>0, <1>a, <2>1, SpendTyped DEF Ground, Lists, Environment
  <2>3. CASE /\ flight' = [flight EXCEPT !.pc = IF flight.old \notin {None, flight.ip}
                                               THEN "disconnect" ELSE "connect"]
             /\ UNCHANGED sup
    <3>1. flight.pc = "check"
      BY <1>2 DEF PortChecked, AtAwait
    <3>. QED  BY <1>0, <2>2, <2>3, <3>1 DEF Typed, Air, FlightAt, Flight
  <2>4. CASE NextCandidate([sup EXCEPT !.status = "failed"])
    <3>1. [sup EXCEPT !.status = "failed"] \in SupState
      BY <1>0 DEF Air, SupState
    <3>. QED  BY <1>0, <2>2, <2>4, <3>1, NextCandidateAir DEF Typed
  <2>. QED  BY <1>2, <2>3, <2>4 DEF PortChecked
<1>3. CASE OldDisconnected
  <2>1. flight' = [flight EXCEPT !.pc = "connect"] /\ UNCHANGED sup /\ flight.pc = "disconnect"
    BY <1>3 DEF OldDisconnected, AtAwait
  <2>2. Air'
    BY <1>0, <2>1 DEF Air, FlightAt, Flight
  <2>3. Ground' /\ Lists'
    BY <1>0, <1>a, <1>3, ConnectionTyped DEF OldDisconnected, Ground, Lists, Environment
  <2>. QED  BY <2>2, <2>3 DEF Typed
<1>4. CASE Connected
  <2>0. flight.pc = "connect" /\ flight.ip \in Ip
    BY <1>0, <1>4 DEF Connected, AtAwait, Air, FlightAt
  <2>1. UNCHANGED <<Environment, known>> /\ (Spend \/ UNCHANGED used)
        /\ (UNCHANGED linked \/ linked' = ConnectedTo(flight.ip))
    BY <1>4 DEF Connected
  <2>2. Ground' /\ Lists'
    BY <1>0, <1>a, <2>0, <2>1, SpendTyped, ConnectionTyped DEF Ground, Lists, Environment
  <2>3. CASE flight' = [flight EXCEPT !.pc = "verify"] /\ UNCHANGED sup
    BY <1>0, <2>0, <2>2, <2>3 DEF Typed, Air, FlightAt, Flight
  <2>4. CASE Finish(sup, "unauthorized", FALSE, cmd)
    BY <1>0, <2>2, <2>4, FinishAir DEF Typed, Air
  <2>5. CASE NextCandidate([sup EXCEPT !.status = "failed"])
    <3>1. [sup EXCEPT !.status = "failed"] \in SupState
      BY <1>0 DEF Air, SupState
    <3>. QED  BY <1>0, <2>2, <2>5, <3>1, NextCandidateAir DEF Typed
  <2>. QED  BY <1>4, <2>3, <2>4, <2>5 DEF Connected
<1>5. CASE Verified
  <2>0. flight.pc = "verify" /\ flight.ip \in Ip
    BY <1>0, <1>5 DEF Verified, AtAwait, Air, FlightAt
  <2>1. UNCHANGED <<Environment, linked>> /\ (Spend \/ UNCHANGED used)
        /\ (UNCHANGED known \/ known' = Remembered(flight.ip))
    BY <1>5 DEF Verified
  <2>2. Ground'
    BY <1>0, <1>a, <2>1, SpendTyped DEF Ground, Environment
  <2>3. Lists'
    BY <1>0, <2>0, <2>1, RememberedTyped DEF Lists
  <2>4. CASE /\ sup' = [sup EXCEPT !.status = "online", !.inFlight = FALSE, !.wait = TRUE]
             /\ flight' = NoFlight
    <3>1. Air'
      BY <1>0, <2>4, NothingInTheAir DEF Air, SupState
    <3>. QED  BY <2>2, <2>3, <3>1 DEF Typed
  <2>5. CASE /\ \/ flight' = [flight EXCEPT !.pc = "drop_late"]
                \/ flight' = [flight EXCEPT !.pc = "drop_wrong"]
             /\ UNCHANGED sup
    <3>1. Air'
      BY <1>0, <2>0, <2>5 DEF Air, FlightAt, Flight
    <3>. QED  BY <2>2, <2>3, <3>1 DEF Typed
  <2>. QED  BY <1>5, <2>4, <2>5 DEF Verified
<1>6. CASE Dropped
  <2> DEFINE S == [sup EXCEPT !.there = TRUE, !.status = "different_device"]
  <2>1. S \in SupState /\ sup \in SupState
    BY <1>0 DEF Air, SupState
  <2>2. NextCandidate(S) \/ NextCandidate(sup)
    BY <1>6 DEF Dropped
  <2> HIDE DEF S
  <2>3. Air'
    BY <1>0, <2>1, <2>2, NextCandidateAir
  <2>4. Ground' /\ Lists'
    BY <1>0, <1>a, <1>6, ConnectionTyped DEF Dropped, Ground, Lists, Environment
  <2>. QED  BY <2>3, <2>4 DEF Typed
<1>. QED  BY <1>1, <1>2, <1>3, <1>4, <1>5, <1>6 DEF FlightStep

\* The route input of a command or of the operator.
LEMMA RouteInput ==
  ASSUME Typed
  PROVE  RouteIp \in Address /\ hb \in Address
BY RouteAddresses DEF Typed, Ground

\* A step of the command alone, or one that starts or joins a flight.
LEMMA CommandTyped ==
  ASSUME Typed, UNCHANGED Others, NEW c,
         UNCHANGED <<sup, flight>> \/ \E ip, h \in Address : StartReconnect(ip, h, c)
  PROVE  Typed'
<1>1. Ground' /\ Lists'
  BY DEF Typed, Others, Ground, Lists
<1>2. Air'
  <2>1. CASE UNCHANGED <<sup, flight>>
    BY <2>1 DEF Typed, Air
  <2>2. CASE \E ip, h \in Address : StartReconnect(ip, h, c)
    BY <2>2, StartReconnectAir DEF Typed
  <2>. QED  BY <2>1, <2>2
<1>. QED  BY <1>1, <1>2 DEF Typed

LEMMA FailsTyped ==
  ASSUME Typed, UNCHANGED Others, NEW c, Fails(c)
  PROVE  Typed'
<1>1. route.ip \in Address /\ (IF route = NoRoute THEN None ELSE hb) \in Address
  BY DEF Typed, Ground, Routes, Address
<1>. QED  BY <1>1, CommandTyped DEF Fails

LEMMA CommandStepTyped ==
  ASSUME Typed, CommandStep
  PROVE  Typed'
<1>1. UNCHANGED Others
  BY DEF CommandStep, Issue, Resolve, Confirm, Healthy, TakesEffect, Signalled, KillGraceEnds,
         ProcessExits
<1>2. CASE UNCHANGED <<sup, flight>>
  BY <1>1, <1>2, CommandTyped
<1>3. CASE Resolve
  BY <1>1, <1>3, RouteInput, CommandTyped DEF Resolve
<1>4. CASE Healthy
  BY <1>1, <1>2, <1>4, FailsTyped DEF Healthy
<1>5. CASE ProcessExits
  <2> DEFINE c == [cmd EXCEPT !.stop = "no", !.killed = FALSE]
  <2>1. UNCHANGED <<sup, flight>> \/ Fails(c)
    BY <1>5 DEF ProcessExits
  <2> HIDE DEF c
  <2>. QED  BY <1>1, <1>2, <2>1, FailsTyped
<1>. QED  BY <1>2, <1>3, <1>4, <1>5
          DEF CommandStep, Issue, Confirm, TakesEffect, Signalled, KillGraceEnds

\* A step of one refresh.
LEMMA LookTyped ==
  ASSUME look \in [Proc -> Looking], NEW p \in Proc
  PROVE  /\ \A l \in Looking : [look EXCEPT ![p] = l] \in [Proc -> Looking]
         /\ \A pc \in {"idle", "connecting", "answered", "seen", "told", "waiting", "tcpip"} :
              /\ [NotLooking EXCEPT !.pc = pc] \in Looking
              /\ [look EXCEPT ![p].pc = pc] \in [Proc -> Looking]
<1>1. None \in Address
  BY DEF Address
<1>. QED  BY <1>1 DEF Looking, NotLooking

LEMMA FoundTyped ==
  ASSUME look \in [Proc -> Looking], NEW p \in Proc,
         NEW pc \in {"connecting", "answered", "seen"},
         NEW saw \in {"absent", "online", "offline", "unauthorized"}, NEW ip \in Address
  PROVE  Found(p, pc, saw, ip) \in [Proc -> Looking]
BY DEF Found, Looking

LEMMA RefreshTyped ==
  ASSUME Typed, (\E p \in Proc : LookStep(p)) \/ TellAgain \/ BackoffEnds
  PROVE  Typed'
<1>0. Ground /\ Lists /\ Air /\ look \in [Proc -> Looking] /\ KnownIp \in Address
      /\ hb \in Address /\ at \in Address /\ None \in Address
  BY RouteAddresses DEF Typed, Ground, Address
<1>1. ASSUME NEW p \in Proc, Discover(p) PROVE Typed'
  <2>0. UNCHANGED <<at, linked, hb, ignored, route>> /\ (Spend \/ UNCHANGED used)
    BY <1>1 DEF Discover
  <2>1. CASE /\ linked /\ known' = Remembered(at) /\ look' = Found(p, "answered", "online", at)
             /\ UNCHANGED <<sup, flight, cmd>>
    <3>1. look' \in [Proc -> Looking]
      BY <1>0, <2>1, FoundTyped
    <3>2. Ground'
      BY <1>0, <2>0, <3>1, SpendTyped DEF Ground
    <3>3. at \in Ip
      BY <1>0, <2>1 DEF Ground, Address
    <3>4. Lists'
      BY <1>0, <2>1, <3>3, RememberedTyped DEF Lists
    <3>. QED  BY <1>0, <2>1, <3>2, <3>4 DEF Typed, Air
  <2>2. CASE /\ Tick("offline", RouteIp, hb)
             /\ look' \in {Found(p, "connecting", "offline", KnownIp),
                           [look EXCEPT ![p] = Connection(sup, KnownIp)]}
             /\ UNCHANGED known
    <3>1. look' \in [Proc -> Looking]
      <4>1. Found(p, "connecting", "offline", KnownIp) \in [Proc -> Looking]
        BY <1>0, FoundTyped
      <4>2. Connection(sup, KnownIp) \in Looking
        BY <1>0, ConnectionLooking
      <4>3. [look EXCEPT ![p] = Connection(sup, KnownIp)] \in [Proc -> Looking]
        BY <1>0, <4>2, LookTyped
      <4>. QED  BY <2>2, <4>1, <4>3
    <3>2. Ground' /\ Lists'
      BY <1>0, <2>0, <2>2, <3>1, SpendTyped DEF Ground, Lists
    <3>3. Air'
      BY <1>0, <2>2, RouteInput, TickAir
    <3>. QED  BY <3>2, <3>3 DEF Typed
  <2>3. CASE look' = Found(p, "seen", "absent", None) /\ UNCHANGED <<known, sup, flight, cmd>>
    <3>1. look' \in [Proc -> Looking]
      BY <1>0, <2>3, FoundTyped
    <3>. QED  BY <1>0, <2>0, <2>3, <3>1, SpendTyped DEF Typed, Ground, Lists, Air
  <2>. QED  BY <1>1, <2>1, <2>2, <2>3 DEF Discover
<1>2. ASSUME NEW p \in Proc, Discovered(p) PROVE Typed'
  <2>1. look[p].ip \in Address
    BY <1>0 DEF Looking
  <2>2. ASSUME NEW ip \in Address
        PROVE  Found(p, "seen", IF linked /\ at = ip THEN "online" ELSE "offline", ip)
                 \in [Proc -> Looking]
    BY <1>0, FoundTyped
  <2>3. Found(p, "seen", "absent", None) \in [Proc -> Looking]
    BY <1>0, FoundTyped
  <2>4. look' \in [Proc -> Looking]
    BY <1>0, <1>2, <2>1, <2>2, <2>3 DEF Discovered
  <2>. QED  BY <1>0, <1>2, <2>4 DEF Discovered, Typed, Ground, Lists, Air
<1>3. ASSUME NEW p \in Proc, SeenUnauthorized(p) PROVE Typed'
  <2>1. look' \in [Proc -> Looking]
    BY <1>0, <1>3, FoundTyped DEF SeenUnauthorized
  <2>2. used' \in 0..MaxEvents
    BY <1>0, <1>3, SpendTyped DEF SeenUnauthorized, Ground
  <2>. QED  BY <1>0, <1>3, <2>1, <2>2 DEF SeenUnauthorized, Typed, Ground, Lists, Air
<1>4. ASSUME NEW p \in Proc, Tell(p) PROVE Typed'
  <2>1. look[p].ip \in Address
        /\ look[p].saw \in {"absent", "online", "offline", "unauthorized"}
    BY <1>0 DEF Looking
  <2>2. look' \in [Proc -> Looking]
    <3>1. [NotLooking EXCEPT !.pc = "told"] \in Looking /\ NotLooking \in Looking
      BY <1>0, LookTyped, NotLookingTyped
    <3>2. /\ [look EXCEPT ![p] = [NotLooking EXCEPT !.pc = "told"]] \in [Proc -> Looking]
          /\ [look EXCEPT ![p] = NotLooking] \in [Proc -> Looking]
      BY <1>0, <3>1, LookTyped
    <3>. QED  BY <1>4, <3>2 DEF Tell
  <2>3. route' \in Routes
    BY <1>4, <2>1 DEF Tell, Routes
  <2>4. Ground' /\ Lists'
    BY <1>0, <1>4, <2>2, <2>3 DEF Tell, Ground, Lists
  <2>5. Air'
    BY <1>0, <1>4, <2>1, TickAir DEF Tell, Air
  <2>. QED  BY <2>4, <2>5 DEF Typed
<1>5. CASE TellAgain
  <2>1. look' \in [Proc -> Looking]
    <3>1. [NotLooking EXCEPT !.pc = "waiting"] \in Looking /\ NotLooking \in Looking
      BY <1>0, LookTyped, NotLookingTyped DEF Proc
    <3>2. /\ [look EXCEPT !["sync"] = [NotLooking EXCEPT !.pc = "waiting"]] \in [Proc -> Looking]
          /\ [look EXCEPT !["sync"] = NotLooking] \in [Proc -> Looking]
      BY <1>0, <3>1, LookTyped DEF Proc
    <3>. QED  BY <1>5, <3>2 DEF TellAgain
  <2>2. Ground' /\ Lists'
    BY <1>0, <1>5, <2>1 DEF TellAgain, Ground, Lists
  <2>3. route.ip \in Address
    BY <1>0 DEF Ground, Routes
  <2>4. Air'
    BY <1>0, <1>5, <2>3, TickAir DEF TellAgain, Air
  <2>. QED  BY <2>2, <2>4 DEF Typed
<1>6. CASE BackoffEnds
  BY <1>0, <1>6 DEF BackoffEnds, Typed, Ground, Lists, Air, SupState
<1>. QED  BY <1>1, <1>2, <1>3, <1>4, <1>5, <1>6 DEF LookStep

LEMMA OperatorTyped ==
  ASSUME Typed, \/ ForceReconnect \/ RepairOverUsb \/ RepairConnects \/ Forget \/ Heartbeat
                \/ \E ip \in Address : Move(ip)
  PROVE  Typed'
<1>0. Ground /\ Lists /\ Air /\ look \in [Proc -> Looking]
  BY DEF Typed, Ground
<1>1. CASE ForceReconnect
  <2>1. Ground' /\ Lists'
    BY <1>0, <1>1, SpendTyped DEF ForceReconnect, Environment, Ground, Lists
  <2>2. Air'
    BY <1>0, <1>1, RouteInput, StartReconnectAir DEF ForceReconnect
  <2>. QED  BY <2>1, <2>2 DEF Typed
<1>2. CASE RepairOverUsb
  <2>1. look' \in [Proc -> Looking] /\ used' \in 0..MaxEvents
    BY <1>0, <1>2, LookTyped, SpendTyped DEF RepairOverUsb, Proc, Ground
  <2>2. at \in Ip
    BY <1>0, <1>2 DEF RepairOverUsb, Ground, Address
  <2>3. Lists'
    BY <1>0, <1>2, <2>2, RememberedTyped DEF RepairOverUsb, Lists
  <2>. QED  BY <1>0, <1>2, <2>1, <2>3 DEF RepairOverUsb, Typed, Ground, Air
<1>3. CASE RepairConnects
  <2>1. look' \in [Proc -> Looking]
    BY <1>0, <1>3, LookTyped DEF RepairConnects, Proc
  <2>2. Ground' /\ Lists'
    BY <1>0, <1>3, <2>1 DEF RepairConnects, Ground, Lists
  <2>3. Air'
    BY <1>0, <1>3, RouteInput, StartReconnectAir DEF RepairConnects, Air
  <2>. QED  BY <2>2, <2>3 DEF Typed
<1>4. CASE Forget
  <2>1. NoRoute \in Routes /\ <<>> \in Seq(Ip) /\ Distinct(<<>>)
    BY DEF NoRoute, Routes, Address, Distinct
  <2>2. Ground' /\ Lists'
    BY <1>0, <1>4, <2>1, SpendTyped DEF Forget, Ground, Lists
  <2>3. Flying \in BOOLEAN
    BY DEF Flying
  <2>4. FlightAt(flight')
    BY <1>0, <1>4, <2>3 DEF Forget, Air, FlightAt, Flight
  <2>. QED  BY <1>4, <2>2, <2>4, NothingInTheAir DEF Forget, Typed, Air
<1>5. CASE Heartbeat
  BY <1>0, <1>5 DEF Heartbeat, Typed, Ground, Lists, Air
<1>6. ASSUME NEW ip \in Address, Move(ip) PROVE Typed'
  BY <1>0, <1>6, SpendTyped DEF Move, Typed, Ground, Lists, Air
<1>. QED  BY <1>1, <1>2, <1>3, <1>4, <1>5, <1>6

\* Every variable keeps its type: routes and candidates are always addresses
\* that the Hub has learnt, and the remembered ones have no address twice.
THEOREM SupervisorTypes == Spec => []TypeOK
<1>1. Init => Typed
  <2> SUFFICES ASSUME Init PROVE Typed
    OBVIOUS
  <2>0. at \in Ip /\ None \in Address /\ at \in Address /\ None # at
    BY AdbAssumption DEF Init, Address
  <2>1. known \in Seq(Ip) /\ DOMAIN known = {1}
    BY <2>0 DEF Init
  <2>2. Lists
    BY <2>1 DEF Lists, Distinct
  <2>3. Ground
    <3>1. NoRoute \in Routes /\ NotLooking \in Looking
      BY <2>0 DEF NoRoute, Routes, NotLooking, Looking
    <3>2. 0 \in 0..MaxEvents
      BY AdbAssumption
    <3>. QED  BY <2>0, <3>1, <3>2 DEF Init, Ground
  <2>4. Air
    BY NothingInTheAir DEF Init, Air
  <2>. QED  BY <2>2, <2>3, <2>4 DEF Typed
<1>2. Typed /\ [Next]_vars => Typed'
  <2> SUFFICES ASSUME Typed, [Next]_vars PROVE Typed'
    OBVIOUS
  <2>1. CASE UNCHANGED vars
    BY <2>1 DEF vars, Typed, Ground, Lists, Air
  <2>. QED  BY <2>1, FlightStepTyped, CommandStepTyped, RefreshTyped, OperatorTyped DEF Next
<1>3. Typed /\ Inv => TypeOK
  BY DEF Typed, Ground, Lists, Air, FlightAt, Inv, CommandOK, TypeOK
<1>. QED  BY <1>1, <1>2, <1>3, SupervisorInvariant, PTL DEF Spec
=============================================================================
