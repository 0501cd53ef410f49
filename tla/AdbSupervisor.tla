--------------------------- MODULE AdbSupervisor ---------------------------
(***************************************************************************)
(* How the Local Hub keeps the wireless ADB route of one headset:          *)
(*                                                                         *)
(*   supervisor  one state, and at most one reconnect flight, which tries  *)
(*               the addresses it knows and remembers one whose identity   *)
(*               it has verified;                                          *)
(*   sync, other the periodic sync and every other refresh of the routes,  *)
(*               which tell the supervisor what discovery saw (tick);      *)
(*   command     a command of the headset: resolve, health check, run an   *)
(*               ADB process, force a recovery after a transport failure,  *)
(*               and run again if that is safe;                            *)
(*   headset     moves between addresses, where another device may answer. *)
(*                                                                         *)
(* A flight's generation is compared only with the one of the state; a     *)
(* flight that is not current never becomes so again, because no flight    *)
(* starts while it lasts and a forgotten state starts from generation 0.   *)
(* So the pair is one bit, `cur'.  Likewise routeVersion is the bit        *)
(* `newer': the route input has changed since the flight's pass began.     *)
(* Failures other than unauthorized and different_device are "failed";     *)
(* waits, messages and metrics are left out.  The Hub has no permission    *)
(* for tryEnableWirelessAdb, so that branch never runs.                    *)
(***************************************************************************)
EXTENDS Naturals, Sequences, FiniteSets

CONSTANTS
  Ip,         \* addresses
  Home,       \* addresses the headset may have at first
  Other,      \* addresses where another device answers while the headset is elsewhere
  None,
  Safe,       \* SAFE_RETRY_COMMANDS: may the command run again?
  MaxEvents   \* bound: changes of address, failures of what would have worked,
              \* requests for authorization, operator repairs, reconnects and
              \* forgets, and refreshes other than the sync's, all together

ASSUME AdbAssumption ==
  None \notin Ip /\ {Home, Other} \subseteq SUBSET Ip /\ Safe \in BOOLEAN /\ MaxEvents \in Nat

VARIABLES
  at,      \* where the headset's ADB answers, or None
  linked,  \* the ADB server has a connection to it
  hb,      \* the address of the heartbeat the Hub holds, or None
  known,   \* remembered addresses, the current one first
  ignored, \* forgotten by the operator
  route,   \* the headset's entry in `routes': its adbState and address
  sup,     \* the supervisor's state of the headset
  flight,  \* its flight
  look,    \* where the sync and another refresh are
  cmd,     \* the command
  used     \* how many of the bounded events have happened

vars == <<at, linked, hb, known, ignored, route, sup, flight, look, cmd, used>>

-----------------------------------------------------------------------------
Address == Ip \cup {None}
\* in: the address of the route and of the heartbeat in latestOptions.
\* wait: nextAttemptAt lies in the future.
SupState == [there: BOOLEAN,
             status: {"idle", "reconnecting", "online", "failed", "unauthorized",
                      "different_device"},
             inFlight: BOOLEAN, wait: BOOLEAN, in: Address \X Address]
NoState == [there |-> FALSE, status |-> "idle", inFlight |-> FALSE, wait |-> FALSE,
            in |-> <<None, None>>]
Distinct(s) == \A i, j \in DOMAIN s : s[i] = s[j] => i = j
\* pc: the await the flight is in; old: the address of the route of this pass.
Flight == [pc: {"none", "check", "disconnect", "connect", "verify", "drop_wrong", "drop_late"},
           cur: BOOLEAN, newer: BOOLEAN, ip: Address, todo: Seq(Ip), old: Address,
           init: Address \X Address]
NoFlight == [pc |-> "none", cur |-> FALSE, newer |-> FALSE, ip |-> None, todo |-> <<>>,
             old |-> None, init |-> <<None, None>>]
Routes == [saw: {"absent", "online", "offline", "unauthorized"}, ip: Address]
NoRoute == [saw |-> "absent", ip |-> None]
\* What a refresh has seen of the headset, and the address of its route: while
\* it waits for a flight, the one remembered when it began to.
Looking == [pc: {"idle", "connecting", "answered", "seen", "told", "waiting", "tcpip"},
            saw: {"absent", "online", "offline", "unauthorized"}, ip: Address]
NotLooking == [pc |-> "idle", saw |-> "absent", ip |-> None]
\* attempt: which run; stop: why its process has been signalled.
Command == [pc: {"idle", "resolve", "reconnect", "confirm", "health", "run", "recover", "done"},
            attempt: 0..1, effects: 0..2, stop: {"no", "timeout", "output"},
            killed: BOOLEAN, ok: BOOLEAN]
NoCommand == [pc |-> "idle", attempt |-> 0, effects |-> 0, stop |-> "no",
              killed |-> FALSE, ok |-> FALSE]
Spend == used < MaxEvents /\ used' = used + 1

\* Refreshes of the routes: the sync's and others.
Proc == {"sync", "other"}
Flying == flight.pc # "none"
KnownIp == IF known = <<>> THEN None ELSE Head(known)
\* The route that connectWirelessTarget starts from.
RouteIp == IF route = NoRoute THEN KnownIp ELSE route.ip

\* uniq and normalizeIpList keep an address where it occurs first.  A list of
\* remembered addresses has each of them once, so there is one place to leave out.
Place(s, ip) == CHOOSE i \in DOMAIN s : s[i] = ip
Without(s, ip) == IF \A i \in DOMAIN s : s[i] # ip THEN s
                  ELSE SubSeq(s, 1, Place(s, ip) - 1) \o SubSeq(s, Place(s, ip) + 1, Len(s))

\* rememberWirelessRoute: the newest address first.
RememberedTwice(ip) == <<ip>> \o known \* mutant: keeps duplicates
Remembered(ip) == <<ip>> \o Without(known, ip)
\* mutant: the heartbeat's address is not tried
CandidatesWithoutHeartbeat(ip, h) == known
\* buildReconnectCandidates
Candidates(ip, h) ==
  LET first == IF h = None THEN <<>> ELSE <<h>>
      second == IF ip \in {None, h} THEN <<>> ELSE <<ip>>
  IN first \o second \o Without(Without(known, ip), h)

\* markRouteInput
Marked(ip, h) == [sup EXCEPT !.there = TRUE, !.in = <<ip, h>>]
Newer(ip, h) == [flight EXCEPT !.newer = Flying /\ (@ \/ sup.in # <<ip, h>>)]

\* The answer of a flight that a command waits for, in resolveExecutionSerial
\* or in executeWithAdbRecovery.
AlwaysRetryable == TRUE \* mutant: every command is run again
Retryable == Safe
Answered(c, status) ==
  CASE c.pc = "reconnect" -> [c EXCEPT !.pc = IF status = "online" THEN "confirm" ELSE "done"]
    [] c.pc = "recover" -> IF status = "online" /\ Retryable
                           THEN [c EXCEPT !.pc = "resolve", !.attempt = 1]
                           ELSE [c EXCEPT !.pc = "done"]
    [] OTHER -> c

\* finishFailure, which does nothing for a flight that was cancelled.
Finish(S, status, backoff, c) ==
  /\ flight' = NoFlight
  /\ sup' = IF flight.cur \/ ~Flying
            THEN [S EXCEPT !.status = status, !.inFlight = FALSE, !.wait = backoff] ELSE S
  /\ cmd' = Answered(c, sup'.status)

\* mutant: versionAtStart is not read again
PassOfOldVersion(S, F, c) ==
  LET in == IF S.in = <<None, None>> THEN F.init ELSE S.in
      todo == Candidates(IF in[1] = None THEN KnownIp ELSE in[1], in[2])
  IN IF todo = <<>> THEN Finish([S EXCEPT !.there = TRUE], "failed", TRUE, c)
     ELSE /\ flight' = [F EXCEPT !.pc = "check", !.ip = Head(todo), !.todo = Tail(todo),
                                 !.old = in[1]]
          /\ sup' = [S EXCEPT !.there = TRUE, !.status = "reconnecting"]
          /\ cmd' = c
\* One pass over the candidates, from the first of them.
Pass(S, F, c) ==
  LET in == IF S.in = <<None, None>> THEN F.init ELSE S.in
      todo == Candidates(IF in[1] = None THEN KnownIp ELSE in[1], in[2])
  IN IF todo = <<>> THEN Finish([S EXCEPT !.there = TRUE], "failed", TRUE, c)
     ELSE /\ flight' = [F EXCEPT !.pc = "check", !.newer = FALSE, !.ip = Head(todo),
                                 !.todo = Tail(todo), !.old = in[1]]
          /\ sup' = [S EXCEPT !.there = TRUE, !.status = "reconnecting"]
          /\ cmd' = c

\* startReconnect: a flight that is under way is joined; else runReconnect up
\* to its first await.
StartReconnect(ip, h, c) ==
  IF Flying THEN sup' = Marked(ip, h) /\ flight' = Newer(ip, h) /\ cmd' = c
  ELSE Pass([Marked(ip, h) EXCEPT !.inFlight = TRUE],
            [NoFlight EXCEPT !.cur = TRUE, !.init = <<ip, h>>], c)

\* tick gets as far as a flight, and returns it: the one under way, or a new one.
Recovers(ip, h) == /\ sup.status # "unauthorized" /\ (sup.inFlight \/ ~sup.wait)
                   /\ ip # None \/ h # None \/ known # <<>>

\* tick, without force.
Tick(saw, ip, h) ==
  LET S == Marked(ip, h) IN
  \/ /\ saw = "online"
     /\ sup' = [S EXCEPT !.status = "online", !.inFlight = FALSE, !.wait = TRUE]
     /\ flight' = [Newer(ip, h) EXCEPT !.cur = @ /\ ~sup.inFlight]
     /\ UNCHANGED cmd
  \/ /\ saw = "unauthorized"
     /\ sup' = [S EXCEPT !.status = "unauthorized", !.inFlight = FALSE, !.wait = FALSE]
     /\ flight' = Newer(ip, h) /\ UNCHANGED cmd
  \/ /\ saw = "offline"
     /\ IF Recovers(ip, h) /\ ~sup.inFlight THEN StartReconnect(ip, h, cmd)
        ELSE sup' = S /\ flight' = Newer(ip, h) /\ UNCHANGED cmd

-----------------------------------------------------------------------------
\* continue: the next candidate, another pass if the route input has
\* changed, or failure.
NextCandidate(S) ==
  IF flight.todo # <<>>
  THEN /\ flight' = [flight EXCEPT !.pc = "check", !.ip = Head(flight.todo), !.todo = Tail(@)]
       /\ sup' = [S EXCEPT !.there = TRUE, !.status = "reconnecting"]
       /\ UNCHANGED cmd
  ELSE IF flight.newer THEN Pass(S, flight, cmd) ELSE Finish(S, S.status, TRUE, cmd)

Environment == <<at, hb, ignored, route>>
Answers(ip) == ip = at \/ ip \in Other
AtAwait(pc) == flight.pc = pc /\ flight.cur

\* adbConnect that succeeded, and adbDisconnect.
ConnectedTo(ip) == linked \/ ip = at
DisconnectedFrom(ip) == linked /\ ip # at

\* What the call that the flight waits for may have done to the connection.
Landed == CASE flight.pc = "disconnect" -> {DisconnectedFrom(flight.old)}
            [] flight.pc = "connect" /\ Answers(flight.ip) -> {linked, ConnectedTo(flight.ip)}
            [] OTHER -> {linked}
\* A flight that is no longer current ends at its next check, which comes after
\* the call it waits for.
Stale == /\ Flying /\ ~flight.cur /\ flight.pc \notin {"drop_wrong", "drop_late"}
         /\ linked' \in Landed
         /\ flight' = NoFlight /\ cmd' = Answered(cmd, sup.status)
         /\ UNCHANGED <<Environment, known, sup, used>>

PortChecked ==
  /\ AtAwait("check")
  /\ \/ /\ Answers(flight.ip)
        /\ flight' = [flight EXCEPT !.pc = IF flight.old \notin {None, flight.ip}
                                           THEN "disconnect" ELSE "connect"]
        /\ UNCHANGED <<sup, cmd, used>>
     \/ /\ IF Answers(flight.ip) THEN Spend ELSE UNCHANGED used
        /\ NextCandidate([sup EXCEPT !.status = "failed"])
  /\ UNCHANGED <<Environment, linked, known>>

OldDisconnected ==
  /\ AtAwait("disconnect")
  /\ flight' = [flight EXCEPT !.pc = "connect"]
  /\ linked' = DisconnectedFrom(flight.old)
  /\ UNCHANGED <<Environment, known, sup, cmd, used>>

Connected ==
  /\ AtAwait("connect")
  /\ \/ /\ Answers(flight.ip)
        /\ flight' = [flight EXCEPT !.pc = "verify"]
        /\ linked' = ConnectedTo(flight.ip)
        /\ UNCHANGED <<sup, cmd, used>>
     \/ /\ flight.ip = at /\ Spend /\ Finish(sup, "unauthorized", FALSE, cmd)
        /\ UNCHANGED linked
     \/ /\ IF Answers(flight.ip) THEN Spend ELSE UNCHANGED used
        /\ NextCandidate([sup EXCEPT !.status = "failed"]) /\ UNCHANGED linked
  /\ UNCHANGED <<Environment, known>>

\* A route input may have superseded this address meanwhile.
Superseded == sup.in[2] \notin {None, flight.ip} /\ flight.newer

Verified ==
  /\ AtAwait("verify")
  /\ \/ /\ flight.ip = at /\ ~Superseded
        /\ known' = Remembered(flight.ip)
        /\ sup' = [sup EXCEPT !.status = "online", !.inFlight = FALSE, !.wait = TRUE]
        /\ flight' = NoFlight /\ cmd' = Answered(cmd, "online")
        /\ UNCHANGED used
     \/ /\ flight.ip = at /\ Superseded
        /\ flight' = [flight EXCEPT !.pc = "drop_late"] /\ UNCHANGED <<known, sup, cmd, used>>
     \/ /\ IF flight.ip = at THEN Spend ELSE UNCHANGED used
        /\ flight' = [flight EXCEPT !.pc = "drop_wrong"] /\ UNCHANGED <<known, sup, cmd>>
  /\ UNCHANGED <<Environment, linked>>

\* After these disconnects the generation is not looked at.
Dropped ==
  /\ flight.pc \in {"drop_wrong", "drop_late"}
  /\ linked' = DisconnectedFrom(flight.ip)
  /\ NextCandidate(IF flight.pc = "drop_wrong"
                   THEN [sup EXCEPT !.there = TRUE, !.status = "different_device"] ELSE sup)
  /\ UNCHANGED <<Environment, known, used>>

\* What a refresh makes of the answer to connectWirelessTarget.
Connection(S, ip) == IF S.status = "online" THEN [pc |-> "answered", saw |-> "online", ip |-> ip]
                     ELSE [pc |-> "answered", saw |-> "offline", ip |-> None]
\* The refreshes that wait for the flight, when it has ended: a tick of
\* discovery, and the sync's own.
Continued(l) == CASE l.pc = "connecting" -> Connection(sup', l.ip)
                  [] l.pc = "waiting" -> NotLooking
                  [] OTHER -> l
FlightStep ==
  /\ Stale \/ PortChecked \/ OldDisconnected \/ Connected \/ Verified \/ Dropped
  /\ look' = IF flight' = NoFlight THEN [p \in Proc |-> Continued(look[p])] ELSE look

-----------------------------------------------------------------------------
\* A refresh of the routes.
Found(p, pc, saw, ip) == [look EXCEPT ![p] = [pc |-> pc, saw |-> saw, ip |-> ip]]

\* refreshDeviceRouting: a connected headset is remembered where it is;
\* connectWirelessTarget for a remembered one that is not connected; nothing is
\* seen of one that is ignored.
Discover(p) ==
  /\ look[p].pc = "idle"
  /\ IF p = "other" THEN Spend ELSE UNCHANGED used
  /\ \/ /\ linked /\ ~ignored
        /\ known' = Remembered(at) /\ look' = Found(p, "answered", "online", at)
        /\ UNCHANGED <<sup, flight, cmd>>
     \/ /\ ~linked /\ ~ignored /\ known # <<>>
        /\ Tick("offline", RouteIp, hb)
        /\ look' = IF Recovers(RouteIp, hb) THEN Found(p, "connecting", "offline", KnownIp)
                   ELSE [look EXCEPT ![p] = Connection(sup, KnownIp)]
        /\ UNCHANGED known
     \/ /\ ignored \/ (~linked /\ known = <<>>)
        /\ look' = Found(p, "seen", "absent", None) /\ UNCHANGED <<known, sup, flight, cmd>>
  /\ UNCHANGED <<at, linked, hb, ignored, route>>

\* The route that was found connected, or just connected, under its address of
\* before, whatever the operator has done since; else the one that is remembered
\* now.  chooseExecutionRoute looks whether it answers.
Discovered(p) ==
  /\ look[p].pc = "answered"
  /\ LET ip == IF look[p].saw = "online" THEN look[p].ip ELSE KnownIp IN
       look' = IF look[p].saw # "online" /\ ignored THEN Found(p, "seen", "absent", None)
               ELSE Found(p, "seen", IF linked /\ at = ip THEN "online" ELSE "offline", ip)
  /\ UNCHANGED <<at, linked, hb, known, ignored, route, sup, flight, cmd, used>>

\* A headset on USB that does not trust the Hub.
SeenUnauthorized(p) ==
  /\ look[p].pc = "idle" /\ ~linked /\ ~ignored /\ Spend
  /\ look' = Found(p, "seen", "unauthorized", KnownIp)
  /\ UNCHANGED <<at, linked, hb, known, ignored, route, sup, flight, cmd>>

\* The end of refreshDeviceRouting: routes are replaced, and told to the
\* supervisor without the heartbeat's address.  Whether the headset has been
\* forgotten meanwhile is not looked at.
Tell(p) ==
  /\ look[p].pc = "seen"
  /\ look' = [look EXCEPT ![p] = IF p = "sync" THEN [NotLooking EXCEPT !.pc = "told"]
                                   ELSE NotLooking]
  /\ route' = [saw |-> look[p].saw, ip |-> look[p].ip]
  /\ IF look[p].saw = "absent" THEN UNCHANGED <<sup, flight, cmd>>
     ELSE Tick(look[p].saw, look[p].ip, None)
  /\ UNCHANGED <<at, linked, hb, known, ignored, used>>

\* buildDeviceDetails: the sync's own tick, which waits for a flight.
TellAgain ==
  /\ look["sync"].pc = "told"
  /\ look' = [look EXCEPT !["sync"] =
                IF route.saw = "offline" /\ Recovers(route.ip, hb)
                THEN [NotLooking EXCEPT !.pc = "waiting"] ELSE NotLooking]
  /\ IF route = NoRoute THEN UNCHANGED <<sup, flight, cmd>> ELSE Tick(route.saw, route.ip, hb)
  /\ UNCHANGED <<at, linked, hb, known, ignored, route, used>>

\* nextAttemptAt passes.
BackoffEnds ==
  /\ sup.wait /\ sup' = [sup EXCEPT !.wait = FALSE]
  /\ UNCHANGED <<at, linked, hb, known, ignored, route, flight, look, cmd, used>>

-----------------------------------------------------------------------------
\* RECONNECT_ADB, and USB repair, which learns the address first.
ForceReconnect ==
  /\ ~ignored /\ Spend /\ StartReconnect(RouteIp, hb, cmd)
  /\ UNCHANGED <<Environment, look, linked, known>>
RepairOverUsb ==
  /\ look["other"].pc = "idle" /\ ~ignored /\ at # None /\ Spend
  /\ known' = Remembered(at) /\ look' = [look EXCEPT !["other"].pc = "tcpip"]
  /\ UNCHANGED <<at, linked, hb, ignored, route, sup, flight, cmd>>
RepairConnects ==
  /\ look["other"].pc = "tcpip" /\ look' = [look EXCEPT !["other"].pc = "idle"]
  /\ IF ignored THEN UNCHANGED <<sup, flight, cmd>> ELSE StartReconnect(RouteIp, hb, cmd)
  /\ UNCHANGED <<at, linked, hb, known, ignored, route, used>>

\* mutant: the state stays, still in flight
ForgetInPlace ==
  /\ ~ignored /\ Spend
  /\ ignored' = TRUE /\ route' = NoRoute /\ known' = <<>>
  /\ sup' = [sup EXCEPT !.status = "idle"]
  /\ flight' = [flight EXCEPT !.cur = FALSE, !.newer = Flying]
  /\ UNCHANGED <<at, linked, hb, look, cmd>>
\* FORGET_DEVICE and forget: the state goes, a flight may still be in the air.
Forget ==
  /\ ~ignored /\ Spend
  /\ ignored' = TRUE /\ route' = NoRoute /\ known' = <<>> /\ sup' = NoState
  /\ flight' = [flight EXCEPT !.cur = FALSE, !.newer = Flying]
  /\ UNCHANGED <<at, linked, hb, look, cmd>>

\* The headset: another address or off, and a heartbeat from where it is.
Move(ip) ==
  /\ ip # at /\ Spend /\ at' = ip /\ linked' = FALSE
  /\ UNCHANGED <<hb, known, ignored, route, sup, flight, look, cmd>>
Heartbeat ==
  /\ at # None /\ hb # at /\ hb' = at
  /\ UNCHANGED <<at, linked, known, ignored, route, sup, flight, look, cmd, used>>

-----------------------------------------------------------------------------
\* executeWithAdbRecovery of one command, and the ADB process it runs.
Others == <<at, linked, hb, known, ignored, route, look, used>>

Issue ==
  /\ cmd.pc = "idle" /\ cmd' = [cmd EXCEPT !.pc = "resolve"]
  /\ UNCHANGED <<Others, sup, flight>>

\* resolveExecutionSerial, which after a reconnect looks again whether the
\* route answers; without a route the command has failed.
Resolve ==
  /\ cmd.pc = "resolve"
  /\ \/ linked /\ cmd' = [cmd EXCEPT !.pc = "health"] /\ UNCHANGED <<sup, flight>>
     \/ /\ ~linked /\ known # <<>> /\ ~ignored
        /\ StartReconnect(RouteIp, hb, [cmd EXCEPT !.pc = "reconnect"])
     \/ /\ ~linked /\ (known = <<>> \/ ignored)
        /\ cmd' = [cmd EXCEPT !.pc = "done"] /\ UNCHANGED <<sup, flight>>
  /\ UNCHANGED Others
Confirm ==
  /\ cmd.pc = "confirm" /\ cmd' = [cmd EXCEPT !.pc = IF linked THEN "health" ELSE "done"]
  /\ UNCHANGED <<Others, sup, flight>>

\* A transport failure: recover once, unless this is the second run.  There is
\* no heartbeat of no route.
Fails(c) ==
  IF c.attempt = 1 THEN cmd' = [c EXCEPT !.pc = "done"] /\ UNCHANGED <<sup, flight>>
  ELSE StartReconnect(route.ip, IF route = NoRoute THEN None ELSE hb, [c EXCEPT !.pc = "recover"])

Healthy ==
  /\ cmd.pc = "health"
  /\ IF linked THEN cmd' = [cmd EXCEPT !.pc = "run"] /\ UNCHANGED <<sup, flight>>
     ELSE Fails(cmd)
  /\ UNCHANGED Others

\* The ADB process of a run: it does its work, exits, is signalled when its
\* time is up or it says too much, is killed after a grace period, and dies.
Acted == cmd.effects > cmd.attempt
TakesEffect ==
  /\ cmd.pc = "run" /\ linked /\ cmd.effects \in {0, cmd.attempt} /\ ~Acted
  /\ cmd' = [cmd EXCEPT !.effects = @ + 1]
  /\ UNCHANGED <<Others, sup, flight>>
\* The time may also be up after too much output, and then counts as that.
Signalled ==
  /\ cmd.pc = "run" /\ cmd.stop # "timeout"
  /\ \E why \in {"timeout", "output"} \ {cmd.stop} : cmd' = [cmd EXCEPT !.stop = why]
  /\ UNCHANGED <<Others, sup, flight>>
\* mutant: a process whose time is up is only asked to stop
KillGraceEndsAfterOutput ==
  /\ cmd.pc = "run" /\ cmd.stop = "output" /\ ~cmd.killed /\ cmd' = [cmd EXCEPT !.killed = TRUE]
  /\ UNCHANGED <<Others, sup, flight>>
KillGraceEnds ==
  /\ cmd.pc = "run" /\ cmd.stop # "no" /\ ~cmd.killed /\ cmd' = [cmd EXCEPT !.killed = TRUE]
  /\ UNCHANGED <<Others, sup, flight>>

\* finish: the result is ok if the process exits with 0 and was not stopped.
RunOk(code) == code = 0 /\ cmd.stop = "no"
ProcessExits ==
  /\ cmd.pc = "run"
  /\ \E code \in IF Acted \/ cmd.stop # "no" THEN 0..1 ELSE {1} :
       LET c == [cmd EXCEPT !.stop = "no", !.killed = FALSE]
       IN \/ /\ RunOk(code)
             /\ cmd' = [c EXCEPT !.pc = "done", !.ok = TRUE] /\ UNCHANGED <<sup, flight>>
          \/ ~RunOk(code) /\ cmd.stop # "output" /\ Fails(c)
          \/ /\ ~RunOk(code) /\ cmd.stop # "timeout" \* not a failure of the transport
             /\ cmd' = [c EXCEPT !.pc = "done"] /\ UNCHANGED <<sup, flight>>
  /\ UNCHANGED Others

CommandStep == \/ Issue \/ Resolve \/ Confirm \/ Healthy \/ TakesEffect \/ Signalled \/ KillGraceEnds
               \/ ProcessExits

-----------------------------------------------------------------------------
Init ==
  /\ at \in Home /\ known = <<at>> /\ hb = None /\ linked = FALSE
  /\ ignored = FALSE /\ route = NoRoute
  /\ sup = NoState /\ flight = NoFlight /\ cmd = NoCommand
  /\ look = [p \in Proc |-> NotLooking]
  /\ used = 0

LookStep(p) == Discover(p) \/ Discovered(p) \/ SeenUnauthorized(p) \/ Tell(p)
Next == \/ FlightStep \/ CommandStep \/ TellAgain \/ BackoffEnds
        \/ \E p \in Proc : LookStep(p)
        \/ ForceReconnect \/ RepairOverUsb \/ RepairConnects \/ Forget \/ Heartbeat
        \/ \E ip \in Address : Move(ip)
Spec == Init /\ [][Next]_vars

\* The poll timer fires for ever, ADB calls and processes have timeouts, a
\* process dies of SIGKILL, and back-offs end: not always, since nextBackoffMs
\* adds jitter to them, during a refresh.
SyncStep == Discover("sync") \/ Discovered("sync") \/ Tell("sync") \/ TellAgain
BackoffEndsBetweenSyncs == BackoffEnds /\ look["sync"].pc = "idle"
Fairness ==
  /\ WF_vars(FlightStep) /\ SF_vars(BackoffEndsBetweenSyncs)
  /\ WF_vars(SyncStep) /\ WF_vars(Discovered("other") \/ Tell("other"))
  /\ WF_vars(Resolve \/ Confirm \/ Healthy \/ Signalled \/ KillGraceEnds)
  /\ WF_vars(cmd.killed /\ ProcessExits)
FairSpec == Spec /\ Fairness

-----------------------------------------------------------------------------
\* The values every variable may have.
TypeOK ==
  /\ at \in Address /\ hb \in Address /\ linked \in BOOLEAN /\ ignored \in BOOLEAN
  /\ route \in Routes
  /\ known \in Seq(Ip) /\ Distinct(known)
  /\ sup \in SupState /\ flight \in Flight
  /\ look \in [Proc -> Looking] /\ cmd \in Command
  /\ used \in 0..MaxEvents

\* A state that says a reconnect is in flight has a flight, and one that will
\* clear the mark: otherwise every later tick would wait for it for ever.
InFlightIsReal == sup.inFlight => Flying /\ flight.cur /\ sup.there

\* A command that must not be repeated takes effect at most once, whatever
\* timeouts, recoveries and joined flights it went through.
ExecutesOnce == ~Safe => cmd.effects <= 1

\* A command is reported as a success only if its last run did something.
SuccessIsReal == cmd.ok => cmd.effects > cmd.attempt

\* A reconnect ends, although new route inputs may send it round again.
FlightEnds == []<>~Flying

\* A command that is issued ends (it is issued once).
CommandEnds == <>[](cmd.pc \in {"idle", "done"})

\* A headset that stays where its heartbeat or the Hub's memory says is
\* connected again, unless it was forgotten or wants to be authorized, whatever
\* a flight that was cancelled, or a route published late, has done meanwhile.
Reachable == at # None /\ (at = hb \/ at \in {known[i] : i \in DOMAIN known})
ReconnectsInTime ==
  <>[](Reachable /\ ~ignored) => []<>(linked \/ sup.status = "unauthorized")

=============================================================================
