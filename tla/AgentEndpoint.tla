---------------------------- MODULE AgentEndpoint ----------------------------
(***************************************************************************)
(* One headset, its Quest Agent, the Local Hub and the Cloud: who the      *)
(* agent says it is, and who believes it.                                  *)
(*                                                                         *)
(*   agent   an installed app with identities of its own and the token it  *)
(*           was started with; it sends heartbeats and calls an operator;  *)
(*   Hub     provisions the app, checks its requests against a credential  *)
(*           record, keeps heartbeats, restarts an agent it does not hear, *)
(*           forgets the headset when told to, and tells the Cloud;        *)
(*   Cloud   the row of the headset, made and renewed by syncs.            *)
(*                                                                         *)
(* An installation n of the app has the pairing id Pair(n) and the agent   *)
(* id n; its Android id stays the same and is the one that ADB reports.    *)
(* Its clock never goes back, so that requests in flight are ordered by    *)
(* their timestamps, and whether one is older than `lastTimestamp' is a    *)
(* bit.  A request that is stale on arrival is a lost one.  The rows       *)
(* serial number and stable id are those of the headset, which does not    *)
(* present them (Build.SERIAL is `unknown'), and pairing_id is the agent   *)
(* id, because createDevice and syncHubState set both from detail.agent_id.*)
(***************************************************************************)
EXTENDS Naturals, Sequences, FiniteSets

CONSTANTS
  MaxInstalls,      \* bound: installations of the app
  MaxTokens,        \* bound: credentials created
  MaxNet,           \* bound: requests in flight
  MaxEvents,        \* bound: faults, operator actions and changes of the ADB connection
  OperatorPayloads  \* is the app also provisioned by POST /commands, with all ids?

ASSUME AgentAssumption ==
  /\ {MaxInstalls, MaxTokens, MaxNet, MaxEvents} \subseteq Nat
  /\ OperatorPayloads \in BOOLEAN

VARIABLES
  agent,  \* the app on the headset
  net,    \* its requests on their way, by timestamp
  cred,   \* Hub: the credential record of the headset; token 0: none
  beats,  \* Hub: agent ids with a heartbeat in the store
  idx,    \* Hub: the headset's entry of wirelessStateIndex
  via,    \* how ADB reaches the headset
  row,    \* Cloud: the headset's row in devices
  prov,   \* INSTALL_APK with rotate_agent_credential, at the Hub and in the Cloud
  gone,   \* FORGET_DEVICE: done by the Hub, not yet reported
  auto,   \* the start under way in maybeAutoStartAgent
  used    \* how many of the bounded events have happened

vars == <<agent, net, cred, beats, idx, via, row, prov, gone, auto, used>>

-----------------------------------------------------------------------------
Install == 1..MaxInstalls
Token == 0..MaxTokens
Nobody == <<"none", 0>>
Pair(n) == <<"pair", n>>
Uuid(n) == <<"agent", n>>
Android == <<"android", 0>>
PairId == {Nobody} \cup {Pair(n) : n \in Install} \cup {Uuid(n) : n \in Install}

Agent == [here: BOOLEAN, n: 0..MaxInstalls, token: Token, up: BOOLEAN]
\* old: not newer than lastTimestamp.  past: not newer than some request with
\* the same token that was accepted, ever.
Request == [kind: {"beat", "call"}, n: Install, token: Token, old: BOOLEAN, past: BOOLEAN]
Ids == [pair: PairId, agent: 0..MaxInstalls, android: BOOLEAN]
NoIds == [pair |-> Nobody, agent |-> 0, android |-> FALSE]
Cred == [token: Token, ids: Ids]
NoCred == [token |-> 0, ids |-> NoIds]
\* held: is the ADB transport the one of ignoredTransportId?
Index == [known: BOOLEAN, agent: 0..MaxInstalls, ignored: BOOLEAN, ready: BOOLEAN,
          held: {"none", "same", "other"}]
NoIndex == [known |-> FALSE, agent |-> 0, ignored |-> FALSE, ready |-> FALSE, held |-> "none"]
Row == [there: BOOLEAN, agent: 0..MaxInstalls, online: BOOLEAN, hash: Token]
NoRow == [there |-> FALSE, agent |-> 0, online |-> FALSE, hash |-> 0]
\* pc: where the Hub stands (stuck: the Cloud waits for a report that it will
\* not accept).  status: of the last command, in the Cloud.  token: the one it
\* makes.  ok: the verdict that waits in the outbox.
Provisioning == [pc: {"none", "queued", "start", "started", "activated", "report", "stuck"},
                 status: {"none", "accepted", "running", "succeeded", "failed", "unknown",
                          "cancelled"},
                 ids: Ids, token: Token, ok: BOOLEAN]
AutoStart == [busy: BOOLEAN, token: Token]
NoAuto == [busy |-> FALSE, token |-> 0]

Spend == used < MaxEvents /\ used' = used + 1

-----------------------------------------------------------------------------
\* findMatching: every id a request presents is one of the record's.
Presented(m) == IF m.kind = "call" THEN {Pair(m.n)} ELSE {Pair(m.n), Uuid(m.n), Android}
KnownIds == {cred.ids.pair} \cup (IF cred.ids.agent = 0 THEN {} ELSE {Uuid(cred.ids.agent)})
                            \cup (IF cred.ids.android THEN {Android} ELSE {})
Matches(n) == {Pair(n), Uuid(n), Android} \subseteq KnownIds

AcceptedTwice(m) == cred.token # 0 /\ m.token = cred.token /\ Presented(m) \subseteq KnownIds
  \* mutant: lastTimestamp is not compared
\* verify
Accepted(m) ==
  cred.token # 0 /\ m.token = cred.token /\ Presented(m) \subseteq KnownIds /\ ~m.old

\* isIgnoredDevice of a heartbeat, which has no stable_id.
IgnoresAgent(n) == idx.ignored /\ idx.agent = n

\* A request reaches the Hub; it may reach it once more.
Deliver(k) ==
  /\ k \in DOMAIN net
  /\ LET m == net[k]
         seen == [j \in DOMAIN net |->
                    IF Accepted(m) /\ j <= k
                    THEN [net[j] EXCEPT !.old = TRUE, !.past = @ \/ net[j].token = m.token]
                    ELSE net[j]]
     IN /\ \/ net' = SubSeq(seen, 1, k - 1) \o SubSeq(seen, k + 1, Len(net)) /\ UNCHANGED used
           \/ net' = seen /\ Spend
        /\ beats' = IF Accepted(m) /\ m.kind = "beat" /\ ~IgnoresAgent(m.n)
                    THEN beats \cup {m.n} ELSE beats
  /\ UNCHANGED <<agent, cred, idx, via, row, prov, gone, auto>>

Lose(k) ==
  /\ k \in DOMAIN net /\ Spend
  /\ net' = SubSeq(net, 1, k - 1) \o SubSeq(net, k + 1, Len(net))
  /\ UNCHANGED <<agent, cred, beats, idx, via, row, prov, gone, auto>>

-----------------------------------------------------------------------------
\* The agent.  Heartbeats and calls leave through different threads.
Send(kind) ==
  /\ agent.up /\ agent.token # 0 /\ Len(net) < MaxNet
  /\ IF kind = "call" THEN Spend ELSE UNCHANGED used
  /\ net' = Append(net, [kind |-> kind, n |-> agent.n, token |-> agent.token, old |-> FALSE,
                         past |-> FALSE])
  /\ UNCHANGED <<agent, cred, beats, idx, via, row, prov, gone, auto>>

AgentDies ==
  /\ agent.up /\ Spend /\ agent' = [agent EXCEPT !.up = FALSE]
  /\ UNCHANGED <<net, cred, beats, idx, via, row, prov, gone, auto>>

\* UNINSTALL_APP, or by hand: its data go too.
Uninstalled ==
  /\ agent.here /\ Spend
  /\ agent' = [agent EXCEPT !.here = FALSE, !.token = 0, !.up = FALSE]
  /\ UNCHANGED <<net, cred, beats, idx, via, row, prov, gone, auto>>

StartedAnyway(a, token) == [a EXCEPT !.up = TRUE, !.token = IF token = 0 THEN @ ELSE token]
  \* mutant: is the app there?
StartedWithoutToken(a, token) == [a EXCEPT !.up = TRUE] \* mutant: no --es AGENT_TOKEN
\* buildStartArgs and updateHubConnectionFromIntent: an installed agent is
\* started, with a token if the Hub has one for it.
Started(a, token) ==
  IF ~a.here THEN a ELSE [a EXCEPT !.up = TRUE, !.token = IF token = 0 THEN @ ELSE token]

\* RELAUNCH_AGENT, OPEN_LAUNCHER and the commands of sessions.
Launch ==
  /\ via # "off" /\ prov.pc \in {"none", "queued"} /\ Spend
  /\ agent' = Started(agent, cred.token)
  /\ UNCHANGED <<net, cred, beats, idx, via, row, prov, gone, auto>>

AutoStarts ==
  /\ auto.busy /\ auto' = NoAuto
  /\ agent' = IF via = "off" THEN agent ELSE Started(agent, auto.token)
  /\ UNCHANGED <<net, cred, beats, idx, via, row, prov, gone, used>>

-----------------------------------------------------------------------------
\* INSTALL_APK with rotate_agent_credential.  The payload of the Cloud's own
\* routes has the row's pairing_id only; that of POST /commands is free.
RoutePayload == [NoIds EXCEPT !.pair = IF row.agent = 0 THEN Nobody ELSE Uuid(row.agent)]
FullPayload == [pair |-> Pair(agent.n), agent |-> agent.n, android |-> TRUE]

RequestProvisioning ==
  /\ prov.pc = "none" /\ row.there /\ ~gone /\ prov.token < MaxTokens
  /\ \E ids \in {RoutePayload} \cup
                (IF OperatorPayloads /\ agent.here THEN {FullPayload} ELSE {}) :
       prov' = [pc |-> "queued", status |-> "accepted", ids |-> ids, token |-> prov.token + 1,
                ok |-> FALSE]
  /\ UNCHANGED <<agent, net, cred, beats, idx, via, row, gone, auto, used>>

\* cancelDeviceCommand, up to the report of `running'.  The Hub may have the
\* command already, and goes on with it; a command that is stuck is let go.
Open == prov.status \in {"accepted", "running"}
CancelProvisioning ==
  /\ prov.pc # "none" /\ prov.status = "accepted" /\ Spend
  /\ \E pc \in CASE prov.pc = "queued" -> {"queued", "none"}
                 [] prov.pc = "stuck" -> {"none"}
                 [] OTHER -> {prov.pc} :
       prov' = [prov EXCEPT !.pc = pc, !.status = "cancelled"]
  /\ UNCHANGED <<agent, net, cred, beats, idx, via, row, gone, auto>>

\* The Hub reports that it runs the command, which may be lost or refused, and
\* the app is installed, over the old one.
InstallApp ==
  /\ prov.pc = "queued" /\ via # "off"
  /\ agent.here \/ agent.n < MaxInstalls
  /\ agent' = IF agent.here THEN [agent EXCEPT !.up = FALSE]
              ELSE [here |-> TRUE, n |-> agent.n + 1, token |-> 0, up |-> FALSE]
  /\ \/ /\ prov' = [prov EXCEPT !.pc = "start", !.status = IF Open THEN "running" ELSE @]
        /\ UNCHANGED used
     \/ Open /\ prov' = [prov EXCEPT !.pc = "start"] /\ Spend
  /\ UNCHANGED <<net, cred, beats, idx, via, row, gone, auto>>

\* `am start' takes effect on the headset.
StartTakesEffect ==
  /\ prov.pc = "start" /\ via # "off"
  /\ agent' = Started(agent, prov.token)
  /\ prov' = [prov EXCEPT !.pc = "started"]
  /\ UNCHANGED <<net, cred, beats, idx, via, row, gone, auto, used>>

\* The install or the start has failed, perhaps after it took effect; or
\* nobody knows.  What the Cloud has cancelled it does not wait for.
ProvisioningFails ==
  /\ prov.pc \in {"queued", "start", "started"}
  /\ IF via = "off" THEN UNCHANGED used ELSE Spend
  /\ prov' = [prov EXCEPT !.pc = "report", !.ok = FALSE]
  /\ UNCHANGED <<agent, net, cred, beats, idx, via, row, gone, auto>>
Abandoned(p) == [p EXCEPT !.pc = IF p.status = "cancelled" THEN "none" ELSE "stuck"]
ProvisioningUnknown ==
  /\ prov.pc \in {"start", "started"} /\ Spend
  /\ prov' = Abandoned([prov EXCEPT !.status = IF Open THEN "unknown" ELSE @])
  /\ UNCHANGED <<agent, net, cred, beats, idx, via, row, gone, auto>>

ActivateBeforeStart == prov.pc \in {"start", "started"} \* mutant: the start may still fail
ActivateReady == prov.pc = "started"
\* activate: the record is replaced, but for ids the payload does not name.
Activate ==
  /\ ActivateReady
  /\ cred' = [token |-> prov.token,
              ids |-> [pair |-> IF prov.ids.pair = Nobody THEN cred.ids.pair ELSE prov.ids.pair,
                       agent |-> IF prov.ids.agent = 0 THEN cred.ids.agent ELSE prov.ids.agent,
                       android |-> prov.ids.android \/ cred.ids.android]]
  /\ net' = [k \in DOMAIN net |-> [net[k] EXCEPT !.old = FALSE]]
  /\ prov' = [prov EXCEPT !.pc = IF @ = "started" THEN "activated" ELSE @]
  /\ UNCHANGED <<agent, beats, idx, via, row, gone, auto, used>>

\* complete and enqueue.
Complete ==
  /\ prov.pc = "activated" /\ prov' = [prov EXCEPT !.pc = "report", !.ok = TRUE]
  /\ UNCHANGED <<agent, net, cred, beats, idx, via, row, gone, auto, used>>
\* updateCommandStatus and applyAgentProvisioningResult.
Report ==
  /\ prov.pc = "report" /\ row.there /\ Open
  /\ row' = IF prov.ok THEN [row EXCEPT !.hash = prov.token] ELSE row
  /\ prov' = [prov EXCEPT !.pc = "none", !.status = IF prov.ok THEN "succeeded" ELSE "failed"]
  /\ UNCHANGED <<agent, net, cred, beats, idx, via, gone, auto, used>>
\* The command is cancelled, or its claim token has been renewed.
ReportRefused ==
  /\ prov.pc = "report" /\ (IF Open THEN Spend ELSE UNCHANGED used)
  /\ prov' = Abandoned(prov)
  /\ UNCHANGED <<agent, net, cred, beats, idx, via, row, gone, auto>>

ProvisioningStep == \/ InstallApp \/ StartTakesEffect \/ ProvisioningFails \/ ProvisioningUnknown
                    \/ Activate \/ Complete \/ Report \/ ReportRefused

-----------------------------------------------------------------------------
\* refreshDeviceRouting: is there a route of the headset, and what becomes of
\* its entry.  shouldKeepIgnoredDevice on USB, isIgnoredDevice over Wi-Fi.
Kept == idx.ignored /\ ~idx.ready /\ (via = "usb" => idx.held # "other")
Routed == IF via = "off" THEN idx.known /\ ~idx.ignored ELSE ~Kept
Refreshed ==
  CASE via = "off" -> [idx EXCEPT !.ready = @ \/ idx.ignored]
    [] Kept -> idx
    [] via = "usb" -> [idx EXCEPT !.known = TRUE, !.ignored = FALSE, !.ready = FALSE]
    [] OTHER -> [idx EXCEPT !.known = TRUE]

\* findForRoute
Heard(a) == IF a = 0 THEN beats ELSE beats \cap {a}

\* prune: heartbeats that may be too old.
Stale == SUBSET beats

\* syncHubState: the details of the route, if there is one, with the agent id
\* a and whether the agent is heard; then the heartbeats, the last one of n.
Detailed(a, heard) ==
  [there |-> TRUE, agent |-> IF a = 0 THEN row.agent ELSE a, online |-> heard,
   hash |-> row.hash]
WithHeartbeat(R, n) == IF R.there /\ n # 0 THEN [R EXCEPT !.agent = n, !.online = TRUE] ELSE R

\* summarizeRouteHealth and maybeAutoStartAgent: ADB works and the agent, which
\* is installed, is not heard.
Quiet(h) == Routed /\ via # "off" /\ h = 0 /\ agent.here /\ ~auto.busy

\* syncWithCloud: refresh, buildDeviceDetails, prune, the Cloud's part, and
\* perhaps the start of an agent that is not heard.  The request may be lost.
Sync(stale) ==
  \E h \in IF Routed /\ Heard(idx.agent) # {} THEN Heard(idx.agent) ELSE {0} :
    LET a == IF h = 0 THEN idx.agent ELSE h
        left == beats \ stale
    IN /\ idx' = IF Routed THEN [Refreshed EXCEPT !.agent = a] ELSE Refreshed
       /\ beats' = left
       /\ \/ /\ \E n \in IF left = {} THEN {0} ELSE left :
                  row' = WithHeartbeat(IF Routed THEN Detailed(a, h # 0) ELSE row, n)
             /\ UNCHANGED used
          \/ Spend /\ UNCHANGED row
       /\ \/ Quiet(h) /\ auto' = [busy |-> TRUE, token |-> cred.token]
          \/ UNCHANGED auto
       /\ UNCHANGED <<agent, net, cred, via, prov, gone>>
Syncs == \E stale \in Stale : Sync(stale)

\* FORGET_DEVICE, which waits for an earlier command of the headset; its
\* success removes the row.
Forget ==
  /\ row.there /\ ~gone /\ prov.pc = "none" /\ Spend
  /\ idx' = [known |-> TRUE, agent |-> row.agent, ignored |-> TRUE, ready |-> FALSE,
             held |-> IF via = "off" THEN "none" ELSE "same"]
  /\ beats' = beats \ {row.agent}
  /\ gone' = TRUE
  /\ UNCHANGED <<agent, net, cred, via, row, prov, auto>>
ForgetReported ==
  /\ gone /\ gone' = FALSE /\ row' = NoRow
  /\ UNCHANGED <<agent, net, cred, beats, idx, via, prov, auto, used>>

\* The headset is plugged in, unplugged, or connected over Wi-Fi.
Connection(v) ==
  /\ v # via /\ Spend /\ via' = v
  /\ idx' = [idx EXCEPT !.held = IF @ = "same" THEN "other" ELSE @]
  /\ UNCHANGED <<agent, net, cred, beats, row, prov, gone, auto>>

\* The Hub dies and starts again, and asks the Cloud for the devices it knows
\* (bootstrapKnownDevices), unless the Cloud does not answer.  A file that was
\* being written is empty afterwards (saveJson, loadJson).
Restarted(I) ==
  IF row.there THEN [I EXCEPT !.known = TRUE, !.agent = row.agent] ELSE I
Crash ==
  /\ Spend /\ beats' = {} /\ auto' = NoAuto
  /\ \/ cred' \in {cred, NoCred} /\ idx' = Restarted(idx)
     \/ UNCHANGED cred /\ idx' \in {idx, Restarted(NoIndex)}
  /\ prov' = IF prov.pc \in {"start", "started", "activated"} THEN Abandoned(prov) ELSE prov
  /\ UNCHANGED <<agent, net, via, row, gone>>

-----------------------------------------------------------------------------
Init ==
  /\ agent = [here |-> FALSE, n |-> 0, token |-> 0, up |-> FALSE]
  /\ net = <<>> /\ cred = NoCred /\ beats = {} /\ idx = NoIndex /\ via = "usb" /\ row = NoRow
  /\ prov = [pc |-> "none", status |-> "none", ids |-> NoIds, token |-> 0, ok |-> FALSE]
  /\ gone = FALSE /\ auto = NoAuto /\ used = 0

Next ==
  \/ \E k \in 1..MaxNet : Deliver(k) \/ Lose(k)
  \/ \E kind \in {"beat", "call"} : Send(kind)
  \/ AgentDies \/ Uninstalled \/ Launch \/ AutoStarts
  \/ RequestProvisioning \/ CancelProvisioning \/ ProvisioningStep
  \/ Syncs \/ Forget \/ ForgetReported \/ Crash
  \/ \E v \in {"usb", "wifi", "off"} : Connection(v)
Spec == Init /\ [][Next]_vars

\* The agent's loop and the poll timer run for ever, requests arrive unless
\* they are lost, ADB calls end, and a silent agent's heartbeat is pruned and
\* the agent started, once the intervals for it have passed.
Silent == IF agent.up THEN beats \ {agent.n} ELSE beats
Fairness ==
  /\ WF_vars(Send("beat")) /\ WF_vars(\E k \in 1..MaxNet : Deliver(k))
  /\ WF_vars(Syncs /\ beats' \cap Silent = {})
  /\ WF_vars(Syncs /\ auto' # auto) /\ WF_vars(AutoStarts)
  /\ WF_vars(ProvisioningStep) /\ WF_vars(ForgetReported)
FairSpec == Spec /\ Fairness

-----------------------------------------------------------------------------
\* The values every variable may have; an app that is not there does not run.
TypeOK ==
  /\ agent \in Agent /\ (agent.up => agent.here)
  /\ net \in Seq(Request) /\ Len(net) <= MaxNet
  /\ cred \in Cred /\ beats \subseteq Install /\ idx \in Index
  /\ via \in {"usb", "wifi", "off"} /\ row \in Row /\ prov \in Provisioning
  /\ gone \in BOOLEAN /\ auto \in AutoStart /\ used \in 0..MaxEvents

\* No request is accepted twice, and none after a later one with its token,
\* whatever was repeated or overtaken, and also after the Hub was restarted or
\* the credential, and with it lastTimestamp, replaced.
NoReplay == \A k \in DOMAIN net : net[k].past => ~Accepted(net[k])

\* What the Cloud shows of a rotation is what has become of it, whatever was
\* cancelled, refused, lost or interrupted: after a success the Hub's record
\* and the Cloud's hash are those of its token, if they have not been lost
\* (with the file) or forgotten (FORGET_DEVICE); after a failure neither is;
\* and in between, and after a cancellation or an unknown outcome, the Cloud is
\* never ahead of the Hub.
RotationVerdict ==
  /\ prov.status = "succeeded" => {cred.token, row.hash} \subseteq {0, prov.token}
  /\ prov.status = "failed" => prov.token \notin {cred.token, row.hash}
  /\ cred.token # 0 => row.hash <= cred.token

\* An agent that the Hub's record names is heard again and again while ADB
\* reaches its headset, although it may have died, been reinstalled or left
\* with the token of a rotation that failed.
HeardAgain ==
  <>[](agent.here /\ via # "off" /\ Matches(agent.n) /\ ~idx.ignored)
    => []<>(agent.n \in beats)


\* POST /devices/:id/install_agent and its advice `Start or reinstall Quest
\* Agent from the panel': an agent so provisioned is heard.
ProvisionedIsHeard ==
  /\ prov.pc = "none" /\ agent.here /\ agent.token # 0
  /\ agent.token = cred.token /\ row.hash = cred.token
  => Matches(agent.n)

=============================================================================
