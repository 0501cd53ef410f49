------------------------ MODULE AgentEndpointProofs ------------------------
(***************************************************************************)
(* Proofs about AgentEndpoint for every bound: the types, that no request  *)
(* is accepted twice, and that what the Cloud shows of a rotation of the   *)
(* credential is what has become of it.                                    *)
(***************************************************************************)
EXTENDS AgentEndpoint, TLAPS

-----------------------------------------------------------------------------
(* The invariant.                                                          *)

\* An app that is there was installed.
Counted == agent.here => agent.n # 0

\* The token of the Hub's record is never newer than that of the rotation,
\* and older until the rotation has activated its own.
Rotating == prov.pc \in {"queued", "start", "started"}
TokenOrder == cred.token <= prov.token /\ (Rotating => cred.token < prov.token)

\* Whatever has been passed by an accepted request has an old timestamp or a
\* token that was replaced, and no later rotation makes its token anew.
Spent(m) == m.past => /\ m.token <= prov.token
                      /\ Rotating => m.token < prov.token
                      /\ m.token = cred.token => m.old
Requests == {m \in Request : m.token # 0 /\ Spent(m)}

\* The rotation's token is nobody's yet, or will not be anybody's; or it has
\* been activated.  The Cloud's verdict comes after the Hub's.
Unmade == Rotating \/ prov.status = "failed" \/ (prov.pc = "report" /\ ~prov.ok)
Made == prov.pc = "activated" \/ (prov.pc = "report" /\ prov.ok)
Verdicts ==
  /\ row.hash <= prov.token
  /\ cred.token # 0 => row.hash <= cred.token
  /\ Unmade => cred.token < prov.token /\ row.hash < prov.token
  /\ Made => cred.token \in {0, prov.token}
  /\ prov.status \in {"none", "succeeded", "failed"} => prov.pc = "none"
  /\ prov.status = "succeeded" => {cred.token, row.hash} \subseteq {0, prov.token}

Inv == TypeOK /\ Counted /\ TokenOrder /\ net \in Seq(Requests) /\ Verdicts

\* The bounds are numbers.
LEMMA Bounds ==
  MaxInstalls \in Nat /\ MaxTokens \in Nat /\ MaxNet \in Nat /\ MaxEvents \in Nat
BY AgentAssumption

\* Another of the bounded events.
LEMMA SpendTyped ==
  ASSUME used \in 0..MaxEvents, Spend
  PROVE  used' \in 0..MaxEvents
BY Bounds DEF Spend

-----------------------------------------------------------------------------
(* Requests in flight.                                                     *)

\* The request at k is taken out.
LEMMA RemoveTyped ==
  ASSUME NEW S, NEW s \in Seq(S), NEW k \in DOMAIN s
  PROVE  /\ SubSeq(s, 1, k - 1) \o SubSeq(s, k + 1, Len(s)) \in Seq(S)
         /\ Len(SubSeq(s, 1, k - 1) \o SubSeq(s, k + 1, Len(s))) <= Len(s)
<1>1. k \in 1..Len(s) /\ Len(s) \in Nat
  OBVIOUS
<1>2. /\ SubSeq(s, 1, k - 1) \in Seq(S) /\ SubSeq(s, k + 1, Len(s)) \in Seq(S)
      /\ Len(SubSeq(s, 1, k - 1)) = k - 1 /\ Len(SubSeq(s, k + 1, Len(s))) = Len(s) - k
  BY <1>1
<1> QED
  BY <1>1, <1>2

\* What is in flight stays as it is when no token changes.
LEMMA SameRequests ==
  ASSUME UNCHANGED <<cred, prov>>
  PROVE  Requests' = Requests
BY DEF Requests, Spent, Rotating

\* The conjuncts of the invariant that a step of the rest keeps.
LEMMA KeepsInv ==
  ASSUME Inv, UNCHANGED <<net, cred, prov, row>>, TypeOK', agent'.here => agent'.n # 0
  PROVE  Inv'
BY SameRequests DEF Inv, Counted, TokenOrder, Rotating, Verdicts, Unmade, Made

-----------------------------------------------------------------------------
(* The steps.                                                              *)

LEMMA InitInv == Init => Inv
<1> SUFFICES ASSUME Init PROVE Inv
  OBVIOUS
<1>1. TypeOK
  <2>1. NoIds \in Ids
    BY Bounds DEF NoIds, Ids, PairId
  <2>2. cred \in Cred /\ prov \in Provisioning
    BY <2>1, Bounds DEF Init, Cred, NoCred, Provisioning, Token
  <2>3. agent \in Agent /\ agent.up = FALSE
    BY Bounds DEF Init, Agent, Token
  <2>6. auto \in AutoStart
    <3>1. 0 \in Token
      BY Bounds DEF Token
    <3>2. auto = [busy |-> FALSE, token |-> 0]
      BY DEF Init, NoAuto
    <3> QED
      BY <3>1, <3>2 DEF AutoStart
  <2>4. idx \in Index /\ row \in Row
    BY Bounds DEF Init, Index, NoIndex, Row, NoRow, Token
  <2>5. net \in Seq(Request) /\ Len(net) <= MaxNet
    BY Bounds DEF Init
  <2> QED
    <3>1. beats \subseteq Install /\ used \in 0..MaxEvents
      BY Bounds DEF Init
    <3>2. via \in {"usb", "wifi", "off"} /\ gone \in BOOLEAN
      BY DEF Init
    <3> QED
      BY <2>2, <2>3, <2>4, <2>5, <2>6, <3>1, <3>2 DEF TypeOK
<1>2. net \in Seq(Requests)
  BY DEF Init
<1> QED
  BY <1>1, <1>2 DEF Init, Inv, Counted, TokenOrder, Rotating, Verdicts, Unmade, Made, NoCred, NoRow

\* Delivery marks what the accepted request has passed, which was sent with
\* the token of the record, and so not with that of a rotation.
LEMMA DeliverInv ==
  ASSUME Inv, NEW k \in 1..MaxNet, Deliver(k)
  PROVE  Inv'
<1> DEFINE m == net[k]
           seen == [j \in DOMAIN net |->
                      IF Accepted(m) /\ j <= k
                      THEN [net[j] EXCEPT !.old = TRUE, !.past = @ \/ net[j].token = m.token]
                      ELSE net[j]]
<1>0. k \in DOMAIN net
  BY DEF Deliver
<1>1. net \in Seq(Requests) /\ DOMAIN net = 1..Len(net) /\ Len(net) \in Nat
  BY DEF Inv
<1>2. \A j \in DOMAIN net : seen[j] \in Requests
  <2> SUFFICES ASSUME NEW j \in DOMAIN net PROVE seen[j] \in Requests
    OBVIOUS
  <2>1. net[j] \in Requests /\ net[j] \in Request
    BY <1>1 DEF Requests
  <2>2. CASE Accepted(m) /\ j <= k
    <3> DEFINE r == [net[j] EXCEPT !.old = TRUE, !.past = @ \/ net[j].token = m.token]
    <3>1. seen[j] = r
      BY <2>2
    <3>2. (net[j].past \/ net[j].token = m.token) \in BOOLEAN
      BY <2>1 DEF Request
    <3>3. r \in Request /\ r.token = net[j].token /\ r.old
          /\ (r.past <=> net[j].past \/ net[j].token = m.token)
      BY <2>1, <3>2 DEF Request
    <3>4. m.token = cred.token
      BY <2>2 DEF Accepted
    <3> HIDE DEF r
    <3>5. r \in Requests
      BY <2>1, <3>3, <3>4 DEF Requests, Spent, Inv, TokenOrder
    <3> QED
      BY <3>1, <3>5
  <2>3. CASE ~(Accepted(m) /\ j <= k)
    BY <2>1, <2>3
  <2> QED
    BY <2>2, <2>3
<1>3. seen \in Seq(Requests) /\ Len(seen) = Len(net) /\ DOMAIN seen = DOMAIN net
  <2> HIDE DEF m
  <2>1. seen \in [1..Len(net) -> Requests]
    BY <1>1, <1>2
  <2> HIDE DEF seen
  <2> QED
    BY <1>1, <2>1
<1>4. net' \in Seq(Requests) /\ Len(net') <= Len(net) /\ used' \in 0..MaxEvents
  <2>1. CASE net' = SubSeq(seen, 1, k - 1) \o SubSeq(seen, k + 1, Len(net)) /\ UNCHANGED used
    BY <1>0, <1>1, <1>3, <2>1, RemoveTyped DEF Inv, TypeOK
  <2>2. CASE net' = seen /\ Spend
    <3>1. used' \in 0..MaxEvents
      BY <2>2, SpendTyped DEF Inv, TypeOK
    <3> HIDE DEF seen
    <3> QED
      BY <1>1, <1>3, <2>2, <3>1
  <2> QED
    BY <2>1, <2>2 DEF Deliver
<1>5. net' \in Seq(Request)
  BY <1>4 DEF Requests
<1>6. beats' \subseteq Install
  <2>1. m \in Request
    BY <1>0, <1>1 DEF Requests
  <2>2. m.n \in Install
    BY <2>1 DEF Request
  <2>3. beats' \in {beats, beats \cup {m.n}}
    BY DEF Deliver
  <2> QED
    BY <2>2, <2>3 DEF Inv, TypeOK
<1>7. TypeOK'
  <2>1. Len(net') <= MaxNet
    BY <1>1, <1>4, <1>5, Bounds DEF Inv, TypeOK
  <2>2. UNCHANGED <<agent, cred, idx, via, row, prov, gone, auto>>
    BY DEF Deliver
  <2> QED
    BY <1>4, <1>5, <1>6, <2>1, <2>2 DEF Inv, TypeOK
<1>8. Requests' = Requests
  BY SameRequests DEF Deliver
<1> QED
  BY <1>4, <1>7, <1>8 DEF Deliver, Inv, Counted, TokenOrder, Rotating, Verdicts, Unmade, Made

LEMMA LoseInv ==
  ASSUME Inv, NEW k \in 1..MaxNet, Lose(k)
  PROVE  Inv'
<1>1. k \in DOMAIN net /\ net' = SubSeq(net, 1, k - 1) \o SubSeq(net, k + 1, Len(net))
  BY DEF Lose
<1>2. net' \in Seq(Requests) /\ Len(net') <= Len(net)
  BY <1>1, RemoveTyped DEF Inv
<1>3. net' \in Seq(Request) /\ Len(net') <= MaxNet
  BY <1>2, Bounds DEF Requests, Inv, TypeOK
<1>4. TypeOK'
  BY <1>3, SpendTyped DEF Lose, Inv, TypeOK
<1>5. Requests' = Requests
  BY SameRequests DEF Lose
<1> QED
  BY <1>2, <1>4, <1>5 DEF Lose, Inv, Counted, TokenOrder, Rotating, Verdicts, Unmade, Made

LEMMA SendInv ==
  ASSUME Inv, NEW kind \in {"beat", "call"}, Send(kind)
  PROVE  Inv'
<1> DEFINE m == [kind |-> kind, n |-> agent.n, token |-> agent.token, old |-> FALSE, past |-> FALSE]
<1>1. agent \in Agent /\ agent.n # 0 /\ agent.token # 0
  BY DEF Send, Inv, TypeOK, Counted
<1>2. agent.n \in Install /\ agent.token \in Token
  BY <1>1, Bounds DEF Agent, Install, Token
<1>3. m \in Requests
  BY <1>1, <1>2 DEF Requests, Request, Spent
<1>4. net' = Append(net, m) /\ Len(net) < MaxNet
  BY DEF Send
<1> HIDE DEF m
<1>5. net' \in Seq(Requests) /\ Len(net') <= MaxNet
  BY <1>3, <1>4, Bounds DEF Inv
<1>6. net' \in Seq(Request)
  BY <1>5 DEF Requests
<1>7. used' \in 0..MaxEvents
  BY SpendTyped DEF Send, Inv, TypeOK
<1>8. TypeOK'
  BY <1>5, <1>6, <1>7 DEF Send, Inv, TypeOK
<1>9. Requests' = Requests
  BY SameRequests DEF Send
<1> QED
  BY <1>5, <1>8, <1>9 DEF Send, Inv, Counted, TokenOrder, Rotating, Verdicts, Unmade, Made

\* A start leaves the app where it is.
LEMMA StartedTyped ==
  ASSUME NEW a \in Agent, a.up => a.here, NEW token \in Token
  PROVE  /\ Started(a, token) \in Agent /\ Started(a, token).here = a.here
         /\ Started(a, token).n = a.n /\ (Started(a, token).up => a.here)
<1>1. CASE ~a.here
  BY <1>1 DEF Started
<1>2. CASE a.here
  <2> DEFINE b == [a EXCEPT !.up = TRUE, !.token = IF token = 0 THEN @ ELSE token]
  <2>1. b \in Agent /\ b.here = a.here /\ b.n = a.n
    BY DEF Agent
  <2>2. Started(a, token) = b
    BY <1>2 DEF Started
  <2> QED
    BY <1>2, <2>1, <2>2
<1> QED
  BY <1>1, <1>2

\* The agent, and what the Hub does without the credential or the Cloud's row.
LEMMA AgentInv ==
  ASSUME Inv, \/ AgentDies \/ Uninstalled \/ Launch \/ AutoStarts \/ Forget
              \/ \E v \in {"usb", "wifi", "off"} : Connection(v)
  PROVE  Inv'
<1>0. /\ agent \in Agent /\ (agent.up => agent.here) /\ cred \in Cred /\ auto \in AutoStart
      /\ row \in Row /\ idx \in Index /\ beats \subseteq Install
  BY DEF Inv, TypeOK
<1>1. CASE AgentDies
  <2>1. agent' \in Agent /\ ~agent'.up /\ agent'.here = agent.here /\ agent'.n = agent.n
    BY <1>0, <1>1 DEF AgentDies, Agent
  <2>2. TypeOK'
    BY <1>1, <2>1, SpendTyped DEF AgentDies, Inv, TypeOK
  <2> QED
    BY <1>1, <2>1, <2>2, KeepsInv DEF AgentDies, Inv, Counted
<1>2. CASE Uninstalled
  <2>1. 0 \in Token
    BY Bounds DEF Token
  <2>2. agent' \in Agent /\ ~agent'.up /\ ~agent'.here
    BY <1>0, <1>2, <2>1 DEF Uninstalled, Agent
  <2>3. TypeOK'
    BY <1>2, <2>2, SpendTyped DEF Uninstalled, Inv, TypeOK
  <2> QED
    BY <1>2, <2>2, <2>3, KeepsInv DEF Uninstalled
<1>3. CASE Launch
  <2>1. cred.token \in Token
    BY <1>0 DEF Cred
  <2>2. /\ agent' \in Agent /\ (agent'.up => agent'.here) /\ agent'.here = agent.here
        /\ agent'.n = agent.n
    BY <1>0, <1>3, <2>1, StartedTyped DEF Launch
  <2>3. TypeOK'
    BY <1>3, <2>2, SpendTyped DEF Launch, Inv, TypeOK
  <2> QED
    BY <1>3, <2>2, <2>3, KeepsInv DEF Launch, Inv, Counted
<1>4. CASE AutoStarts
  <2>1. auto.token \in Token /\ auto' \in AutoStart
    BY <1>0, <1>4, Bounds DEF AutoStarts, AutoStart, NoAuto, Token
  <2>2. /\ agent' \in Agent /\ (agent'.up => agent'.here) /\ agent'.here = agent.here
        /\ agent'.n = agent.n
    BY <1>0, <1>4, <2>1, StartedTyped DEF AutoStarts
  <2>3. TypeOK'
    BY <1>4, <2>1, <2>2 DEF AutoStarts, Inv, TypeOK
  <2> QED
    BY <1>4, <2>2, <2>3, KeepsInv DEF AutoStarts, Inv, Counted
<1>5. CASE Forget
  <2>1. idx' \in Index
    BY <1>0, <1>5 DEF Forget, Index, Row
  <2>2. TypeOK'
    BY <1>0, <1>5, <2>1, SpendTyped DEF Forget, Inv, TypeOK
  <2> QED
    BY <1>5, <2>2, KeepsInv DEF Forget, Inv, Counted
<1>6. ASSUME NEW v \in {"usb", "wifi", "off"}, Connection(v) PROVE Inv'
  <2>1. idx' \in Index
    BY <1>0, <1>6 DEF Connection, Index
  <2>2. TypeOK'
    BY <1>6, <2>1, SpendTyped DEF Connection, Inv, TypeOK
  <2> QED
    BY <1>6, <2>2, KeepsInv DEF Connection, Inv, Counted
<1> QED
  BY <1>1, <1>2, <1>3, <1>4, <1>5, <1>6

-----------------------------------------------------------------------------
(* Provisioning.                                                           *)

\* The ids a record may have.
LEMMA PayloadTyped ==
  ASSUME Inv
  PROVE  RoutePayload \in Ids /\ (agent.here => FullPayload \in Ids)
<1>1. NoIds \in Ids /\ row.agent \in 0..MaxInstalls /\ agent.n \in 0..MaxInstalls
  BY Bounds DEF NoIds, Ids, PairId, Inv, TypeOK, Row, Agent
<1>2. RoutePayload \in Ids
  <2>1. (IF row.agent = 0 THEN Nobody ELSE Uuid(row.agent)) \in PairId
    BY <1>1, Bounds DEF PairId, Install
  <2> QED
    BY <1>1, <2>1 DEF RoutePayload, Ids
<1>3. ASSUME agent.here PROVE FullPayload \in Ids
  <2>1. agent.n \in Install
    BY <1>1, <1>3, Bounds DEF Inv, Counted, Install
  <2>2. Pair(agent.n) \in PairId
    BY <2>1 DEF PairId
  <2> QED
    BY <1>1, <2>2 DEF FullPayload, Ids
<1> QED
  BY <1>2, <1>3

\* A rotation that does not change tokens leaves what is in flight as it is.
LEMMA SameTokens ==
  ASSUME Inv, UNCHANGED <<net, cred>>, prov'.token = prov.token, Rotating' => Rotating
  PROVE  net' \in Seq(Requests') /\ TokenOrder'
<1>1. \A m : m \in Requests => m \in Requests'
  BY DEF Requests, Spent
<1> QED
  BY <1>1 DEF Inv, TokenOrder

\* The numbers and the truth values that the rotation is made of.
LEMMA Numbers ==
  ASSUME Inv
  PROVE  /\ prov.token \in Token /\ cred.token \in Token /\ row.hash \in Token
         /\ Token \subseteq Nat /\ 0 \in Token /\ prov.ok \in BOOLEAN
BY Bounds DEF Inv, TypeOK, Provisioning, Cred, Row, Token

\* What Hub and Cloud make of a command that has run.
LEMMA AbandonedTyped ==
  ASSUME NEW p \in Provisioning
  PROVE  /\ Abandoned(p) \in Provisioning /\ Abandoned(p).pc \in {"none", "stuck"}
         /\ Abandoned(p).token = p.token /\ Abandoned(p).status = p.status
         /\ Abandoned(p).pc = "stuck" => p.status # "cancelled"
BY DEF Abandoned, Provisioning

LEMMA ProvisioningInv ==
  ASSUME Inv, RequestProvisioning \/ CancelProvisioning \/ ProvisioningStep
  PROVE  Inv'
<1>0. /\ prov \in Provisioning /\ agent \in Agent /\ (agent.up => agent.here) /\ cred \in Cred
      /\ row \in Row
  BY DEF Inv, TypeOK
<1>a. /\ prov.token \in Nat /\ cred.token \in Nat /\ row.hash \in Nat /\ prov.token \in Token
      /\ prov.ok \in BOOLEAN
  BY Numbers
<1>1. CASE RequestProvisioning
  <2>1. PICK ids \in {RoutePayload} \cup
                     (IF OperatorPayloads /\ agent.here THEN {FullPayload} ELSE {}) :
          prov' = [pc |-> "queued", status |-> "accepted", ids |-> ids,
                   token |-> prov.token + 1, ok |-> FALSE]
    BY <1>1 DEF RequestProvisioning
  <2>2. ids \in Ids
    BY <2>1, PayloadTyped
  <2>3. prov.token + 1 \in Token
    BY <1>1, <1>a, Bounds DEF RequestProvisioning, Token
  <2>4. /\ prov' \in Provisioning /\ prov'.pc = "queued" /\ prov'.token = prov.token + 1
        /\ prov'.status = "accepted"
    BY <2>1, <2>2, <2>3 DEF Provisioning
  <2>5. TypeOK' /\ UNCHANGED <<agent, net, cred, row>>
    BY <1>1, <2>4 DEF RequestProvisioning, Inv, TypeOK
  <2>6. \A m : m \in Requests => m \in Requests'
    <3> SUFFICES ASSUME NEW m \in Requests PROVE m \in Requests'
      OBVIOUS
    <3>1. m \in Request /\ m.token \in Nat
      BY Bounds DEF Requests, Request, Token
    <3>2. m.past => m.token < prov.token + 1 /\ (m.token = cred.token => m.old)
      BY <1>a, <3>1 DEF Requests, Spent
    <3> QED
      BY <1>a, <2>4, <2>5, <3>1, <3>2 DEF Requests, Spent
  <2>7. net' \in Seq(Requests')
    BY <2>5, <2>6 DEF Inv
  <2>8. TokenOrder'
    BY <1>a, <2>4, <2>5 DEF Inv, TokenOrder
  <2>9. Verdicts'
    BY <1>a, <2>4, <2>5 DEF Inv, TokenOrder, Verdicts, Made
  <2> QED
    BY <2>5, <2>7, <2>8, <2>9 DEF Inv, Counted
<1>2. CASE CancelProvisioning
  <2>1. /\ prov' \in Provisioning /\ prov'.pc \in {prov.pc, "none"} /\ prov'.token = prov.token
        /\ prov'.status = "cancelled" /\ prov'.ok = prov.ok
    BY <1>0, <1>2 DEF CancelProvisioning, Provisioning
  <2>2. used' \in 0..MaxEvents
    BY <1>2, SpendTyped DEF CancelProvisioning, Inv, TypeOK
  <2>3. TypeOK' /\ UNCHANGED <<agent, net, cred, row>>
    BY <1>2, <2>1, <2>2 DEF CancelProvisioning, Inv, TypeOK
  <2> QED
    BY <2>1, <2>3, SameTokens DEF Inv, Counted, Rotating, Verdicts, Unmade, Made
<1>3. CASE InstallApp
  <2>1. /\ prov' \in Provisioning /\ prov'.pc = "start" /\ prov'.token = prov.token
        /\ prov'.status \in {prov.status, "running"} /\ prov.pc = "queued"
    BY <1>0, <1>3 DEF InstallApp, Provisioning, Open
  <2>2. agent' \in Agent /\ ~agent'.up /\ agent'.here /\ agent'.n # 0
    <3>1. CASE agent.here
      BY <1>0, <1>3, <3>1 DEF InstallApp, Agent, Inv, Counted
    <3>2. CASE ~agent.here
      <4>1. agent.n < MaxInstalls /\ agent' = [here |-> TRUE, n |-> agent.n + 1, token |-> 0, up |-> FALSE]
        BY <1>3, <3>2 DEF InstallApp
      <4>2. agent.n + 1 \in 0..MaxInstalls /\ agent.n + 1 # 0 /\ 0 \in Token
        BY <1>0, <4>1, Bounds DEF Agent, Token
      <4> QED
        BY <4>1, <4>2 DEF Agent
    <3> QED
      BY <3>1, <3>2
  <2>3. used' \in 0..MaxEvents
    BY <1>3, SpendTyped DEF InstallApp, Inv, TypeOK
  <2>4. TypeOK' /\ UNCHANGED <<net, cred, row>>
    BY <1>3, <2>1, <2>2, <2>3 DEF InstallApp, Inv, TypeOK
  <2> QED
    BY <2>1, <2>2, <2>4, SameTokens DEF Inv, Counted, Rotating, Verdicts, Unmade, Made
<1>4. CASE StartTakesEffect
  <2>1. /\ prov' \in Provisioning /\ prov'.pc = "started" /\ prov'.token = prov.token
        /\ prov'.status = prov.status /\ prov.pc = "start"
    BY <1>0, <1>4 DEF StartTakesEffect, Provisioning
  <2>2. /\ agent' \in Agent /\ (agent'.up => agent'.here) /\ agent'.here = agent.here
        /\ agent'.n = agent.n
    BY <1>0, <1>4, <1>a, StartedTyped DEF StartTakesEffect
  <2>3. TypeOK' /\ UNCHANGED <<net, cred, row>>
    BY <1>4, <2>1, <2>2 DEF StartTakesEffect, Inv, TypeOK
  <2> QED
    BY <2>1, <2>2, <2>3, SameTokens DEF Inv, Counted, Rotating, Verdicts, Unmade, Made
<1>5. CASE ProvisioningFails
  <2>1. /\ prov' \in Provisioning /\ prov'.pc = "report" /\ prov'.token = prov.token
        /\ prov'.status = prov.status /\ ~prov'.ok /\ Rotating
    BY <1>0, <1>5 DEF ProvisioningFails, Provisioning, Rotating
  <2>2. used' \in 0..MaxEvents
    BY <1>5, SpendTyped DEF ProvisioningFails, Inv, TypeOK
  <2>3. TypeOK' /\ UNCHANGED <<agent, net, cred, row>>
    BY <1>5, <2>1, <2>2 DEF ProvisioningFails, Inv, TypeOK
  <2> QED
    BY <2>1, <2>3, SameTokens DEF Inv, Counted, Rotating, Verdicts, Unmade, Made
<1>6. CASE ProvisioningUnknown
  <2>1. [prov EXCEPT !.status = IF Open THEN "unknown" ELSE @] \in Provisioning
    BY <1>0 DEF Provisioning
  <2>2. /\ prov' \in Provisioning /\ prov'.pc \in {"none", "stuck"} /\ prov'.token = prov.token
        /\ prov'.status \in {prov.status, "unknown"} /\ Rotating
    BY <1>0, <1>6, <2>1, AbandonedTyped DEF ProvisioningUnknown, Rotating, Provisioning
  <2>3. used' \in 0..MaxEvents
    BY <1>6, SpendTyped DEF ProvisioningUnknown, Inv, TypeOK
  <2>4. TypeOK' /\ UNCHANGED <<agent, net, cred, row>>
    BY <1>6, <2>2, <2>3 DEF ProvisioningUnknown, Inv, TypeOK
  <2> QED
    BY <2>2, <2>4, SameTokens DEF Inv, Counted, Rotating, Verdicts, Unmade, Made
<1>7. CASE Activate
  <2>1. /\ prov.pc = "started" /\ prov.ids \in Ids /\ cred.ids \in Ids
    BY <1>0, <1>7 DEF Activate, ActivateReady, Provisioning, Cred
  <2>2. /\ prov' \in Provisioning /\ prov'.pc = "activated" /\ prov'.token = prov.token
        /\ prov'.status = prov.status
    BY <1>0, <1>7, <2>1 DEF Activate, Provisioning
  <2>3. cred' \in Cred /\ cred'.token = prov.token
    <3> DEFINE ids == [pair |-> IF prov.ids.pair = Nobody THEN cred.ids.pair ELSE prov.ids.pair,
                       agent |-> IF prov.ids.agent = 0 THEN cred.ids.agent ELSE prov.ids.agent,
                       android |-> prov.ids.android \/ cred.ids.android]
    <3>1. (prov.ids.android \/ cred.ids.android) \in BOOLEAN
      OBVIOUS
    <3>2. ids \in Ids
      BY <2>1, <3>1 DEF Ids
    <3>3. cred' = [token |-> prov.token, ids |-> ids]
      BY <1>7 DEF Activate
    <3> HIDE DEF ids
    <3> QED
      BY <1>a, <3>2, <3>3 DEF Cred
  <2>4. net' = [k \in DOMAIN net |-> [net[k] EXCEPT !.old = FALSE]]
        /\ net \in Seq(Requests) /\ DOMAIN net = 1..Len(net) /\ Len(net) \in Nat
    BY <1>7 DEF Activate, Inv
  <2>5. \A k \in DOMAIN net : [net[k] EXCEPT !.old = FALSE] \in Requests'
    <3> SUFFICES ASSUME NEW k \in DOMAIN net
                 PROVE  [net[k] EXCEPT !.old = FALSE] \in Requests'
      OBVIOUS
    <3> DEFINE r == [net[k] EXCEPT !.old = FALSE]
    <3>1. net[k] \in Request /\ net[k].token # 0 /\ Spent(net[k])
      BY <2>4 DEF Requests
    <3>2. r \in Request /\ r.token = net[k].token /\ r.past = net[k].past
      BY <3>1 DEF Request
    <3>5. r.token \in Nat
      BY <3>1, <3>2, Bounds DEF Request, Token
    <3>3. r.past => r.token < prov.token
      BY <2>1, <3>1, <3>2 DEF Spent, Rotating
    <3> HIDE DEF r
    <3>4. r \in Requests'
      BY <1>a, <2>2, <2>3, <3>1, <3>2, <3>3, <3>5 DEF Requests, Spent, Rotating
    <3> QED
      BY <3>4 DEF r
  <2>6. net' \in Seq(Requests') /\ Len(net') = Len(net)
    <3>1. net' \in [1..Len(net) -> Requests']
      BY <2>4, <2>5
    <3> QED
      BY <2>4, <3>1
  <2>7. net' \in Seq(Request)
    BY <2>6 DEF Requests
  <2>8. TypeOK' /\ UNCHANGED <<agent, row>>
    BY <1>7, <2>2, <2>3, <2>6, <2>7 DEF Activate, Inv, TypeOK
  <2>9. TokenOrder'
    BY <1>a, <2>2, <2>3 DEF TokenOrder, Rotating
  <2>10. Verdicts'
    BY <1>a, <2>1, <2>2, <2>3, <2>8 DEF Inv, Verdicts, Unmade, Made, Rotating
  <2> QED
    BY <2>6, <2>8, <2>9, <2>10 DEF Inv, Counted
<1>8. CASE Complete
  <2>1. /\ prov' \in Provisioning /\ prov'.pc = "report" /\ prov'.token = prov.token
        /\ prov'.status = prov.status /\ prov'.ok /\ prov.pc = "activated"
    BY <1>0, <1>8 DEF Complete, Provisioning
  <2>2. TypeOK' /\ UNCHANGED <<agent, net, cred, row>>
    BY <1>8, <2>1 DEF Complete, Inv, TypeOK
  <2> QED
    BY <2>1, <2>2, SameTokens DEF Inv, Counted, Rotating, Verdicts, Unmade, Made
<1>9. CASE Report
  <2>1. /\ prov' \in Provisioning /\ prov'.pc = "none" /\ prov'.token = prov.token
        /\ prov'.status = (IF prov.ok THEN "succeeded" ELSE "failed") /\ prov.pc = "report"
    BY <1>0, <1>9 DEF Report, Provisioning
  <2>2. row' \in Row /\ row'.hash = IF prov.ok THEN prov.token ELSE row.hash
    BY <1>0, <1>9, <1>a DEF Report, Row
  <2>3. TypeOK' /\ UNCHANGED <<agent, net, cred>>
    BY <1>9, <2>1, <2>2 DEF Report, Inv, TypeOK
  <2>4. Verdicts'
    <3>1. CASE prov.ok
      BY <1>a, <2>1, <2>2, <2>3, <3>1 DEF Inv, Verdicts, Unmade, Made, Rotating
    <3>2. CASE ~prov.ok
      BY <1>a, <2>1, <2>2, <2>3, <3>2 DEF Inv, Verdicts, Unmade, Made, Rotating
    <3> QED
      BY <3>1, <3>2
  <2> QED
    BY <2>1, <2>3, <2>4, SameTokens DEF Inv, Counted, Rotating
<1>10. CASE ReportRefused
  <2>1. /\ prov' \in Provisioning /\ prov'.pc \in {"none", "stuck"} /\ prov'.token = prov.token
        /\ prov'.status = prov.status /\ prov.pc = "report"
    BY <1>0, <1>10, AbandonedTyped DEF ReportRefused
  <2>2. used' \in 0..MaxEvents
    BY <1>10, SpendTyped DEF ReportRefused, Inv, TypeOK
  <2>3. TypeOK' /\ UNCHANGED <<agent, net, cred, row>>
    BY <1>10, <2>1, <2>2 DEF ReportRefused, Inv, TypeOK
  <2> QED
    BY <2>1, <2>3, SameTokens DEF Inv, Counted, Rotating, Verdicts, Unmade, Made
<1> QED
  BY <1>1, <1>2, <1>3, <1>4, <1>5, <1>6, <1>7, <1>8, <1>9, <1>10 DEF ProvisioningStep

-----------------------------------------------------------------------------
(* Synchronisation, forgetting and restarts.                               *)

\* A sync keeps the hash of the row; who is heard was heard before.
LEMMA SyncInv ==
  ASSUME Inv, Syncs
  PROVE  Inv'
<1>0. /\ row \in Row /\ idx \in Index /\ beats \subseteq Install /\ cred \in Cred
      /\ auto \in AutoStart /\ Install \subseteq 0..MaxInstalls /\ 0 \in 0..MaxInstalls
  BY Bounds DEF Inv, TypeOK, Install
<1>1. PICK stale \in Stale : Sync(stale)
  BY DEF Syncs
<1>2. PICK h \in IF Routed /\ Heard(idx.agent) # {} THEN Heard(idx.agent) ELSE {0} :
        LET a == IF h = 0 THEN idx.agent ELSE h
            left == beats \ stale
            quiet == Routed /\ via # "off" /\ h = 0 /\ agent.here /\ ~auto.busy
        IN /\ idx' = IF Routed THEN [Refreshed EXCEPT !.agent = a] ELSE Refreshed
           /\ beats' = left
           /\ \/ /\ \E n \in IF left = {} THEN {0} ELSE left :
                      row' = WithHeartbeat(IF Routed THEN Detailed(a, h # 0) ELSE row, n)
                 /\ UNCHANGED used
              \/ Spend /\ UNCHANGED row
           /\ \/ quiet /\ auto' = [busy |-> TRUE, token |-> cred.token]
              \/ UNCHANGED auto
           /\ UNCHANGED <<agent, net, cred, via, prov, gone>>
  BY <1>1 DEF Sync, Quiet
<1> DEFINE a == IF h = 0 THEN idx.agent ELSE h
           left == beats \ stale
<1>3. h \in 0..MaxInstalls /\ a \in 0..MaxInstalls
  BY <1>0, <1>2 DEF Heard, Index
<1>4. Refreshed \in Index
  <2>1. (idx.ready \/ idx.ignored) \in BOOLEAN
    OBVIOUS
  <2> QED
    BY <1>0, <2>1 DEF Refreshed, Index
<1>5. idx' \in Index
  <2>1. [Refreshed EXCEPT !.agent = a] \in Index
    BY <1>3, <1>4 DEF Index
  <2> QED
    BY <1>2, <1>4, <2>1
<1>6. beats' \subseteq Install
  BY <1>0, <1>2
<1>7. row' \in Row /\ row'.hash = row.hash
  <2>1. CASE UNCHANGED row
    BY <1>0, <2>1
  <2>2. CASE \E n \in IF left = {} THEN {0} ELSE left :
               row' = WithHeartbeat(IF Routed THEN Detailed(a, h # 0) ELSE row, n)
    <3>1. PICK n \in IF left = {} THEN {0} ELSE left :
            row' = WithHeartbeat(IF Routed THEN Detailed(a, h # 0) ELSE row, n)
      BY <2>2
    <3>2. n \in 0..MaxInstalls
      BY <1>0
    <3> DEFINE R == IF Routed THEN Detailed(a, h # 0) ELSE row
    <3>3. (IF a = 0 THEN row.agent ELSE a) \in 0..MaxInstalls /\ (h # 0) \in BOOLEAN
      BY <1>0, <1>3 DEF Row
    <3>4. Detailed(a, h # 0) \in Row /\ Detailed(a, h # 0).hash = row.hash
      BY <1>0, <3>3 DEF Detailed, Row
    <3>5. R \in Row /\ R.hash = row.hash
      BY <1>0, <3>4
    <3> HIDE DEF R
    <3>6. WithHeartbeat(R, n) \in Row /\ WithHeartbeat(R, n).hash = row.hash
      BY <3>2, <3>5 DEF WithHeartbeat, Row
    <3> QED
      BY <3>1, <3>6 DEF R
  <2> QED
    BY <1>2, <2>1, <2>2
<1>8. auto' \in AutoStart
  <2>1. cred.token \in Token
    BY <1>0 DEF Cred
  <2>2. auto' \in {auto, [busy |-> TRUE, token |-> cred.token]}
    BY <1>2
  <2>3. [busy |-> TRUE, token |-> cred.token] \in AutoStart
    BY <2>1 DEF AutoStart
  <2> QED
    BY <1>0, <2>2, <2>3
<1>9. used' \in 0..MaxEvents
  BY <1>2, SpendTyped DEF Inv, TypeOK
<1>10. UNCHANGED <<agent, net, cred, via, prov, gone>>
  BY <1>2
<1>11. TypeOK'
  BY <1>5, <1>6, <1>7, <1>8, <1>9, <1>10 DEF Inv, TypeOK
<1> QED
  BY <1>7, <1>10, <1>11, SameTokens DEF Inv, Counted, Rotating, Verdicts, Unmade, Made

LEMMA ForgetReportedInv ==
  ASSUME Inv, ForgetReported
  PROVE  Inv'
<1>1. row' \in Row /\ row'.hash = 0
  BY Bounds DEF ForgetReported, Row, NoRow, Token
<1>2. TypeOK' /\ UNCHANGED <<agent, net, cred, prov>>
  BY <1>1 DEF ForgetReported, Inv, TypeOK
<1>3. Verdicts'
  BY <1>1, <1>2, Numbers DEF Inv, Verdicts, Unmade, Made, Rotating
<1> QED
  BY <1>2, <1>3, SameTokens DEF Inv, Counted, Rotating

\* A crash loses the heartbeats, perhaps the record, and the rotation.
LEMMA CrashInv ==
  ASSUME Inv, Crash
  PROVE  Inv'
<1>0. prov \in Provisioning /\ row \in Row /\ idx \in Index /\ cred \in Cred
  BY DEF Inv, TypeOK
<1>1. /\ prov' \in Provisioning /\ prov'.token = prov.token /\ prov.token \in Token
      /\ prov'.status = prov.status
      /\ \/ prov' = prov /\ prov.pc \notin {"start", "started", "activated"}
         \/ prov'.pc \in {"none", "stuck"} /\ prov.pc \in {"start", "started", "activated"}
  BY <1>0, AbandonedTyped, Numbers DEF Crash
<1>2. NoCred \in Cred /\ NoIndex \in Index /\ auto' \in AutoStart
  <2>1. 0 \in Token /\ NoIds \in Ids
    BY Bounds DEF Token, NoIds, Ids, PairId
  <2>2. NoIndex \in Index
    BY Bounds DEF Index, NoIndex
  <2>3. auto' = [busy |-> FALSE, token |-> 0]
    BY DEF Crash, NoAuto
  <2> QED
    BY <2>1, <2>2, <2>3 DEF Cred, NoCred, AutoStart
<1>3. \A I \in Index : Restarted(I) \in Index
  BY <1>0 DEF Restarted, Index, Row
<1>4. cred' \in {cred, NoCred} /\ idx' \in Index
  BY <1>0, <1>2, <1>3 DEF Crash
<1>5. used' \in 0..MaxEvents
  BY SpendTyped DEF Crash, Inv, TypeOK
<1>6. TypeOK'
  BY <1>0, <1>1, <1>2, <1>4, <1>5 DEF Crash, Inv, TypeOK
<1>7. /\ Rotating' => Rotating
      /\ cred'.token \in {cred.token, 0} /\ cred.token \in Nat /\ prov.token \in Nat
      /\ row.hash \in Nat /\ UNCHANGED <<agent, net, row>>
  BY <1>1, <1>4, Numbers DEF Rotating, NoCred, Crash
<1>8. \A m : m \in Requests => m \in Requests'
  <2> SUFFICES ASSUME NEW m \in Requests PROVE m \in Requests'
    OBVIOUS
  <2>1. m \in Request /\ m.token # 0 /\ Spent(m)
    BY DEF Requests
  <2> QED
    BY <1>1, <1>7, <2>1 DEF Requests, Spent
<1>9. net' \in Seq(Requests')
  BY <1>7, <1>8 DEF Inv
<1>10. TokenOrder'
  BY <1>1, <1>7 DEF TokenOrder, Inv
<1>11. Verdicts'
  <2>1. CASE prov' = prov
    BY <1>7, <2>1 DEF Inv, Verdicts, Unmade, Made, Rotating
  <2>2. CASE prov'.pc \in {"none", "stuck"} /\ prov.pc \in {"start", "started", "activated"}
    BY <1>1, <1>7, <2>2 DEF Inv, Verdicts, Unmade, Made, Rotating
  <2> QED
    BY <1>1, <2>1, <2>2
<1> QED
  BY <1>6, <1>7, <1>9, <1>10, <1>11 DEF Inv, Counted

\* The invariant holds of every behaviour.
THEOREM AgentInvariant == Spec => []Inv
<1>1. Init => Inv
  BY InitInv
<1>2. Inv /\ [Next]_vars => Inv'
  <2> SUFFICES ASSUME Inv, [Next]_vars PROVE Inv'
    OBVIOUS
  <2>1. CASE UNCHANGED vars
    <3>1. TypeOK'
      BY <2>1 DEF vars, Inv, TypeOK
    <3> QED
      BY <2>1, <3>1, KeepsInv DEF vars, Inv, Counted
  <2> QED
    BY <2>1, DeliverInv, LoseInv, SendInv, AgentInv, ProvisioningInv, SyncInv,
       ForgetReportedInv, CrashInv DEF Next
<1> QED
  BY <1>1, <1>2, PTL DEF Spec

-----------------------------------------------------------------------------
\* The rows, records and requests keep their types, and an app that runs is
\* installed.
THEOREM EndpointTypes == Spec => []TypeOK
<1>1. Inv => TypeOK
  BY DEF Inv
<1> QED
  BY <1>1, AgentInvariant, PTL

\* No request is accepted twice or after a later one with its token, although
\* each rotation forgets lastTimestamp: its token was never sent before.
THEOREM NoReplayHolds == Spec => []NoReplay
<1>1. Inv => NoReplay
  <2> SUFFICES ASSUME Inv, NEW k \in DOMAIN net, net[k].past PROVE ~Accepted(net[k])
    BY DEF NoReplay
  <2>1. net[k] \in Requests
    BY DEF Inv
  <2> QED
    BY <2>1 DEF Requests, Spent, Accepted
<1> QED
  BY <1>1, AgentInvariant, PTL

\* A rotation that the Cloud shows as succeeded is in force at the Hub and in
\* the Cloud, and one that it shows as failed in neither, although reports are
\* cancelled, refused and lost and the Hub restarts or loses its record.
THEOREM RotationVerdictHolds == Spec => []RotationVerdict
<1>1. Inv => RotationVerdict
  <2> SUFFICES ASSUME Inv PROVE RotationVerdict
    OBVIOUS
  <2>1. prov.token \in Nat /\ cred.token \in Nat /\ row.hash \in Nat
    BY Numbers
  <2> QED
    BY <2>1 DEF Inv, Verdicts, Unmade, RotationVerdict
<1> QED
  BY <1>1, AgentInvariant, PTL
=============================================================================
