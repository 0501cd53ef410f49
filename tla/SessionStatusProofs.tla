------------------------ MODULE SessionStatusProofs -------------------------
(***************************************************************************)
(* What the rows of a session, the queue of a headset, its agent and its   *)
(* heartbeats say of each other, for every set of sessions and             *)
(* applications and every bound: types, that a pending operation has its   *)
(* command, that a headset serves its session, that a session keeps        *)
(* SessionContract and follows its rows, for any number of headsets; the   *)
(* rest for one, as the runs have it.                                      *)
(***************************************************************************)
EXTENDS SessionLifecycleProofs, SequenceTheorems

(***************************************************************************)
(* Types.  A row counts its requests; the one END it gets is not bounded   *)
(* by MaxRequests, so its revision is where the row shows it.              *)
(***************************************************************************)
Ended(row) == row.op = "finish_pending" \/ row.status \notin ActiveRow
RevBounded(row) == \/ row.rev <= used["request"] + 1
                   \/ Ended(row) /\ row.rev <= used["request"] + 2

DevTyped == dev \in [Device -> {"online", "busy", "in_session", "error"}]
BoundsInv ==
  /\ used \in [Budget -> Nat] /\ used["request"] <= MaxRequests
  /\ DevTyped
  /\ agent \in [Device -> AgentState] /\ hb \in [Device -> AgentState]
  /\ \A s \in Session, d \in Device : RevBounded(sd[s, d])
  /\ \A d \in Device : \A i \in DOMAIN queue[d] : queue[d][i].rev \in Revision

(***************************************************************************)
(* The queue of a headset holds its sessions one after the other, each     *)
(* with START first and END last; only the oldest command can have been    *)
(* run.  A headset that has heard of the session it is in has nothing else *)
(* to do.                                                                  *)
(***************************************************************************)
InTurn(q) == \A i, j \in DOMAIN q : i < j =>
  /\ q[i].sess <= q[j].sess
  /\ q[i].sess = q[j].sess => q[j].type # "START" /\ q[i].type # "END"
OnlyOldestRun(q) == \A i \in DOMAIN q : q[i].done => i = 1

\* A command is of a session that was created; once it was run, the headset is
\* in that session or in none; the row of an END says so.
CommandSound(d, c) ==
  /\ sess[c.sess].status # "none"
  /\ c.done => /\ agent[d].sess \in {c.sess, None}
               /\ c.type = "END" => agent[d].sess = None
  /\ c.type = "END" => /\ Ended(sd[c.sess, d])
                       /\ c.st # "ghost" => Holds(c.sess, d) /\ sd[c.sess, d].op = "finish_pending"

CreatedInOrder == \A s, t \in Session :
  t < s /\ sess[s].status # "none" => sess[t].status # "none"
Unheard(s) == \A d \in Device : agent[d].sess # s /\ hb[d].sess # s /\ ~Holds(s, d)

\* Requests other than start and stop are about a player who plays.
Asked == {"pause_pending", "resume_pending", "extend_pending", "switch_pending",
          "reconciliation_required"}
Playing(s, d) == sd[s, d].status \in {"running", "paused"}
Heard(s, d) == Playing(s, d) \/ agent[d].sess = s \/ hb[d].sess = s
Alone(s, d) == /\ \A i \in DOMAIN queue[d] : queue[d][i].sess = s
               /\ agent[d].sess \in {s, None}
RowSound(s, d) ==
  /\ sd[s, d].op \in Asked => Playing(s, d)
  /\ Holds(s, d) => /\ \A i \in DOMAIN queue[d] : queue[d][i].sess <= s
                    /\ Heard(s, d) => Alone(s, d)

TurnsInv ==
  /\ \A d \in Device : InTurn(queue[d]) /\ OnlyOldestRun(queue[d])
  /\ \A d \in Device : \A i \in DOMAIN queue[d] : CommandSound(d, queue[d][i])
  /\ CreatedInOrder
  /\ \A s \in Session : sess[s].status = "none" => Unheard(s)
  /\ \A s \in Session, d \in Device : RowSound(s, d)

(***************************************************************************)
(* A session of one headset.  Its status follows the row because ending    *)
(* it and ending the row are the same, and because only an announced START *)
(* can take both from preparing to running.                                *)
(***************************************************************************)
StatusFits(s, d) ==
  /\ sd[s, d].status \in RowStatus[sess[s].status]
  /\ Holds(s, d) => (sess[s].status = "finishing" <=> sd[s, d].op = "finish_pending")
  /\ used["lost"] = 0 /\ sess[s].status = "preparing" => sd[s, d].status = "preparing"
StartFits(d, c) ==
  /\ c.type = "START" /\ c.st # "ghost" /\ sess[c.sess].status = "preparing"
       => sd[c.sess, d].status = "preparing" /\ c.st # "running"
  /\ used["lost"] = 0 => c.st # "silent"

\* What speaks of the latest request of an extended session speaks of its pause.
PauseKnown(s, d, x) ==
  x.sess = s => /\ x.rev <= sd[s, d].rev
                /\ sess[s].status = "extended" /\ sd[s, d].status = "paused"
                   /\ x.rev = sd[s, d].rev => x.paused
OverOnHeadset(s, d) == sess[s].status = "completed" =>
  /\ agent[d].sess # s
  /\ \A i \in DOMAIN queue[d] : queue[d][i].sess # s

StatusInv ==
  /\ \A s \in Session, d \in Device :
       /\ StatusFits(s, d) /\ OverOnHeadset(s, d)
       /\ PauseKnown(s, d, agent[d]) /\ PauseKnown(s, d, hb[d])
       /\ \A i \in DOMAIN queue[d] : PauseKnown(s, d, queue[d][i])
  /\ \A d \in Device : \A i \in DOMAIN queue[d] : StartFits(d, queue[d][i])

-----------------------------------------------------------------------------
(* Queues.                                                                 *)

\* A queue from which command i was taken, or in which it was made a ghost.
Passes(P, Q, i) ==
  \E f \in [DOMAIN P -> DOMAIN Q] :
    /\ \A j, k \in DOMAIN P : j < k => f[j] < f[k]
    /\ \A j \in DOMAIN P : \/ f[j] # i /\ P[j] = Q[f[j]]
                           \/ f[j] = i /\ P[j] = [Q[i] EXCEPT !.st = "ghost"]
    /\ \A k \in DOMAIN Q \ {i} : \E j \in DOMAIN P : P[j] = Q[k]
\* A queue whose oldest command was changed.
Oldest(P, Q, c) == /\ DOMAIN P = DOMAIN Q /\ 1 \in DOMAIN Q /\ P[1] = c
                   /\ \A j \in DOMAIN P : j # 1 => P[j] = Q[j]
Longer(P, Q, c) == /\ DOMAIN P = DOMAIN Q \cup {Len(Q) + 1} /\ P[Len(Q) + 1] = c
                   /\ \A j \in DOMAIN Q : P[j] = Q[j]

LEMMA DropPasses ==
  ASSUME NEW q \in Seq(Sent), q # <<>>
  PROVE  Passes(Tail(q), q, 1)
<1> DEFINE f == [j \in DOMAIN Tail(q) |-> j + 1]
<1>1. Len(q) \in Nat /\ Len(q) > 0 /\ DOMAIN q = 1..Len(q)
  BY EmptySeq, LenProperties
<1>2. Len(Tail(q)) = Len(q) - 1 /\ DOMAIN Tail(q) = 1..(Len(q) - 1)
      /\ \A j \in 1..(Len(q) - 1) : Tail(q)[j] = q[j + 1]
  BY <1>1, HeadTailProperties, LenProperties
<1>3. f \in [DOMAIN Tail(q) -> DOMAIN q]
  BY <1>1, <1>2
<1>4. \A j, k \in DOMAIN Tail(q) : j < k => f[j] < f[k]
  BY <1>1, <1>2
<1>5. \A j \in DOMAIN Tail(q) : f[j] # 1 /\ Tail(q)[j] = q[f[j]]
  BY <1>1, <1>2
<1>6. ASSUME NEW k \in DOMAIN q \ {1}
      PROVE  \E j \in DOMAIN Tail(q) : Tail(q)[j] = q[k]
  <2>1. k - 1 \in DOMAIN Tail(q) /\ Tail(q)[k - 1] = q[k]
    BY <1>1, <1>2
  <2>. QED  BY <2>1
<1>. QED  BY <1>3, <1>4, <1>5, <1>6 DEF Passes

LEMMA RemovedPasses ==
  ASSUME NEW q \in Seq(Sent), NEW i \in DOMAIN q
  PROVE  Passes(Removed(q, i), q, i)
<1> DEFINE n == Len(q)
           p == Removed(q, i)
           a == SubSeq(q, 1, i - 1)
           b == SubSeq(q, i + 1, n)
           f == [j \in DOMAIN p |-> IF j < i THEN j ELSE j + 1]
<1>1. n \in Nat /\ DOMAIN q = 1..n /\ i \in 1..n
  BY LenProperties
<1>2. a \in Seq(Sent) /\ Len(a) = i - 1 /\ \A j \in 1..(i - 1) : a[j] = q[j]
  BY <1>1, SubSeqProperties
<1>3. b \in Seq(Sent) /\ Len(b) = n - i /\ \A j \in 1..(n - i) : b[j] = q[j + i]
  BY <1>1, SubSeqProperties
<1>4. p = a \o b
  BY DEF Removed
<1> HIDE DEF p, a, b
<1>5. p \in Seq(Sent) /\ Len(p) = n - 1 /\ DOMAIN p = 1..(n - 1)
  <2>1. p \in Seq(Sent) /\ Len(p) = Len(a) + Len(b)
    BY <1>2, <1>3, <1>4, ConcatProperties
  <2>. QED  BY <1>1, <1>2, <1>3, <2>1, LenProperties
<1>6. \A j \in DOMAIN p : p[j] = IF j < i THEN q[j] ELSE q[j + 1]
  <2> TAKE j \in DOMAIN p
  <2>1. p[j] = IF j <= Len(a) THEN a[j] ELSE b[j - Len(a)]
    <3>1. j \in 1..(Len(a) + Len(b))
      BY <1>1, <1>2, <1>3, <1>5
    <3>. QED  BY <1>2, <1>3, <1>4, <3>1, ConcatProperties
  <2>2. CASE j < i
    BY <1>1, <1>2, <1>5, <2>1, <2>2
  <2>3. CASE j >= i
    <3>1. j - (i - 1) \in 1..(n - i) /\ (j - (i - 1)) + i = j + 1
      BY <1>1, <1>5, <2>3
    <3>. QED  BY <1>1, <1>2, <1>3, <1>5, <2>1, <2>3, <3>1
  <2>. QED  BY <1>1, <1>5, <2>2, <2>3
<1>7. f \in [DOMAIN p -> DOMAIN q]
  BY <1>1, <1>5
<1>8. \A j, k \in DOMAIN p : j < k => f[j] < f[k]
  BY <1>1, <1>5
<1>9. \A j \in DOMAIN p : f[j] # i /\ p[j] = q[f[j]]
  BY <1>1, <1>5, <1>6
<1>10. ASSUME NEW k \in DOMAIN q \ {i}
       PROVE  \E j \in DOMAIN p : p[j] = q[k]
  <2>1. CASE k < i
    BY <1>1, <1>5, <1>6, <2>1
  <2>2. CASE k > i
    <3>1. k - 1 \in DOMAIN p /\ p[k - 1] = q[k]
      BY <1>1, <1>5, <1>6, <2>2
    <3>. QED  BY <3>1
  <2>. QED  BY <1>1, <2>1, <2>2
<1>. QED  BY <1>7, <1>8, <1>9, <1>10 DEF Passes, p

LEMMA GhostPasses ==
  ASSUME NEW q \in Seq(Sent), NEW i \in DOMAIN q
  PROVE  Passes([q EXCEPT ![i].st = "ghost"], q, i)
<1> DEFINE p == [q EXCEPT ![i].st = "ghost"]
           f == [j \in DOMAIN p |-> j]
<1>1. DOMAIN p = DOMAIN q /\ DOMAIN q = 1..Len(q) /\ Len(q) \in Nat
  BY LenProperties
<1>2. f \in [DOMAIN p -> DOMAIN q] /\ \A j, k \in DOMAIN p : j < k => f[j] < f[k]
  BY <1>1
<1>3. \A j \in DOMAIN p : \/ f[j] # i /\ p[j] = q[f[j]]
                          \/ f[j] = i /\ p[j] = [q[i] EXCEPT !.st = "ghost"]
  BY <1>1
<1>4. \A k \in DOMAIN q \ {i} : \E j \in DOMAIN p : p[j] = q[k]
  BY <1>1
<1>. QED  BY <1>2, <1>3, <1>4 DEF Passes

LEMMA OldestSet ==
  ASSUME NEW q \in Seq(Sent), q # <<>>, NEW c \in Sent
  PROVE  Oldest(<<c>> \o Tail(q), q, c)
<1>1. Len(q) \in Nat /\ Len(q) > 0 /\ DOMAIN q = 1..Len(q)
  BY EmptySeq, LenProperties
<1>2. Tail(q) \in Seq(Sent) /\ Len(Tail(q)) = Len(q) - 1
      /\ \A j \in 1..(Len(q) - 1) : Tail(q)[j] = q[j + 1]
  BY <1>1, HeadTailProperties
<1>3. <<c>> \in Seq(Sent) /\ Len(<<c>>) = 1 /\ <<c>>[1] = c
  OBVIOUS
<1> DEFINE p == <<c>> \o Tail(q)
<1>4. p \in Seq(Sent) /\ Len(p) = Len(q)
      /\ \A j \in 1..Len(q) : p[j] = IF j <= 1 THEN c ELSE Tail(q)[j - 1]
  BY <1>1, <1>2, <1>3, ConcatProperties
<1>5. DOMAIN p = 1..Len(q)
  BY <1>4, LenProperties
<1> HIDE DEF p
<1>6. p[1] = c /\ \A j \in DOMAIN p : j # 1 => p[j] = q[j]
  BY <1>1, <1>2, <1>4, <1>5
<1>. QED  BY <1>1, <1>5, <1>6 DEF Oldest, p

LEMMA AppendLonger ==
  ASSUME NEW q \in Seq(Sent), NEW c \in Sent
  PROVE  Longer(Append(q, c), q, c)
BY AppendProperties, LenProperties DEF Longer

LEMMA QueueFacts ==
  ASSUME SInv, NEW d \in Device
  PROVE  /\ queue[d] \in Seq(Sent) /\ Len(queue[d]) \in Nat
         /\ DOMAIN queue[d] = 1..Len(queue[d])
         /\ \A i \in DOMAIN queue[d] : queue[d][i] \in Sent /\ queue[d][i].sess \in Session
<1>1. queue[d] \in Seq(Sent)
  BY DEF SInv, QueueTyped
<1>2. Len(queue[d]) \in Nat /\ DOMAIN queue[d] = 1..Len(queue[d])
  BY <1>1, LenProperties
<1>3. \A i \in DOMAIN queue[d] : queue[d][i] \in Sent
  BY <1>1, <1>2, ElementOfSeq
<1>. QED  BY <1>1, <1>2, <1>3 DEF Sent

\* Where a command of the new queue comes from.
LEMMA PassesFrom ==
  ASSUME NEW Q \in Seq(Sent), NEW P, NEW i \in DOMAIN Q, Passes(P, Q, i), NEW j \in DOMAIN P
  PROVE  \E k \in DOMAIN Q :
           /\ P[j].sess = Q[k].sess /\ P[j].type = Q[k].type /\ P[j].rev = Q[k].rev
           /\ P[j].paused = Q[k].paused /\ P[j].done = Q[k].done
           /\ P[j].st = "ghost" \/ (k # i /\ P[j] = Q[k])
<1>1. PICK f \in [DOMAIN P -> DOMAIN Q] :
        \A l \in DOMAIN P : \/ f[l] # i /\ P[l] = Q[f[l]]
                            \/ f[l] = i /\ P[l] = [Q[i] EXCEPT !.st = "ghost"]
  BY DEF Passes
<1>2. f[j] \in DOMAIN Q /\ Q[i] \in Sent
  BY LenProperties, ElementOfSeq
<1>3. CASE f[j] # i /\ P[j] = Q[f[j]]
  BY <1>2, <1>3
<1>4. CASE f[j] = i /\ P[j] = [Q[i] EXCEPT !.st = "ghost"]
  <2>1. /\ P[j].sess = Q[i].sess /\ P[j].type = Q[i].type /\ P[j].rev = Q[i].rev
        /\ P[j].paused = Q[i].paused /\ P[j].done = Q[i].done /\ P[j].st = "ghost"
    BY <1>2, <1>4 DEF Sent
  <2>. QED  BY <2>1
<1>. QED  BY <1>1, <1>3, <1>4

LEMMA PassesTurns ==
  ASSUME NEW Q \in Seq(Sent), NEW P \in Seq(Sent), NEW i \in DOMAIN Q, Passes(P, Q, i),
         InTurn(Q), OnlyOldestRun(Q)
  PROVE  InTurn(P) /\ OnlyOldestRun(P)
<1>1. PICK f \in [DOMAIN P -> DOMAIN Q] :
        /\ \A j, k \in DOMAIN P : j < k => f[j] < f[k]
        /\ \A l \in DOMAIN P : \/ f[l] # i /\ P[l] = Q[f[l]]
                               \/ f[l] = i /\ P[l] = [Q[i] EXCEPT !.st = "ghost"]
  BY DEF Passes
<1>2. Q[i] \in Sent /\ DOMAIN Q = 1..Len(Q) /\ DOMAIN P = 1..Len(P)
      /\ Len(P) \in Nat /\ Len(Q) \in Nat
  BY LenProperties, ElementOfSeq
<1>3. ASSUME NEW j \in DOMAIN P
      PROVE  f[j] \in DOMAIN Q /\ P[j].sess = Q[f[j]].sess /\ P[j].type = Q[f[j]].type
             /\ P[j].done = Q[f[j]].done
  BY <1>1, <1>2 DEF Sent
<1>4. InTurn(P)
  BY <1>1, <1>3 DEF InTurn
<1>5. ASSUME NEW j \in DOMAIN P, P[j].done
      PROVE  j = 1
  <2>1. f[j] = 1
    BY <1>3, <1>5 DEF OnlyOldestRun
  <2>2. 1 \in DOMAIN P /\ f[1] \in DOMAIN Q
    BY <1>2
  <2>. QED  BY <1>1, <1>2, <2>1, <2>2
<1>. QED  BY <1>4, <1>5 DEF OnlyOldestRun

LEMMA OldestTurns ==
  ASSUME NEW Q \in Seq(Sent), NEW P, NEW c, Oldest(P, Q, c), c.sess = Q[1].sess,
         c.type = Q[1].type, InTurn(Q), OnlyOldestRun(Q)
  PROVE  InTurn(P) /\ OnlyOldestRun(P)
BY DEF Oldest, InTurn, OnlyOldestRun

LEMMA LongerTurns ==
  ASSUME NEW Q \in Seq(Sent), NEW P, NEW c, Longer(P, Q, c), InTurn(Q), OnlyOldestRun(Q), ~c.done,
         \A j \in DOMAIN Q : Q[j].sess <= c.sess,
         \A j \in DOMAIN Q : Q[j].sess = c.sess => c.type # "START" /\ Q[j].type # "END"
  PROVE  InTurn(P) /\ OnlyOldestRun(P)
<1>1. DOMAIN Q = 1..Len(Q) /\ Len(Q) \in Nat
  BY LenProperties
<1>. QED  BY <1>1 DEF Longer, InTurn, OnlyOldestRun

-----------------------------------------------------------------------------
(* Results.                                                                *)

\* What the result of command c makes of the row that waits for it.
Outcome(r, n, c) ==
  /\ n \in Row /\ n.rev = r.rev
  /\ \/ c.type = "START" /\ n.op = "idle" /\ (n.status = "failed" \/ (n.status = "running" /\ c.done))
     \/ /\ c.type \notin {"START", "END"}
        /\ \/ n.op = "idle" /\ n.status \in {r.status, "running", "paused"}
           \/ n.op = "reconciliation_required" /\ n.status = r.status
     \/ c.type = "END" /\ \/ n.status = "finished" /\ n.op = "idle"
                          \/ n.status = "failed" /\ n.op = "finish_pending"
ResultRow(d, c) ==
  /\ \A s \in Session, e \in Device : s # c.sess \/ e # d => sd'[s, e] = sd[s, e]
  /\ IF sd[c.sess, d].op = OpOf(c.type) THEN Outcome(sd[c.sess, d], sd'[c.sess, d], c)
                                        ELSE sd'[c.sess, d] = sd[c.sess, d]
  /\ \A t \in Session : t # c.sess => sess'[t] = sess[t]
  /\ sess[c.sess].status # "none" => sess'[c.sess].status # "none"
  /\ DevTyped => DevTyped'

LEMMA AggregateSome ==
  ASSUME SessTyped, NEW s \in Session, NEW rows, sess[s].status # "none"
  PROVE  Aggregate(s, rows) # "none"
<1>1. ASSUME NEW t \in Statuses
      PROVE  "none" \notin Transitions[t]
  BY <1>1 DEF Transitions, Statuses, ActiveSession, TerminalSession
<1>2. PICK target : Aggregate(s, rows) = IF sess[s].status # "finishing"
                                            /\ target \in Transitions[sess[s].status]
                                         THEN target ELSE sess[s].status
  BY DEF Aggregate
<1>3. sess[s].status \in Statuses
  BY DEF SessTyped, SessionRow, Statuses
<1>. QED  BY <1>1, <1>2, <1>3

\* The row of the command, and no other, becomes `new'.
LEMMA OneRow ==
  ASSUME SInv, NEW s \in Session, NEW d \in Device, NEW new,
         sd' = [sd EXCEPT ![<<s, d>>] = new]
  PROVE  sd'[s, d] = new
         /\ \A t \in Session, e \in Device : t # s \/ e # d => sd'[t, e] = sd[t, e]
BY DEF SInv, RowsTyped

LEMMA OneSess ==
  ASSUME SInv, NEW s \in Session, NEW next, \/ Move(s, next) /\ next # "none"
                                            \/ UNCHANGED sess
  PROVE  /\ \A t \in Session : t # s => sess'[t] = sess[t]
         /\ sess[s].status # "none" => sess'[s].status # "none"
BY DEF SInv, SessTyped, SessionRow, Move

\* The parts of a result.
SessMoved(s) == \/ \E next : Move(s, next) /\ next # "none"
                \/ UNCHANGED sess
DevMoved(d) == dev' = dev \/ \E status \in {"in_session", "error", "online"} :
                               dev' = [dev EXCEPT ![d] = status]

LEMMA MovedTo ==
  ASSUME NEW s, NEW next, Move(s, next), next # "none"
  PROVE  SessMoved(s)
BY DEF SessMoved

LEMMA RowOfResult ==
  ASSUME SInv, NEW d \in Device, NEW c \in Sent, NEW n,
         IF sd[c.sess, d].op = OpOf(c.type)
         THEN sd' = [sd EXCEPT ![<<c.sess, d>>] = n] /\ Outcome(sd[c.sess, d], n, c)
         ELSE sd' = sd,
         SessMoved(c.sess), DevMoved(d)
  PROVE  ResultRow(d, c)
<1>1. c.sess \in Session
  BY DEF Sent
<1>2. /\ \A t \in Session : t # c.sess => sess'[t] = sess[t]
      /\ sess[c.sess].status # "none" => sess'[c.sess].status # "none"
  BY <1>1, OneSess DEF SessMoved
<1>3. DevTyped => DevTyped'
  BY DEF DevTyped, DevMoved
<1>4. CASE sd[c.sess, d].op = OpOf(c.type)
  <2>1. sd' = [sd EXCEPT ![<<c.sess, d>>] = n]
    BY <1>4
  <2>2. /\ sd'[c.sess, d] = n
        /\ \A t \in Session, e \in Device : t # c.sess \/ e # d => sd'[t, e] = sd[t, e]
    BY <1>1, <2>1 DEF SInv, RowsTyped
  <2>. QED  BY <1>2, <1>3, <1>4, <2>2 DEF ResultRow
<1>5. CASE sd[c.sess, d].op # OpOf(c.type)
  BY <1>2, <1>3, <1>5 DEF ResultRow
<1>. QED  BY <1>4, <1>5

LEMMA SucceededRow ==
  ASSUME SInv, NEW d \in Device, NEW c \in Sent, sess[c.sess].status # "none",
         Succeeded(d, c), c.done
  PROVE  ResultRow(d, c)
<1>1. c.sess \in Session /\ c.app \in App /\ sd[c.sess, d] \in Row /\ SessTyped
  BY DEF Sent, SInv, RowsTyped
<1> DEFINE r == sd[c.sess, d]
<1>2. CASE c.type = "START" /\ StartSucceeded(d, c)
  <2> DEFINE n == [r EXCEPT !.status = "running", !.op = "idle", !.app = c.app]
  <2>1. OpOf(c.type) = "start_pending"
    BY <1>2 DEF OpOf
  <2>2. CASE r.op = "start_pending"
    <3>1. sd' = [sd EXCEPT ![<<c.sess, d>>] = n]
      BY <1>1, <1>2, <2>2 DEF StartSucceeded, SInv, RowsTyped
    <3>2. n \in Row /\ n.rev = r.rev /\ n.op = "idle" /\ n.status = "running"
      BY <1>1 DEF Row, ActiveRow
    <3>3. SessMoved(c.sess)
      BY <1>1, <1>2, <2>2, AggregateSome DEF StartSucceeded, SessMoved
    <3>4. DevMoved(d)
      BY <1>2, <2>2 DEF StartSucceeded, DevMoved
    <3> HIDE DEF n
    <3>5. Outcome(r, n, c)
      BY <1>2, <3>2 DEF Outcome
    <3>. QED  BY <2>1, <2>2, <3>1, <3>3, <3>4, <3>5, RowOfResult
  <2>3. CASE r.op # "start_pending"
    BY <1>2, <2>1, <2>3, RowOfResult DEF StartSucceeded, SessMoved, DevMoved
  <2>. QED  BY <2>2, <2>3
<1>3. CASE c.type \in {"PAUSE", "RESUME", "EXTEND", "SWITCH"} /\ Confirmed(d, c)
  <2> DEFINE n == [r EXCEPT !.op = "idle"]
  <2>1. n \in Row /\ n.rev = r.rev /\ n.op = "idle" /\ n.status = r.status
    BY <1>1 DEF Row
  <2>2. r.op = OpOf(c.type) => sd' = [sd EXCEPT ![<<c.sess, d>>] = n]
    BY <1>1, <1>3 DEF Confirmed, SInv, RowsTyped
  <2>3. r.op # OpOf(c.type) => sd' = sd
    BY <1>3 DEF Confirmed
  <2>4. SessMoved(c.sess) /\ DevMoved(d)
    BY <1>3 DEF Confirmed, SessMoved, DevMoved
  <2> HIDE DEF n
  <2>5. Outcome(r, n, c)
    BY <1>3, <2>1 DEF Outcome
  <2>. QED  BY <2>2, <2>3, <2>4, <2>5, RowOfResult
<1>4. CASE c.type = "END" /\ EndSucceeded(d, c)
  <2> DEFINE n == [r EXCEPT !.status = "finished", !.op = "idle"]
  <2>1. n \in Row /\ n.rev = r.rev /\ n.op = "idle" /\ n.status = "finished"
    BY <1>1 DEF Row
  <2>2. OpOf(c.type) = "finish_pending"
    BY <1>4 DEF OpOf
  <2>3. r.op = "finish_pending" => sd' = [sd EXCEPT ![<<c.sess, d>>] = n]
    BY <1>1, <1>4 DEF EndSucceeded, SInv, RowsTyped
  <2>4. r.op # "finish_pending" => sd' = sd
    BY <1>4 DEF EndSucceeded
  <2>5. SessMoved(c.sess)
    BY <1>4, MovedTo DEF EndSucceeded, SessMoved
  <2>6. DevMoved(d)
    BY <1>4 DEF EndSucceeded, DevMoved
  <2> HIDE DEF n
  <2>7. Outcome(r, n, c)
    BY <1>4, <2>1 DEF Outcome
  <2>. QED  BY <2>2, <2>3, <2>4, <2>5, <2>6, <2>7, RowOfResult
<1>. QED  BY <1>2, <1>3, <1>4 DEF Succeeded

LEMMA FailedRow ==
  ASSUME SInv, NEW d \in Device, NEW c \in Sent, sess[c.sess].status # "none", Failed(d, c)
  PROVE  ResultRow(d, c)
<1>1. c.sess \in Session /\ c.prevApp \in App /\ sd[c.sess, d] \in Row /\ SessTyped
  BY DEF Sent, SInv, RowsTyped
<1> DEFINE r == sd[c.sess, d]
<1>2. CASE c.type = "START" /\ StartFailed(d, c)
  <2> DEFINE n == [r EXCEPT !.status = "failed", !.op = "idle"]
  <2>1. OpOf(c.type) = "start_pending"
    BY <1>2 DEF OpOf
  <2>2. n \in Row /\ n.rev = r.rev /\ n.op = "idle" /\ n.status = "failed"
    BY <1>1 DEF Row
  <2>3. r.op = "start_pending" => sd' = [sd EXCEPT ![<<c.sess, d>>] = n]
    BY <1>1, <1>2 DEF StartFailed, SInv, RowsTyped
  <2>4. r.op # "start_pending" => sd' = sd
    BY <1>2 DEF StartFailed
  <2>5. SessMoved(c.sess)
    BY <1>1, <1>2, AggregateSome DEF StartFailed, SessMoved
  <2>7. DevMoved(d)
    BY <1>2 DEF StartFailed, DevMoved
  <2> HIDE DEF n
  <2>6. Outcome(r, n, c)
    BY <1>2, <2>2 DEF Outcome
  <2>. QED  BY <2>1, <2>3, <2>4, <2>5, <2>6, <2>7, RowOfResult
<1>3. CASE c.type \in {"PAUSE", "RESUME", "SWITCH"} /\ Restore(d, c)
  <2> DEFINE back == IF c.prevPaused THEN "paused" ELSE "running"
             n == [r EXCEPT !.status = back, !.op = "idle", !.app = c.prevApp]
  <2>1. n \in Row /\ n.rev = r.rev /\ n.op = "idle" /\ n.status = back
    BY <1>1 DEF Row, ActiveRow
  <2>2. r.op = OpOf(c.type) => sd' = [sd EXCEPT ![<<c.sess, d>>] = n]
    BY <1>1, <1>3 DEF Restore, SInv, RowsTyped
  <2>3. r.op # OpOf(c.type) => sd' = sd
    BY <1>3 DEF Restore
  <2>4. SessMoved(c.sess)
    <3>1. back # "none" /\ (Move(c.sess, back) \/ UNCHANGED sess)
      BY <1>3 DEF Restore
    <3> HIDE DEF back
    <3>. QED  BY <3>1, MovedTo DEF SessMoved
  <2>5. DevMoved(d)
    BY <1>3 DEF Restore, DevMoved
  <2> HIDE DEF n
  <2>6. Outcome(r, n, c)
    BY <1>3, <2>1 DEF Outcome
  <2> HIDE DEF back
  <2>. QED  BY <2>2, <2>3, <2>4, <2>5, <2>6, RowOfResult
<1>4. CASE c.type = "EXTEND" /\ ExtendFailed(d, c)
  <2> DEFINE n == [r EXCEPT !.op = "reconciliation_required"]
  <2>1. OpOf(c.type) = "extend_pending"
    BY <1>4 DEF OpOf
  <2>2. n \in Row /\ n.rev = r.rev /\ n.op = "reconciliation_required" /\ n.status = r.status
    BY <1>1 DEF Row
  <2>3. r.op = "extend_pending" => sd' = [sd EXCEPT ![<<c.sess, d>>] = n]
    BY <1>1, <1>4 DEF ExtendFailed, SInv, RowsTyped
  <2>4. r.op # "extend_pending" => sd' = sd
    BY <1>4 DEF ExtendFailed
  <2>5. SessMoved(c.sess) /\ DevMoved(d)
    BY <1>4 DEF ExtendFailed, SessMoved, DevMoved
  <2> HIDE DEF n
  <2>6. Outcome(r, n, c)
    BY <1>4, <2>2 DEF Outcome
  <2>. QED  BY <2>1, <2>3, <2>4, <2>5, <2>6, RowOfResult
<1>5. CASE c.type = "END" /\ EndFailed(d, c)
  <2> DEFINE n == [r EXCEPT !.status = "failed"]
  <2>1. OpOf(c.type) = "finish_pending"
    BY <1>5 DEF OpOf
  <2>2. CASE r.op = "finish_pending"
    <3>1. n \in Row /\ n.rev = r.rev /\ n.op = "finish_pending" /\ n.status = "failed"
      BY <1>1, <2>2 DEF Row
    <3>2. sd' = [sd EXCEPT ![<<c.sess, d>>] = n]
      BY <1>1, <1>5, <2>2 DEF EndFailed, SInv, RowsTyped
    <3>3. SessMoved(c.sess)
      BY <1>5, <2>2, MovedTo DEF EndFailed, SessMoved
    <3>4. DevMoved(d)
      BY <1>5, <2>2 DEF EndFailed, DevMoved
    <3> HIDE DEF n
    <3>5. Outcome(r, n, c)
      BY <1>5, <3>1 DEF Outcome
    <3>. QED  BY <2>1, <2>2, <3>2, <3>3, <3>4, <3>5, RowOfResult
  <2>3. CASE r.op # "finish_pending"
    BY <1>5, <2>1, <2>3, RowOfResult DEF EndFailed, SessMoved, DevMoved
  <2>. QED  BY <2>2, <2>3
<1>. QED  BY <1>2, <1>3, <1>4, <1>5 DEF Failed

-----------------------------------------------------------------------------
(* The steps, by what they do to the queue of a headset.                   *)

OtherQueues(d) == \A e \in Device : e # d => queue'[e] = queue[e]
\* A command gets its result or is cancelled; or the Hub is done with a ghost.
Ends(d, i) ==
  /\ Passes(queue'[d], queue[d], i) /\ OtherQueues(d)
  /\ UNCHANGED <<agent, hb>>
  /\ \/ queue[d][i].st = "ghost" /\ UNCHANGED <<sess, sd, dev>>
     \/ queue[d][i].st # "ghost" /\ ResultRow(d, queue[d][i])

LEMMA DropEnds ==
  ASSUME SInv, NEW d \in Device, Busy(d), Drop(d)
  PROVE  /\ 1 \in DOMAIN queue[d] /\ Current(d) = queue[d][1]
         /\ Passes(queue'[d], queue[d], 1) /\ OtherQueues(d)
<1>1. queue[d] \in Seq(Sent) /\ queue[d] # <<>> /\ queue \in [Device -> Seq(Sent)]
  BY DEF SInv, QueueTyped, Busy
<1>2. 1 \in DOMAIN queue[d] /\ Current(d) = queue[d][1]
  BY <1>1, EmptySeq, LenProperties, HeadTailProperties DEF Current
<1>3. queue'[d] = Tail(queue[d]) /\ OtherQueues(d)
  BY <1>1 DEF Drop, OtherQueues
<1>. QED  BY <1>1, <1>2, <1>3, DropPasses

LEMMA HubEnds ==
  ASSUME SInv, TurnsInv, NEW d \in Device, CommandSucceeds(d) \/ CommandFails(d) \/ GhostDone(d)
  PROVE  1 \in DOMAIN queue[d] /\ Ends(d, 1)
<1>1. Busy(d) /\ Drop(d) /\ UNCHANGED <<agent, hb>>
  BY DEF CommandSucceeds, CommandFails, GhostDone
<1>2. /\ 1 \in DOMAIN queue[d] /\ Current(d) = queue[d][1]
      /\ Passes(queue'[d], queue[d], 1) /\ OtherQueues(d)
  BY <1>1, DropEnds
<1>3. Current(d) \in Sent /\ sess[Current(d).sess].status # "none"
  BY <1>1, <1>2, CurrentSent DEF SInv, TurnsInv, CommandSound
<1>4. CASE CommandSucceeds(d)
  <2>1. ResultRow(d, Current(d)) /\ Current(d).st # "ghost"
    BY <1>3, <1>4, SucceededRow DEF CommandSucceeds
  <2>. QED  BY <1>1, <1>2, <2>1 DEF Ends
<1>5. CASE CommandFails(d)
  <2>1. ResultRow(d, Current(d)) /\ Current(d).st # "ghost"
    BY <1>3, <1>5, FailedRow DEF CommandFails
  <2>. QED  BY <1>1, <1>2, <2>1 DEF Ends
<1>6. CASE GhostDone(d)
  BY <1>1, <1>2, <1>6 DEF GhostDone, Ends
<1>. QED  BY <1>4, <1>5, <1>6

LEMMA CancelEnds ==
  ASSUME SInv, TurnsInv, NEW d \in Device, NEW i \in DOMAIN queue[d], CancelDeviceCommand(d, i)
  PROVE  Ends(d, i)
<1> DEFINE q == queue[d]
<1>1. q \in Seq(Sent) /\ q[i] \in Sent /\ queue \in [Device -> Seq(Sent)]
  BY QueueFacts DEF SInv, QueueTyped
<1>2. queue' = [queue EXCEPT ![d] = IF q[i].st = "created" THEN Removed(q, i)
                                    ELSE [q EXCEPT ![i].st = "ghost"]]
  BY DEF CancelDeviceCommand
<1>3. OtherQueues(d) /\ queue'[d] \in {Removed(q, i), [q EXCEPT ![i].st = "ghost"]}
  BY <1>1, <1>2 DEF OtherQueues
<1>4. Passes(queue'[d], q, i)
  BY <1>1, <1>3, RemovedPasses, GhostPasses
<1>5. q[i].st # "ghost" /\ sess[q[i].sess].status # "none" /\ UNCHANGED <<agent, hb>>
  BY DEF CancelDeviceCommand, TurnsInv, CommandSound
<1>6. ResultRow(d, q[i])
  BY <1>1, <1>5, FailedRow DEF CancelDeviceCommand
<1>. QED  BY <1>3, <1>4, <1>5, <1>6 DEF Ends

\* The oldest command of a headset goes a step further; c is what it becomes.
Advances(d, c) ==
  /\ Oldest(queue'[d], queue[d], c) /\ OtherQueues(d)
  /\ c \in Sent
  /\ c.type = queue[d][1].type /\ c.sess = queue[d][1].sess /\ c.rev = queue[d][1].rev
  /\ c.paused = queue[d][1].paused
  /\ c.st # "ghost" => queue[d][1].st # "ghost"
  /\ UNCHANGED <<sd, dev, hb>>

LEMMA SetAdvances ==
  ASSUME SInv, NEW d \in Device, Busy(d), NEW st \in CommandState, NEW done \in BOOLEAN,
         Current(d).st = "ghost" => st = "ghost",
         SetCurrent(d, [Current(d) EXCEPT !.st = st, !.done = done]), UNCHANGED <<sd, dev, hb>>
  PROVE  Current(d) = queue[d][1] /\ 1 \in DOMAIN queue[d]
         /\ Advances(d, [Current(d) EXCEPT !.st = st, !.done = done])
<1>1. queue[d] \in Seq(Sent) /\ queue[d] # <<>> /\ queue \in [Device -> Seq(Sent)]
  BY DEF SInv, QueueTyped, Busy
<1>2. 1 \in DOMAIN queue[d] /\ Current(d) = queue[d][1] /\ Current(d) \in Sent
  BY <1>1, EmptySeq, LenProperties, HeadTailProperties DEF Current
<1> DEFINE c == [Current(d) EXCEPT !.st = st, !.done = done]
<1>3. c \in Sent /\ c.type = Current(d).type /\ c.sess = Current(d).sess /\ c.rev = Current(d).rev
      /\ c.paused = Current(d).paused /\ c.st = st
  BY <1>2 DEF Sent
<1> HIDE DEF c
<1>4. queue'[d] = <<c>> \o Tail(queue[d]) /\ OtherQueues(d)
  BY <1>1 DEF SetCurrent, OtherQueues, c
<1>5. Oldest(queue'[d], queue[d], c)
  BY <1>1, <1>3, <1>4, OldestSet
<1>6. Advances(d, c)
  BY <1>2, <1>3, <1>4, <1>5 DEF Advances
<1>. QED  BY <1>2, <1>6 DEF c

\* What a step of the oldest command may be.
Progress(d, c) ==
  LET b == queue[d][1] IN
  \/ /\ c.done = b.done /\ UNCHANGED <<sess, agent>>
     /\ \/ c.st \in {"accepted", "unknown"}
        \/ c.st = "silent" /\ used'["lost"] # 0
  \/ /\ c.done = b.done /\ UNCHANGED agent /\ c.st = "running"
     /\ IF b.type = "START" /\ sess[b.sess].status = "preparing"
        THEN Move(b.sess, "starting") ELSE UNCHANGED sess
  \/ /\ c.done /\ c.st = b.st /\ UNCHANGED sess
     /\ agent' = [agent EXCEPT ![d] = AfterIntent(b, agent[d])]

LEMMA HubAdvances ==
  ASSUME SInv, used \in [Budget -> Nat], NEW d \in Device,
         Claim(d) \/ AnnounceLost(d) \/ OutcomeUnknown(d) \/ Announce(d) \/ RunCommand(d)
  PROVE  1 \in DOMAIN queue[d] /\ \E c : Advances(d, c) /\ Progress(d, c)
<1> DEFINE b == Current(d)
           New(st, done) == [b EXCEPT !.st = st, !.done = done]
<1>1. Busy(d) /\ b \in Sent /\ UNCHANGED <<sd, dev, hb>>
  BY CurrentSent DEF Claim, AnnounceLost, OutcomeUnknown, Announce, RunCommand, SInv
<1>2. \A st : [b EXCEPT !.st = st] = New(st, b.done)
  BY <1>1 DEF Sent
<1>3. [b EXCEPT !.done = TRUE] = New(b.st, TRUE)
  BY <1>1 DEF Sent
<1>4. b.done \in BOOLEAN /\ b.st \in CommandState
  BY <1>1 DEF Sent
<1>5. ASSUME NEW st \in CommandState, NEW done \in BOOLEAN
      PROVE  New(st, done).st = st /\ New(st, done).done = done
  BY <1>1 DEF Sent
<1>6. ASSUME NEW st \in CommandState, NEW done \in BOOLEAN, b.st = "ghost" => st = "ghost",
             SetCurrent(d, New(st, done))
      PROVE  b = queue[d][1] /\ 1 \in DOMAIN queue[d] /\ Advances(d, New(st, done))
  BY <1>1, <1>6, SetAdvances
<1> HIDE DEF b, New
<1>7. CASE Claim(d)
  <2>1. b.st # "ghost" /\ SetCurrent(d, New("accepted", b.done)) /\ "accepted" \in CommandState
    BY <1>2, <1>7 DEF Claim, b, CommandState
  <2>2. b = queue[d][1] /\ 1 \in DOMAIN queue[d] /\ Advances(d, New("accepted", b.done))
    BY <1>4, <1>6, <2>1
  <2>3. Progress(d, New("accepted", b.done))
    BY <1>4, <1>5, <1>7, <2>1, <2>2 DEF Claim, Progress
  <2>. QED  BY <2>2, <2>3
<1>8. CASE OutcomeUnknown(d)
  <2>1. b.st # "ghost" /\ SetCurrent(d, New("unknown", b.done)) /\ "unknown" \in CommandState
    BY <1>2, <1>8 DEF OutcomeUnknown, b, CommandState
  <2>2. b = queue[d][1] /\ 1 \in DOMAIN queue[d] /\ Advances(d, New("unknown", b.done))
    BY <1>4, <1>6, <2>1
  <2>3. Progress(d, New("unknown", b.done))
    BY <1>4, <1>5, <1>8, <2>1, <2>2 DEF OutcomeUnknown, Progress
  <2>. QED  BY <2>2, <2>3
<1>9. CASE AnnounceLost(d)
  <2>1. b.st # "ghost" /\ SetCurrent(d, New("silent", b.done)) /\ "silent" \in CommandState
    BY <1>2, <1>9 DEF AnnounceLost, b, CommandState
  <2>2. b = queue[d][1] /\ 1 \in DOMAIN queue[d] /\ Advances(d, New("silent", b.done))
    BY <1>4, <1>6, <2>1
  <2>3. used'["lost"] # 0
    <3>1. used' = [used EXCEPT !["lost"] = @ + 1] /\ used["lost"] \in Nat
      BY <1>9 DEF AnnounceLost, Spend, Budget
    <3>. QED  BY <3>1 DEF Budget
  <2>4. Progress(d, New("silent", b.done))
    BY <1>4, <1>5, <1>9, <2>1, <2>2, <2>3 DEF AnnounceLost, Progress
  <2>. QED  BY <2>2, <2>4
<1>10. CASE Announce(d)
  <2>1. b.st # "ghost" /\ SetCurrent(d, New("running", b.done)) /\ "running" \in CommandState
    BY <1>2, <1>10 DEF Announce, b, CommandState
  <2>2. b = queue[d][1] /\ 1 \in DOMAIN queue[d] /\ Advances(d, New("running", b.done))
    BY <1>4, <1>6, <2>1
  <2>3. IF b.type = "START" /\ sess[b.sess].status = "preparing"
        THEN Move(b.sess, "starting") ELSE UNCHANGED sess
    BY <1>10 DEF Announce, b
  <2>4. UNCHANGED agent
    BY <1>10 DEF Announce
  <2>5. Progress(d, New("running", b.done))
    BY <1>4, <1>5, <2>1, <2>2, <2>3, <2>4 DEF Progress
  <2>. QED  BY <2>2, <2>5
<1>11. CASE RunCommand(d)
  <2>1. SetCurrent(d, New(b.st, TRUE))
    BY <1>3, <1>11 DEF RunCommand, b
  <2>2. b = queue[d][1] /\ 1 \in DOMAIN queue[d] /\ Advances(d, New(b.st, TRUE))
    BY <1>4, <1>6, <2>1
  <2>3. UNCHANGED sess /\ agent' = [agent EXCEPT ![d] = AfterIntent(b, agent[d])]
    BY <1>11 DEF RunCommand, b
  <2>4. New(b.st, TRUE).st = b.st /\ New(b.st, TRUE).done
    BY <1>4, <1>5
  <2>5. Progress(d, New(b.st, TRUE))
    BY <2>2, <2>3, <2>4 DEF Progress
  <2>. QED  BY <2>2, <2>5
<1>. QED  BY <1>7, <1>8, <1>9, <1>10, <1>11

\* The operator, or the expiry timer, asks something of a headset.
OtherRows(s, d) == \A t \in Session, e \in Device : t # s \/ e # d => sd'[t, e] = sd[t, e]
OtherSessions(s) == \A t \in Session : t # s => sess'[t] = sess[t]
Asks(s, d, c) ==
  LET r == sd[s, d]  n == sd'[s, d]  now == sess'[s].status IN
  /\ IsActive(s, d) /\ r.op # "finish_pending"
  /\ n \in Row /\ n.rev = r.rev + 1 /\ n.op = OpOf(c.type)
  /\ OtherRows(s, d) /\ OtherSessions(s)
  /\ Longer(queue'[d], queue[d], c) /\ OtherQueues(d)
  /\ c \in Sent /\ c.type # "START" /\ c.sess = s /\ c.st = "created" /\ ~c.done
  /\ c.rev = n.rev /\ c.paused = ShownPaused(now, n)
  /\ UNCHANGED <<dev, agent, hb>>
  /\ c.type # "END" => Playing(s, d)
  /\ \/ c.type = "PAUSE" /\ now = "paused" /\ n.status = "paused"
     \/ c.type = "RESUME" /\ now = "running" /\ n.status = "running"
     \/ c.type = "EXTEND" /\ now = "extended" /\ n.status = r.status
     \/ c.type = "SWITCH" /\ now = sess[s].status /\ n.status = r.status
     \/ c.type = "END" /\ now = "finishing" /\ n.status = r.status

LEMMA NextRevision ==
  ASSUME NEW row \in Row
  PROVE  row.rev + 1 \in Nat
BY DEF Row

LEMMA RequestAsks ==
  ASSUME SInv, NEW s \in Session, NEW d \in Device, NEW type \in CommandType, NEW row \in Row,
         IsActive(s, d), sd[s, d].op # "finish_pending", row.rev = sd[s, d].rev,
         Request(s, d, type, row), OtherSessions(s), type # "END" => Playing(s, d),
         \/ type = "PAUSE" /\ sess'[s].status = "paused" /\ row.status = "paused"
         \/ type = "RESUME" /\ sess'[s].status = "running" /\ row.status = "running"
         \/ type = "EXTEND" /\ sess'[s].status = "extended" /\ row.status = sd[s, d].status
         \/ type = "SWITCH" /\ sess'[s].status = sess[s].status /\ row.status = sd[s, d].status
         \/ type = "END" /\ sess'[s].status = "finishing" /\ row.status = sd[s, d].status
  PROVE  \E c : Asks(s, d, c)
<1> DEFINE n == [row EXCEPT !.op = OpOf(type), !.rev = @ + 1]
           r == sd[s, d]
           c == [type |-> type, sess |-> s, rev |-> n.rev, app |-> n.app, prevApp |-> r.app,
                 paused |-> ShownPaused(sess'[s].status, n),
                 prevPaused |-> ShownPaused(sess[s].status, r),
                 launch |-> n.status = "running", st |-> "created", done |-> FALSE]
<1>1. r \in Row /\ r.rev \in Nat /\ queue \in [Device -> Seq(Sent)]
  BY DEF SInv, RowsTyped, QueueTyped, Row
<1>2. OpOf(type) \in PendingOp /\ row.rev + 1 \in Nat
  <2>1. OpOf(type) \in PendingOp
    BY DEF OpOf, CommandType, PendingOp
  <2>. QED  BY <2>1, NextRevision
<1>3. n \in Row /\ n.status = row.status /\ n.op = OpOf(type) /\ n.rev = r.rev + 1
  <2>1. n = [row EXCEPT !.op = OpOf(type), !.rev = row.rev + 1]
    OBVIOUS
  <2>. QED  BY <1>2, <2>1, RowWith DEF Row
<1>4. sd' = [sd EXCEPT ![<<s, d>>] = n] /\ queue' = [queue EXCEPT ![d] = Append(@, c)]
      /\ UNCHANGED <<dev, agent, hb>>
  BY DEF Request, Enqueue
<1> HIDE DEF n, r
<1>5. c \in Sent
  BY <1>1, <1>3, Zenon DEF Sent, Row, ShownPaused, CommandState
<1>6. /\ c.type = type /\ c.sess = s /\ c.st = "created" /\ ~c.done /\ c.rev = n.rev
      /\ c.paused = ShownPaused(sess'[s].status, n)
  BY Zenon
<1> HIDE DEF c
<1>7. sd'[s, d] = n /\ OtherRows(s, d)
  BY <1>4 DEF SInv, RowsTyped, OtherRows
<1>8. Longer(queue'[d], queue[d], c) /\ OtherQueues(d)
  <2>1. queue'[d] = Append(queue[d], c) /\ OtherQueues(d)
    BY <1>1, <1>4 DEF OtherQueues
  <2>. QED  BY <1>1, <1>5, <2>1, AppendLonger
<1>9. type # "START"
  OBVIOUS
<1>10. Asks(s, d, c)
  BY <1>3, <1>4, <1>5, <1>6, <1>7, <1>8, <1>9 DEF Asks, r
<1>. QED  BY <1>10

LEMMA OperatorAsks ==
  ASSUME SInv, NEW s \in Session, NEW d \in Device, Operator(s, d)
  PROVE  \E c : Asks(s, d, c)
<1>1. sd[s, d] \in Row /\ SessTyped
  BY DEF SInv, RowsTyped
<1>2. ASSUME NEW next, Move(s, next)
      PROVE  OtherSessions(s) /\ sess'[s].status = next
  BY <1>1, <1>2 DEF OtherSessions, Move, SessTyped, SessionRow
<1>3. CASE PauseSession(s, d)
  <2> DEFINE row == [sd[s, d] EXCEPT !.status = "paused"]
  <2>1. row \in Row /\ row.rev = sd[s, d].rev /\ row.status = "paused"
    BY <1>1 DEF Row, ActiveRow
  <2>2. Request(s, d, "PAUSE", row)
    BY <1>3 DEF PauseSession
  <2> HIDE DEF row
  <2>. QED  BY <1>2, <1>3, <2>1, <2>2, RequestAsks
            DEF PauseSession, FirstActive, Playing, CommandType
<1>4. CASE ResumeSession(s, d)
  <2> DEFINE row == [sd[s, d] EXCEPT !.status = "running"]
  <2>1. row \in Row /\ row.rev = sd[s, d].rev /\ row.status = "running"
    BY <1>1 DEF Row, ActiveRow
  <2>2. Request(s, d, "RESUME", row)
    BY <1>4 DEF ResumeSession
  <2> HIDE DEF row
  <2>. QED  BY <1>2, <1>4, <2>1, <2>2, RequestAsks
            DEF ResumeSession, FirstActive, Playing, CommandType
<1>5. CASE ExtendSession(s, d)
  <2>1. PICK e \in {FALSE, sd[s, d].expired} :
          Request(s, d, "EXTEND", [sd[s, d] EXCEPT !.expired = e])
    BY <1>5 DEF ExtendSession
  <2> DEFINE row == [sd[s, d] EXCEPT !.expired = e]
  <2>2. row \in Row /\ row.rev = sd[s, d].rev /\ row.status = sd[s, d].status
    BY <1>1, <2>1 DEF Row
  <2>3. Request(s, d, "EXTEND", row)
    BY <2>1
  <2> HIDE DEF row
  <2>. QED  BY <1>2, <1>5, <2>2, <2>3, RequestAsks
            DEF ExtendSession, FirstActive, Playing, CommandType
<1>6. CASE Finish(s, d)
  <2>1. /\ IsActive(s, d) /\ sd[s, d].op # "finish_pending"
        /\ Request(s, d, "END", sd[s, d]) /\ OtherSessions(s) /\ sess'[s].status = "finishing"
    BY <1>2, <1>6 DEF Finish
  <2>. QED  BY <1>1, <2>1, RequestAsks DEF CommandType
<1>7. CASE \E a \in App : SwitchSessionApp(s, d, a)
  <2>1. PICK a \in App : SwitchSessionApp(s, d, a)
    BY <1>7
  <2> DEFINE row == [sd[s, d] EXCEPT !.app = a]
  <2>2. row \in Row /\ row.rev = sd[s, d].rev /\ row.status = sd[s, d].status
    BY <1>1 DEF Row
  <2>3. Request(s, d, "SWITCH", row)
    BY <2>1 DEF SwitchSessionApp
  <2>4. OtherSessions(s) /\ sess'[s].status = sess[s].status
    BY <2>1 DEF SwitchSessionApp, OtherSessions
  <2> HIDE DEF row
  <2>. QED  BY <2>1, <2>2, <2>3, <2>4, RequestAsks
            DEF SwitchSessionApp, FirstActive, Playing, CommandType
<1>. QED  BY <1>3, <1>4, <1>5, <1>6, <1>7 DEF Operator

\* The expiry timer asks for the end, or only says that it has been reached.
LEMMA ExpiryAsks ==
  ASSUME SInv, NEW s \in Session, NEW d \in Device, ReconcileExpired(s, d)
  PROVE  \/ \E c : Asks(s, d, c)
         \/ /\ sd[s, d].op = "finish_pending" /\ Holds(s, d) /\ sess'[s].status = "finishing"
            /\ sess[s].status \in {"running", "extended"}
            /\ OtherSessions(s) /\ UNCHANGED <<sd, dev, queue, agent, hb>>
<1>1. sd[s, d] \in Row /\ SessTyped
  BY DEF SInv, RowsTyped
<1>2. OtherSessions(s) /\ sess'[s].status = "finishing"
  BY <1>1 DEF ReconcileExpired, OtherSessions, SessTyped, SessionRow
<1>3. IsActive(s, d) /\ Holds(s, d) /\ sess[s].status \in {"running", "extended"}
  BY DEF ReconcileExpired, Expires, FirstActive, IsActive, Holds
<1>4. CASE sd[s, d].op = "finish_pending"
  BY <1>2, <1>3, <1>4 DEF ReconcileExpired
<1>5. CASE sd[s, d].op # "finish_pending"
  <2>1. Request(s, d, "END", sd[s, d])
    BY <1>5 DEF ReconcileExpired
  <2>. QED  BY <1>1, <1>2, <1>3, <1>5, <2>1, RequestAsks DEF CommandType
<1>. QED  BY <1>4, <1>5

-----------------------------------------------------------------------------
(* Turns.                                                                  *)

SessionsGoOn == \A s \in Session : sess'[s].status = "none" <=> sess[s].status = "none"
RowsGoOn == \A s \in Session, e \in Device :
  /\ Holds(s, e)' => Holds(s, e)
  /\ Ended(sd[s, e]) => Ended(sd'[s, e])

LEMMA OpsOfTypes ==
  /\ OpOf("START") = "start_pending" /\ OpOf("END") = "finish_pending"
  /\ \A type \in CommandType \ {"START", "END"} : OpOf(type) \in Asked \ {"reconciliation_required"}
  /\ \A a, b \in CommandType : OpOf(a) = OpOf(b) => a = b
<1>1. /\ OpOf("START") = "start_pending" /\ OpOf("PAUSE") = "pause_pending"
      /\ OpOf("RESUME") = "resume_pending" /\ OpOf("EXTEND") = "extend_pending"
      /\ OpOf("SWITCH") = "switch_pending" /\ OpOf("END") = "finish_pending"
  BY DEF OpOf
<1>2. CommandType = {"START", "PAUSE", "RESUME", "EXTEND", "SWITCH", "END"}
  BY DEF CommandType
<1>3. \A type \in CommandType \ {"START", "END"} : OpOf(type) \in Asked \ {"reconciliation_required"}
  BY <1>1, <1>2 DEF Asked
<1>4. ASSUME NEW a \in CommandType, NEW b \in CommandType, OpOf(a) = OpOf(b)
      PROVE  a = b
  BY <1>1, <1>2, <1>4
<1>. QED  BY <1>1, <1>3, <1>4

\* What a result leaves as it is.
LEMMA ResultKeeps ==
  ASSUME SInv, TurnsInv, NEW d \in Device, NEW c \in Sent, sess[c.sess].status # "none",
         ResultRow(d, c)
  PROVE  /\ SessionsGoOn /\ RowsGoOn
         /\ \A s \in Session, e \in Device :
              /\ sd'[s, e].op \in Asked => Playing(s, e)'
              /\ Playing(s, e)' => \/ Playing(s, e)
                                   \/ s = c.sess /\ e = d /\ c.done /\ Holds(s, e)
<1>1. c.sess \in Session /\ c.type \in CommandType
  BY DEF Sent
<1>2. SessionsGoOn
  BY <1>1 DEF ResultRow, SessionsGoOn
<1>3. SUFFICES ASSUME NEW s \in Session, NEW e \in Device
               PROVE  /\ Holds(s, e)' => Holds(s, e)
                      /\ Ended(sd[s, e]) => Ended(sd'[s, e])
                      /\ sd'[s, e].op \in Asked => Playing(s, e)'
                      /\ Playing(s, e)' => \/ Playing(s, e)
                                           \/ s = c.sess /\ e = d /\ c.done /\ Holds(s, e)
  BY <1>2 DEF RowsGoOn
<1>4. RowSound(s, e) /\ (sd[s, e].op \in PendingOp \ {"finish_pending"} => Holds(s, e))
  BY DEF TurnsInv, SInv, OpHolds
<1>5. CASE sd'[s, e] = sd[s, e]
  BY <1>4, <1>5 DEF Holds, Playing, RowSound
<1>6. CASE sd'[s, e] # sd[s, e]
  <2> DEFINE r == sd[s, e]
             n == sd'[s, e]
  <2>1. s = c.sess /\ e = d /\ r.op = OpOf(c.type) /\ Outcome(r, n, c)
    BY <1>1, <1>6 DEF ResultRow
  <2>2. CASE c.type = "START"
    <3>1. Holds(s, e) /\ ~Ended(r)
      BY <1>4, <2>1, <2>2, OpsOfTypes DEF PendingOp, Ended, Holds
    <3>2. n.op = "idle" /\ (n.status = "failed" \/ (n.status = "running" /\ c.done))
      BY <2>1, <2>2 DEF Outcome
    <3>. QED  BY <2>1, <3>1, <3>2 DEF Holds, Playing, Asked
  <2>3. CASE c.type = "END"
    <3>1. n.status \in {"finished", "failed"} /\ n.op \in {"idle", "finish_pending"}
      BY <2>1, <2>3 DEF Outcome
    <3>. QED  BY <3>1 DEF Holds, Playing, Asked, Ended, ActiveRow
  <2>4. CASE c.type \notin {"START", "END"}
    <3>1. r.op \in Asked \ {"reconciliation_required"} /\ Playing(s, e)
      BY <1>1, <1>4, <2>1, <2>4, OpsOfTypes DEF RowSound
    <3>2. Holds(s, e) /\ ~Ended(r)
      BY <3>1 DEF Playing, Holds, ActiveRow, Asked, Ended
    <3>3. n.status \in {r.status, "running", "paused"}
      BY <2>1, <2>4 DEF Outcome
    <3>. QED  BY <3>1, <3>2, <3>3 DEF Holds, Playing
  <2>. QED  BY <2>2, <2>3, <2>4
<1>. QED  BY <1>5, <1>6

LEMMA SessionsTurns ==
  ASSUME TurnsInv, SessionsGoOn, RowsGoOn,
         \A d \in Device : /\ agent'[d].sess \in {agent[d].sess, hb[d].sess, None}
                                                 \cup {queue[d][i].sess : i \in DOMAIN queue[d]}
                           /\ hb'[d].sess \in {agent[d].sess, hb[d].sess, None}
  PROVE  /\ CreatedInOrder'
         /\ \A s \in Session : sess'[s].status = "none" => Unheard(s)'
<1>1. CreatedInOrder'
  BY DEF TurnsInv, CreatedInOrder, SessionsGoOn
<1>2. ASSUME NEW s \in Session, sess'[s].status = "none"
      PROVE  Unheard(s)'
  <2>1. sess[s].status = "none" /\ Unheard(s) /\ s # None
    BY <1>2, SessionAssumption DEF SessionsGoOn, TurnsInv
  <2>2. \A d \in Device : \A i \in DOMAIN queue[d] : queue[d][i].sess # s
    BY <2>1 DEF TurnsInv, CommandSound
  <2>3. ASSUME NEW d \in Device
        PROVE  agent'[d].sess # s /\ hb'[d].sess # s /\ ~Holds(s, d)'
    <3>1. agent[d].sess # s /\ hb[d].sess # s /\ ~Holds(s, d)
      BY <2>1 DEF Unheard
    <3>2. agent'[d].sess \in {agent[d].sess, hb[d].sess, None}
                             \cup {queue[d][i].sess : i \in DOMAIN queue[d]}
      OBVIOUS
    <3>3. agent'[d].sess # s
      BY <2>1, <2>2, <3>1, <3>2
    <3>. QED  BY <2>1, <3>1, <3>3 DEF RowsGoOn
  <2>. QED  BY <2>3 DEF Unheard
<1>. QED  BY <1>1, <1>2

LEMMA EndsSound ==
  ASSUME SInv, SInv', TurnsInv, NEW d \in Device, NEW i \in DOMAIN queue[d], Ends(d, i)
  PROVE  /\ SessionsGoOn /\ RowsGoOn
         /\ \A s \in Session, e \in Device :
              /\ sd'[s, e].op \in Asked => Playing(s, e)'
              /\ Playing(s, e)' => \/ Playing(s, e)
                                   \/ s = queue[d][i].sess /\ e = d /\ queue[d][i].done /\ Holds(s, e)
<1>1. queue[d][i] \in Sent /\ sess[queue[d][i].sess].status # "none"
  BY QueueFacts DEF TurnsInv, CommandSound
<1>2. CASE UNCHANGED <<sess, sd>>
  BY <1>2 DEF SessionsGoOn, RowsGoOn, Holds, Playing, TurnsInv, RowSound
<1>3. CASE ResultRow(d, queue[d][i])
  BY <1>1, <1>3, ResultKeeps
<1>. QED  BY <1>2, <1>3 DEF Ends

\* A command that stays finds its row as it was, if it is an END.
LEMMA EndsCommand ==
  ASSUME SInv, SInv', TurnsInv, NEW d \in Device, NEW i \in DOMAIN queue[d], Ends(d, i),
         NEW j \in DOMAIN queue'[d]
  PROVE  CommandSound(d, queue[d][j])'
<1> DEFINE Q == queue[d]
           p == queue'[d][j]
<1>1. Q \in Seq(Sent) /\ DOMAIN Q = 1..Len(Q) /\ Len(Q) \in Nat
  BY QueueFacts
<1>2. Passes(queue'[d], Q, i)
  BY DEF Ends
<1>3. PICK k \in DOMAIN Q :
        /\ p.sess = Q[k].sess /\ p.type = Q[k].type /\ p.done = Q[k].done
        /\ p.st = "ghost" \/ (k # i /\ p = Q[k])
  BY <1>1, <1>2, PassesFrom
<1>4. /\ CommandSound(d, Q[k]) /\ UNCHANGED agent
      /\ Q[k] \in Sent /\ Q[i] \in Sent /\ Q[k].sess \in Session /\ Q[i].sess \in Session
      /\ InTurn(Q)
  BY QueueFacts DEF TurnsInv, Ends
<1>5. SessionsGoOn /\ RowsGoOn
  BY EndsSound
<1>6. sess'[p.sess].status # "none"
  BY <1>3, <1>4, <1>5 DEF CommandSound, SessionsGoOn
<1>7. p.done => /\ agent'[d].sess \in {p.sess, None}
                /\ p.type = "END" => agent'[d].sess = None
  BY <1>3, <1>4 DEF CommandSound
<1>8. p.type = "END" => Ended(sd'[p.sess, d])
  BY <1>3, <1>4, <1>5 DEF CommandSound, RowsGoOn
<1>9. ASSUME p.type = "END", p.st # "ghost"
      PROVE  sd'[p.sess, d].status \in ActiveRow /\ sd'[p.sess, d].op = "finish_pending"
  <2>1. k # i /\ Q[k].st # "ghost"
    BY <1>3, <1>9
  <2>2. Holds(Q[k].sess, d) /\ sd[Q[k].sess, d].op = "finish_pending"
    BY <1>3, <1>4, <1>9, <2>1 DEF CommandSound
  <2>3. sd'[Q[k].sess, d] = sd[Q[k].sess, d]
    <3>1. CASE UNCHANGED <<sess, sd>>
      BY <3>1
    <3>2. CASE ResultRow(d, Q[i]) /\ Q[i].sess # Q[k].sess
      BY <1>4, <3>2 DEF ResultRow
    <3>3. CASE ResultRow(d, Q[i]) /\ Q[i].sess = Q[k].sess
      <4>1. Q[i].type # "END"
        <5>1. i < k \/ k < i
          BY <1>1, <2>1
        <5>. QED  BY <1>3, <1>4, <1>9, <3>3, <5>1 DEF InTurn
      <4>2. OpOf(Q[i].type) # "finish_pending"
        BY <1>4, <4>1, OpsOfTypes DEF Sent, CommandType
      <4>. QED  BY <2>2, <3>3, <4>2 DEF ResultRow
    <3>. QED  BY <3>1, <3>2, <3>3 DEF Ends
  <2>. QED  BY <1>3, <2>2, <2>3 DEF Holds
<1>. QED  BY <1>6, <1>7, <1>8, <1>9 DEF CommandSound, Holds

\* The headset has nothing but its session's commands to do when one that has
\* been run is settled.
LEMMA AloneAtHead ==
  ASSUME SInv, TurnsInv, NEW d \in Device, 1 \in DOMAIN queue[d], Holds(queue[d][1].sess, d)
  PROVE  \A j \in DOMAIN queue[d] : queue[d][j].sess = queue[d][1].sess
<1> DEFINE Q == queue[d]
           s == Q[1].sess
<1>1. DOMAIN Q = 1..Len(Q) /\ Len(Q) \in Nat /\ \A j \in DOMAIN Q : Q[j].sess \in Session
  BY QueueFacts
<1>2. \A j \in DOMAIN Q : Q[j].sess <= s
  BY <1>1 DEF TurnsInv, RowSound
<1>3. ASSUME NEW j \in DOMAIN Q, j # 1
      PROVE  Q[j].sess = s
  <2>1. 1 < j /\ s <= Q[j].sess /\ Q[j].sess <= s
    BY <1>1, <1>2, <1>3 DEF TurnsInv, InTurn
  <2>2. Q[j].sess \in Nat /\ s \in Nat
    BY <1>1, SessionAssumption
  <2>. QED  BY <2>1, <2>2
<1>. QED  BY <1>3

LEMMA EndsTurns ==
  ASSUME SInv, SInv', TurnsInv, NEW d \in Device, NEW i \in DOMAIN queue[d], Ends(d, i)
  PROVE  TurnsInv'
<1> DEFINE Q == queue[d]
<1>1. Q \in Seq(Sent) /\ queue'[d] \in Seq(Sent) /\ \A e \in Device : e # d => queue'[e] = queue[e]
  BY QueueFacts DEF SInv, QueueTyped, Ends, OtherQueues
<1>2. Passes(queue'[d], Q, i) /\ UNCHANGED <<agent, hb>>
  BY DEF Ends
<1>3. SessionsGoOn /\ RowsGoOn
  BY EndsSound
<1>4. \A e \in Device : InTurn(queue'[e]) /\ OnlyOldestRun(queue'[e])
  BY <1>1, <1>2, PassesTurns DEF TurnsInv
<1>5. ASSUME NEW e \in Device, NEW j \in DOMAIN queue'[e]
      PROVE  CommandSound(e, queue[e][j])'
  <2>1. CASE e = d
    BY <2>1, EndsCommand
  <2>2. CASE e # d
    <3> DEFINE c == queue[e][j]
    <3>1. queue'[e][j] = c /\ j \in DOMAIN queue[e] /\ CommandSound(e, c) /\ c.sess \in Session
      BY <1>1, <1>5, <2>2, QueueFacts DEF TurnsInv
    <3>2. sd'[c.sess, e] = sd[c.sess, e]
      BY <2>2, <3>1 DEF Ends, ResultRow
    <3>. QED  BY <1>2, <1>3, <3>1, <3>2 DEF CommandSound, SessionsGoOn, Holds
  <2>. QED  BY <2>1, <2>2
<1>6. CreatedInOrder' /\ \A s \in Session : sess'[s].status = "none" => Unheard(s)'
  BY <1>2, <1>3, SessionsTurns
<1>7. ASSUME NEW s \in Session, NEW e \in Device
      PROVE  RowSound(s, e)'
  <2>1. RowSound(s, e) /\ (Holds(s, e)' => Holds(s, e))
    BY <1>3 DEF TurnsInv, RowsGoOn
  <2>2. \A j \in DOMAIN queue'[e] : \E k \in DOMAIN queue[e] : queue'[e][j].sess = queue[e][k].sess
    <3>1. CASE e = d
      BY <1>1, <1>2, <3>1, PassesFrom
    <3>2. CASE e # d
      BY <1>1, <3>2
    <3>. QED  BY <3>1, <3>2
  <2>3. sd'[s, e].op \in Asked => Playing(s, e)'
    BY EndsSound
  <2>4. ASSUME Holds(s, e)', Heard(s, e)'
        PROVE  Alone(s, e)
    <3>1. CASE Heard(s, e)
      BY <2>1, <2>4, <3>1 DEF RowSound
    <3>2. CASE ~Heard(s, e)
      <4>1. Playing(s, e)' /\ ~Playing(s, e)
        BY <1>2, <2>4, <3>2 DEF Heard
      <4>2. s = Q[i].sess /\ e = d /\ Q[i].done /\ Holds(s, e)
        BY <4>1, EndsSound
      <4>3. i = 1 /\ CommandSound(d, Q[i])
        BY <4>2 DEF TurnsInv, OnlyOldestRun
      <4>. QED  BY <4>2, <4>3, AloneAtHead DEF Alone, CommandSound
    <3>. QED  BY <3>1, <3>2
  <2>. QED  BY <1>2, <2>1, <2>2, <2>3, <2>4 DEF RowSound, Alone
<1>. QED  BY <1>4, <1>5, <1>6, <1>7 DEF TurnsInv

\* Steps that leave the queues alone.
QuietRows == \A s \in Session, d \in Device :
  /\ Holds(s, d)' <=> Holds(s, d)
  /\ sd'[s, d].op = "finish_pending" <=> sd[s, d].op = "finish_pending"
  /\ sd'[s, d].op \in PendingOp => sd'[s, d].op = sd[s, d].op
  /\ sd'[s, d].op \in Asked => Playing(s, d)'
  /\ Playing(s, d)' => Heard(s, d)
QuietHeadsets == \A d \in Device :
  /\ agent'[d].sess \in {agent[d].sess, None}
  /\ hb'[d].sess \in {agent[d].sess, hb[d].sess, None}

LEMMA QuietTurns ==
  ASSUME SInv, TurnsInv, UNCHANGED queue, SessionsGoOn, QuietRows, QuietHeadsets
  PROVE  TurnsInv'
<1>1. \A d \in Device : InTurn(queue'[d]) /\ OnlyOldestRun(queue'[d])
  BY DEF TurnsInv
<1>2. ASSUME NEW d \in Device, NEW i \in DOMAIN queue'[d]
      PROVE  CommandSound(d, queue[d][i])'
  <2>1. CommandSound(d, queue[d][i]) /\ queue[d][i].sess \in Session
    BY <1>2, QueueFacts DEF TurnsInv
  <2>. QED  BY <2>1 DEF CommandSound, SessionsGoOn, QuietRows, QuietHeadsets, Ended, Holds
<1>3. CreatedInOrder' /\ \A s \in Session : sess'[s].status = "none" => Unheard(s)'
  <2>1. RowsGoOn
    BY DEF QuietRows, RowsGoOn, Ended, Holds
  <2>. QED  BY <2>1, SessionsTurns DEF QuietHeadsets
<1>4. ASSUME NEW s \in Session, NEW d \in Device
      PROVE  RowSound(s, d)'
  <2>1. RowSound(s, d) /\ s # None
    BY SessionAssumption DEF TurnsInv
  <2>2. Heard(s, d)' => Heard(s, d)
    BY <2>1 DEF Heard, QuietRows, QuietHeadsets, Playing
  <2>. QED  BY <2>1, <2>2 DEF RowSound, QuietRows, QuietHeadsets, Alone
<1>. QED  BY <1>1, <1>2, <1>3, <1>4 DEF TurnsInv

LEMMA IntentSession ==
  ASSUME NEW c \in Sent, NEW a \in AgentState
  PROVE  /\ AfterIntent(c, a).sess \in {c.sess, None}
         /\ c.type = "END" => AfterIntent(c, a).sess = None
<1>1. CASE c.type = "START" /\ a.sess = c.sess
  BY <1>1 DEF AfterIntent
<1>2. CASE c.type = "END"
  BY <1>2 DEF AfterIntent, Out, AgentState
<1>3. CASE c.type # "END" /\ ~(c.type = "START" /\ a.sess = c.sess)
  BY <1>3 DEF AfterIntent
<1>. QED  BY <1>1, <1>2, <1>3

LEMMA AdvancesTurns ==
  ASSUME SInv, SInv', TurnsInv, agent \in [Device -> AgentState], NEW d \in Device,
         1 \in DOMAIN queue[d], NEW c, Advances(d, c), Progress(d, c)
  PROVE  TurnsInv'
<1> DEFINE Q == queue[d]
           b == Q[1]
<1>1. Q \in Seq(Sent) /\ b \in Sent /\ b.sess \in Session /\ CommandSound(d, b)
  BY QueueFacts DEF TurnsInv
<1>2. /\ Oldest(queue'[d], Q, c) /\ \A e \in Device : e # d => queue'[e] = queue[e]
      /\ c.type = b.type /\ c.sess = b.sess /\ (c.st # "ghost" => b.st # "ghost")
      /\ UNCHANGED <<sd, hb>>
  BY DEF Advances, OtherQueues
<1>3. \A e \in Device : InTurn(queue'[e]) /\ OnlyOldestRun(queue'[e])
  BY <1>1, <1>2, OldestTurns DEF TurnsInv
<1>4. SessionsGoOn
  <2>1. UNCHANGED sess \/ (sess[b.sess].status = "preparing" /\ Move(b.sess, "starting"))
    BY DEF Progress
  <2>. QED  BY <1>1, <2>1 DEF SessionsGoOn, Move, SInv, SessTyped, SessionRow
<1>5. /\ \A e \in Device : e # d => agent'[e] = agent[e]
      /\ agent'[d] = agent[d] \/ agent'[d].sess \in {b.sess, None}
      /\ c.done => /\ agent'[d].sess \in {b.sess, None}
                   /\ b.type = "END" => agent'[d].sess = None
  <2>1. CASE UNCHANGED agent /\ c.done = b.done
    <3>1. c.done => b.done
      BY <2>1, Zenon
    <3>. QED  BY <1>1, <2>1, <3>1 DEF CommandSound
  <2>2. CASE agent' = [agent EXCEPT ![d] = AfterIntent(b, agent[d])]
    BY <1>1, <2>2, IntentSession
  <2>. QED  BY <2>1, <2>2, Zenon DEF Progress
<1>6. ASSUME NEW e \in Device, NEW j \in DOMAIN queue'[e]
      PROVE  CommandSound(e, queue[e][j])'
  <2>1. CASE e = d /\ j = 1
    <3>1. queue'[e][j] = c
      BY <1>2, <2>1 DEF Oldest
    <3>. QED  BY <1>1, <1>2, <1>4, <1>5, <2>1, <3>1 DEF CommandSound, SessionsGoOn, Holds
  <2>2. CASE ~(e = d /\ j = 1)
    <3>1. queue'[e][j] = queue[e][j] /\ j \in DOMAIN queue[e]
      BY <1>2, <1>6, <2>2 DEF Oldest
    <3>2. CommandSound(e, queue[e][j]) /\ queue[e][j].sess \in Session
      BY <3>1, QueueFacts DEF TurnsInv
    <3>3. queue[e][j].done => e # d
      BY <2>2, <3>1 DEF TurnsInv, OnlyOldestRun
    <3>. QED  BY <1>2, <1>4, <1>5, <3>1, <3>2, <3>3 DEF CommandSound, SessionsGoOn, Holds
  <2>. QED  BY <2>1, <2>2
<1>7. CreatedInOrder' /\ \A s \in Session : sess'[s].status = "none" => Unheard(s)'
  <2>1. RowsGoOn
    BY <1>2 DEF RowsGoOn, Holds
  <2>2. \A e \in Device : agent'[e].sess \in {agent[e].sess, hb[e].sess, None}
                                             \cup {queue[e][i].sess : i \in DOMAIN queue[e]}
    BY <1>5
  <2>. QED  BY <1>2, <1>4, <2>1, <2>2, SessionsTurns
<1>8. ASSUME NEW s \in Session, NEW e \in Device
      PROVE  RowSound(s, e)'
  <2>1. RowSound(s, e) /\ s # None
    BY SessionAssumption DEF TurnsInv
  <2>2. \A j \in DOMAIN queue'[e] : j \in DOMAIN queue[e] /\ queue'[e][j].sess = queue[e][j].sess
    BY <1>2 DEF Oldest
  <2>3. ASSUME Holds(s, e), Heard(s, e)'
        PROVE  (\A j \in DOMAIN queue[e] : queue[e][j].sess = s) /\ agent'[e].sess \in {s, None}
    <3>1. CASE Heard(s, e)
      <4>1. Alone(s, e)
        BY <2>1, <2>3, <3>1 DEF RowSound
      <4>. QED  BY <1>5, <4>1 DEF Alone
    <3>2. CASE ~Heard(s, e)
      <4>1. agent'[e].sess = s /\ agent[e].sess # s
        BY <1>2, <2>3, <3>2 DEF Heard, Playing
      <4>2. e = d /\ b.sess = s
        BY <1>5, <2>1, <4>1
      <4>. QED  BY <2>3, <4>1, <4>2, AloneAtHead
    <3>. QED  BY <3>1, <3>2
  <2>. QED  BY <1>2, <2>1, <2>2, <2>3 DEF RowSound, Alone, Holds, Playing
<1>. QED  BY <1>3, <1>6, <1>7, <1>8 DEF TurnsInv

LEMMA AsksTurns ==
  ASSUME SInv, SInv', TurnsInv, NEW s \in Session, NEW d \in Device, NEW c, Asks(s, d, c)
  PROVE  TurnsInv'
<1> DEFINE Q == queue[d]
<1>1. Q \in Seq(Sent) /\ DOMAIN Q = 1..Len(Q) /\ Len(Q) \in Nat
  BY QueueFacts
<1>2. /\ Holds(s, d) /\ sd[s, d].op # "finish_pending" /\ sess[s].status # "none"
      /\ sd'[s, d].op = OpOf(c.type) /\ OtherRows(s, d) /\ OtherSessions(s)
      /\ Longer(queue'[d], Q, c) /\ \A e \in Device : e # d => queue'[e] = queue[e]
      /\ c \in Sent /\ c.type # "START" /\ c.sess = s /\ ~c.done /\ UNCHANGED <<agent, hb>>
      /\ c.type # "END" => Playing(s, d)
  BY DEF Asks, IsActive, Holds, ActiveSession, OtherQueues
<1>3. /\ sess'[s].status # "none"
      /\ IF c.type = "END" THEN sd'[s, d].status = sd[s, d].status ELSE Playing(s, d)'
  BY <1>2 DEF Asks, Playing
<1>4. ASSUME NEW j \in DOMAIN Q
      PROVE  Q[j].sess <= s /\ (Q[j].sess = s => Q[j].type # "END")
  <2>1. RowSound(s, d) /\ CommandSound(d, Q[j])
    BY DEF TurnsInv
  <2>. QED  BY <1>2, <2>1 DEF RowSound, CommandSound, Ended, Holds
<1>5. \A e \in Device : InTurn(queue'[e]) /\ OnlyOldestRun(queue'[e])
  BY <1>1, <1>2, <1>4, LongerTurns DEF TurnsInv
<1>6. SessionsGoOn
  BY <1>2, <1>3 DEF SessionsGoOn, OtherSessions
<1>7. ASSUME NEW e \in Device, NEW j \in DOMAIN queue'[e]
      PROVE  CommandSound(e, queue[e][j])'
  <2>1. CASE e = d /\ j \notin DOMAIN Q
    <3>1. queue'[e][j] = c
      BY <1>1, <1>2, <1>7, <2>1 DEF Longer
    <3>2. c.type = "END" => sd'[s, d].op = "finish_pending" /\ sd'[s, d].status \in ActiveRow
      BY <1>2, <1>3, OpsOfTypes DEF Holds
    <3>. QED  BY <1>2, <1>3, <2>1, <3>1, <3>2 DEF CommandSound, Ended, Holds
  <2>2. CASE j \in DOMAIN queue[e]
    <3>1. queue'[e][j] = queue[e][j]
      BY <1>2, <2>2 DEF Longer
    <3>2. CommandSound(e, queue[e][j]) /\ queue[e][j].sess \in Session
      BY <2>2, QueueFacts DEF TurnsInv
    <3>3. queue[e][j].type = "END" => queue[e][j].sess # s \/ e # d
      BY <1>4, <2>2
    <3>4. queue[e][j].type = "END" => sd'[queue[e][j].sess, e] = sd[queue[e][j].sess, e]
      BY <1>2, <3>2, <3>3 DEF OtherRows
    <3>. QED  BY <1>2, <1>6, <3>1, <3>2, <3>4 DEF CommandSound, SessionsGoOn, Holds
  <2>. QED  BY <1>2, <1>7, <2>1, <2>2
<1>8. CreatedInOrder' /\ \A t \in Session : sess'[t].status = "none" => Unheard(t)'
  <2>1. ASSUME NEW t \in Session, NEW e \in Device
        PROVE  (Holds(t, e)' => Holds(t, e)) /\ (Ended(sd[t, e]) => Ended(sd'[t, e]))
    <3>1. CASE t = s /\ e = d
      BY <1>2, <3>1 DEF Ended, Holds
    <3>2. CASE t # s \/ e # d
      BY <1>2, <3>2 DEF OtherRows, Holds
    <3>. QED  BY <3>1, <3>2
  <2>. QED  BY <1>2, <1>6, <2>1, SessionsTurns DEF RowsGoOn
<1>9. ASSUME NEW t \in Session, NEW e \in Device
      PROVE  RowSound(t, e)'
  <2>1. RowSound(t, e)
    BY DEF TurnsInv
  <2>2. CASE e # d
    <3>1. sd'[t, e] = sd[t, e] /\ queue'[e] = queue[e]
      BY <1>2, <2>2 DEF OtherRows
    <3>. QED  BY <1>2, <2>1, <3>1 DEF RowSound, Holds, Heard, Alone, Playing
  <2>3. CASE e = d /\ t # s
    <3>1. sd'[t, e] = sd[t, e] /\ ~Holds(t, e)
      BY <1>2, <2>3 DEF OtherRows, SInv, OneSession
    <3>. QED  BY <2>1, <3>1 DEF RowSound, Holds, Playing
  <2>4. CASE e = d /\ t = s
    <3>1. \A j \in DOMAIN queue'[d] : queue'[d][j] = c \/ (j \in DOMAIN Q /\ queue'[d][j] = Q[j])
      BY <1>2 DEF Longer
    <3>2. s <= s
      BY SessionAssumption
    <3>3. sd'[s, d].op \in Asked => Playing(s, d)'
      BY <1>2, <1>3, OpsOfTypes DEF Asked
    <3>4. Playing(s, d)' => Playing(s, d)
      BY <1>2, <1>3 DEF Playing
    <3>5. Heard(s, d)' => Heard(s, d)
      BY <1>2, <3>4 DEF Heard
    <3>. QED  BY <1>2, <1>4, <2>1, <2>4, <3>1, <3>2, <3>3, <3>5 DEF RowSound, Alone
  <2>. QED  BY <2>2, <2>3, <2>4
<1>. QED  BY <1>5, <1>7, <1>8, <1>9 DEF TurnsInv

\* A session is created on headsets that are free and whose commands are of
\* older sessions.
Starts(d, s) == \E c \in Sent :
  /\ Longer(queue'[d], queue[d], c)
  /\ c.type = "START" /\ c.sess = s /\ c.st = "created" /\ ~c.done /\ c.rev = 1 /\ ~c.paused
Created(s, D) ==
  /\ sess[s].status = "none" /\ sess'[s].status = "preparing" /\ OtherSessions(s)
  /\ \A t \in Session : t < s => sess[t].status # "none"
  /\ \A t \in Session, d \in Device : t # s \/ d \notin D => sd'[t, d] = sd[t, d]
  /\ \A d \in D : /\ sd'[s, d].status = "preparing" /\ sd'[s, d].op = "start_pending"
                  /\ sd'[s, d].rev = 1 /\ \A t \in Session : ~Holds(t, d)
  /\ \A d \in Device \ D : queue'[d] = queue[d]
  /\ \A d \in D : Starts(d, s)
  /\ \A d \in Device : \A i \in DOMAIN queue[d] : queue[d][i].sess < s
  /\ UNCHANGED <<agent, hb, used>>

LEMMA CreateParts ==
  ASSUME SInv, TurnsInv, NEW s \in Session, NEW D \in SUBSET Device, NEW a \in App,
         CreateSession(s, D, a)
  PROVE  Created(s, D)
<1> DEFINE c == [type |-> "START", sess |-> s, rev |-> 1, app |-> a, prevApp |-> a,
                 paused |-> FALSE, prevPaused |-> FALSE, launch |-> TRUE,
                 st |-> "created", done |-> FALSE]
<1>1. c \in Sent /\ c.type = "START" /\ c.sess = s /\ c.st = "created" /\ ~c.done
      /\ c.rev = 1 /\ ~c.paused
  BY DEF Sent, CommandType, CommandState
<1>2. queue' = [d \in Device |-> IF d \in D THEN Append(queue[d], c) ELSE queue[d]]
      /\ queue \in [Device -> Seq(Sent)]
  BY DEF CreateSession, SInv, QueueTyped
<1> HIDE DEF c
<1>3. ASSUME NEW d \in D
      PROVE  Starts(d, s)
  <2>1. Longer(queue'[d], queue[d], c)
    BY <1>1, <1>2, AppendLonger
  <2>. QED  BY <1>1, <2>1 DEF Starts
<1>4. /\ sess[s].status = "none" /\ sess'[s].status = "preparing" /\ OtherSessions(s)
      /\ \A t \in Session : t < s => sess[t].status # "none"
  BY DEF CreateSession, Move, SInv, SessTyped, SessionRow, OtherSessions
<1>5. /\ \A t \in Session, d \in Device : t # s \/ d \notin D => sd'[t, d] = sd[t, d]
      /\ \A d \in D : /\ sd'[s, d].status = "preparing" /\ sd'[s, d].op = "start_pending"
                      /\ sd'[s, d].rev = 1 /\ \A t \in Session : ~Holds(t, d)
  BY DEF CreateSession, Free
<1>6. ASSUME NEW d \in Device, NEW i \in DOMAIN queue[d]
      PROVE  queue[d][i].sess < s
  <2> DEFINE t == queue[d][i].sess
  <2>1. t \in Session /\ sess[t].status # "none" /\ t \in Nat /\ s \in Nat
    BY QueueFacts, SessionAssumption DEF TurnsInv, CommandSound
  <2>2. ~(s < t) /\ s # t
    BY <1>4, <2>1 DEF TurnsInv, CreatedInOrder
  <2>. QED  BY <2>1, <2>2
<1>7. /\ \A d \in Device \ D : queue'[d] = queue[d]
      /\ UNCHANGED <<agent, hb, used>>
  BY <1>2 DEF CreateSession
<1>. QED  BY <1>3, <1>4, <1>5, <1>6, <1>7 DEF Created

LEMMA CreateTurns ==
  ASSUME SInv, SInv', TurnsInv, NEW s \in Session, NEW D \in SUBSET Device, NEW a \in App,
         CreateSession(s, D, a)
  PROVE  TurnsInv'
<1>1. /\ sess[s].status = "none" /\ sess'[s].status = "preparing" /\ OtherSessions(s)
      /\ \A t \in Session : t < s => sess[t].status # "none"
      /\ \A t \in Session, d \in Device : t # s \/ d \notin D => sd'[t, d] = sd[t, d]
      /\ \A d \in D : /\ sd'[s, d].status = "preparing" /\ sd'[s, d].op = "start_pending"
                      /\ \A t \in Session : ~Holds(t, d)
      /\ \A d \in Device \ D : queue'[d] = queue[d]
      /\ \A d \in Device : \A i \in DOMAIN queue[d] : queue[d][i].sess < s
      /\ UNCHANGED <<agent, hb>>
  BY CreateParts DEF Created
<1>2. ASSUME NEW d \in D
      PROVE  \E c \in Sent : Longer(queue'[d], queue[d], c) /\ c.type = "START" /\ c.sess = s /\ ~c.done
  BY CreateParts DEF Created, Starts
<1>3. Unheard(s) /\ s \in Nat /\ s # None
  BY <1>1, SessionAssumption DEF TurnsInv
<1>4. ASSUME NEW d \in Device, NEW i \in DOMAIN queue[d]
      PROVE  queue[d][i].sess <= s /\ queue[d][i].sess # s /\ queue[d][i].sess \in Session
  <2>1. queue[d][i].sess < s /\ queue[d][i].sess \in Nat /\ queue[d][i].sess \in Session
    BY <1>1, QueueFacts, SessionAssumption
  <2>. QED  BY <1>3, <2>1
<1>5. ASSUME NEW d \in Device
      PROVE  InTurn(queue'[d]) /\ OnlyOldestRun(queue'[d])
  <2>1. CASE d \notin D
    BY <1>1, <2>1 DEF TurnsInv
  <2>2. CASE d \in D
    <3>1. PICK c \in Sent : Longer(queue'[d], queue[d], c) /\ c.type = "START" /\ c.sess = s /\ ~c.done
      BY <1>2, <2>2
    <3>. QED  BY <1>4, <3>1, LongerTurns, QueueFacts DEF TurnsInv
  <2>. QED  BY <2>1, <2>2
<1>6. \A t \in Session : sess[t].status # "none" => sess'[t].status # "none"
  BY <1>1 DEF OtherSessions
<1>7. ASSUME NEW d \in Device, NEW j \in DOMAIN queue'[d]
      PROVE  CommandSound(d, queue[d][j])'
  <2>1. CASE j \in DOMAIN queue[d] /\ queue'[d][j] = queue[d][j]
    <3>1. CommandSound(d, queue[d][j])
      BY <2>1 DEF TurnsInv
    <3>2. sd'[queue[d][j].sess, d] = sd[queue[d][j].sess, d]
      BY <1>1, <1>4, <2>1
    <3>. QED  BY <1>1, <1>4, <1>6, <2>1, <3>1, <3>2 DEF CommandSound, Holds
  <2>2. CASE d \in D /\ ~(j \in DOMAIN queue[d] /\ queue'[d][j] = queue[d][j])
    <3>1. queue'[d][j].type = "START" /\ queue'[d][j].sess = s /\ ~queue'[d][j].done
      BY <1>2, <1>7, <2>2 DEF Longer
    <3>. QED  BY <1>1, <3>1 DEF CommandSound
  <2>3. CASE d \notin D
    BY <1>1, <1>7, <2>1, <2>3
  <2>. QED  BY <2>1, <2>2, <2>3
<1>8. CreatedInOrder'
  <2>1. SUFFICES ASSUME NEW t \in Session, NEW u \in Session, u < t, sess'[t].status # "none"
                 PROVE  sess'[u].status # "none"
    BY DEF CreatedInOrder
  <2>2. CASE t = s
    BY <1>1, <1>6, <2>1, <2>2
  <2>3. CASE t # s
    BY <1>1, <1>6, <2>1, <2>3 DEF TurnsInv, CreatedInOrder, OtherSessions
  <2>. QED  BY <2>2, <2>3
<1>9. ASSUME NEW t \in Session, sess'[t].status = "none"
      PROVE  Unheard(t)'
  <2>1. t # s /\ Unheard(t)
    BY <1>1, <1>6, <1>9 DEF TurnsInv
  <2>. QED  BY <1>1, <2>1 DEF Unheard, Holds
<1>10. ASSUME NEW t \in Session, NEW d \in Device
       PROVE  RowSound(t, d)'
  <2>1. RowSound(t, d)
    BY DEF TurnsInv
  <2>2. CASE d \notin D
    BY <1>1, <2>1, <2>2 DEF RowSound, Holds, Heard, Alone, Playing
  <2>3. CASE d \in D /\ t # s
    <3>1. sd'[t, d] = sd[t, d] /\ ~Holds(t, d)
      BY <1>1, <2>3
    <3>. QED  BY <2>1, <3>1 DEF RowSound, Holds, Playing
  <2>4. CASE d \in D /\ t = s
    <3>1. ~Heard(s, d)'
      BY <1>1, <1>3, <2>4 DEF Heard, Unheard, Playing
    <3>2. sd'[s, d].op \notin Asked
      BY <1>1, <2>4 DEF Asked
    <3>3. \A j \in DOMAIN queue'[d] : queue'[d][j].sess <= s
      <4>1. PICK c \in Sent : Longer(queue'[d], queue[d], c) /\ c.sess = s
        BY <1>2, <2>4
      <4>. QED  BY <1>3, <1>4, <4>1 DEF Longer
    <3>. QED  BY <2>4, <3>1, <3>2, <3>3 DEF RowSound
  <2>. QED  BY <2>2, <2>3, <2>4
<1>. QED  BY <1>5, <1>7, <1>8, <1>9, <1>10 DEF TurnsInv

-----------------------------------------------------------------------------
(* Bounds.                                                                 *)

UsedGoesOn == /\ used' \in [Budget -> Nat]
              /\ used["request"] <= used'["request"] /\ used'["request"] <= MaxRequests
              /\ used'["lost"] = 0 => used["lost"] = 0

LEMMA SpendGoesOn ==
  ASSUME BoundsInv, NEW b \in Budget, Spend(b)
  PROVE  UsedGoesOn /\ (b = "request" => used'["request"] = used["request"] + 1)
<1>1. /\ used \in [Budget -> Nat] /\ used["request"] <= MaxRequests /\ MaxRequests \in Nat
      /\ used[b] < Bound(b) /\ used' = [used EXCEPT ![b] = used[b] + 1]
  BY SessionBoundAssumption DEF BoundsInv, Spend
<1>2. used[b] + 1 \in Nat /\ "request" \in Budget
  BY <1>1 DEF Budget
<1>3. used' \in [Budget -> Nat] /\ used[b] + 1 # 0
  BY <1>1, <1>2
<1>6. used'["lost"] = 0 => used["lost"] = 0
  BY <1>1, <1>3 DEF Budget
<1>4. CASE b = "request"
  BY <1>1, <1>2, <1>3, <1>4, <1>6 DEF UsedGoesOn, Bound
<1>5. CASE b # "request"
  BY <1>1, <1>2, <1>3, <1>5, <1>6 DEF UsedGoesOn
<1>. QED  BY <1>4, <1>5

LEMMA CountSelf ==
  ASSUME NEW n \in Nat
  PROVE  n <= n /\ 1 <= n + 1
OBVIOUS

LEMMA CountLess ==
  ASSUME NEW n \in Nat, NEW m \in Nat, n <= m
  PROVE  n <= m + 1 /\ n # m + 1
OBVIOUS

LEMMA CountSame ==
  ASSUME NEW n \in Nat, NEW m \in Nat, n <= m, n >= m
  PROVE  n = m
OBVIOUS

LEMMA CountKept ==
  ASSUME NEW n \in Nat, NEW u \in Nat, NEW v \in Nat, u <= v
  PROVE  /\ n <= u + 1 => n <= v + 1
         /\ n <= u + 2 => n <= v + 2
OBVIOUS

LEMMA CountNext ==
  ASSUME NEW n \in Nat, NEW u \in Nat, NEW v \in Nat, NEW m \in Nat, u <= v, v <= m, n <= u + 1
  PROVE  /\ n + 1 <= v + 2 /\ n + 1 \in 0..m + 2
         /\ v = u + 1 => n + 1 <= v + 1
OBVIOUS

LEMMA UnusedGoesOn ==
  ASSUME BoundsInv, UNCHANGED used
  PROVE  UsedGoesOn
<1>1. used["request"] \in Nat
  BY DEF BoundsInv, Budget
<1>2. used["request"] <= used["request"]
  BY <1>1, CountSelf
<1>. QED  BY <1>1, <1>2 DEF BoundsInv, UsedGoesOn

LEMMA RevKept ==
  ASSUME SInv, BoundsInv, UsedGoesOn, NEW s \in Session, NEW d \in Device,
         sd'[s, d].rev = sd[s, d].rev, Ended(sd[s, d]) => Ended(sd'[s, d])
  PROVE  RevBounded(sd[s, d])'
<1>1. sd[s, d].rev \in Nat /\ used["request"] \in Nat /\ used'["request"] \in Nat
      /\ used["request"] <= used'["request"]
  BY DEF SInv, RowsTyped, Row, BoundsInv, UsedGoesOn, Budget
<1>2. RevBounded(sd[s, d])
  BY DEF BoundsInv
<1>. QED  BY <1>1, <1>2, CountKept DEF RevBounded

\* A step after which the queues hold no command of another revision.
LEMMA BoundsFrom ==
  ASSUME BoundsInv, UsedGoesOn, DevTyped',
         agent' \in [Device -> AgentState], hb' \in [Device -> AgentState],
         \A s \in Session, d \in Device : RevBounded(sd[s, d])',
         \A d \in Device : \A i \in DOMAIN queue'[d] :
           queue'[d][i].rev \in {queue[d][k].rev : k \in DOMAIN queue[d]} \cup Revision
  PROVE  BoundsInv'
BY DEF BoundsInv, UsedGoesOn

LEMMA EndsBounds ==
  ASSUME SInv, SInv', TurnsInv, BoundsInv, UsedGoesOn, NEW d \in Device, NEW i \in DOMAIN queue[d],
         Ends(d, i)
  PROVE  BoundsInv'
<1>1. RowsGoOn /\ UNCHANGED <<agent, hb>> /\ queue[d][i].sess \in Session
  BY EndsSound, QueueFacts DEF Ends
<1>2. ASSUME NEW s \in Session, NEW e \in Device
      PROVE  sd'[s, e].rev = sd[s, e].rev
  BY <1>1 DEF Ends, ResultRow, Outcome
<1>3. \A s \in Session, e \in Device : RevBounded(sd[s, e])'
  BY <1>1, <1>2, RevKept DEF RowsGoOn
<1>4. DevTyped'
  BY DEF BoundsInv, Ends, ResultRow, DevTyped
<1>5. ASSUME NEW e \in Device, NEW j \in DOMAIN queue'[e]
      PROVE  queue'[e][j].rev \in {queue[e][k].rev : k \in DOMAIN queue[e]}
  <2>1. CASE e = d
    <3>1. queue[d] \in Seq(Sent) /\ Passes(queue'[d], queue[d], i)
      BY QueueFacts DEF Ends
    <3>. QED  BY <1>5, <2>1, <3>1, PassesFrom
  <2>2. CASE e # d
    BY <1>5, <2>2 DEF Ends, OtherQueues
  <2>. QED  BY <2>1, <2>2
<1>. QED  BY <1>1, <1>3, <1>4, <1>5, BoundsFrom DEF BoundsInv

LEMMA OutTyped ==
  ASSUME NEW a \in AgentState
  PROVE  Out(a) \in AgentState /\ Out(a).sess = None
<1>1. 0 \in Revision
  BY SessionBoundAssumption DEF Revision
<1>. QED  BY <1>1 DEF Out, AgentState

LEMMA IntentTyped ==
  ASSUME NEW c \in Sent, c.rev \in Revision, NEW a \in AgentState
  PROVE  AfterIntent(c, a) \in AgentState
<1>2. Out(a) \in AgentState
  BY OutTyped
<1>3. [sess |-> c.sess, paused |-> c.paused, rev |-> c.rev, app |-> c.app] \in AgentState
  BY DEF Sent, AgentState
<1>. QED  BY <1>2, <1>3 DEF AfterIntent

LEMMA AdvancesBounds ==
  ASSUME SInv, SInv', BoundsInv, UsedGoesOn, NEW d \in Device,
         1 \in DOMAIN queue[d], NEW c, Advances(d, c), Progress(d, c)
  PROVE  BoundsInv'
<1> DEFINE b == queue[d][1]
<1>1. b \in Sent /\ b.rev \in Revision /\ agent \in [Device -> AgentState]
  BY QueueFacts DEF BoundsInv
<1>2. agent' \in [Device -> AgentState]
  <2>1. CASE UNCHANGED agent
    BY <1>1, <2>1
  <2>2. CASE agent' = [agent EXCEPT ![d] = AfterIntent(b, agent[d])]
    BY <1>1, <2>2, IntentTyped
  <2>. QED  BY <2>1, <2>2, Zenon DEF Progress
<1>3. /\ UNCHANGED <<sd, dev, hb>> /\ c.rev = b.rev
      /\ Oldest(queue'[d], queue[d], c) /\ \A e \in Device : e # d => queue'[e] = queue[e]
  BY DEF Advances, OtherQueues
<1>4. \A s \in Session, e \in Device : RevBounded(sd[s, e])'
  BY <1>3, RevKept
<1>5. ASSUME NEW e \in Device, NEW j \in DOMAIN queue'[e]
      PROVE  queue'[e][j].rev \in {queue[e][k].rev : k \in DOMAIN queue[e]}
  <2>1. j \in DOMAIN queue[e] /\ queue'[e][j].rev = queue[e][j].rev
    BY <1>3, <1>5 DEF Oldest
  <2>. QED  BY <2>1
<1>. QED  BY <1>2, <1>3, <1>4, <1>5, BoundsFrom DEF BoundsInv, DevTyped

LEMMA AsksBounds ==
  ASSUME SInv, SInv', BoundsInv, UsedGoesOn, NEW s \in Session, NEW d \in Device, NEW c, Asks(s, d, c),
         \/ used'["request"] = used["request"] + 1
         \/ sd'[s, d].op = "finish_pending"
  PROVE  BoundsInv'
<1>1. /\ sd[s, d].rev \in Nat /\ used["request"] \in Nat /\ used'["request"] \in Nat
      /\ used["request"] <= used'["request"] /\ used'["request"] <= MaxRequests /\ MaxRequests \in Nat
      /\ RevBounded(sd[s, d])
  BY SessionBoundAssumption DEF SInv, RowsTyped, Row, BoundsInv, UsedGoesOn, Budget
<1>2. /\ sd'[s, d].rev = sd[s, d].rev + 1 /\ c.rev = sd'[s, d].rev /\ ~Ended(sd[s, d])
      /\ OtherRows(s, d) /\ UNCHANGED <<dev, agent, hb>>
      /\ Longer(queue'[d], queue[d], c) /\ OtherQueues(d)
  BY DEF Asks, Ended, IsActive
<1>3. sd[s, d].rev <= used["request"] + 1
  BY <1>1, <1>2, Zenon DEF RevBounded
<1>4. RevBounded(sd[s, d])' /\ c.rev \in Revision
  <2> DEFINE r == sd[s, d].rev
             u == used["request"]
             v == used'["request"]
  <2>1. /\ r + 1 <= v + 2 /\ r + 1 \in 0..MaxRequests + 2
        /\ v = u + 1 => r + 1 <= v + 1
    BY <1>1, <1>3, CountNext
  <2> HIDE DEF r
  <2>2. sd'[s, d].rev = r + 1 /\ c.rev = r + 1
    BY <1>2 DEF r
  <2>3. sd'[s, d].op = "finish_pending" => Ended(sd'[s, d])
    BY DEF Ended
  <2>. QED  BY <2>1, <2>2, <2>3 DEF RevBounded, Revision
<1>5. ASSUME NEW t \in Session, NEW e \in Device
      PROVE  RevBounded(sd[t, e])'
  <2>1. CASE t = s /\ e = d
    BY <1>4, <2>1
  <2>2. CASE t # s \/ e # d
    <3>1. sd'[t, e] = sd[t, e]
      BY <1>2, <2>2 DEF OtherRows
    <3>. QED  BY <3>1, RevKept
  <2>. QED  BY <2>1, <2>2
<1>6. ASSUME NEW e \in Device, NEW j \in DOMAIN queue'[e]
      PROVE  queue'[e][j].rev \in {queue[e][k].rev : k \in DOMAIN queue[e]} \cup Revision
  <2>1. \/ queue'[e][j] = c
        \/ j \in DOMAIN queue[e] /\ queue'[e][j] = queue[e][j]
    BY <1>2, <1>6 DEF Longer, OtherQueues
  <2>. QED  BY <1>4, <2>1
<1>. QED  BY <1>2, <1>5, <1>6, BoundsFrom DEF BoundsInv, DevTyped

LEMMA CreateBounds ==
  ASSUME SInv, SInv', TurnsInv, BoundsInv, NEW s \in Session, NEW D \in SUBSET Device, NEW a \in App,
         CreateSession(s, D, a)
  PROVE  BoundsInv'
<1>1. Created(s, D) /\ UNCHANGED <<agent, hb, used>> /\ UsedGoesOn
  BY CreateParts, UnusedGoesOn DEF CreateSession
<1>2. DevTyped'
  BY DEF CreateSession, BoundsInv, DevTyped
<1>3. ASSUME NEW t \in Session, NEW d \in Device
      PROVE  RevBounded(sd[t, d])'
  <2>1. CASE t = s /\ d \in D
    <3>1. sd'[t, d].rev = 1 /\ used'["request"] \in Nat
      BY <1>1, <2>1 DEF Created, UsedGoesOn, Budget
    <3>2. 1 <= used'["request"] + 1
      BY <3>1, CountSelf
    <3>. QED  BY <3>1, <3>2 DEF RevBounded
  <2>2. CASE t # s \/ d \notin D
    <3>1. sd'[t, d] = sd[t, d]
      BY <1>1, <2>2 DEF Created
    <3>. QED  BY <1>1, <3>1, RevKept
  <2>. QED  BY <2>1, <2>2
<1>4. ASSUME NEW d \in Device, NEW j \in DOMAIN queue'[d]
      PROVE  queue'[d][j].rev \in {queue[d][k].rev : k \in DOMAIN queue[d]} \cup Revision
  <2>1. 1 \in Revision
    BY SessionBoundAssumption DEF Revision
  <2>2. CASE d \notin D
    BY <1>1, <1>4, <2>2 DEF Created
  <2>3. CASE d \in D
    <3>1. PICK c \in Sent : Longer(queue'[d], queue[d], c) /\ c.rev = 1
      BY <1>1, <2>3 DEF Created, Starts
    <3>2. queue'[d][j] = c \/ (j \in DOMAIN queue[d] /\ queue'[d][j] = queue[d][j])
      BY <1>4, <3>1 DEF Longer
    <3>. QED  BY <2>1, <3>1, <3>2
  <2>. QED  BY <2>2, <2>3
<1>. QED  BY <1>1, <1>2, <1>3, <1>4, BoundsFrom DEF BoundsInv

-----------------------------------------------------------------------------
(* The steps together.                                                     *)

Quiet == UNCHANGED queue /\ SessionsGoOn /\ QuietRows /\ QuietHeadsets

\* Steps after which the row is counted as before.
LEMMA QuietBounds ==
  ASSUME SInv, BoundsInv, UsedGoesOn, DevTyped', UNCHANGED queue, QuietRows,
         agent' \in [Device -> AgentState], hb' \in [Device -> AgentState],
         \A s \in Session, d \in Device : sd'[s, d].rev = sd[s, d].rev
  PROVE  BoundsInv'
<1>1. \A s \in Session, d \in Device : RevBounded(sd[s, d])'
  BY RevKept DEF QuietRows, Ended, Holds
<1>. QED  BY <1>1, BoundsFrom

LEMMA TimeUpQuiet ==
  ASSUME SInv, TurnsInv, BoundsInv, NEW s \in Session, NEW d \in Device, TimeUp(s, d)
  PROVE  Quiet /\ BoundsInv'
<1>1. /\ \A t \in Session, e \in Device : /\ sd'[t, e].status = sd[t, e].status
                                          /\ sd'[t, e].op = sd[t, e].op /\ sd'[t, e].rev = sd[t, e].rev
      /\ UNCHANGED <<sess, dev, queue, agent, hb, used>>
  BY DEF TimeUp, SInv, RowsTyped, Row
<1>2. QuietRows
  BY <1>1 DEF QuietRows, Holds, Heard, Playing, TurnsInv, RowSound
<1>3. Quiet
  BY <1>1, <1>2 DEF Quiet, SessionsGoOn, QuietHeadsets
<1>. QED  BY <1>1, <1>2, <1>3, QuietBounds, UnusedGoesOn DEF BoundsInv, DevTyped

\* A heartbeat of a session the row is in.
LEMMA HeartbeatParts ==
  ASSUME SInv, NEW s \in Session, NEW d \in Device, CloudHeartbeat(s, d)
  PROVE  /\ IsActive(s, d) /\ hb[d].sess = s /\ hb[d].rev >= sd[s, d].rev
         /\ \/ UNCHANGED <<sess, sd>>
            \/ /\ sd[s, d].op # "finish_pending" /\ OtherRows(s, d)
               /\ sd'[s, d].op = "idle" /\ sd'[s, d].rev = sd[s, d].rev
               /\ \/ /\ ~hb[d].paused /\ sd'[s, d].status = "running"
                     /\ sess[s].status \in {"starting", "running", "extended"}
                     /\ IF sess[s].status = "starting" THEN Move(s, "running") ELSE UNCHANGED sess
                  \/ /\ hb[d].paused /\ sd[s, d].status = "running" /\ sd'[s, d].status = "paused"
                     /\ sess[s].status \in {"running", "extended", "paused"} /\ Move(s, "paused")
         /\ hb' = [hb EXCEPT ![d] = Out(@)] /\ UNCHANGED <<queue, agent, used>>
<1>1. IsActive(s, d) /\ hb[d].sess = s /\ hb[d].rev >= sd[s, d].rev
      /\ hb' = [hb EXCEPT ![d] = Out(@)] /\ UNCHANGED <<queue, agent, used>>
  BY DEF CloudHeartbeat, UpToDate
<1>2. \/ UNCHANGED <<sess, sd>>
      \/ /\ ~hb[d].paused /\ sess[s].status \in {"starting", "running", "extended"}
         /\ ReconcileRunning(s, d)
      \/ /\ hb[d].paused /\ sess[s].status \in {"running", "extended", "paused"}
         /\ ReconcilePaused(s, d)
  BY DEF CloudHeartbeat
<1>3. CASE ~hb[d].paused /\ sess[s].status \in {"starting", "running", "extended"}
           /\ ReconcileRunning(s, d)
  <2>1. CASE sd[s, d].op = "finish_pending"
    BY <1>1, <1>3, <2>1 DEF ReconcileRunning
  <2>2. CASE sd[s, d].op # "finish_pending"
    <3> DEFINE n == [sd[s, d] EXCEPT !.status = "running", !.op = "idle"]
    <3>1. sd' = [sd EXCEPT ![<<s, d>>] = n]
      BY <1>3, <2>2 DEF ReconcileRunning, SInv, RowsTyped
    <3>2. n.status = "running" /\ n.op = "idle" /\ n.rev = sd[s, d].rev
      BY DEF SInv, RowsTyped, Row
    <3> HIDE DEF n
    <3>3. sd'[s, d] = n /\ OtherRows(s, d)
      BY <3>1, OneRow DEF OtherRows
    <3>4. IF sess[s].status = "starting" THEN Move(s, "running") ELSE UNCHANGED sess
      BY <1>3, <2>2 DEF ReconcileRunning
    <3>. QED  BY <1>1, <1>3, <2>2, <3>2, <3>3, <3>4
  <2>. QED  BY <2>1, <2>2
<1>4. CASE hb[d].paused /\ sess[s].status \in {"running", "extended", "paused"}
           /\ ReconcilePaused(s, d)
  <2>1. CASE ~(sd[s, d].status = "running" /\ sd[s, d].op # "finish_pending")
    BY <1>1, <1>4, <2>1 DEF ReconcilePaused
  <2>2. CASE sd[s, d].status = "running" /\ sd[s, d].op # "finish_pending"
    <3> DEFINE n == [sd[s, d] EXCEPT !.status = "paused", !.op = "idle"]
    <3>1. sd' = [sd EXCEPT ![<<s, d>>] = n] /\ Move(s, "paused")
      BY <1>4, <2>2 DEF ReconcilePaused, SInv, RowsTyped
    <3>2. n.status = "paused" /\ n.op = "idle" /\ n.rev = sd[s, d].rev
      BY DEF SInv, RowsTyped, Row
    <3> HIDE DEF n
    <3>3. sd'[s, d] = n /\ OtherRows(s, d)
      BY <3>1, OneRow DEF OtherRows
    <3>. QED  BY <1>1, <1>4, <2>2, <3>1, <3>2, <3>3
  <2>. QED  BY <2>1, <2>2
<1>. QED  BY <1>1, <1>2, <1>3, <1>4

LEMMA HeartbeatQuiet ==
  ASSUME SInv, TurnsInv, BoundsInv, NEW s \in Session, NEW d \in Device, CloudHeartbeat(s, d)
  PROVE  Quiet /\ BoundsInv'
<1>1. /\ IsActive(s, d) /\ hb[d].sess = s
      /\ hb' = [hb EXCEPT ![d] = Out(@)] /\ UNCHANGED <<queue, agent, used>>
  BY HeartbeatParts
<1>2. \/ UNCHANGED <<sess, sd>>
      \/ /\ sd[s, d].op # "finish_pending" /\ OtherRows(s, d)
         /\ sd'[s, d].op = "idle" /\ sd'[s, d].rev = sd[s, d].rev
         /\ sd'[s, d].status \in {"running", "paused"}
         /\ UNCHANGED sess \/ \E next \in {"running", "paused"} : Move(s, next)
  BY HeartbeatParts, Zenon
<1>3. SessionsGoOn
  BY <1>1, <1>2 DEF SessionsGoOn, Move, SInv, SessTyped, SessionRow, IsActive, ActiveSession
<1>4. ASSUME NEW t \in Session, NEW e \in Device
      PROVE  /\ Holds(t, e)' <=> Holds(t, e)
             /\ sd'[t, e].op = "finish_pending" <=> sd[t, e].op = "finish_pending"
             /\ sd'[t, e].op \in PendingOp => sd'[t, e].op = sd[t, e].op
             /\ sd'[t, e].op \in Asked => Playing(t, e)'
             /\ Playing(t, e)' => Heard(t, e)
             /\ sd'[t, e].rev = sd[t, e].rev
  <2>1. CASE sd'[t, e] = sd[t, e]
    BY <2>1 DEF Holds, Heard, Playing, TurnsInv, RowSound
  <2>2. CASE sd'[t, e] # sd[t, e]
    <3>1. /\ t = s /\ e = d /\ sd[s, d].op # "finish_pending" /\ sd'[s, d].op = "idle"
          /\ sd'[s, d].rev = sd[s, d].rev /\ sd'[s, d].status \in {"running", "paused"}
      BY <1>2, <2>2 DEF OtherRows
    <3>. QED  BY <1>1, <3>1 DEF Holds, Heard, Playing, Asked, IsActive, ActiveRow, PendingOp
  <2>. QED  BY <2>1, <2>2
<1>5. QuietRows
  BY <1>4 DEF QuietRows
<1>6. hb' \in [Device -> AgentState] /\ QuietHeadsets
  <2>1. Out(hb[d]) \in AgentState /\ Out(hb[d]).sess = None
    BY OutTyped DEF BoundsInv
  <2>. QED  BY <1>1, <2>1 DEF BoundsInv, QuietHeadsets
<1>7. DevTyped'
  BY DEF CloudHeartbeat, BoundsInv, DevTyped
<1>8. Quiet
  BY <1>1, <1>3, <1>5, <1>6 DEF Quiet
<1>. QED  BY <1>1, <1>4, <1>5, <1>6, <1>7, <1>8, QuietBounds, UnusedGoesOn DEF BoundsInv

LEMMA HeadsetQuiet ==
  ASSUME SInv, TurnsInv, BoundsInv, NEW d \in Device, AgentHeartbeat(d) \/ AgentTimeUp(d) \/ Telemetry(d)
  PROVE  Quiet /\ BoundsInv'
<1>1. UNCHANGED <<sess, sd, queue, used>>
  BY DEF AgentHeartbeat, AgentTimeUp, Telemetry
<1>2. QuietRows /\ SessionsGoOn
  BY <1>1 DEF QuietRows, SessionsGoOn, Holds, Heard, Playing, TurnsInv, RowSound
<1>3. Out(agent[d]) \in AgentState /\ Out(agent[d]).sess = None
  BY OutTyped DEF BoundsInv
<1>4. QuietHeadsets /\ agent' \in [Device -> AgentState] /\ hb' \in [Device -> AgentState] /\ DevTyped'
  BY <1>3 DEF AgentHeartbeat, AgentTimeUp, Telemetry, QuietHeadsets, BoundsInv, DevTyped
<1>5. Quiet
  BY <1>1, <1>2, <1>4 DEF Quiet
<1>. QED  BY <1>1, <1>2, <1>4, <1>5, QuietBounds, UnusedGoesOn

-----------------------------------------------------------------------------
(* A pending operation and its command.                                    *)

Pends(s, d) == Holds(s, d) /\ sd[s, d].op \in PendingOp
Settles(c, s, d) == c.sess = s /\ OpOf(c.type) = sd[s, d].op /\ c.st # "ghost"
PendInv == \A s \in Session, d \in Device : Pends(s, d) =>
             \E k \in DOMAIN queue[d] : Settles(queue[d][k], s, d)

LEMMA PendHolds ==
  ASSUME SInv, PendInv
  PROVE  PendingHasCommand
<1>1. SUFFICES ASSUME NEW s \in Session, NEW d \in Device, Holds(s, d), sd[s, d].op \in PendingOp
               PROVE  \E type \in CommandType : OpOf(type) = sd[s, d].op /\ InQueue(d, s, type)
  BY DEF PendingHasCommand
<1>2. PICK k \in DOMAIN queue[d] : Settles(queue[d][k], s, d)
  BY <1>1 DEF PendInv, Pends
<1>3. queue[d][k].type \in CommandType
  BY QueueFacts DEF Sent
<1>. QED  BY <1>2, <1>3 DEF InQueue, Settles

LEMMA EndsPend ==
  ASSUME SInv, TurnsInv, PendInv, NEW d \in Device, NEW i \in DOMAIN queue[d], Ends(d, i)
  PROVE  PendInv'
<1> DEFINE Q == queue[d]
<1>1. SUFFICES ASSUME NEW s \in Session, NEW e \in Device, Pends(s, e)'
               PROVE  \E j \in DOMAIN queue'[e] : Settles(queue[e][j], s, e)'
  BY DEF PendInv
<1>2. Q[i] \in Sent /\ Q[i].type \in CommandType /\ Q[i].sess \in Session
  BY QueueFacts DEF Sent
<1>3. sd'[s, e] = sd[s, e]
      /\ ~(s = Q[i].sess /\ e = d /\ Q[i].st # "ghost" /\ sd[s, e].op = OpOf(Q[i].type))
  <2>1. CASE s = Q[i].sess /\ e = d /\ Q[i].st # "ghost" /\ sd[s, e].op = OpOf(Q[i].type)
    <3>1. Outcome(sd[s, e], sd'[s, e], Q[i])
      BY <1>2, <2>1 DEF Ends, ResultRow
    <3>2. sd'[s, e].op \notin PendingOp \/ sd'[s, e].status \notin ActiveRow
      BY <1>2, <3>1 DEF Outcome, PendingOp, ActiveRow
    <3>. QED  BY <1>1, <3>2 DEF Pends, Holds
  <2>2. CASE ~(s = Q[i].sess /\ e = d /\ Q[i].st # "ghost" /\ sd[s, e].op = OpOf(Q[i].type))
    BY <1>2, <2>2 DEF Ends, ResultRow
  <2>. QED  BY <2>1, <2>2
<1>4. PICK k \in DOMAIN queue[e] : Settles(queue[e][k], s, e)
  BY <1>1, <1>3 DEF PendInv, Pends, Holds
<1>5. \E j \in DOMAIN queue'[e] : queue'[e][j] = queue[e][k]
  <2>1. CASE e = d
    <3>1. k # i
      BY <1>3, <1>4, <2>1 DEF Settles
    <3>. QED  BY <2>1, <3>1 DEF Ends, Passes
  <2>2. CASE e # d
    BY <2>2 DEF Ends, OtherQueues
  <2>. QED  BY <2>1, <2>2
<1>. QED  BY <1>3, <1>4, <1>5 DEF Settles

LEMMA AdvancesPend ==
  ASSUME SInv, PendInv, NEW d \in Device, 1 \in DOMAIN queue[d], NEW c, Advances(d, c), Progress(d, c)
  PROVE  PendInv'
<1>1. SUFFICES ASSUME NEW s \in Session, NEW e \in Device, Pends(s, e)'
               PROVE  \E j \in DOMAIN queue'[e] : Settles(queue[e][j], s, e)'
  BY DEF PendInv
<1>2. UNCHANGED sd /\ Oldest(queue'[d], queue[d], c) /\ OtherQueues(d)
      /\ c.type = queue[d][1].type /\ c.sess = queue[d][1].sess
  BY DEF Advances
<1>3. c.st = "ghost" => queue[d][1].st = "ghost"
  BY Zenon DEF Progress
<1>4. PICK k \in DOMAIN queue[e] : Settles(queue[e][k], s, e)
  BY <1>1, <1>2 DEF PendInv, Pends, Holds
<1>5. CASE e = d /\ k = 1
  BY <1>2, <1>3, <1>4, <1>5 DEF Oldest, Settles
<1>6. CASE ~(e = d /\ k = 1)
  BY <1>2, <1>4, <1>6 DEF Oldest, Settles, OtherQueues
<1>. QED  BY <1>5, <1>6

LEMMA AsksPend ==
  ASSUME SInv, PendInv, NEW s \in Session, NEW d \in Device, NEW c, Asks(s, d, c)
  PROVE  PendInv'
<1>1. SUFFICES ASSUME NEW t \in Session, NEW e \in Device, Pends(t, e)'
               PROVE  \E j \in DOMAIN queue'[e] : Settles(queue[e][j], t, e)'
  BY DEF PendInv
<1>2. /\ c.sess = s /\ c.st = "created" /\ sd'[s, d].op = OpOf(c.type)
      /\ Longer(queue'[d], queue[d], c) /\ OtherRows(s, d) /\ OtherQueues(d)
  BY DEF Asks
<1>3. CASE t = s /\ e = d
  BY <1>2, <1>3 DEF Longer, Settles
<1>4. CASE t # s \/ e # d
  <2>1. sd'[t, e] = sd[t, e]
    BY <1>2, <1>4 DEF OtherRows
  <2>2. PICK k \in DOMAIN queue[e] : Settles(queue[e][k], t, e)
    BY <1>1, <2>1 DEF PendInv, Pends, Holds
  <2>3. k \in DOMAIN queue'[e] /\ queue'[e][k] = queue[e][k]
    BY <1>2 DEF Longer, OtherQueues
  <2>. QED  BY <2>1, <2>2, <2>3 DEF Settles
<1>. QED  BY <1>3, <1>4

LEMMA CreatePend ==
  ASSUME SInv, PendInv, NEW s \in Session, NEW D \in SUBSET Device, Created(s, D)
  PROVE  PendInv'
<1>1. SUFFICES ASSUME NEW t \in Session, NEW e \in Device, Pends(t, e)'
               PROVE  \E j \in DOMAIN queue'[e] : Settles(queue[e][j], t, e)'
  BY DEF PendInv
<1>2. ASSUME e \in D
      PROVE  \E c \in Sent : /\ Longer(queue'[e], queue[e], c)
                             /\ c.type = "START" /\ c.sess = s /\ c.st = "created"
  BY <1>2 DEF Created, Starts
<1>3. CASE t = s /\ e \in D
  <2>1. sd'[t, e].op = "start_pending"
    BY <1>3 DEF Created
  <2>. QED  BY <1>2, <1>3, <2>1, OpsOfTypes DEF Longer, Settles
<1>4. CASE t # s \/ e \notin D
  <2>1. sd'[t, e] = sd[t, e]
    BY <1>4 DEF Created
  <2>2. PICK k \in DOMAIN queue[e] : Settles(queue[e][k], t, e)
    BY <1>1, <2>1 DEF PendInv, Pends, Holds
  <2>3. k \in DOMAIN queue'[e] /\ queue'[e][k] = queue[e][k]
    BY <1>2 DEF Longer, Created
  <2>. QED  BY <2>1, <2>2, <2>3 DEF Settles
<1>. QED  BY <1>3, <1>4

LEMMA QuietPend ==
  ASSUME PendInv, UNCHANGED queue, QuietRows
  PROVE  PendInv'
<1>1. SUFFICES ASSUME NEW t \in Session, NEW e \in Device, Pends(t, e)'
               PROVE  \E j \in DOMAIN queue'[e] : Settles(queue[e][j], t, e)'
  BY DEF PendInv
<1>2. Pends(t, e) /\ sd'[t, e].op = sd[t, e].op
  BY <1>1 DEF Pends, QuietRows
<1>3. PICK k \in DOMAIN queue[e] : Settles(queue[e][k], t, e)
  BY <1>2 DEF PendInv
<1>. QED  BY <1>2, <1>3 DEF Settles

-----------------------------------------------------------------------------
(* Types, turns and pending operations, for any number of headsets.        *)

QInv == SInv /\ TurnsInv /\ BoundsInv /\ PendInv

LEMMA InitQueues ==
  ASSUME Init
  PROVE  QInv
<1>1. SInv
  BY InitHolds
<1>2. PICK a \in App :
    /\ sess = [s \in Session |-> [status |-> "none", autoEnd |-> FALSE]]
    /\ sd = [p \in Session \X Device |->
               [status |-> "none", op |-> "idle", rev |-> 0, app |-> a, expired |-> FALSE]]
    /\ dev = [d \in Device |-> "online"]
    /\ queue = [d \in Device |-> <<>>]
    /\ agent = [d \in Device |-> [sess |-> None, paused |-> FALSE, rev |-> 0, app |-> a]]
    /\ hb = [d \in Device |-> [sess |-> None, paused |-> FALSE, rev |-> 0, app |-> a]]
    /\ used = [b \in Budget |-> 0]
  BY DEF Init
<1>3. \A d \in Device : DOMAIN queue[d] = {}
  BY <1>2
<1>4. \A s \in Session, d \in Device : sd[s, d].status = "none" /\ sd[s, d].op = "idle" /\ sd[s, d].rev = 0
  BY <1>2
<1>5. \A s \in Session : sess[s].status = "none" /\ s # None
  BY <1>2, SessionAssumption
<1>6. \A d \in Device : agent[d].sess = None /\ hb[d].sess = None
  BY <1>2
<1>7. 0 \in Revision /\ MaxRequests \in Nat
  BY SessionBoundAssumption DEF Revision
<1>8. TurnsInv
  BY <1>3, <1>4, <1>5, <1>6
     DEF TurnsInv, InTurn, OnlyOldestRun, CreatedInOrder, Unheard, RowSound, Holds, ActiveRow, Asked
<1>9. BoundsInv
  <2>1. used \in [Budget -> Nat] /\ used["request"] = 0 /\ 0 <= MaxRequests /\ 0 <= 0 + 1
    BY <1>2, <1>7 DEF Budget
  <2>2. DevTyped
    BY <1>2 DEF DevTyped
  <2>3. agent \in [Device -> AgentState] /\ hb \in [Device -> AgentState]
    BY <1>2, <1>7 DEF AgentState
  <2>. QED  BY <1>3, <1>4, <2>1, <2>2, <2>3 DEF BoundsInv, RevBounded
<1>10. PendInv
  BY <1>4 DEF PendInv, Pends, Holds, ActiveRow
<1>. QED  BY <1>1, <1>8, <1>9, <1>10 DEF QInv

LEMMA QueuesFrom ==
  ASSUME QInv, SInv', TurnsInv', BoundsInv', PendInv'
  PROVE  QInv'
BY DEF QInv

LEMMA EndsQueues ==
  ASSUME QInv, SInv', UsedGoesOn, NEW d \in Device, NEW i \in DOMAIN queue[d], Ends(d, i)
  PROVE  QInv'
BY EndsTurns, EndsBounds, EndsPend DEF QInv

LEMMA AdvancesQueues ==
  ASSUME QInv, SInv', UsedGoesOn, NEW d \in Device, 1 \in DOMAIN queue[d],
         NEW c, Advances(d, c), Progress(d, c)
  PROVE  QInv'
BY AdvancesTurns, AdvancesBounds, AdvancesPend DEF QInv, BoundsInv

LEMMA AsksQueues ==
  ASSUME QInv, SInv', UsedGoesOn, NEW s \in Session, NEW d \in Device, NEW c, Asks(s, d, c),
         used'["request"] = used["request"] + 1 \/ sd'[s, d].op = "finish_pending"
  PROVE  QInv'
BY AsksTurns, AsksBounds, AsksPend DEF QInv

LEMMA QuietQueues ==
  ASSUME QInv, SInv', Quiet, BoundsInv'
  PROVE  QInv'
BY QuietTurns, QuietPend DEF QInv, Quiet

LEMMA RequestSpends ==
  ASSUME SInv, BoundsInv, NEW s \in Session, NEW d \in Device, Operator(s, d) \/ ReconcileExpired(s, d)
  PROVE  /\ UsedGoesOn
         /\ used'["request"] = used["request"] + 1 \/ sd'[s, d].op = "finish_pending"
<1>1. CASE Spend("request")
  BY <1>1, SpendGoesOn DEF Budget
<1>2. CASE UNCHANGED used /\ Request(s, d, "END", sd[s, d])
  <2>1. sd' = [sd EXCEPT ![<<s, d>>] = [sd[s, d] EXCEPT !.op = OpOf("END"), !.rev = @ + 1]]
    BY <1>2 DEF Request
  <2>2. sd'[s, d].op = "finish_pending"
    BY <2>1, OpsOfTypes DEF SInv, RowsTyped, Row
  <2>. QED  BY <1>2, <2>2, UnusedGoesOn
<1>3. CASE UNCHANGED <<used, sd>> /\ sd[s, d].op = "finish_pending"
  BY <1>3, UnusedGoesOn
<1>4. Operator(s, d) => \/ Spend("request")
                        \/ UNCHANGED used /\ Request(s, d, "END", sd[s, d])
  BY DEF Operator, PauseSession, ResumeSession, ExtendSession, SwitchSessionApp, Finish
<1>5. ReconcileExpired(s, d) => \/ UNCHANGED used /\ Request(s, d, "END", sd[s, d])
                                \/ UNCHANGED <<used, sd>> /\ sd[s, d].op = "finish_pending"
  BY DEF ReconcileExpired
<1>. QED  BY <1>1, <1>2, <1>3, <1>4, <1>5

LEMMA ExpiryQueues ==
  ASSUME QInv, SInv', NEW s \in Session, NEW d \in Device, ReconcileExpired(s, d)
  PROVE  QInv'
<1>1. /\ UsedGoesOn
      /\ used'["request"] = used["request"] + 1 \/ sd'[s, d].op = "finish_pending"
  BY RequestSpends DEF QInv
<1>2. CASE \E c : Asks(s, d, c)
  BY <1>1, <1>2, AsksQueues
<1>3. CASE /\ sess'[s].status = "finishing" /\ sess[s].status \in {"running", "extended"}
           /\ OtherSessions(s) /\ UNCHANGED <<sd, dev, queue, agent, hb>>
  <2>1. SessionsGoOn
    BY <1>3 DEF SessionsGoOn, OtherSessions
  <2>2. QuietRows /\ QuietHeadsets
    BY <1>3 DEF QInv, TurnsInv, RowSound, QuietRows, QuietHeadsets, Holds, Heard, Playing
  <2>3. BoundsInv'
    BY <1>1, <1>3, <2>2, QuietBounds DEF QInv, BoundsInv, DevTyped
  <2>. QED  BY <1>3, <2>1, <2>2, <2>3, QuietQueues DEF Quiet
<1>. QED  BY <1>2, <1>3, ExpiryAsks DEF QInv

LEMMA NextQueues ==
  ASSUME QInv, [Next]_vars
  PROVE  QInv'
<1>1. SInv'
  BY NextHolds DEF QInv, StepHolds
<1>2. CASE UNCHANGED vars
  <2>1. Quiet /\ BoundsInv'
    BY <1>2 DEF vars, Quiet, QInv, SessionsGoOn, TurnsInv, RowSound, QuietRows, QuietHeadsets,
                Holds, Heard, Playing, BoundsInv, DevTyped, RevBounded
  <2>. QED  BY <1>1, <2>1, QuietQueues
<1>3. ASSUME NEW s \in Session, NEW D \in SUBSET Device, NEW a \in App, CreateSession(s, D, a)
      PROVE  QInv'
  BY <1>1, <1>3, CreateParts, CreateTurns, CreateBounds, CreatePend DEF QInv
<1>4. ASSUME NEW s \in Session, NEW d \in Device, Operator(s, d)
      PROVE  QInv'
  BY <1>1, <1>4, OperatorAsks, RequestSpends, AsksQueues DEF QInv
<1>5. ASSUME NEW s \in Session, NEW d \in Device, TimeUp(s, d)
      PROVE  QInv'
  BY <1>1, <1>5, TimeUpQuiet, QuietQueues DEF QInv
<1>6. ASSUME NEW s \in Session, NEW d \in Device, ReconcileExpired(s, d)
      PROVE  QInv'
  BY <1>1, <1>6, ExpiryQueues
<1>7. ASSUME NEW s \in Session, NEW d \in Device, CloudHeartbeat(s, d)
      PROVE  QInv'
  BY <1>1, <1>7, HeartbeatQuiet, QuietQueues DEF QInv
<1>8. ASSUME NEW d \in Device, CommandSucceeds(d) \/ CommandFails(d) \/ GhostDone(d)
      PROVE  QInv'
  <2>1. UNCHANGED used
    BY <1>8 DEF CommandSucceeds, CommandFails, GhostDone
  <2>2. 1 \in DOMAIN queue[d] /\ Ends(d, 1)
    BY <1>8, HubEnds DEF QInv
  <2>. QED  BY <1>1, <2>1, <2>2, UnusedGoesOn, EndsQueues DEF QInv
<1>9. ASSUME NEW d \in Device,
             Claim(d) \/ AnnounceLost(d) \/ OutcomeUnknown(d) \/ Announce(d) \/ RunCommand(d)
      PROVE  QInv'
  <2>1. UNCHANGED used \/ Spend("lost") \/ Spend("unknown")
    BY <1>9 DEF Claim, AnnounceLost, OutcomeUnknown, Announce, RunCommand
  <2>2. UsedGoesOn
    BY <2>1, SpendGoesOn, UnusedGoesOn DEF QInv, Budget
  <2>3. 1 \in DOMAIN queue[d] /\ \E c : Advances(d, c) /\ Progress(d, c)
    BY <1>9, HubAdvances DEF QInv, BoundsInv
  <2>. QED  BY <1>1, <2>2, <2>3, AdvancesQueues
<1>10. ASSUME NEW d \in Device, AgentHeartbeat(d) \/ AgentTimeUp(d) \/ Telemetry(d)
       PROVE  QInv'
  BY <1>1, <1>10, HeadsetQuiet, QuietQueues DEF QInv
<1>11. ASSUME NEW d \in Device, NEW i \in 1..Len(queue[d]), CancelDeviceCommand(d, i)
       PROVE  QInv'
  <2>1. i \in DOMAIN queue[d] /\ Spend("cancel")
    BY <1>11 DEF CancelDeviceCommand
  <2>2. UsedGoesOn
    BY <2>1, SpendGoesOn DEF QInv, Budget
  <2>. QED  BY <1>1, <1>11, <2>1, <2>2, CancelEnds, EndsQueues DEF QInv
<1>12. CASE Next
  BY <1>12, <1>3, <1>4, <1>5, <1>6, <1>7, <1>8, <1>9, <1>10, <1>11 DEF Next, HubStep
<1>. QED  BY <1>2, <1>12

\* What the rows, the queues, the agents and the heartbeats say of each other
\* holds in every reachable state: TypeOK, PendingHasCommand and
\* HeadsetServesItsSession rest on it.
THEOREM QueuesHold == Spec => []QInv
<1>1. Init => QInv
  BY InitQueues
<1>2. QInv /\ [Next]_vars => QInv'
  BY NextQueues
<1>. QED  BY <1>1, <1>2, PTL DEF Spec

LEMMA CommandsTyped ==
  ASSUME QInv, NEW d \in Device
  PROVE  queue[d] \in Seq(Command)
<1>1. queue[d] \in Seq(Sent) /\ DOMAIN queue[d] = 1..Len(queue[d]) /\ Len(queue[d]) \in Nat
      /\ \A i \in DOMAIN queue[d] : queue[d][i] \in Sent /\ queue[d][i].rev \in Revision
  BY QueueFacts DEF QInv, BoundsInv
<1>2. \A i \in 1..Len(queue[d]) : queue[d][i] \in Command
  BY <1>1 DEF Sent, Command
<1>3. queue[d] = [i \in 1..Len(queue[d]) |-> queue[d][i]]
  BY <1>1
<1>. QED  BY <1>1, <1>2, <1>3, SeqDef

\* Every variable keeps its type, the revisions their bound: a row is asked for
\* something at most MaxRequests times, and for its end at most once
\* (finishActiveSessionForDevice leaves a row alone that is finishing).
THEOREM SessionTypes == Spec => []TypeOK
<1>1. ASSUME QInv
      PROVE  TypeOK
  <2>1. sess \in [Session -> SessionRow] /\ sd \in [Session \X Device -> Row]
    BY <1>1 DEF QInv, SInv, SessTyped, RowsTyped
  <2>2. ASSUME NEW p \in Session \X Device
        PROVE  sd[p] \in DeviceRow
    <3>1. PICK s \in Session, d \in Device : p = <<s, d>>
      OBVIOUS
    <3>2. sd[p] \in Row /\ sd[p].rev \in Nat /\ RevBounded(sd[p])
      BY <1>1, <2>1, <3>1 DEF QInv, BoundsInv, Row
    <3>3. sd[p].rev \in Revision
      <4>1. used["request"] \in Nat /\ used["request"] <= MaxRequests /\ MaxRequests \in Nat
        BY <1>1, SessionBoundAssumption DEF QInv, BoundsInv, Budget
      <4>. QED  BY <3>2, <4>1 DEF RevBounded, Revision
    <3>. QED  BY <3>2, <3>3 DEF Row, DeviceRow
  <2>3. sd \in [Session \X Device -> DeviceRow]
    BY <2>1, <2>2
  <2>4. \A d \in Device : queue[d] \in Seq(Command)
    BY <1>1, CommandsTyped
  <2>. QED  BY <1>1, <2>1, <2>3, <2>4 DEF TypeOK, QInv, BoundsInv, DevTyped
<1>. QED  BY <1>1, QueuesHold, PTL

\* No order of results, cancellations and heartbeats leaves a row with an
\* operation_state that is pending and no command that will settle it.
THEOREM PendingHolds == Spec => []PendingHasCommand
<1>1. QInv => PendingHasCommand
  BY PendHolds DEF QInv
<1>. QED  BY <1>1, QueuesHold, PTL

\* A headset whose row is on plays that session or none, whatever a failed or
\* cancelled session before it left behind.
THEOREM HeadsetServes == Spec => []HeadsetServesItsSession
<1>1. ASSUME QInv
      PROVE  HeadsetServesItsSession
  <2>1. SUFFICES ASSUME NEW s \in Session, NEW d \in Device, sd[s, d].status \in {"running", "paused"}
                 PROVE  agent[d].sess \in {s, None}
    BY DEF HeadsetServesItsSession
  <2>2. Holds(s, d) /\ Heard(s, d)
    BY <2>1 DEF Holds, Heard, Playing, ActiveRow
  <2>. QED  BY <1>1, <2>2 DEF QInv, TurnsInv, RowSound, Alone
<1>. QED  BY <1>1, QueuesHold, PTL

-----------------------------------------------------------------------------
(* Sessions of one headset: results.                                       *)

LEMMA RowStatuses ==
  /\ RowStatus["preparing"] = {"preparing", "running"} /\ RowStatus["starting"] = {"preparing"}
  /\ RowStatus["running"] = {"running"} /\ RowStatus["paused"] = {"paused"}
  /\ RowStatus["extended"] = {"running", "paused"} /\ RowStatus["finishing"] = ActiveRow
  /\ RowStatus["completed"] = {"finished"} /\ RowStatus["failed"] = {"failed"}
  /\ RowStatus["none"] = {"none"}
BY DEF RowStatus

LEMMA TransitionsTo ==
  ASSUME NEW now \in Statuses
  PROVE  /\ "running" \in Transitions[now] <=> now \in {"starting", "paused", "extended"}
         /\ "paused" \in Transitions[now] <=> now \in {"running", "extended"}
         /\ "starting" \in Transitions[now] <=> now = "preparing"
         /\ "failed" \in Transitions[now] <=> now \in ActiveSession
         /\ "completed" \in Transitions[now] <=> now = "finishing"
BY DEF Transitions, Statuses, ActiveSession, TerminalSession

\* The aggregate of a session of one headset.
AggregateOf(x, now) ==
  CASE x = "running" -> IF now \in {"starting", "paused", "extended"} THEN x ELSE now
    [] x = "paused" -> IF now \in {"running", "extended"} THEN x ELSE now
    [] x = "failed" -> IF now \in ActiveSession \ {"finishing"} THEN x ELSE now
    [] x = "preparing" -> IF now = "preparing" THEN "starting" ELSE now
    [] OTHER -> now

LEMMA AggregateOne ==
  ASSUME SessTyped, NEW d, Device = {d}, NEW s \in Session, NEW rows,
         NEW x \in {"finished", "failed", "preparing", "running", "paused"}, rows[s, d].status = x
  PROVE  Aggregate(s, rows) = AggregateOf(x, sess[s].status)
<1> DEFINE now == sess[s].status
<1>1. now \in Statuses
  BY DEF SessTyped, SessionRow, Statuses
<1>2. {rows[s, e].status : e \in {f \in Device : rows[s, f].status # "none"}} = {x}
  OBVIOUS
<1>3. CASE x = "finished"
  <2>1. Aggregate(s, rows) = IF now # "finishing" /\ "completed" \in Transitions[now]
                             THEN "completed" ELSE now
    BY <1>2, <1>3 DEF Aggregate
  <2>. QED  BY <1>1, <1>3, <2>1, TransitionsTo DEF AggregateOf
<1>4. CASE x = "failed"
  <2>1. Aggregate(s, rows) = IF now # "finishing" /\ "failed" \in Transitions[now]
                             THEN "failed" ELSE now
    BY <1>2, <1>4 DEF Aggregate
  <2>. QED  BY <1>1, <1>4, <2>1, TransitionsTo DEF AggregateOf
<1>5. CASE x = "running"
  <2>1. Aggregate(s, rows) = IF now # "finishing" /\ "running" \in Transitions[now]
                             THEN "running" ELSE now
    BY <1>2, <1>5 DEF Aggregate
  <2>. QED  BY <1>1, <1>5, <2>1, TransitionsTo DEF AggregateOf
<1>6. CASE x = "paused"
  <2>1. Aggregate(s, rows) = IF now # "finishing" /\ "paused" \in Transitions[now]
                             THEN "paused" ELSE now
    BY <1>2, <1>6 DEF Aggregate
  <2>. QED  BY <1>1, <1>6, <2>1, TransitionsTo DEF AggregateOf
<1>7. CASE x = "preparing"
  <2>1. Aggregate(s, rows) = IF now # "finishing" /\ "starting" \in Transitions[now]
                             THEN "starting" ELSE now
    BY <1>2, <1>7 DEF Aggregate
  <2>. QED  BY <1>1, <1>7, <2>1, TransitionsTo DEF AggregateOf
<1>. QED  BY <1>3, <1>4, <1>5, <1>6, <1>7

LEMMA MoveStatus ==
  ASSUME SessTyped, NEW s \in Session, NEW next, Move(s, next)
  PROVE  sess'[s].status = next
BY DEF SessTyped, SessionRow, Move

\* Command c of headset d, not cancelled, and the row it is about.
Before(d, c) ==
  /\ c \in Sent /\ c.st # "ghost" /\ sess[c.sess].status # "completed"
  /\ StatusFits(c.sess, d) /\ StartFits(d, c) /\ RowSound(c.sess, d) /\ CommandSound(d, c)
\* ... and after its result.
ResultFits(d, c) ==
  LET r == sd[c.sess, d]  n == sd'[c.sess, d]
      now == sess[c.sess].status  next == sess'[c.sess].status IN
  /\ n.status \in RowStatus[next]
  /\ n.status \in ActiveRow => (next = "finishing" <=> n.op = "finish_pending")
  /\ next = "preparing" => /\ now = "preparing"
                           /\ n.status = r.status \/ (c.type = "START" /\ c.st = "silent")
  /\ next = "extended" => now = "extended" /\ n.status = r.status
  /\ next = "completed" => c.type = "END" /\ c.done

LEMMA BeforeFacts ==
  ASSUME SInv, NEW d \in Device, NEW c, Before(d, c)
  PROVE  /\ c.sess \in Session /\ sd[c.sess, d] \in Row /\ sess[c.sess].status \in Statuses
         /\ sess[c.sess].status \notin {"none", "completed"}
         /\ sd[c.sess, d].status \in RowStatus[sess[c.sess].status]
         /\ sd[c.sess, d].status \in ActiveRow =>
              /\ sess[c.sess].status \in ActiveSession
              /\ sess[c.sess].status = "finishing" <=> sd[c.sess, d].op = "finish_pending"
         /\ sd[c.sess, d].op = OpOf(c.type) =>
              /\ sd[c.sess, d].status \in ActiveRow
              /\ c.type = "END" <=> sd[c.sess, d].op = "finish_pending"
         /\ c.type = "END" => sd[c.sess, d].op = "finish_pending"
<1> DEFINE r == sd[c.sess, d]
           now == sess[c.sess].status
<1>1. c.sess \in Session /\ c.type \in CommandType /\ r \in Row /\ now \in Statuses
  BY DEF Before, Sent, SInv, RowsTyped, SessTyped, SessionRow, Statuses
<1>2. /\ now \notin {"none", "completed"} /\ r.status \in RowStatus[now]
      /\ r.status \in ActiveRow => (now = "finishing" <=> r.op = "finish_pending")
      /\ c.type = "END" => r.op = "finish_pending" /\ r.status \in ActiveRow
      /\ r.op \in Asked => r.status \in ActiveRow
  BY <1>1 DEF Before, StatusFits, CommandSound, Holds, RowSound, Playing, ActiveRow
<1>3. r.status \in ActiveRow => now \in ActiveSession
  BY <1>1, <1>2, RowStatuses DEF Statuses, ActiveSession, TerminalSession, ActiveRow
<1>4. r.op = OpOf(c.type) => r.status \in ActiveRow /\ (c.type = "END" <=> r.op = "finish_pending")
  <2>1. CASE c.type = "START"
    <3>1. r.op = "start_pending" => r.status \in ActiveRow
      BY <1>1 DEF SInv, OpHolds, Holds, PendingOp
    <3>. QED  BY <2>1, <3>1, OpsOfTypes
  <2>2. CASE c.type = "END"
    BY <1>2, <2>2
  <2>3. CASE c.type \notin {"START", "END"}
    BY <1>1, <1>2, <2>3, OpsOfTypes DEF Asked
  <2>. QED  BY <2>1, <2>2, <2>3
<1>. QED  BY <1>1, <1>2, <1>3, <1>4

LEMMA NothingFits ==
  ASSUME SInv, NEW d \in Device, NEW c, Before(d, c),
         sd'[c.sess, d] = sd[c.sess, d], sess'[c.sess] = sess[c.sess]
  PROVE  ResultFits(d, c)
BY BeforeFacts DEF ResultFits

\* The row is what it waited to be, and the session goes with it.
LEMMA RowFits ==
  ASSUME SInv, NEW d \in Device, NEW c, Before(d, c), sd[c.sess, d].op = OpOf(c.type),
         c.type # "END", sd'[c.sess, d].op \in {"idle", "reconciliation_required"},
         \/ sd'[c.sess, d].status = sd[c.sess, d].status /\ UNCHANGED sess
         \/ sess'[c.sess].status = sd'[c.sess, d].status
            /\ sd'[c.sess, d].status \in {"running", "paused", "failed"}
  PROVE  ResultFits(d, c)
<1> DEFINE n == sd'[c.sess, d]
           now == sess[c.sess].status
           next == sess'[c.sess].status
<1>1. now # "finishing" /\ now # "completed" /\ sd[c.sess, d].status \in RowStatus[now]
  BY BeforeFacts
<1>2. CASE n.status = sd[c.sess, d].status /\ UNCHANGED sess
  BY <1>1, <1>2 DEF ResultFits
<1>3. CASE next = n.status /\ n.status \in {"running", "paused", "failed"}
  <2>1. next \notin {"finishing", "preparing", "extended", "completed"} /\ n.status \in RowStatus[next]
    BY <1>3, RowStatuses
  <2>. QED  BY <2>1 DEF ResultFits
<1>. QED  BY <1>2, <1>3

LEMMA SucceededFits ==
  ASSUME SInv, NEW d, Device = {d}, NEW c, Before(d, c), c.st \in {"running", "silent"}, c.done,
         Succeeded(d, c)
  PROVE  ResultFits(d, c)
<1> DEFINE s == c.sess
           r == sd[s, d]
           n == sd'[s, d]
           now == sess[s].status
<1>1. /\ s \in Session /\ r \in Row /\ now \in Statuses /\ now \notin {"none", "completed"}
      /\ r.status \in RowStatus[now] /\ d \in Device
      /\ r.status \in ActiveRow => now \in ActiveSession /\ (now = "finishing" <=> r.op = "finish_pending")
      /\ r.op = OpOf(c.type) => r.status \in ActiveRow /\ (c.type = "END" <=> r.op = "finish_pending")
      /\ c.type = "END" => r.op = "finish_pending"
  BY BeforeFacts
<1>2. CASE c.type = "START" /\ StartSucceeded(d, c)
  <2>1. CASE r.op # "start_pending"
    BY <1>1, <1>2, <2>1, NothingFits DEF StartSucceeded
  <2>2. CASE r.op = "start_pending"
    <3>1. n.status = "running" /\ n.op = "idle"
      <4> DEFINE m == [r EXCEPT !.status = "running", !.op = "idle", !.app = c.app]
      <4>1. sd' = [sd EXCEPT ![<<s, d>>] = m]
        BY <1>1, <1>2, <2>2 DEF StartSucceeded, SInv, RowsTyped
      <4>2. m.status = "running" /\ m.op = "idle"
        BY <1>1 DEF Row
      <4> HIDE DEF m
      <4>. QED  BY <1>1, <4>1, <4>2, OneRow
    <3>2. sess'[s].status = AggregateOf("running", now)
      <4>1. Aggregate(s, sd') = AggregateOf("running", now)
        BY <1>1, <3>1, AggregateOne DEF SInv
      <4>2. Move(s, Aggregate(s, sd'))
        BY <1>2, <2>2 DEF StartSucceeded
      <4>. QED  BY <1>1, <4>1, <4>2, MoveStatus DEF SInv
    <3>3. r.op = OpOf(c.type) /\ now \in ActiveSession \ {"finishing"}
      BY <1>1, <1>2, <2>2, OpsOfTypes
    <3>4. CASE now = "preparing"
      <4>1. sess'[s].status = "preparing"
        BY <3>2, <3>4 DEF AggregateOf
      <4>2. c.st = "silent"
        BY <1>2, <3>4 DEF Before, StartFits
      <4>. QED  BY <1>2, <3>1, <3>4, <4>1, <4>2, RowStatuses DEF ResultFits
    <3>5. CASE now # "preparing"
      <4>1. sess'[s].status = "running"
        BY <3>2, <3>3, <3>5 DEF AggregateOf, ActiveSession
      <4>. QED  BY <1>1, <1>2, <3>1, <3>3, <4>1, RowFits
    <3>. QED  BY <3>4, <3>5
  <2>. QED  BY <2>1, <2>2
<1>3. CASE c.type \in {"PAUSE", "RESUME", "EXTEND", "SWITCH"} /\ Confirmed(d, c)
  <2>1. CASE r.op # OpOf(c.type)
    BY <1>1, <1>3, <2>1, NothingFits DEF Confirmed
  <2>2. CASE r.op = OpOf(c.type)
    <3>1. n.status = r.status /\ n.op = "idle" /\ UNCHANGED sess
      BY <1>1, <1>3, <2>2 DEF Confirmed, SInv, RowsTyped, Row
    <3>. QED  BY <1>1, <1>3, <2>2, <3>1, RowFits
  <2>. QED  BY <2>1, <2>2
<1>4. CASE c.type = "END" /\ EndSucceeded(d, c)
  <2>1. r.op = "finish_pending" /\ now = "finishing"
    BY <1>1, <1>4, OpsOfTypes
  <2>2. n.status = "finished"
    BY <1>1, <1>4, <2>1 DEF EndSucceeded, SInv, RowsTyped, Row
  <2>3. sess'[s].status = "completed"
    <3>1. \A e \in Device : sd'[s, e].status \notin ActiveRow
      BY <2>2 DEF ActiveRow
    <3>2. Move(s, "completed")
      BY <1>4, <2>1, <3>1 DEF EndSucceeded
    <3>. QED  BY <1>1, <3>2, MoveStatus DEF SInv
  <2>. QED  BY <1>4, <2>2, <2>3, RowStatuses DEF ResultFits, ActiveRow
<1>. QED  BY <1>2, <1>3, <1>4 DEF Succeeded

LEMMA FailedFits ==
  ASSUME SInv, NEW d, Device = {d}, NEW c, Before(d, c), Failed(d, c)
  PROVE  ResultFits(d, c)
<1> DEFINE s == c.sess
           r == sd[s, d]
           n == sd'[s, d]
           now == sess[s].status
<1>1. /\ s \in Session /\ r \in Row /\ now \in Statuses /\ now \notin {"none", "completed"}
      /\ r.status \in RowStatus[now] /\ d \in Device
      /\ r.status \in ActiveRow => now \in ActiveSession /\ (now = "finishing" <=> r.op = "finish_pending")
      /\ r.op = OpOf(c.type) => r.status \in ActiveRow /\ (c.type = "END" <=> r.op = "finish_pending")
      /\ c.type = "END" => r.op = "finish_pending"
  BY BeforeFacts
<1>2. CASE c.type = "START" /\ StartFailed(d, c)
  <2>1. sess'[s].status = Aggregate(s, sd') /\ sess'[s].status \in {Aggregate(s, sd')}
    BY <1>1, <1>2 DEF StartFailed, Move, SInv, SessTyped, SessionRow
  <2>2. CASE r.op = "start_pending"
    <3>1. n.status = "failed" /\ n.op = "idle"
      BY <1>1, <1>2, <2>2 DEF StartFailed, SInv, RowsTyped, Row
    <3>2. Aggregate(s, sd') = AggregateOf("failed", now)
      BY <1>1, <3>1, AggregateOne DEF SInv
    <3>3. r.op = OpOf(c.type) /\ now \in ActiveSession \ {"finishing"}
      BY <1>1, <1>2, <2>2, OpsOfTypes
    <3>4. sess'[s].status = "failed"
      BY <2>1, <3>2, <3>3 DEF AggregateOf
    <3>. QED  BY <1>1, <1>2, <3>1, <3>3, <3>4, RowFits
  <2>3. CASE r.op # "start_pending"
    <3>1. n = r
      BY <1>2, <2>3 DEF StartFailed
    <3>2. r.status \in {"finished", "failed", "preparing", "running", "paused"}
      BY <1>1, RowStatuses DEF Statuses, ActiveSession, TerminalSession, ActiveRow
    <3>3. sess'[s].status = AggregateOf(r.status, now)
      BY <1>1, <2>1, <3>1, <3>2, AggregateOne DEF SInv
    <3>4. now = "preparing" => r.status = "preparing"
      BY <1>2 DEF Before, StartFits
    <3> HIDE DEF r, n, now
    <3>5. \/ sess'[s].status = now /\ now # "extended" /\ now # "preparing"
          \/ r.status \in {"running", "paused"} /\ sess'[s].status = r.status /\ now # "finishing"
          \/ r.status = "preparing" /\ now = "preparing" /\ sess'[s].status = "starting"
      BY <1>1, <3>2, <3>3, <3>4, RowStatuses
         DEF AggregateOf, Statuses, ActiveSession, TerminalSession, ActiveRow
    <3>6. CASE sess'[s].status = now /\ now # "extended" /\ now # "preparing"
      BY <1>1, <3>1, <3>6 DEF ResultFits, r, n, now
    <3>7. CASE r.status \in {"running", "paused"} /\ sess'[s].status = r.status /\ now # "finishing"
      <4>1. r.status \in RowStatus[r.status] /\ r.status \in ActiveRow
        BY <3>7, RowStatuses DEF ActiveRow
      <4>2. r.op # "finish_pending"
        BY <1>1, <3>7, <4>1 DEF r, now
      <4>. QED  BY <3>1, <3>7, <4>1, <4>2 DEF ResultFits, r, n, now
    <3>8. CASE r.status = "preparing" /\ now = "preparing" /\ sess'[s].status = "starting"
      BY <1>1, <3>1, <3>8, RowStatuses DEF ResultFits, ActiveRow, r, n, now
    <3>. QED  BY <3>5, <3>6, <3>7, <3>8
  <2>. QED  BY <2>2, <2>3
<1>3. CASE c.type \in {"PAUSE", "RESUME", "SWITCH"} /\ Restore(d, c)
  <2>1. CASE r.op # OpOf(c.type)
    BY <1>1, <1>3, <2>1, NothingFits DEF Restore
  <2>2. CASE r.op = OpOf(c.type)
    <3> DEFINE back == IF c.prevPaused THEN "paused" ELSE "running"
    <3>1. n.status = back /\ n.op = "idle"
      <4> DEFINE m == [r EXCEPT !.status = back, !.op = "idle", !.app = c.prevApp]
      <4>1. sd' = [sd EXCEPT ![<<s, d>>] = m]
        BY <1>1, <1>3, <2>2 DEF Restore, SInv, RowsTyped
      <4>2. m.status = back /\ m.op = "idle"
        BY <1>1 DEF Row
      <4> HIDE DEF m
      <4>. QED  BY <1>1, <4>1, <4>2, OneRow
    <3>2. now \notin TerminalSession \cup {"finishing"}
      BY <1>1, <1>3, <2>2 DEF ActiveSession, TerminalSession
    <3>3. sess'[s].status = back
      <4>1. Move(s, back)
        BY <1>3, <2>2, <3>2 DEF Restore
      <4> HIDE DEF back
      <4>. QED  BY <1>1, <4>1, MoveStatus DEF SInv
    <3>4. back \in {"running", "paused", "failed"}
      OBVIOUS
    <3> HIDE DEF back
    <3>. QED  BY <1>1, <1>3, <2>2, <3>1, <3>3, <3>4, RowFits
  <2>. QED  BY <2>1, <2>2
<1>4. CASE c.type = "EXTEND" /\ ExtendFailed(d, c)
  <2>1. CASE r.op # "extend_pending"
    BY <1>1, <1>4, <2>1, NothingFits DEF ExtendFailed
  <2>2. CASE r.op = "extend_pending"
    <3>1. n.status = r.status /\ n.op = "reconciliation_required" /\ UNCHANGED sess
      BY <1>1, <1>4, <2>2 DEF ExtendFailed, SInv, RowsTyped, Row
    <3>2. OpOf(c.type) = "extend_pending"
      BY <1>4 DEF OpOf
    <3>. QED  BY <1>1, <1>4, <2>2, <3>1, <3>2, RowFits
  <2>. QED  BY <2>1, <2>2
<1>5. CASE c.type = "END" /\ EndFailed(d, c)
  <2>1. r.op = "finish_pending" /\ now = "finishing"
    BY <1>1, <1>5, OpsOfTypes
  <2>2. n.status = "failed"
    BY <1>1, <1>5, <2>1 DEF EndFailed, SInv, RowsTyped, Row
  <2>3. sess'[s].status = "failed"
    BY <1>1, <1>5, <2>1 DEF EndFailed, Move, SInv, SessTyped, SessionRow
  <2>. QED  BY <2>2, <2>3, RowStatuses DEF ResultFits, ActiveRow
<1>. QED  BY <1>2, <1>3, <1>4, <1>5 DEF Failed

-----------------------------------------------------------------------------
(* Sessions of one headset: steps.                                         *)

PauseKept == \A s \in Session, d \in Device :
  PauseConfirmed(s, d) /\ sd'[s, d].status # "paused" => sd'[s, d].op = "resume_pending"
StatusKept == StatusInv' /\ PauseKept

LEMMA Apart ==
  ASSUME SInv, NEW d \in Device, InTurn(queue[d]), NEW i \in DOMAIN queue[d], NEW k \in DOMAIN queue[d],
         i # k, queue[d][i].sess = queue[d][k].sess
  PROVE  queue[d][i].type # "START" \/ queue[d][k].type # "START"
<1>1. i < k \/ k < i
  BY QueueFacts
<1>. QED  BY <1>1 DEF InTurn

\* What holds of a session whose row a step leaves alone.
LEMMA SameStatus ==
  ASSUME UsedGoesOn, NEW s \in Session, NEW d \in Device, StatusFits(s, d),
         sess'[s] = sess[s], sd'[s, d].status = sd[s, d].status, sd'[s, d].op = sd[s, d].op
  PROVE  StatusFits(s, d)'
BY DEF StatusFits, UsedGoesOn, Holds

LEMMA EndsStatus ==
  ASSUME QInv, StatusInv, UsedGoesOn, NEW d, Device = {d}, NEW i \in DOMAIN queue[d], Ends(d, i),
         queue[d][i].st # "ghost" =>
           /\ ResultFits(d, queue[d][i])
           /\ sess'[queue[d][i].sess].status = "completed" =>
                \A j \in DOMAIN queue'[d] : queue'[d][j].sess # queue[d][i].sess
  PROVE  StatusKept
<1> DEFINE Q == queue[d]
           c == Q[i]
           s == c.sess
<1>1. d \in Device /\ Q \in Seq(Sent) /\ c \in Sent /\ s \in Session /\ InTurn(Q) /\ CommandSound(d, c)
  BY QueueFacts DEF QInv, TurnsInv
<1>2. UNCHANGED <<agent, hb>> /\ Passes(queue'[d], Q, i)
  BY DEF Ends
<1>3. ASSUME NEW j \in DOMAIN queue'[d]
      PROVE  \E k \in DOMAIN Q :
               /\ queue'[d][j].sess = Q[k].sess /\ queue'[d][j].rev = Q[k].rev
               /\ queue'[d][j].paused = Q[k].paused
               /\ queue'[d][j].st = "ghost" \/ (k # i /\ queue'[d][j] = Q[k])
  BY <1>1, <1>2, <1>3, PassesFrom
<1>4. ASSUME NEW t \in Session
      PROVE  /\ sd'[t, d].rev = sd[t, d].rev
             /\ \/ sess'[t] = sess[t] /\ sd'[t, d] = sd[t, d]
                \/ t = s /\ c.st # "ghost" /\ ResultFits(d, c)
  BY <1>1 DEF Ends, ResultRow, Outcome
<1>5. /\ \A t \in Session : StatusFits(t, d) /\ OverOnHeadset(t, d)
      /\ \A t \in Session : PauseKnown(t, d, agent[d]) /\ PauseKnown(t, d, hb[d])
      /\ \A t \in Session : \A k \in DOMAIN Q : PauseKnown(t, d, Q[k])
      /\ \A k \in DOMAIN Q : StartFits(d, Q[k])
  BY <1>1 DEF StatusInv
<1>6. ASSUME NEW t \in Session
      PROVE  StatusFits(t, d)'
  <2>1. CASE sess'[t] = sess[t] /\ sd'[t, d] = sd[t, d]
    BY <1>1, <1>5, <2>1, SameStatus
  <2>2. CASE t = s /\ c.st # "ghost" /\ ResultFits(d, c)
    <3>1. used'["lost"] = 0 => used["lost"] = 0 /\ c.st # "silent"
      BY <1>5 DEF UsedGoesOn, StartFits
    <3>. QED  BY <1>5, <2>2, <3>1 DEF StatusFits, ResultFits, Holds
  <2>. QED  BY <1>4, <2>1, <2>2
<1>7. ASSUME NEW t \in Session
      PROVE  OverOnHeadset(t, d)'
  <2>1. CASE sess'[t] = sess[t] /\ sd'[t, d] = sd[t, d]
    BY <1>2, <1>3, <1>5, <2>1 DEF OverOnHeadset
  <2>2. CASE t = s /\ c.st # "ghost" /\ ResultFits(d, c)
    <3>1. sess'[s].status = "completed" => agent[d].sess = None
      BY <1>1, <2>2 DEF ResultFits, CommandSound
    <3>. QED  BY <1>1, <1>2, <2>2, <3>1, SessionAssumption DEF OverOnHeadset
  <2>. QED  BY <1>4, <2>1, <2>2
<1>8. ASSUME NEW t \in Session
      PROVE  sess'[t].status = "extended" /\ sd'[t, d].status = "paused" =>
               sess[t].status = "extended" /\ sd[t, d].status = "paused"
  BY <1>4 DEF ResultFits
<1>9. ASSUME NEW t \in Session
      PROVE  /\ PauseKnown(t, d, agent[d])' /\ PauseKnown(t, d, hb[d])'
             /\ \A j \in DOMAIN queue'[d] : PauseKnown(t, d, queue[d][j])'
  <2>1. ASSUME NEW x, PauseKnown(t, d, x)
        PROVE  x.sess = t => /\ x.rev <= sd'[t, d].rev
                             /\ sess'[t].status = "extended" /\ sd'[t, d].status = "paused"
                                /\ x.rev = sd'[t, d].rev => x.paused
    BY <1>4, <1>8, <2>1 DEF PauseKnown
  <2>2. PauseKnown(t, d, agent[d])' /\ PauseKnown(t, d, hb[d])'
    <3>1. PauseKnown(t, d, agent[d]) /\ PauseKnown(t, d, hb[d])
      BY <1>5
    <3>. QED  BY <1>2, <2>1, <3>1 DEF PauseKnown
  <2>3. ASSUME NEW j \in DOMAIN queue'[d]
        PROVE  PauseKnown(t, d, queue[d][j])'
    <3>1. PICK k \in DOMAIN Q : /\ queue'[d][j].sess = Q[k].sess /\ queue'[d][j].rev = Q[k].rev
                                /\ queue'[d][j].paused = Q[k].paused
      BY <1>3
    <3>2. PauseKnown(t, d, Q[k])
      BY <1>5
    <3>. QED  BY <2>1, <3>1, <3>2 DEF PauseKnown
  <2>. QED  BY <2>2, <2>3
<1>10. ASSUME NEW j \in DOMAIN queue'[d]
       PROVE  StartFits(d, queue[d][j])'
  <2> DEFINE x == queue'[d][j]
  <2>1. CASE x.st = "ghost"
    BY <2>1 DEF StartFits
  <2>2. ASSUME NEW k \in DOMAIN Q, k # i, x = Q[k]
        PROVE  StartFits(d, queue[d][j])'
    <3>1. StartFits(d, Q[k]) /\ Q[k].sess \in Session
      BY <1>1, <1>5, QueueFacts DEF QInv
    <3>2. used'["lost"] = 0 => x.st # "silent"
      BY <2>2, <3>1 DEF UsedGoesOn, StartFits
    <3>3. CASE sess'[x.sess] = sess[x.sess] /\ sd'[x.sess, d] = sd[x.sess, d]
      BY <2>2, <3>1, <3>2, <3>3 DEF StartFits
    <3>4. CASE x.sess = s /\ c.st # "ghost" /\ ResultFits(d, c)
      <4>1. x.type = "START" => c.type # "START"
        BY <1>1, <2>2, <3>4, Apart DEF QInv
      <4>. QED  BY <2>2, <3>1, <3>2, <3>4, <4>1 DEF StartFits, ResultFits
    <3>. QED  BY <1>4, <2>2, <3>1, <3>3, <3>4
  <2>. QED  BY <1>3, <2>1, <2>2
<1>11. PauseKept
  <2>1. queue[d] # <<>>
    BY <1>1, EmptySeq, LenProperties
  <2>. QED  BY <2>1 DEF PauseKept, PauseConfirmed
<1>. QED  BY <1>6, <1>7, <1>9, <1>10, <1>11 DEF StatusKept, StatusInv

LEMMA AdvancesStatus ==
  ASSUME QInv, StatusInv, UsedGoesOn, NEW d, Device = {d}, 1 \in DOMAIN queue[d],
         NEW c, Advances(d, c), Progress(d, c)
  PROVE  StatusKept
<1> DEFINE Q == queue[d]
           b == Q[1]
<1>1. /\ d \in Device /\ Q \in Seq(Sent) /\ b \in Sent /\ b.sess \in Session
      /\ agent[d] \in AgentState /\ b.st \in CommandState
  BY QueueFacts DEF QInv, BoundsInv, Sent
<1>2. /\ Oldest(queue'[d], Q, c) /\ UNCHANGED <<sd, hb>>
      /\ c.type = b.type /\ c.sess = b.sess /\ c.rev = b.rev /\ c.paused = b.paused
      /\ c.st # "ghost" => b.st # "ghost"
  BY DEF Advances
<1>3. /\ \A t \in Session : StatusFits(t, d) /\ OverOnHeadset(t, d)
      /\ \A t \in Session : PauseKnown(t, d, agent[d]) /\ PauseKnown(t, d, hb[d])
      /\ \A t \in Session : \A k \in DOMAIN Q : PauseKnown(t, d, Q[k])
      /\ \A k \in DOMAIN Q : StartFits(d, Q[k])
  BY <1>1 DEF StatusInv
<1>4. StartFits(d, b)
  BY <1>3
<1>5. /\ \A t \in Session : \/ sess'[t].status = sess[t].status
                            \/ /\ sess[t].status = "preparing" /\ sess'[t].status = "starting"
                               /\ sd[t, d].status = "preparing"
      /\ b.type = "START" /\ c.st = "running" => sess'[b.sess].status # "preparing"
  <2>1. CASE UNCHANGED sess /\ (c.st \in {"accepted", "unknown", "silent"} \/ c.st = b.st)
    <3>1. b.type = "START" /\ c.st = "running" => sess[b.sess].status # "preparing"
      BY <1>4, <2>1 DEF StartFits
    <3>. QED  BY <2>1, <3>1
  <2>2. CASE c.st = "running" /\ IF b.type = "START" /\ sess[b.sess].status = "preparing"
                                 THEN Move(b.sess, "starting") ELSE UNCHANGED sess
    <3>1. CASE b.type = "START" /\ sess[b.sess].status = "preparing"
      <4>1. Move(b.sess, "starting") /\ sd[b.sess, d].status = "preparing"
        BY <1>2, <1>4, <2>2, <3>1 DEF StartFits
      <4>2. sess'[b.sess].status = "starting" /\ \A t \in Session : t # b.sess => sess'[t] = sess[t]
        BY <1>1, <4>1, MoveTyped DEF QInv, SInv, Statuses, ActiveSession
      <4>. QED  BY <3>1, <4>1, <4>2
    <3>2. CASE ~(b.type = "START" /\ sess[b.sess].status = "preparing")
      BY <2>2, <3>2
    <3>. QED  BY <3>1, <3>2
  <2>. QED  BY <2>1, <2>2, Zenon DEF Progress
<1>6. agent'[d] = agent[d] \/ agent'[d] = AfterIntent(b, agent[d])
  <2>1. CASE UNCHANGED agent
    BY <2>1
  <2>2. CASE agent' = [agent EXCEPT ![d] = AfterIntent(b, agent[d])]
    BY <1>1, <2>2 DEF QInv, BoundsInv
  <2>. QED  BY <2>1, <2>2, Zenon DEF Progress
<1>7. ASSUME NEW t \in Session
      PROVE  StatusFits(t, d)'
  <2>1. CASE sess'[t].status = sess[t].status
    BY <1>2, <1>3, <2>1 DEF StatusFits, UsedGoesOn, Holds
  <2>2. CASE /\ sess[t].status = "preparing" /\ sess'[t].status = "starting"
             /\ sd[t, d].status = "preparing"
    BY <1>2, <1>3, <2>2, RowStatuses DEF StatusFits, Holds
  <2>. QED  BY <1>5, <2>1, <2>2
<1>8. ASSUME NEW t \in Session
      PROVE  OverOnHeadset(t, d)'
  <2>1. SUFFICES ASSUME sess'[t].status = "completed"
                 PROVE  agent'[d].sess # t /\ \A j \in DOMAIN queue'[d] : queue'[d][j].sess # t
    BY DEF OverOnHeadset
  <2>2. agent[d].sess # t /\ \A j \in DOMAIN Q : Q[j].sess # t
    BY <1>3, <1>5, <2>1 DEF OverOnHeadset
  <2>3. agent'[d].sess # t
    BY <1>1, <1>6, <2>2, IntentSession, SessionAssumption
  <2>. QED  BY <1>2, <2>2, <2>3 DEF Oldest
<1>9. ASSUME NEW t \in Session
      PROVE  /\ PauseKnown(t, d, agent[d])' /\ PauseKnown(t, d, hb[d])'
             /\ \A j \in DOMAIN queue'[d] : PauseKnown(t, d, queue[d][j])'
  <2>1. ASSUME NEW x, PauseKnown(t, d, x)
        PROVE  x.sess = t => /\ x.rev <= sd'[t, d].rev
                             /\ sess'[t].status = "extended" /\ sd'[t, d].status = "paused"
                                /\ x.rev = sd'[t, d].rev => x.paused
    BY <1>2, <1>5, <2>1 DEF PauseKnown
  <2>2. PauseKnown(t, d, hb[d])'
    <3>1. PauseKnown(t, d, hb[d])
      BY <1>3
    <3>. QED  BY <1>2, <2>1, <3>1 DEF PauseKnown
  <2>3. ASSUME NEW j \in DOMAIN queue'[d]
        PROVE  PauseKnown(t, d, queue[d][j])'
    <3>1. /\ j \in DOMAIN Q /\ queue'[d][j].sess = Q[j].sess /\ queue'[d][j].rev = Q[j].rev
          /\ queue'[d][j].paused = Q[j].paused
      BY <1>2 DEF Oldest
    <3>2. PauseKnown(t, d, Q[j])
      BY <1>3, <3>1
    <3>. QED  BY <2>1, <3>1, <3>2 DEF PauseKnown
  <2>4. PauseKnown(t, d, agent[d])'
    <3>1. PauseKnown(t, d, agent[d]) /\ PauseKnown(t, d, b)
      BY <1>3
    <3>2. CASE agent'[d] = agent[d]
      BY <2>1, <3>1, <3>2 DEF PauseKnown
    <3>3. CASE agent'[d].sess = None
      BY <3>3, SessionAssumption DEF PauseKnown
    <3>4. CASE agent'[d] = [sess |-> b.sess, paused |-> b.paused, rev |-> b.rev, app |-> b.app]
      <4>1. agent'[d].sess = b.sess /\ agent'[d].rev = b.rev /\ agent'[d].paused = b.paused
        BY <3>4
      <4>. QED  BY <2>1, <3>1, <4>1 DEF PauseKnown
    <3>5. \/ AfterIntent(b, agent[d]) = agent[d] \/ AfterIntent(b, agent[d]) = Out(agent[d])
          \/ AfterIntent(b, agent[d]) = [sess |-> b.sess, paused |-> b.paused, rev |-> b.rev, app |-> b.app]
      BY DEF AfterIntent
    <3>6. Out(agent[d]).sess = None
      BY <1>1, OutTyped
    <3>. QED  BY <1>6, <3>2, <3>3, <3>4, <3>5, <3>6
  <2>. QED  BY <2>2, <2>3, <2>4
<1>10. ASSUME NEW j \in DOMAIN queue'[d]
       PROVE  StartFits(d, queue[d][j])'
  <2>1. ASSUME NEW t \in Session
        PROVE  sess'[t].status = "preparing" => sess[t].status = "preparing"
    BY <1>5
  <2>2. CASE j # 1
    <3>1. j \in DOMAIN Q /\ queue'[d][j] = Q[j] /\ Q[j].sess \in Session
      BY <1>1, <1>2, <2>2, QueueFacts DEF Oldest, QInv
    <3>2. StartFits(d, Q[j])
      BY <1>3, <3>1
    <3>. QED  BY <1>2, <2>1, <3>1, <3>2 DEF StartFits, UsedGoesOn
  <2>3. CASE j = 1
    <3>1. queue'[d][j] = c
      BY <1>2, <2>3 DEF Oldest
    <3>2. used'["lost"] = 0 => c.st # "silent"
      <4>1. c.st = "silent" => b.st = "silent" \/ used'["lost"] # 0
        BY Zenon DEF Progress
      <4>. QED  BY <1>4, <4>1 DEF StartFits, UsedGoesOn
    <3>3. c.type = "START" /\ c.st # "ghost" /\ sess'[c.sess].status = "preparing"
            => sd'[c.sess, d].status = "preparing" /\ c.st # "running"
      BY <1>1, <1>2, <1>4, <1>5, <2>1 DEF StartFits
    <3>. QED  BY <3>1, <3>2, <3>3 DEF StartFits
  <2>. QED  BY <2>2, <2>3
<1>11. PauseKept
  BY <1>2 DEF PauseKept, PauseConfirmed
<1>. QED  BY <1>7, <1>8, <1>9, <1>10, <1>11 DEF StatusKept, StatusInv

LEMMA AsksStatus ==
  ASSUME QInv, StatusInv, UsedGoesOn, NEW d, Device = {d}, NEW s \in Session, NEW c, Asks(s, d, c)
  PROVE  StatusKept
<1> DEFINE Q == queue[d]
           r == sd[s, d]
           n == sd'[s, d]
           now == sess[s].status
           next == sess'[s].status
<1>1. /\ d \in Device /\ Q \in Seq(Sent) /\ r \in Row /\ r.rev \in Nat /\ n.rev \in Nat
      /\ \A k \in DOMAIN Q : Q[k].sess \in Session
  BY QueueFacts DEF QInv, SInv, RowsTyped, Asks, Row
<1>2. /\ now \in ActiveSession /\ r.status \in ActiveRow /\ r.op # "finish_pending"
      /\ n.rev = r.rev + 1 /\ n.op = OpOf(c.type)
      /\ Longer(queue'[d], Q, c) /\ UNCHANGED <<agent, hb>>
      /\ c \in Sent /\ c.type # "START" /\ c.type \in CommandType /\ c.sess = s /\ c.st = "created"
      /\ c.rev = n.rev /\ c.paused = ShownPaused(next, n)
      /\ c.type # "END" => Playing(s, d)
  BY DEF Asks, IsActive, Sent
<1>3. ASSUME NEW t \in Session, t # s
      PROVE  sess'[t] = sess[t] /\ sd'[t, d] = sd[t, d]
  BY <1>1, <1>3 DEF Asks, OtherRows, OtherSessions
<1>4. /\ \A t \in Session : StatusFits(t, d) /\ OverOnHeadset(t, d)
      /\ \A t \in Session : PauseKnown(t, d, agent[d]) /\ PauseKnown(t, d, hb[d])
      /\ \A t \in Session : \A k \in DOMAIN Q : PauseKnown(t, d, Q[k])
      /\ \A k \in DOMAIN Q : StartFits(d, Q[k])
  BY <1>1 DEF StatusInv
<1>5. \/ c.type = "PAUSE" /\ next = "paused" /\ n.status = "paused"
      \/ c.type = "RESUME" /\ next = "running" /\ n.status = "running"
      \/ c.type = "EXTEND" /\ next = "extended" /\ n.status = r.status
      \/ c.type = "SWITCH" /\ next = now /\ n.status = r.status
      \/ c.type = "END" /\ next = "finishing" /\ n.status = r.status
  BY DEF Asks
<1>6. now # "finishing" /\ r.status \in RowStatus[now] /\ (c.type = "END" <=> n.op = "finish_pending")
  <2>1. now # "finishing" /\ r.status \in RowStatus[now]
    BY <1>2, <1>4 DEF StatusFits, Holds
  <2>2. c.type = "END" <=> n.op = "finish_pending"
    BY <1>2, OpsOfTypes DEF CommandType
  <2>. QED  BY <2>1, <2>2
<1>7. ASSUME NEW t \in Session
      PROVE  StatusFits(t, d)'
  <2>1. CASE t # s
    BY <1>1, <1>3, <1>4, <2>1, SameStatus
  <2>2. CASE t = s
    <3>1. n.status \in RowStatus[next]
      BY <1>2, <1>5, <1>6, RowStatuses DEF Playing
    <3>2. next = "finishing" <=> n.op = "finish_pending"
      BY <1>5, <1>6
    <3>3. next = "preparing" => now = "preparing" /\ n.status = r.status
      BY <1>5
    <3>4. used'["lost"] = 0 /\ next = "preparing" => n.status = "preparing"
      BY <1>4, <3>3 DEF StatusFits, UsedGoesOn
    <3>. QED  BY <2>2, <3>1, <3>2, <3>4 DEF StatusFits
  <2>. QED  BY <2>1, <2>2
<1>8. ASSUME NEW j \in DOMAIN queue'[d]
      PROVE  queue'[d][j] = c \/ (j \in DOMAIN Q /\ queue'[d][j] = Q[j])
  BY <1>2, <1>8 DEF Longer
<1>9. ASSUME NEW t \in Session
      PROVE  OverOnHeadset(t, d)'
  <2>1. CASE t = s
    <3>1. next # "completed"
      BY <1>2, <1>5 DEF ActiveSession
    <3>. QED  BY <2>1, <3>1 DEF OverOnHeadset
  <2>2. CASE t # s
    <3>1. OverOnHeadset(t, d) /\ sess'[t] = sess[t]
      BY <1>3, <1>4, <2>2
    <3>2. \A j \in DOMAIN queue'[d] : queue'[d][j].sess = t =>
            j \in DOMAIN Q /\ queue'[d][j] = Q[j]
      BY <1>2, <1>8, <2>2
    <3>. QED  BY <1>2, <3>1, <3>2 DEF OverOnHeadset
  <2>. QED  BY <2>1, <2>2
<1>10. ASSUME NEW t \in Session
       PROVE  /\ PauseKnown(t, d, agent[d])' /\ PauseKnown(t, d, hb[d])'
              /\ \A j \in DOMAIN queue'[d] : PauseKnown(t, d, queue[d][j])'
  <2>1. ASSUME NEW x, PauseKnown(t, d, x), x.rev \in Nat
        PROVE  x.sess = t => /\ x.rev <= sd'[t, d].rev
                             /\ sess'[t].status = "extended" /\ sd'[t, d].status = "paused"
                                /\ x.rev = sd'[t, d].rev => x.paused
    <3>1. CASE t # s
      BY <1>3, <2>1, <3>1 DEF PauseKnown
    <3>2. CASE t = s /\ x.sess = t
      <4>1. x.rev <= r.rev
        BY <2>1, <3>2 DEF PauseKnown
      <4>2. x.rev <= n.rev /\ x.rev # n.rev
        <5>1. x.rev <= r.rev + 1 /\ x.rev # r.rev + 1
          BY <1>1, <2>1, <4>1, CountLess
        <5>. QED  BY <1>2, <5>1
      <4>. QED  BY <3>2, <4>2
    <3>. QED  BY <3>1, <3>2
  <2>2. PauseKnown(t, d, agent[d])' /\ PauseKnown(t, d, hb[d])'
    <3>1. PauseKnown(t, d, agent[d]) /\ PauseKnown(t, d, hb[d])
      BY <1>4
    <3>2. agent[d].rev \in Nat /\ hb[d].rev \in Nat
      <4>1. agent[d] \in AgentState /\ hb[d] \in AgentState
        BY <1>1 DEF QInv, BoundsInv
      <4>2. Revision \subseteq Nat
        BY DEF Revision
      <4>. QED  BY <4>1, <4>2 DEF AgentState
    <3>. QED  BY <1>2, <2>1, <3>1, <3>2 DEF PauseKnown
  <2>3. ASSUME NEW j \in DOMAIN queue'[d]
        PROVE  PauseKnown(t, d, queue[d][j])'
    <3>1. CASE j \in DOMAIN Q /\ queue'[d][j] = Q[j]
      <4>1. PauseKnown(t, d, Q[j]) /\ Q[j].rev \in Nat
        BY <1>1, <1>4, <3>1, QueueFacts DEF QInv, Sent
      <4>. QED  BY <2>1, <3>1, <4>1 DEF PauseKnown
    <3>2. CASE queue'[d][j] = c
      <4>1. c.rev <= n.rev
        BY <1>1, <1>2, CountSelf
      <4>2. next = "extended" /\ n.status = "paused" => c.paused
        BY <1>2 DEF ShownPaused
      <4>. QED  BY <1>2, <3>2, <4>1, <4>2 DEF PauseKnown
    <3>. QED  BY <1>8, <3>1, <3>2
  <2>. QED  BY <2>2, <2>3
<1>11. ASSUME NEW j \in DOMAIN queue'[d]
       PROVE  StartFits(d, queue[d][j])'
  <2>1. CASE queue'[d][j] = c
    BY <1>2, <2>1 DEF StartFits
  <2>2. CASE j \in DOMAIN Q /\ queue'[d][j] = Q[j]
    <3>1. StartFits(d, Q[j]) /\ Q[j].sess \in Session
      BY <1>1, <1>4, <2>2
    <3>2. next = "preparing" => now = "preparing" /\ n.status = r.status
      BY <1>5
    <3>. QED  BY <1>3, <2>2, <3>1, <3>2 DEF StartFits, UsedGoesOn
  <2>. QED  BY <1>8, <2>1, <2>2
<1>12. PauseKept
  <2>1. ASSUME NEW t \in Session, PauseConfirmed(t, d), sd'[t, d].status # "paused"
        PROVE  sd'[t, d].op = "resume_pending"
    <3>1. t = s /\ r.status = "paused"
      BY <1>3, <2>1 DEF PauseConfirmed
    <3>2. c.type = "RESUME"
      BY <1>5, <2>1, <3>1
    <3>3. OpOf("RESUME") = "resume_pending"
      BY DEF OpOf
    <3>. QED  BY <1>2, <3>1, <3>2, <3>3
  <2>. QED  BY <2>1 DEF PauseKept
<1>. QED  BY <1>7, <1>9, <1>10, <1>11, <1>12 DEF StatusKept, StatusInv

LEMMA CreateStatus ==
  ASSUME QInv, StatusInv, NEW d, Device = {d}, NEW s \in Session, NEW D \in SUBSET Device,
         D # {}, Created(s, D)
  PROVE  StatusKept
<1> DEFINE Q == queue[d]
<1>1. /\ d \in Device /\ D = {d} /\ Q \in Seq(Sent) /\ \A k \in DOMAIN Q : Q[k].sess \in Session
      /\ UsedGoesOn
  BY QueueFacts, UnusedGoesOn DEF QInv, Created
<1>2. /\ sess[s].status = "none" /\ sess'[s].status = "preparing" /\ Unheard(s)
      /\ sd'[s, d].status = "preparing" /\ sd'[s, d].op = "start_pending" /\ sd'[s, d].rev = 1
      /\ \A t \in Session : ~Holds(t, d)
      /\ UNCHANGED <<agent, hb>>
  BY <1>1 DEF Created, QInv, TurnsInv
<1>3. ASSUME NEW t \in Session, t # s
      PROVE  sess'[t] = sess[t] /\ sd'[t, d] = sd[t, d]
  BY <1>1, <1>3 DEF Created, OtherSessions
<1>4. /\ \A t \in Session : StatusFits(t, d) /\ OverOnHeadset(t, d)
      /\ \A t \in Session : PauseKnown(t, d, agent[d]) /\ PauseKnown(t, d, hb[d])
      /\ \A t \in Session : \A k \in DOMAIN Q : PauseKnown(t, d, Q[k])
      /\ \A k \in DOMAIN Q : StartFits(d, Q[k])
  BY <1>1 DEF StatusInv
<1>5. PICK c \in Sent : /\ Longer(queue'[d], queue[d], c)
                        /\ c.type = "START" /\ c.sess = s /\ c.st = "created" /\ c.rev = 1
  BY <1>1 DEF Created, Starts
<1>6. ASSUME NEW k \in DOMAIN Q
      PROVE  Q[k].sess # s /\ Q[k].sess \in Session
  <2>1. CommandSound(d, Q[k])
    BY <1>1 DEF QInv, TurnsInv
  <2>. QED  BY <1>1, <1>2, <2>1 DEF CommandSound
<1>7. ASSUME NEW j \in DOMAIN queue'[d]
      PROVE  queue'[d][j] = c \/ (j \in DOMAIN Q /\ queue'[d][j] = Q[j])
  BY <1>5, <1>7 DEF Longer
<1>8. ASSUME NEW t \in Session
      PROVE  StatusFits(t, d)'
  <2>1. CASE t # s
    BY <1>1, <1>3, <1>4, <2>1, SameStatus
  <2>2. CASE t = s
    BY <1>2, <2>2, RowStatuses DEF StatusFits
  <2>. QED  BY <2>1, <2>2
<1>9. ASSUME NEW t \in Session
      PROVE  OverOnHeadset(t, d)'
  <2>1. CASE t = s
    BY <1>2, <2>1 DEF OverOnHeadset
  <2>2. CASE t # s
    BY <1>2, <1>3, <1>4, <1>5, <1>7, <2>2 DEF OverOnHeadset
  <2>. QED  BY <2>1, <2>2
<1>10. ASSUME NEW t \in Session
       PROVE  /\ PauseKnown(t, d, agent[d])' /\ PauseKnown(t, d, hb[d])'
              /\ \A j \in DOMAIN queue'[d] : PauseKnown(t, d, queue[d][j])'
  <2>1. ASSUME NEW x, PauseKnown(t, d, x), x.sess # s
        PROVE  x.sess = t => /\ x.rev <= sd'[t, d].rev
                             /\ sess'[t].status = "extended" /\ sd'[t, d].status = "paused"
                                /\ x.rev = sd'[t, d].rev => x.paused
    BY <1>3, <2>1 DEF PauseKnown
  <2>2. PauseKnown(t, d, agent[d])' /\ PauseKnown(t, d, hb[d])'
    <3>1. PauseKnown(t, d, agent[d]) /\ PauseKnown(t, d, hb[d]) /\ agent[d].sess # s /\ hb[d].sess # s
      BY <1>1, <1>2, <1>4 DEF Unheard
    <3>. QED  BY <1>2, <2>1, <3>1 DEF PauseKnown
  <2>3. ASSUME NEW j \in DOMAIN queue'[d]
        PROVE  PauseKnown(t, d, queue[d][j])'
    <3>1. CASE j \in DOMAIN Q /\ queue'[d][j] = Q[j]
      <4>1. PauseKnown(t, d, Q[j]) /\ Q[j].sess # s
        BY <1>4, <1>6, <3>1
      <4>. QED  BY <2>1, <3>1, <4>1 DEF PauseKnown
    <3>2. CASE queue'[d][j] = c
      <4>1. c.rev <= 1 /\ c.sess = s
        BY <1>5
      <4>. QED  BY <1>2, <3>2, <4>1 DEF PauseKnown
    <3>. QED  BY <1>7, <3>1, <3>2
  <2>. QED  BY <2>2, <2>3
<1>11. ASSUME NEW j \in DOMAIN queue'[d]
       PROVE  StartFits(d, queue[d][j])'
  <2>1. CASE queue'[d][j] = c
    BY <1>2, <1>5, <2>1 DEF StartFits
  <2>2. CASE j \in DOMAIN Q /\ queue'[d][j] = Q[j]
    <3>1. StartFits(d, Q[j]) /\ Q[j].sess \in Session /\ Q[j].sess # s
      BY <1>4, <1>6, <2>2
    <3>. QED  BY <1>1, <1>3, <2>2, <3>1 DEF StartFits, UsedGoesOn
  <2>. QED  BY <1>7, <2>1, <2>2
<1>12. PauseKept
  <2>1. ASSUME NEW t \in Session
        PROVE  ~PauseConfirmed(t, d)
    BY <1>2 DEF PauseConfirmed, Holds, ActiveRow
  <2>. QED  BY <2>1 DEF PauseKept
<1>. QED  BY <1>8, <1>9, <1>10, <1>11, <1>12 DEF StatusKept, StatusInv

LEMMA QuietStatus ==
  ASSUME QInv, StatusInv, UsedGoesOn, NEW d, Device = {d}, UNCHANGED queue,
         agent'[d] = agent[d] \/ agent'[d].sess = None,
         hb'[d] = hb[d] \/ hb'[d] = agent[d] \/ hb'[d].sess = None,
         \A t \in Session :
           /\ StatusFits(t, d)' /\ sd'[t, d].rev = sd[t, d].rev
           /\ sess'[t].status = "completed" => sess[t].status = "completed"
           /\ sess'[t].status = "extended" /\ sd'[t, d].status = "paused"
                => sess[t].status = "extended" /\ sd[t, d].status = "paused"
           /\ sess'[t].status = "preparing"
                => sess[t].status = "preparing" /\ sd'[t, d].status = sd[t, d].status
  PROVE  StatusInv'
<1> DEFINE Q == queue[d]
<1>1. d \in Device /\ Q \in Seq(Sent) /\ (\A k \in DOMAIN Q : Q[k].sess \in Session) /\ None \notin Session
  BY QueueFacts, SessionAssumption DEF QInv
<1>2. /\ \A t \in Session : OverOnHeadset(t, d)
      /\ \A t \in Session : PauseKnown(t, d, agent[d]) /\ PauseKnown(t, d, hb[d])
      /\ \A t \in Session : \A k \in DOMAIN Q : PauseKnown(t, d, Q[k])
      /\ \A k \in DOMAIN Q : StartFits(d, Q[k])
  BY <1>1 DEF StatusInv
<1>3. ASSUME NEW t \in Session
      PROVE  OverOnHeadset(t, d)'
  BY <1>1, <1>2 DEF OverOnHeadset
<1>4. ASSUME NEW t \in Session
      PROVE  /\ PauseKnown(t, d, agent[d])' /\ PauseKnown(t, d, hb[d])'
             /\ \A j \in DOMAIN queue'[d] : PauseKnown(t, d, queue[d][j])'
  <2>1. ASSUME NEW x, PauseKnown(t, d, x)
        PROVE  x.sess = t => /\ x.rev <= sd'[t, d].rev
                             /\ sess'[t].status = "extended" /\ sd'[t, d].status = "paused"
                                /\ x.rev = sd'[t, d].rev => x.paused
    BY <2>1 DEF PauseKnown
  <2>2. PauseKnown(t, d, agent[d]) /\ PauseKnown(t, d, hb[d]) /\ t # None
    BY <1>1, <1>2
  <2>3. PauseKnown(t, d, agent[d])'
    <3>1. CASE agent'[d] = agent[d]
      BY <2>1, <2>2, <3>1 DEF PauseKnown
    <3>2. CASE agent'[d].sess = None
      BY <2>2, <3>2 DEF PauseKnown
    <3>. QED  BY <3>1, <3>2
  <2>4. PauseKnown(t, d, hb[d])'
    <3>1. CASE hb'[d] = agent[d]
      BY <2>1, <2>2, <3>1 DEF PauseKnown
    <3>2. CASE hb'[d] = hb[d]
      BY <2>1, <2>2, <3>2 DEF PauseKnown
    <3>3. CASE hb'[d].sess = None
      BY <2>2, <3>3 DEF PauseKnown
    <3>. QED  BY <3>1, <3>2, <3>3
  <2>5. ASSUME NEW j \in DOMAIN queue'[d]
        PROVE  PauseKnown(t, d, queue[d][j])'
    <3>1. PauseKnown(t, d, Q[j]) /\ queue'[d][j] = Q[j]
      BY <1>2
    <3>. QED  BY <2>1, <3>1 DEF PauseKnown
  <2>. QED  BY <2>3, <2>4, <2>5
<1>5. ASSUME NEW j \in DOMAIN queue'[d]
      PROVE  StartFits(d, queue[d][j])'
  BY <1>1, <1>2 DEF StartFits, UsedGoesOn
<1>. QED  BY <1>3, <1>4, <1>5 DEF StatusInv

LEMMA RowsAsBefore ==
  ASSUME QInv, StatusInv, UsedGoesOn, NEW d, Device = {d}, UNCHANGED <<sess, queue>>,
         agent'[d] = agent[d] \/ agent'[d].sess = None,
         hb'[d] = hb[d] \/ hb'[d] = agent[d] \/ hb'[d].sess = None,
         \A t \in Session : /\ sd'[t, d].status = sd[t, d].status
                            /\ sd'[t, d].op = sd[t, d].op /\ sd'[t, d].rev = sd[t, d].rev
  PROVE  StatusKept
<1>1. ASSUME NEW t \in Session
      PROVE  StatusFits(t, d)'
  BY SameStatus DEF StatusInv
<1>2. StatusInv'
  BY <1>1, QuietStatus
<1>3. PauseKept
  BY DEF PauseKept, PauseConfirmed
<1>. QED  BY <1>2, <1>3 DEF StatusKept

LEMMA TimeUpStatus ==
  ASSUME QInv, StatusInv, NEW d, Device = {d}, NEW s \in Session, TimeUp(s, d)
  PROVE  StatusKept
<1>1. \A t \in Session : /\ sd'[t, d].status = sd[t, d].status
                         /\ sd'[t, d].op = sd[t, d].op /\ sd'[t, d].rev = sd[t, d].rev
  BY DEF TimeUp, QInv, SInv, RowsTyped, Row
<1>2. UNCHANGED <<sess, queue, agent, hb, used>>
  BY DEF TimeUp
<1>3. UsedGoesOn
  BY <1>2, UnusedGoesOn DEF QInv
<1>. QED  BY <1>1, <1>2, <1>3, RowsAsBefore

LEMMA HeadsetStatus ==
  ASSUME QInv, StatusInv, NEW d, Device = {d}, AgentHeartbeat(d) \/ AgentTimeUp(d) \/ Telemetry(d)
  PROVE  StatusKept
<1>1. UNCHANGED <<sess, sd, queue, used>>
  BY DEF AgentHeartbeat, AgentTimeUp, Telemetry
<1>2. agent \in [Device -> AgentState] /\ hb \in [Device -> AgentState] /\ d \in Device
      /\ Out(agent[d]).sess = None
  BY OutTyped DEF QInv, BoundsInv
<1>3. /\ agent'[d] = agent[d] \/ agent'[d].sess = None
      /\ hb'[d] = hb[d] \/ hb'[d] = agent[d] \/ hb'[d].sess = None
  BY <1>2 DEF AgentHeartbeat, AgentTimeUp, Telemetry
<1>4. UsedGoesOn
  BY <1>1, UnusedGoesOn DEF QInv
<1>. QED  BY <1>1, <1>3, <1>4, RowsAsBefore

\* A heartbeat that is up to date does not take a confirmed pause back: of a
\* paused session it is not heard, and of an extended one it is paused itself.
LEMMA HeartbeatStatus ==
  ASSUME QInv, StatusInv, NEW d, Device = {d}, NEW s \in Session, CloudHeartbeat(s, d)
  PROVE  StatusKept
<1> DEFINE r == sd[s, d]
           n == sd'[s, d]
           now == sess[s].status
           next == sess'[s].status
<1>1. d \in Device /\ SInv /\ r \in Row /\ r.rev \in Nat /\ hb \in [Device -> AgentState]
  BY DEF QInv, SInv, RowsTyped, BoundsInv, Row
<1>2. /\ IsActive(s, d) /\ hb[d].sess = s /\ hb[d].rev >= r.rev
      /\ hb' = [hb EXCEPT ![d] = Out(@)] /\ UNCHANGED <<queue, agent, used>>
  BY <1>1, HeartbeatParts
<1>3. \/ UNCHANGED <<sess, sd>>
      \/ /\ r.op # "finish_pending" /\ OtherRows(s, d) /\ n.op = "idle" /\ n.rev = r.rev
         /\ \/ /\ ~hb[d].paused /\ n.status = "running"
               /\ now \in {"starting", "running", "extended"}
               /\ IF now = "starting" THEN Move(s, "running") ELSE UNCHANGED sess
            \/ /\ hb[d].paused /\ r.status = "running" /\ n.status = "paused"
               /\ now \in {"running", "extended", "paused"} /\ Move(s, "paused")
  BY <1>1, HeartbeatParts
<1>4. UsedGoesOn
  BY <1>2, UnusedGoesOn DEF QInv
<1>5. hb'[d].sess = None
  BY <1>1, <1>2, OutTyped
<1>6. /\ StatusFits(s, d) /\ PauseKnown(s, d, hb[d])
      /\ \A t \in Session : StatusFits(t, d)
  BY <1>1 DEF StatusInv
<1>7. CASE UNCHANGED <<sess, sd>>
  BY <1>2, <1>4, <1>5, <1>7, RowsAsBefore
<1>8. ASSUME r.op # "finish_pending", OtherRows(s, d), n.op = "idle", n.rev = r.rev,
             \/ /\ n.status = "running" /\ now \in {"starting", "running", "extended"}
                /\ next \in {"running", "extended"} /\ (next = "extended" => now = "extended")
             \/ n.status = "paused" /\ now \in {"running", "extended", "paused"} /\ next = "paused",
             \A t \in Session : t # s => sess'[t] = sess[t]
      PROVE  StatusInv'
  <2>1. ASSUME NEW t \in Session, t # s
        PROVE  sess'[t] = sess[t] /\ sd'[t, d] = sd[t, d]
    BY <1>1, <1>8, <2>1 DEF OtherRows
  <2>2. ASSUME NEW t \in Session
        PROVE  StatusFits(t, d)'
    <3>1. CASE t # s
      BY <1>1, <1>4, <1>6, <2>1, <3>1, SameStatus
    <3>2. CASE t = s
      <4>1. n.status \in RowStatus[next] /\ next \notin {"preparing", "finishing"}
        BY <1>8, RowStatuses
      <4>. QED  BY <1>8, <3>2, <4>1 DEF StatusFits
    <3>. QED  BY <3>1, <3>2
  <2>3. ASSUME NEW t \in Session
        PROVE  /\ sd'[t, d].rev = sd[t, d].rev
               /\ sess'[t].status = "completed" => sess[t].status = "completed"
               /\ sess'[t].status = "extended" /\ sd'[t, d].status = "paused"
                    => sess[t].status = "extended" /\ sd[t, d].status = "paused"
               /\ sess'[t].status = "preparing"
                    => sess[t].status = "preparing" /\ sd'[t, d].status = sd[t, d].status
    <3>1. CASE t # s
      BY <2>1, <3>1
    <3>2. CASE t = s
      BY <1>8, <3>2
    <3>. QED  BY <3>1, <3>2
  <2>. QED  BY <1>2, <1>4, <1>5, <2>2, <2>3, QuietStatus
<1>9. CASE /\ r.op # "finish_pending" /\ OtherRows(s, d) /\ n.op = "idle" /\ n.rev = r.rev
           /\ ~hb[d].paused /\ n.status = "running" /\ now \in {"starting", "running", "extended"}
           /\ IF now = "starting" THEN Move(s, "running") ELSE UNCHANGED sess
  <2>1. /\ next \in {"running", "extended"} /\ (next = "extended" => now = "extended")
        /\ \A t \in Session : t # s => sess'[t] = sess[t]
    <3>1. CASE now = "starting"
      <4>1. Move(s, "running") /\ "running" \in Statuses
        BY <1>9, <3>1 DEF Statuses, ActiveSession
      <4>. QED  BY <1>1, <4>1, MoveTyped DEF SInv
    <3>2. CASE now # "starting"
      BY <1>9, <3>2
    <3>. QED  BY <3>1, <3>2
  <2>2. StatusInv'
    BY <1>8, <1>9, <2>1
  <2>3. r.status # "paused"
    <3>1. CASE now = "extended"
      <4>1. hb[d].rev <= r.rev /\ hb[d].rev \in Nat
        <5>1. hb[d] \in AgentState
          BY <1>1
        <5>2. Revision \subseteq Nat
          BY DEF Revision
        <5>. QED  BY <1>2, <1>6, <5>1, <5>2 DEF PauseKnown, AgentState
      <4>2. hb[d].rev = r.rev
        BY <1>1, <1>2, <4>1, CountSame
      <4>. QED  BY <1>2, <1>6, <1>9, <3>1, <4>2 DEF PauseKnown
    <3>2. CASE now \in {"starting", "running"}
      BY <1>6, <3>2, RowStatuses DEF StatusFits
    <3>. QED  BY <1>9, <3>1, <3>2
  <2>4. PauseKept
    BY <1>1, <1>9, <2>3 DEF PauseKept, PauseConfirmed, OtherRows
  <2>. QED  BY <2>2, <2>4 DEF StatusKept
<1>10. CASE /\ r.op # "finish_pending" /\ OtherRows(s, d) /\ n.op = "idle" /\ n.rev = r.rev
            /\ hb[d].paused /\ r.status = "running" /\ n.status = "paused"
            /\ now \in {"running", "extended", "paused"} /\ Move(s, "paused")
  <2>1. next = "paused" /\ \A t \in Session : t # s => sess'[t] = sess[t]
    <3>1. "paused" \in Statuses
      BY DEF Statuses, ActiveSession
    <3>. QED  BY <1>1, <1>10, <3>1, MoveTyped DEF SInv
  <2>2. StatusInv'
    BY <1>8, <1>10, <2>1
  <2>3. PauseKept
    BY <1>1, <1>10 DEF PauseKept, PauseConfirmed, OtherRows
  <2>. QED  BY <2>2, <2>3 DEF StatusKept
<1>. QED  BY <1>3, <1>7, <1>9, <1>10

LEMMA ExpiryStatus ==
  ASSUME QInv, StatusInv, NEW d, Device = {d}, NEW s \in Session, ReconcileExpired(s, d)
  PROVE  StatusKept
<1>1. UsedGoesOn /\ d \in Device /\ SInv
  BY RequestSpends DEF QInv
<1>2. CASE \E c : Asks(s, d, c)
  BY <1>1, <1>2, AsksStatus
<1>3. CASE /\ sd[s, d].op = "finish_pending" /\ Holds(s, d) /\ sess'[s].status = "finishing"
           /\ sess[s].status \in {"running", "extended"}
  BY <1>1, <1>3 DEF StatusInv, StatusFits
<1>. QED  BY <1>1, <1>2, <1>3, ExpiryAsks

\* The commands of a headset after its oldest, an END, succeeded.
LEMMA AfterEnd ==
  ASSUME SInv, NEW d \in Device, Busy(d), Drop(d), InTurn(queue[d]), Current(d).type = "END",
         \A k \in DOMAIN queue[d] : queue[d][k].sess = Current(d).sess =>
           k = 1 \/ queue[d][1].type # "END"
  PROVE  \A j \in DOMAIN queue'[d] : queue'[d][j].sess # Current(d).sess
<1>1. queue[d] \in Seq(Sent) /\ queue[d] # <<>> /\ queue \in [Device -> Seq(Sent)]
  BY DEF SInv, QueueTyped, Busy
<1>2. queue'[d] = Tail(queue[d])
  BY <1>1 DEF Drop
<1>3. Len(queue[d]) \in Nat /\ Len(queue[d]) > 0 /\ DOMAIN queue[d] = 1..Len(queue[d])
      /\ Current(d) = queue[d][1]
  BY <1>1, EmptySeq, LenProperties, HeadTailProperties DEF Current
<1>4. DOMAIN Tail(queue[d]) = 1..(Len(queue[d]) - 1)
      /\ \A j \in 1..(Len(queue[d]) - 1) : Tail(queue[d])[j] = queue[d][j + 1]
  BY <1>1, <1>3, HeadTailProperties, LenProperties
<1>5. ASSUME NEW j \in DOMAIN queue'[d]
      PROVE  queue'[d][j].sess # Current(d).sess
  <2>1. j + 1 \in DOMAIN queue[d] /\ j + 1 # 1 /\ queue'[d][j] = queue[d][j + 1]
    BY <1>2, <1>3, <1>4, <1>5
  <2>. QED  BY <1>3, <2>1
<1>. QED  BY <1>5

LEMMA CommandBefore ==
  ASSUME QInv, StatusInv, NEW d \in Device, NEW i \in DOMAIN queue[d], queue[d][i].st # "ghost"
  PROVE  Before(d, queue[d][i])
<1> DEFINE c == queue[d][i]
<1>1. c \in Sent /\ c.sess \in Session
  BY QueueFacts DEF QInv
<1>2. StatusFits(c.sess, d) /\ OverOnHeadset(c.sess, d) /\ StartFits(d, c)
  BY <1>1 DEF StatusInv
<1>3. RowSound(c.sess, d) /\ CommandSound(d, c)
  BY <1>1 DEF QInv, TurnsInv
<1>4. sess[c.sess].status # "completed"
  BY <1>2 DEF OverOnHeadset
<1>. QED  BY <1>1, <1>2, <1>3, <1>4 DEF Before

LEMMA HubStatus ==
  ASSUME QInv, StatusInv, NEW d, Device = {d}, CommandSucceeds(d) \/ CommandFails(d) \/ GhostDone(d)
  PROVE  StatusKept
<1>1. /\ d \in Device /\ SInv /\ TurnsInv /\ InTurn(queue[d])
      /\ Busy(d) /\ Drop(d) /\ UNCHANGED used
  BY DEF QInv, TurnsInv, CommandSucceeds, CommandFails, GhostDone
<1>2. 1 \in DOMAIN queue[d] /\ Ends(d, 1) /\ Current(d) = queue[d][1] /\ UsedGoesOn
  BY <1>1, HubEnds, DropEnds, UnusedGoesOn DEF QInv
<1> DEFINE c == queue[d][1]
<1>3. CASE c.st = "ghost"
  BY <1>1, <1>2, <1>3, EndsStatus
<1>4. CASE c.st # "ghost"
  <2>1. Before(d, c)
    BY <1>1, <1>2, <1>4, CommandBefore
  <2>2. ResultFits(d, c)
    <3>1. CASE CommandSucceeds(d)
      BY <1>1, <1>2, <2>1, <3>1, SucceededFits DEF CommandSucceeds
    <3>2. CASE CommandFails(d)
      BY <1>1, <1>2, <2>1, <3>2, FailedFits DEF CommandFails
    <3>3. CASE GhostDone(d)
      BY <1>2, <1>4, <3>3 DEF GhostDone
    <3>. QED  BY <3>1, <3>2, <3>3
  <2>3. ASSUME sess'[c.sess].status = "completed"
        PROVE  \A j \in DOMAIN queue'[d] : queue'[d][j].sess # c.sess
    <3>1. c.type = "END"
      BY <2>2, <2>3 DEF ResultFits
    <3>2. \A k \in DOMAIN queue[d] : queue[d][k].sess = c.sess => k = 1
      BY <1>1, <1>2, <3>1, QueueFacts DEF InTurn
    <3>. QED  BY <1>1, <1>2, <3>1, <3>2, AfterEnd
  <2>. QED  BY <1>1, <1>2, <2>2, <2>3, EndsStatus
<1>. QED  BY <1>3, <1>4

\* A cancelled command failed, which completes nothing.
LEMMA CancelStatus ==
  ASSUME QInv, StatusInv, NEW d, Device = {d}, NEW i \in DOMAIN queue[d], CancelDeviceCommand(d, i)
  PROVE  StatusKept
<1> DEFINE c == queue[d][i]
<1>1. /\ d \in Device /\ SInv /\ TurnsInv /\ c.st # "ghost" /\ Spend("cancel") /\ Failed(d, c)
      /\ c \in Sent /\ c.sess \in Session
  BY QueueFacts DEF QInv, CancelDeviceCommand
<1>2. Ends(d, i) /\ UsedGoesOn /\ Before(d, c)
  BY <1>1, CancelEnds, SpendGoesOn, CommandBefore DEF QInv, Budget
<1>3. ResultFits(d, c)
  BY <1>1, <1>2, FailedFits
<1>4. sess'[c.sess].status # "completed"
  <2>1. SUFFICES ASSUME sess'[c.sess].status = "completed", c.type = "END"
                 PROVE  FALSE
    BY <1>3 DEF ResultFits
  <2>2. sd[c.sess, d].op = "finish_pending" /\ EndFailed(d, c)
    BY <1>1, <1>2, <2>1, BeforeFacts DEF Failed
  <2>3. Move(c.sess, "failed") \/ UNCHANGED sess
    BY <2>2 DEF EndFailed
  <2>. QED  BY <1>1, <1>2, <2>1, <2>3, MoveStatus DEF Before, SInv
<1>. QED  BY <1>1, <1>2, <1>3, <1>4, EndsStatus
-----------------------------------------------------------------------------
(* Sessions of one headset: every step.                                    *)

LEMMA InitStatus ==
  ASSUME Init, NEW d, Device = {d}
  PROVE  StatusInv
<1>1. /\ \A s \in Session : sess[s].status = "none" /\ s # None
      /\ \A s \in Session : sd[s, d].status = "none" /\ sd[s, d].op = "idle"
      /\ DOMAIN queue[d] = {} /\ agent[d].sess = None /\ hb[d].sess = None
  <2>1. PICK a \in App :
      /\ sess = [s \in Session |-> [status |-> "none", autoEnd |-> FALSE]]
      /\ sd = [p \in Session \X Device |->
                 [status |-> "none", op |-> "idle", rev |-> 0, app |-> a, expired |-> FALSE]]
      /\ queue = [e \in Device |-> <<>>]
      /\ agent = [e \in Device |-> [sess |-> None, paused |-> FALSE, rev |-> 0, app |-> a]]
      /\ hb = [e \in Device |-> [sess |-> None, paused |-> FALSE, rev |-> 0, app |-> a]]
    BY DEF Init
  <2>2. d \in Device
    OBVIOUS
  <2>3. \A s \in Session : sess[s].status = "none" /\ s # None
    BY <2>1, SessionAssumption
  <2>4. \A s \in Session : sd[s, d].status = "none" /\ sd[s, d].op = "idle"
    BY <2>1, <2>2
  <2>5. DOMAIN queue[d] = {} /\ agent[d].sess = None /\ hb[d].sess = None
    BY <2>1, <2>2
  <2>. QED  BY <2>3, <2>4, <2>5
<1>2. ASSUME NEW s \in Session
      PROVE  StatusFits(s, d) /\ OverOnHeadset(s, d)
             /\ PauseKnown(s, d, agent[d]) /\ PauseKnown(s, d, hb[d])
  BY <1>1, RowStatuses DEF StatusFits, OverOnHeadset, PauseKnown, Holds, ActiveRow
<1>. QED  BY <1>1, <1>2 DEF StatusInv

LEMMA NextStatus ==
  ASSUME QInv, StatusInv, NEW d, Device = {d}, [Next]_vars
  PROVE  StatusKept
<1>1. CASE UNCHANGED vars
  <2>1. UNCHANGED <<sess, queue, agent, hb, sd, used>>
    BY <1>1 DEF vars
  <2>. QED  BY <2>1, UnusedGoesOn, RowsAsBefore DEF QInv
<1>2. ASSUME NEW s \in Session, NEW D \in SUBSET Device, NEW a \in App, CreateSession(s, D, a)
      PROVE  StatusKept
  <2>1. D # {}
    BY <1>2 DEF CreateSession
  <2>. QED  BY <1>2, <2>1, CreateParts, CreateStatus DEF QInv
<1>3. ASSUME NEW s \in Session, Operator(s, d)
      PROVE  StatusKept
  BY <1>3, OperatorAsks, RequestSpends, AsksStatus DEF QInv
<1>4. ASSUME NEW s \in Session, TimeUp(s, d)
      PROVE  StatusKept
  BY <1>4, TimeUpStatus
<1>5. ASSUME NEW s \in Session, ReconcileExpired(s, d)
      PROVE  StatusKept
  BY <1>5, ExpiryStatus
<1>6. ASSUME NEW s \in Session, CloudHeartbeat(s, d)
      PROVE  StatusKept
  BY <1>6, HeartbeatStatus
<1>7. ASSUME CommandSucceeds(d) \/ CommandFails(d) \/ GhostDone(d)
      PROVE  StatusKept
  BY <1>7, HubStatus
<1>8. ASSUME Claim(d) \/ AnnounceLost(d) \/ OutcomeUnknown(d) \/ Announce(d) \/ RunCommand(d)
      PROVE  StatusKept
  <2>1. UNCHANGED used \/ Spend("lost") \/ Spend("unknown")
    BY <1>8 DEF Claim, AnnounceLost, OutcomeUnknown, Announce, RunCommand
  <2>2. UsedGoesOn
    BY <2>1, SpendGoesOn, UnusedGoesOn DEF QInv, Budget
  <2>3. 1 \in DOMAIN queue[d] /\ \E c : Advances(d, c) /\ Progress(d, c)
    BY <1>8, HubAdvances DEF QInv, BoundsInv
  <2>. QED  BY <2>2, <2>3, AdvancesStatus
<1>9. ASSUME AgentHeartbeat(d) \/ AgentTimeUp(d) \/ Telemetry(d)
      PROVE  StatusKept
  BY <1>9, HeadsetStatus
<1>10. ASSUME NEW i \in 1..Len(queue[d]), CancelDeviceCommand(d, i)
       PROVE  StatusKept
  <2>1. i \in DOMAIN queue[d]
    BY <1>10 DEF CancelDeviceCommand
  <2>. QED  BY <1>10, <2>1, CancelStatus
<1>11. CASE Next
  BY <1>11, <1>2, <1>3, <1>4, <1>5, <1>6, <1>7, <1>8, <1>9, <1>10 DEF Next, HubStep
<1>. QED  BY <1>1, <1>11

\* In sessions of one headset the session, its row, the commands on their way,
\* the headset and what it last reported fit together in every reachable state.
THEOREM StatusHolds ==
  ASSUME NEW d, Device = {d}
  PROVE  Spec => [](QInv /\ StatusInv)
<1>1. Init => QInv /\ StatusInv
  BY InitQueues, InitStatus
<1>2. QInv /\ StatusInv /\ [Next]_vars => QInv' /\ StatusInv'
  BY NextQueues, NextStatus DEF StatusKept
<1>. QED  BY <1>1, <1>2, PTL DEF Spec

\* sessions.status and the row's status say the same of a session of one
\* headset, after any order of results, heartbeats, cancellations and expiry.
THEOREM StatusesAlwaysAgree ==
  ASSUME NEW d, Device = {d}
  PROVE  Spec => []StatusesAgree
<1>1. StatusInv => StatusesAgree
  BY DEF StatusInv, StatusFits, StatusesAgree
<1>. QED  BY <1>1, StatusHolds, PTL

\* A session that is completed is over on its headset, and no command on its
\* way can take it up again.
THEOREM CompletedStaysClean ==
  ASSUME NEW d, Device = {d}
  PROVE  Spec => []CompletedIsClean
<1>1. StatusInv => CompletedIsClean
  BY DEF StatusInv, OverOnHeadset, CompletedIsClean
<1>. QED  BY <1>1, StatusHolds, PTL

\* Only a resume takes back a pause the headset has confirmed: no heartbeat or
\* result of an earlier request does (UpToDate, the restored states).
THEOREM PauseAlwaysHolds ==
  ASSUME NEW d, Device = {d}
  PROVE  Spec => PauseHolds
<1>1. QInv /\ StatusInv /\ [Next]_vars => [PauseKept]_vars
  BY NextStatus DEF StatusKept
<1>2. [][PauseKept]_vars => PauseHolds
  BY PTL DEF PauseHolds, PauseKept
<1>. QED  BY <1>1, <1>2, StatusHolds, PTL DEF Spec

-----------------------------------------------------------------------------
(***************************************************************************)
(* The life of a session with any number of headsets.  One headset at most *)
(* waits for its end, and the session is then being ended: a second stop   *)
(* leaves a session alone that is finishing.  Who left an open session has *)
(* failed, so that the last one to leave takes the session with it.  A     *)
(* headset that finished has nothing of the session left in its queue.     *)
(***************************************************************************)
EndPends(s, d) == Holds(s, d) /\ sd[s, d].op = "finish_pending"
PhaseSound(s) ==
  /\ PhaseOf(s) = "none" => \A d \in Device : SeatOf(s, d) = "never"
  /\ PhaseOf(s) = "open" => /\ \E d \in Device : SeatOf(s, d) = "in"
                            /\ \A d \in Device : SeatOf(s, d) # "finished"
  /\ PhaseOf(s) = "completed" => \A d \in Device : SeatOf(s, d) # "in"
  /\ \A d, e \in Device : EndPends(s, d) /\ EndPends(s, e) => d = e /\ PhaseOf(s) = "ending"
PhaseInv == \A s \in Session : PhaseSound(s)

FinishedOver(s, d) == SeatOf(s, d) = "finished" =>
  /\ agent[d].sess # s
  /\ \A i \in DOMAIN queue[d] : queue[d][i].sess # s
FinishedInv == \A s \in Session, d \in Device : FinishedOver(s, d)

\* What a step may do to session s and its headset d.
NoOther(s, d) == \A e \in Device : e # d => SeatOf(s, e) # "in"
StaysSeated(s, d) == /\ SeatOf(s, d)' = SeatOf(s, d)
                     /\ PhaseOf(s)' = PhaseOf(s)
IsEnded(s, d) == /\ SeatOf(s, d)' = SeatOf(s, d)
                 /\ PhaseOf(s) = "open" /\ PhaseOf(s)' = "ending"
Finishes(s, d) == /\ SeatOf(s, d) = "in" /\ SeatOf(s, d)' = "finished"
                  /\ PhaseOf(s) = "ending"
                  /\ PhaseOf(s)' = IF NoOther(s, d) THEN "completed" ELSE "ending"
StartGivesUp(s, d) == /\ SeatOf(s, d) = "in" /\ SeatOf(s, d)' = "failed"
                      /\ PhaseOf(s) # "completed"
                      /\ PhaseOf(s)' = IF PhaseOf(s) = "open" /\ NoOther(s, d)
                                       THEN "failed" ELSE PhaseOf(s)
EndGivesUp(s, d) == /\ SeatOf(s, d) = "in" /\ SeatOf(s, d)' = "failed"
                    /\ PhaseOf(s) = "ending" /\ PhaseOf(s)' = "failed"
\* The row waits for its end as before, or it is the one that ended the session;
\* and an ending that is over leaves no other row that waits.
PendsRightly(s, d) ==
  /\ EndPends(s, d)' => \/ EndPends(s, d) /\ PhaseOf(s)' = "ending"
                        \/ IsEnded(s, d)
  /\ PhaseOf(s) = "ending" /\ PhaseOf(s)' # "ending" => \A e \in Device : e # d => ~EndPends(s, e)
Changes(s, d) ==
  /\ OtherRows(s, d) /\ OtherSessions(s)
  /\ \/ StaysSeated(s, d) \/ IsEnded(s, d) \/ Finishes(s, d)
     \/ StartGivesUp(s, d) \/ EndGivesUp(s, d)
  /\ PendsRightly(s, d)

\* Phases and seats are those of the contract.
LEMMA Phases ==
  ASSUME SInv, NEW s \in Session
  PROVE  /\ PhaseOf(s) \in {"none", "open", "ending", "completed", "failed"}
         /\ PhaseOf(s) = "open" <=> sess[s].status \in ActiveSession \ {"finishing"}
         /\ PhaseOf(s) = "ending" <=> sess[s].status = "finishing"
         /\ \A x \in {"none", "completed", "failed"} : PhaseOf(s) = x <=> sess[s].status = x
<1>1. sess[s].status \in {"none"} \cup ActiveSession \cup TerminalSession
  BY DEF SInv, SessTyped, SessionRow
<1>. QED  BY <1>1 DEF PhaseOf, ActiveSession, TerminalSession

LEMMA Seats ==
  ASSUME SInv, NEW s \in Session, NEW d \in Device
  PROVE  /\ SeatOf(s, d) \in {"never", "in", "finished", "failed"}
         /\ SeatOf(s, d) = "in" <=> Holds(s, d)
         /\ SeatOf(s, d) = "never" <=> sd[s, d].status = "none"
         /\ \A x \in {"finished", "failed"} : SeatOf(s, d) = x <=> sd[s, d].status = x
<1>1. sd[s, d].status \in {"none", "finished", "failed"} \cup ActiveRow
  BY DEF SInv, RowsTyped, Row
<1>. QED  BY <1>1 DEF SeatOf, Holds, ActiveRow

LEMMA OtherSeats ==
  ASSUME NEW s \in Session, NEW d \in Device, OtherRows(s, d), OtherSessions(s)
  PROVE  /\ \A t \in Session, e \in Device : t # s \/ e # d =>
              /\ SeatOf(t, e)' = SeatOf(t, e) /\ (EndPends(t, e)' <=> EndPends(t, e))
         /\ \A t \in Session : t # s => PhaseOf(t)' = PhaseOf(t)
<1>1. ASSUME NEW t \in Session, NEW e \in Device, t # s \/ e # d
      PROVE  SeatOf(t, e)' = SeatOf(t, e) /\ (EndPends(t, e)' <=> EndPends(t, e))
  BY <1>1 DEF OtherRows, SeatOf, EndPends, Holds
<1>. QED  BY <1>1 DEF OtherSessions, PhaseOf

LEMMA ChangesPhase ==
  ASSUME SInv, SInv', PhaseInv, NEW s \in Session, NEW d \in Device, Changes(s, d)
  PROVE  PhaseInv'
<1>1. /\ \A t \in Session, e \in Device : t # s \/ e # d =>
              /\ SeatOf(t, e)' = SeatOf(t, e) /\ (EndPends(t, e)' <=> EndPends(t, e))
      /\ \A t \in Session : t # s => PhaseOf(t)' = PhaseOf(t)
  BY OtherSeats DEF Changes
<1>2. ASSUME NEW t \in Session, t # s
      PROVE  PhaseSound(t)'
  BY <1>1, <1>2 DEF PhaseInv, PhaseSound
<1> DEFINE p == PhaseOf(s)
           q == PhaseOf(s)'
           Was(e) == SeatOf(s, e)
           Is(e) == SeatOf(s, e)'
<1>3. /\ p \in {"none", "open", "ending", "completed", "failed"}
      /\ Was(d) \in {"never", "in", "finished", "failed"}
  BY Phases, Seats
<1>4. \A e \in Device : e # d => Is(e) = Was(e)
  BY <1>1
<1>5. PhaseSound(s)
  BY DEF PhaseInv
<1>6. \/ Is(d) = Was(d) /\ q = p
      \/ Is(d) = Was(d) /\ p = "open" /\ q = "ending"
      \/ /\ Was(d) = "in" /\ Is(d) = "finished" /\ p = "ending"
         /\ q = IF NoOther(s, d) THEN "completed" ELSE "ending"
      \/ /\ Was(d) = "in" /\ Is(d) = "failed" /\ p # "completed"
         /\ q = IF p = "open" /\ NoOther(s, d) THEN "failed" ELSE p
      \/ Was(d) = "in" /\ Is(d) = "failed" /\ p = "ending" /\ q = "failed"
  BY DEF Changes, StaysSeated, IsEnded, Finishes, StartGivesUp, EndGivesUp
<1>7. NoOther(s, d) <=> \A e \in Device : e # d => Was(e) # "in"
  BY DEF NoOther
<1>8. /\ p = "none" => \A e \in Device : Was(e) = "never"
      /\ p = "open" => (\E e \in Device : Was(e) = "in") /\ \A e \in Device : Was(e) # "finished"
      /\ p = "completed" => \A e \in Device : Was(e) # "in"
  BY <1>5 DEF PhaseSound
<1> HIDE DEF p, q, Was, Is
<1>9. q = "none" => \A e \in Device : Is(e) = "never"
  BY <1>3, <1>4, <1>6, <1>8
<1>10. q = "completed" => \A e \in Device : Is(e) # "in"
  BY <1>3, <1>4, <1>6, <1>7, <1>8
<1>11. ASSUME q = "open"
       PROVE  (\E e \in Device : Is(e) = "in") /\ \A e \in Device : Is(e) # "finished"
  <2>1. p = "open"
    BY <1>3, <1>6, <1>11
  <2>2. \A e \in Device : Is(e) # "finished"
    BY <1>4, <1>6, <1>8, <1>11, <2>1
  <2>3. \E e \in Device : Is(e) = "in"
    <3>1. CASE Is(d) = Was(d)
      BY <1>4, <1>8, <2>1, <3>1
    <3>2. CASE Is(d) # Was(d)
      BY <1>4, <1>6, <1>7, <1>11, <2>1, <3>2
    <3>. QED  BY <3>1, <3>2
  <2>. QED  BY <2>2, <2>3
<1>12. ASSUME NEW e \in Device, EndPends(s, e)'
       PROVE  PhaseOf(s)' = "ending" /\ \A f \in Device : EndPends(s, f)' => f = e
  <2>1. \A f, g \in Device : EndPends(s, f) /\ EndPends(s, g) => f = g /\ PhaseOf(s) = "ending"
    BY <1>5 DEF PhaseSound
  <2>2. PendsRightly(s, d)
    BY DEF Changes
  <2>3. \A f \in Device : f # d => EndPends(s, f)' <=> EndPends(s, f)
    BY <1>1
  <2>4. CASE EndPends(s, d)' /\ ~EndPends(s, d)
    BY <1>12, <2>1, <2>2, <2>3, <2>4 DEF PendsRightly, IsEnded
  <2>5. CASE EndPends(s, d)' => EndPends(s, d)
    BY <1>12, <2>1, <2>2, <2>3, <2>5 DEF PendsRightly, IsEnded
  <2>. QED  BY <2>4, <2>5
<1>13. PhaseSound(s)'
  BY <1>9, <1>10, <1>11, <1>12 DEF PhaseSound, p, q, Was, Is
<1>. QED  BY <1>2, <1>13 DEF PhaseInv

\* ... and each of these is a step of the contract.
LEMMA ChangesImplement ==
  ASSUME SInv, NEW s \in Session, NEW d \in Device, Changes(s, d)
  PROVE  [Contract!ContractNext]_(Contract!sessionVars)
<1> DEFINE phases == [t \in Session |-> PhaseOf(t)]
           seats == [p \in Session \X Device |-> SeatOf(p[1], p[2])]
<1>1. /\ \A t \in Session, e \in Device : t # s \/ e # d => SeatOf(t, e)' = SeatOf(t, e)
      /\ \A t \in Session : t # s => PhaseOf(t)' = PhaseOf(t)
  BY OtherSeats DEF Changes
<1>2. phases' = [phases EXCEPT ![s] = PhaseOf(s)']
  BY <1>1
<1>3. seats' = [seats EXCEPT ![<<s, d>>] = SeatOf(s, d)']
  <2>1. ASSUME NEW p \in Session \X Device
        PROVE  SeatOf(p[1], p[2])' = IF p = <<s, d>> THEN SeatOf(s, d)' ELSE SeatOf(p[1], p[2])
    <3>1. PICK t \in Session, e \in Device : p = <<t, e>>
      OBVIOUS
    <3>. QED  BY <1>1, <3>1
  <2>. QED  BY <2>1
<1>4. phases[s] = PhaseOf(s) /\ \A e \in Device : seats[s, e] = SeatOf(s, e)
  OBVIOUS
<1>5. SeatOf(s, d)' = SeatOf(s, d) => seats' = seats
  <2>1. [seats EXCEPT ![<<s, d>>] = SeatOf(s, d)] = seats
    BY <1>4
  <2> HIDE DEF seats
  <2>. QED  BY <1>3, <2>1
<1>6. PhaseOf(s)' = PhaseOf(s) => phases' = phases
  BY <1>2
<1>7. NoOther(s, d) <=> \A e \in Device : e # d => seats[s, e] # "in"
  BY <1>4 DEF NoOther
<1> HIDE DEF phases, seats
<1>8. CASE StaysSeated(s, d)
  BY <1>5, <1>6, <1>8 DEF StaysSeated, Contract!sessionVars, phases, seats
<1>9. CASE IsEnded(s, d)
  <2>1. phases[s] = "open" /\ phases' = [phases EXCEPT ![s] = "ending"] /\ seats' = seats
    BY <1>2, <1>4, <1>5, <1>9 DEF IsEnded
  <2>2. Contract!End(s)
    BY <2>1 DEF Contract!End, phases, seats
  <2>. QED  BY <2>2 DEF Contract!ContractNext
<1>10. CASE Finishes(s, d)
  <2>1. /\ phases[s] = "ending" /\ seats[s, d] = "in"
        /\ seats' = [seats EXCEPT ![<<s, d>>] = "finished"]
        /\ phases' = [phases EXCEPT ![s] = IF Contract!Last(s, d) THEN "completed" ELSE @]
    BY <1>2, <1>3, <1>4, <1>7, <1>10 DEF Finishes, Contract!Last, seats
  <2>2. Contract!Finished(s, d)
    BY <2>1 DEF Contract!Finished, Contract!Leave, phases, seats
  <2>. QED  BY <2>2 DEF Contract!ContractNext
<1>11. CASE StartGivesUp(s, d)
  <2>1. /\ phases[s] # "completed" /\ seats[s, d] = "in"
        /\ seats' = [seats EXCEPT ![<<s, d>>] = "failed"]
        /\ phases' = [phases EXCEPT ![s] = IF @ = "open" /\ Contract!Last(s, d) THEN "failed" ELSE @]
    BY <1>2, <1>3, <1>4, <1>7, <1>11 DEF StartGivesUp, Contract!Last, seats
  <2>2. Contract!StartFails(s, d)
    BY <2>1 DEF Contract!StartFails, Contract!Leave, phases, seats
  <2>. QED  BY <2>2 DEF Contract!ContractNext
<1>12. CASE EndGivesUp(s, d)
  <2>1. /\ phases[s] = "ending" /\ seats[s, d] = "in"
        /\ seats' = [seats EXCEPT ![<<s, d>>] = "failed"]
        /\ phases' = [phases EXCEPT ![s] = "failed"]
    BY <1>2, <1>3, <1>4, <1>12 DEF EndGivesUp
  <2>2. Contract!EndFails(s, d)
    BY <2>1 DEF Contract!EndFails, Contract!Leave, phases, seats
  <2>. QED  BY <2>2 DEF Contract!ContractNext
<1>. QED  BY <1>8, <1>9, <1>10, <1>11, <1>12 DEF Changes

\* Steps that no session and no headset of one notices.
SameLife == \A s \in Session :
  /\ PhaseOf(s)' = PhaseOf(s)
  /\ \A d \in Device : SeatOf(s, d)' = SeatOf(s, d) /\ (EndPends(s, d)' => EndPends(s, d))

LEMMA SameLifeKept ==
  ASSUME PhaseInv, SameLife
  PROVE  PhaseInv' /\ UNCHANGED Contract!sessionVars
<1>1. PhaseInv'
  BY DEF PhaseInv, PhaseSound, SameLife
<1>2. ASSUME NEW p \in Session \X Device
      PROVE  SeatOf(p[1], p[2])' = SeatOf(p[1], p[2])
  <2>1. PICK s \in Session, d \in Device : p = <<s, d>>
    OBVIOUS
  <2>. QED  BY <2>1 DEF SameLife
<1>3. UNCHANGED Contract!sessionVars
  BY <1>2 DEF SameLife, Contract!sessionVars
<1>. QED  BY <1>1, <1>3

LEMMA SameRows ==
  ASSUME UNCHANGED <<sess, sd>>
  PROVE  SameLife
BY DEF SameLife, PhaseOf, SeatOf, EndPends, Holds

\* A session opens with the headsets that were free.
LEMMA CreateOpens ==
  ASSUME SInv, SInv', PhaseInv, NEW s \in Session, NEW D \in SUBSET Device, D # {}, Created(s, D)
  PROVE  PhaseInv' /\ Contract!Open(s, D)
<1>1. PhaseOf(s) = "none" /\ PhaseOf(s)' = "open"
  BY DEF Created, PhaseOf
<1>2. ASSUME NEW t \in Session, t # s
      PROVE  /\ PhaseOf(t)' = PhaseOf(t)
             /\ \A e \in Device : SeatOf(t, e)' = SeatOf(t, e) /\ (EndPends(t, e)' <=> EndPends(t, e))
  BY <1>2 DEF Created, OtherSessions, PhaseOf, SeatOf, EndPends, Holds
<1>3. ASSUME NEW e \in Device
      PROVE  /\ SeatOf(s, e) = "never"
             /\ SeatOf(s, e)' = IF e \in D THEN "in" ELSE "never"
             /\ ~EndPends(s, e)'
  <2>1. SeatOf(s, e) = "never" /\ ~Holds(s, e)
    BY <1>1, Seats DEF PhaseInv, PhaseSound
  <2>2. CASE e \in D
    <3>1. sd'[s, e].status = "preparing" /\ sd'[s, e].op = "start_pending"
      BY <2>2 DEF Created
    <3>. QED  BY <2>1, <2>2, <3>1 DEF SeatOf, EndPends, Holds, ActiveRow
  <2>3. CASE e \notin D
    <3>1. sd'[s, e] = sd[s, e]
      BY <2>3 DEF Created
    <3>. QED  BY <2>1, <2>3, <3>1 DEF SeatOf, EndPends, Holds
  <2>. QED  BY <2>2, <2>3
<1>4. ASSUME NEW t \in Session
      PROVE  PhaseSound(t)'
  <2>1. CASE t # s
    BY <1>2, <2>1 DEF PhaseInv, PhaseSound
  <2>2. CASE t = s
    BY <1>1, <1>3, <2>2 DEF PhaseSound
  <2>. QED  BY <2>1, <2>2
<1>5. \A d \in D, t \in Session : SeatOf(t, d) # "in"
  BY Seats DEF Created
<1>6. [t \in Session |-> PhaseOf(t)]' = [[t \in Session |-> PhaseOf(t)] EXCEPT ![s] = "open"]
  BY <1>1, <1>2
<1>7. ASSUME NEW p \in Session \X Device
      PROVE  SeatOf(p[1], p[2])' = IF p[1] = s /\ p[2] \in D THEN "in" ELSE SeatOf(p[1], p[2])
  <2>1. PICK t \in Session, e \in Device : p = <<t, e>>
    OBVIOUS
  <2>. QED  BY <1>2, <1>3, <2>1
<1>8. Contract!Open(s, D)
  <2>1. [t \in Session |-> PhaseOf(t)][s] = "none"
    BY <1>1
  <2>2. \A d \in D : Contract!FreeHeadset(d)
    BY <1>5 DEF Contract!FreeHeadset
  <2>3. [p \in Session \X Device |-> SeatOf(p[1], p[2])]'
        = [p \in Session \X Device |->
             IF p[1] = s /\ p[2] \in D THEN "in"
             ELSE [r \in Session \X Device |-> SeatOf(r[1], r[2])][p]]
    BY <1>7
  <2>. QED  BY <1>6, <2>1, <2>2, <2>3 DEF Contract!Open
<1>. QED  BY <1>4, <1>8 DEF PhaseInv

\* refreshSessionAggregate: an open session goes on as long as it has a player,
\* and has failed when all its headsets have; any other it leaves alone.
LEMMA AggregateOpen ==
  ASSUME SInv, NEW s \in Session, NEW rows
  PROVE  /\ PhaseOf(s) # "open" => Aggregate(s, rows) = sess[s].status
         /\ PhaseOf(s) = "open" /\ (\E e \in Device : rows[s, e].status \in ActiveRow) =>
              Aggregate(s, rows) \in ActiveSession \ {"finishing"}
         /\ /\ PhaseOf(s) = "open" /\ \E e \in Device : rows[s, e].status = "failed"
            /\ \A e \in Device : rows[s, e].status \in {"none", "failed"}
            => Aggregate(s, rows) = "failed"
<1> DEFINE now == sess[s].status
           in == {rows[s, d].status : d \in {e \in Device : rows[s, e].status # "none"}}
           target == IF in = {"finished"} THEN "completed"
                     ELSE IF in = {"failed"} THEN "failed"
                     ELSE IF "running" \in in THEN "running"
                     ELSE IF "paused" \in in
                       THEN IF "preparing" \in in THEN "running" ELSE "paused"
                     ELSE IF "preparing" \in in THEN "starting"
                     ELSE now
<1>1. now \in Statuses
  BY DEF SInv, SessTyped, SessionRow, Statuses
<1>2. Aggregate(s, rows) = IF now # "finishing" /\ target \in Transitions[now] THEN target ELSE now
  BY DEF Aggregate
<1>3. PhaseOf(s) = "open" <=> now \in ActiveSession \ {"finishing"}
  BY Phases
<1>4. ASSUME PhaseOf(s) # "open"
      PROVE  Aggregate(s, rows) = now
  <2>1. now = "finishing" \/ Transitions[now] = {}
    BY <1>1, <1>3, <1>4 DEF Statuses, ActiveSession, TerminalSession, Transitions
  <2> HIDE DEF now, target
  <2>. QED  BY <1>2, <2>1
<1>5. ASSUME PhaseOf(s) = "open", NEW e \in Device, rows[s, e].status \in ActiveRow
      PROVE  Aggregate(s, rows) \in ActiveSession \ {"finishing"}
  <2>1. rows[s, e].status \in in /\ rows[s, e].status \notin {"finished", "failed"}
    BY <1>5 DEF ActiveRow
  <2> HIDE DEF in
  <2>2. in # {"finished"} /\ in # {"failed"}
    BY <2>1
  <2>3. target \in {"running", "paused", "starting", now}
    BY <2>2
  <2> HIDE DEF target
  <2>. QED  BY <1>2, <1>3, <1>5, <2>3 DEF ActiveSession
<1>6. ASSUME PhaseOf(s) = "open", NEW e \in Device, rows[s, e].status = "failed",
             \A f \in Device : rows[s, f].status \in {"none", "failed"}
      PROVE  Aggregate(s, rows) = "failed"
  <2>1. in = {"failed"}
    BY <1>6
  <2> HIDE DEF in
  <2>2. target = "failed"
    BY <2>1
  <2>3. "failed" \in Transitions[now] /\ now # "finishing"
    BY <1>1, <1>3, <1>6, TransitionsTo
  <2> HIDE DEF target, now
  <2>. QED  BY <1>2, <2>2, <2>3
<1>. QED  BY <1>4, <1>5, <1>6

\* A request changes no seat; only the one to stop ends an open session.
LEMMA AsksChange ==
  ASSUME SInv, SInv', PhaseInv, Irrevocable, NEW s \in Session, NEW d \in Device, NEW c, Asks(s, d, c),
         c.type = "END" => sess[s].status # "finishing"
  PROVE  Changes(s, d)
<1> DEFINE r == sd[s, d]
           n == sd'[s, d]
           now == sess[s].status
           next == sess'[s].status
<1>1. /\ now \in ActiveSession /\ r.status \in ActiveRow /\ n.op = OpOf(c.type)
      /\ OtherRows(s, d) /\ OtherSessions(s) /\ c.type \in CommandType
  BY DEF Asks, IsActive, Sent
<1>2. \/ c.type = "END" /\ next = "finishing" /\ n.status = r.status
      \/ c.type # "END" /\ n.status \in {"running", "paused", r.status}
         /\ next \in {"paused", "running", "extended", now}
  BY DEF Asks
<1>3. now = "finishing" => next \notin {"paused", "running", "extended"}
  BY DEF Irrevocable, TerminalSession
<1>4. SeatOf(s, d) = "in" /\ SeatOf(s, d)' = "in"
  <2>1. n.status \in ActiveRow
    BY <1>1, <1>2 DEF ActiveRow
  <2>. QED  BY <1>1, <2>1 DEF SeatOf, Holds
<1>5. /\ PhaseOf(s) = IF now = "finishing" THEN "ending" ELSE "open"
      /\ PhaseOf(s)' = IF next = "finishing" THEN "ending" ELSE "open"
  BY <1>1, <1>2 DEF PhaseOf, ActiveSession
<1>6. CASE c.type = "END"
  <2>1. IsEnded(s, d)
    BY <1>2, <1>4, <1>5, <1>6 DEF IsEnded
  <2>2. PendsRightly(s, d)
    BY <1>5, <1>6, <2>1 DEF PendsRightly
  <2>. QED  BY <1>1, <2>1, <2>2 DEF Changes
<1>7. CASE c.type # "END"
  <2>1. StaysSeated(s, d)
    BY <1>2, <1>3, <1>4, <1>5, <1>7 DEF StaysSeated
  <2>2. ~EndPends(s, d)'
    <3>1. n.op # "finish_pending"
      BY <1>1, <1>7, OpsOfTypes DEF Asked
    <3>. QED  BY <3>1 DEF EndPends
  <2>3. PendsRightly(s, d)
    BY <2>1, <2>2 DEF PendsRightly, StaysSeated
  <2>. QED  BY <1>1, <2>1, <2>3 DEF Changes
<1>. QED  BY <1>6, <1>7

\* finishActiveSessionForDevice and the expiry timer ask for no end of what is
\* finishing already.
LEMMA EndAskedOnce ==
  ASSUME SInv, NEW s \in Session, NEW d \in Device, Operator(s, d) \/ ReconcileExpired(s, d),
         sd'[s, d].op = "finish_pending"
  PROVE  sess[s].status # "finishing"
<1>1. sd \in [Session \X Device -> Row] /\ sd[s, d] \in Row
  BY DEF SInv, RowsTyped
<1>2. ASSUME NEW type \in CommandType, NEW row, Request(s, d, type, row), row \in Row
      PROVE  type = "END"
  <2>1. sd'[s, d].op = OpOf(type)
    BY <1>1, <1>2 DEF Request, Row
  <2>. QED  BY <2>1, OpsOfTypes DEF CommandType
<1>3. ~PauseSession(s, d)
  <2>1. SUFFICES ASSUME PauseSession(s, d) PROVE FALSE
    OBVIOUS
  <2>2. [sd[s, d] EXCEPT !.status = "paused"] \in Row
    BY <1>1 DEF Row, ActiveRow
  <2>. QED  BY <1>2, <2>1, <2>2 DEF PauseSession, CommandType
<1>4. ~ResumeSession(s, d)
  <2>1. SUFFICES ASSUME ResumeSession(s, d) PROVE FALSE
    OBVIOUS
  <2>2. [sd[s, d] EXCEPT !.status = "running"] \in Row
    BY <1>1 DEF Row, ActiveRow
  <2>. QED  BY <1>2, <2>1, <2>2 DEF ResumeSession, CommandType
<1>5. ~ExtendSession(s, d)
  <2>1. SUFFICES ASSUME ExtendSession(s, d) PROVE FALSE
    OBVIOUS
  <2>2. PICK e \in {FALSE, sd[s, d].expired} :
          Request(s, d, "EXTEND", [sd[s, d] EXCEPT !.expired = e])
    BY <2>1 DEF ExtendSession
  <2>3. [sd[s, d] EXCEPT !.expired = e] \in Row
    BY <1>1, <2>2 DEF Row
  <2>. QED  BY <1>2, <2>2, <2>3 DEF CommandType
<1>6. ASSUME NEW a \in App
      PROVE  ~SwitchSessionApp(s, d, a)
  <2>1. SUFFICES ASSUME SwitchSessionApp(s, d, a) PROVE FALSE
    OBVIOUS
  <2>2. [sd[s, d] EXCEPT !.app = a] \in Row
    BY <1>1 DEF Row
  <2>. QED  BY <1>2, <2>1, <2>2 DEF SwitchSessionApp, CommandType
<1>. QED  BY <1>3, <1>4, <1>5, <1>6 DEF Operator, Finish, ReconcileExpired, Expires

LEMMA RequestChanges ==
  ASSUME QInv, SInv', PhaseInv, Irrevocable, NEW s \in Session, NEW d \in Device,
         Operator(s, d) \/ ReconcileExpired(s, d)
  PROVE  Changes(s, d)
<1>1. CASE \E c : Asks(s, d, c)
  <2>1. PICK c : Asks(s, d, c)
    BY <1>1
  <2>2. c.type = "END" => sd'[s, d].op = "finish_pending"
    BY <2>1, OpsOfTypes DEF Asks
  <2>. QED  BY <2>1, <2>2, EndAskedOnce, AsksChange DEF QInv
<1>2. CASE /\ sd[s, d].op = "finish_pending" /\ Holds(s, d) /\ sess'[s].status = "finishing"
           /\ sess[s].status \in {"running", "extended"}
           /\ OtherSessions(s) /\ UNCHANGED <<sd, dev, queue, agent, hb>>
  <2>1. PhaseOf(s) = "open" /\ EndPends(s, d)
    BY <1>2 DEF PhaseOf, EndPends
  <2>. QED  BY <2>1 DEF PhaseInv, PhaseSound
<1>. QED  BY <1>1, <1>2, OperatorAsks, ExpiryAsks DEF QInv

\* The row a command that was not cancelled waits for, if it does.
LEMMA WaitingRow ==
  ASSUME QInv, PhaseInv, NEW d \in Device, NEW i \in DOMAIN queue[d], NEW c, c = queue[d][i],
         c.st # "ghost"
  PROVE  /\ c \in Sent /\ c.sess \in Session /\ sd[c.sess, d] \in Row
         /\ sd[c.sess, d].op = OpOf(c.type) =>
              /\ Holds(c.sess, d) /\ SeatOf(c.sess, d) = "in"
              /\ PhaseOf(c.sess) \notin {"none", "completed"}
         /\ c.type = "END" => /\ sd[c.sess, d].op = "finish_pending" /\ PhaseOf(c.sess) = "ending"
                              /\ \A e \in Device : e # d => ~EndPends(c.sess, e)
<1> DEFINE s == c.sess
<1>1. c \in Sent /\ s \in Session /\ sd[s, d] \in Row /\ c.type \in CommandType
  BY QueueFacts DEF QInv, SInv, RowsTyped, Sent
<1>2. RowSound(s, d) /\ CommandSound(d, c) /\ SInv /\ PhaseSound(s)
  BY <1>1 DEF QInv, TurnsInv, PhaseInv
<1>3. ASSUME sd[s, d].op = OpOf(c.type)
      PROVE  Holds(s, d)
  <2>1. CASE c.type = "START"
    BY <1>1, <1>2, <1>3, <2>1, OpsOfTypes DEF SInv, OpHolds, PendingOp
  <2>2. CASE c.type = "END"
    BY <1>2, <2>2 DEF CommandSound
  <2>3. CASE c.type \notin {"START", "END"}
    BY <1>1, <1>2, <1>3, <2>3, OpsOfTypes DEF RowSound, Playing, Holds, ActiveRow
  <2>. QED  BY <2>1, <2>2, <2>3
<1>4. Holds(s, d) => SeatOf(s, d) = "in" /\ PhaseOf(s) \notin {"none", "completed"}
  BY <1>1, <1>2, Seats DEF PhaseSound
<1>5. c.type = "END" => /\ sd[s, d].op = "finish_pending" /\ EndPends(s, d)
  BY <1>2 DEF CommandSound, EndPends
<1>6. c.type = "END" => /\ PhaseOf(s) = "ending"
                        /\ \A e \in Device : e # d => ~EndPends(s, e)
  BY <1>2, <1>5 DEF PhaseSound
<1>. QED  BY <1>1, <1>3, <1>4, <1>5, <1>6

\* A headset that does not leave with a phase that stays.
LEMMA SeatKept ==
  ASSUME NEW s \in Session, NEW d \in Device, OtherRows(s, d), OtherSessions(s),
         SeatOf(s, d)' = SeatOf(s, d), PhaseOf(s)' = PhaseOf(s), EndPends(s, d)' => FALSE
  PROVE  Changes(s, d)
BY DEF Changes, StaysSeated, PendsRightly

LEMMA RowAsBefore ==
  ASSUME PhaseInv, NEW s \in Session, NEW d \in Device, OtherSessions(s), PhaseOf(s)' = PhaseOf(s),
         UNCHANGED sd
  PROVE  SameLife
BY DEF SameLife, OtherSessions, PhaseOf, SeatOf, EndPends, Holds

LEMMA SucceededChanges ==
  ASSUME QInv, PhaseInv, NEW d \in Device, NEW i \in DOMAIN queue[d], NEW c, c = queue[d][i],
         c.st # "ghost", Succeeded(d, c), ResultRow(d, c)
  PROVE  Changes(c.sess, d) \/ SameLife
<1> DEFINE s == c.sess
           r == sd[s, d]
<1>1. /\ c \in Sent /\ s \in Session /\ r \in Row /\ SInv /\ SessTyped
      /\ r.op = OpOf(c.type) => Holds(s, d) /\ SeatOf(s, d) = "in"
      /\ c.type = "END" => /\ r.op = "finish_pending" /\ PhaseOf(s) = "ending"
                           /\ \A e \in Device : e # d => ~EndPends(s, e)
  BY WaitingRow DEF QInv, SInv
<1>2. OtherRows(s, d) /\ OtherSessions(s)
  BY DEF ResultRow, OtherRows, OtherSessions
<1>3. PhaseOf(s) \in {"none", "open", "ending", "completed", "failed"}
  BY <1>1, Phases
<1>4. CASE c.type = "START" /\ StartSucceeded(d, c)
  <2>1. CASE r.op = "start_pending"
    <3> DEFINE n == [r EXCEPT !.status = "running", !.op = "idle", !.app = c.app]
    <3>1. sd' = [sd EXCEPT ![<<s, d>>] = n] /\ Move(s, Aggregate(s, sd'))
      BY <1>1, <1>4, <2>1 DEF StartSucceeded, SInv, RowsTyped
    <3>2. n.status = "running" /\ n.op = "idle"
      BY <1>1 DEF Row
    <3> HIDE DEF n
    <3>3. sd'[s, d] = n
      BY <1>1, <3>1, OneRow
    <3>4. SeatOf(s, d)' = "in" /\ ~EndPends(s, d)' /\ sd'[s, d].status \in ActiveRow
      BY <3>2, <3>3 DEF SeatOf, EndPends, Holds, ActiveRow
    <3>5. SeatOf(s, d) = "in"
      BY <1>1, <1>4, <2>1, OpsOfTypes
    <3>6. sess'[s].status = Aggregate(s, sd')
      BY <1>1, <3>1, MoveStatus
    <3>7. PhaseOf(s)' = PhaseOf(s)
      <4>1. CASE PhaseOf(s) = "open"
        <5>1. Aggregate(s, sd') \in ActiveSession \ {"finishing"}
          BY <1>1, <3>4, <4>1, AggregateOpen
        <5>. QED  BY <3>6, <4>1, <5>1 DEF PhaseOf, ActiveSession
      <4>2. CASE PhaseOf(s) # "open"
        <5>1. Aggregate(s, sd') = sess[s].status
          BY <1>1, <4>2, AggregateOpen
        <5>. QED  BY <3>6, <5>1 DEF PhaseOf
      <4>. QED  BY <4>1, <4>2
    <3>. QED  BY <1>1, <1>2, <3>4, <3>5, <3>7, SeatKept
  <2>2. CASE r.op # "start_pending"
    <3>1. UNCHANGED <<sess, sd>>
      BY <1>4, <2>2 DEF StartSucceeded
    <3>. QED  BY <3>1, SameRows
  <2>. QED  BY <2>1, <2>2
<1>5. CASE c.type \in {"PAUSE", "RESUME", "EXTEND", "SWITCH"} /\ Confirmed(d, c)
  <2>1. CASE r.op = OpOf(c.type)
    <3> DEFINE n == [r EXCEPT !.op = "idle"]
    <3>1. sd' = [sd EXCEPT ![<<s, d>>] = n] /\ UNCHANGED sess
      BY <1>1, <1>5, <2>1 DEF Confirmed, SInv, RowsTyped
    <3>2. n.status = r.status /\ n.op = "idle"
      BY <1>1 DEF Row
    <3> HIDE DEF n
    <3>3. sd'[s, d] = n
      BY <1>1, <3>1, OneRow
    <3>4. SeatOf(s, d)' = SeatOf(s, d) /\ ~EndPends(s, d)' /\ PhaseOf(s)' = PhaseOf(s)
      BY <3>1, <3>2, <3>3 DEF SeatOf, EndPends, Holds, PhaseOf
    <3>. QED  BY <1>1, <1>2, <3>4, SeatKept
  <2>2. CASE r.op # OpOf(c.type)
    <3>1. UNCHANGED <<sess, sd>>
      BY <1>5, <2>2 DEF Confirmed
    <3>. QED  BY <3>1, SameRows
  <2>. QED  BY <2>1, <2>2
<1>6. CASE c.type = "END" /\ EndSucceeded(d, c)
  <2> DEFINE n == [r EXCEPT !.status = "finished", !.op = "idle"]
  <2>1. sd' = [sd EXCEPT ![<<s, d>>] = n]
    BY <1>1, <1>6 DEF EndSucceeded, SInv, RowsTyped
  <2>2. n.status = "finished" /\ n.op = "idle"
    BY <1>1 DEF Row
  <2> HIDE DEF n
  <2>3. sd'[s, d] = n /\ \A e \in Device : e # d => sd'[s, e] = sd[s, e]
    <3>1. sd'[s, d] = n
      BY <1>1, <2>1, OneRow
    <3>. QED  BY <1>1, <1>2, <3>1 DEF OtherRows
  <2>4. SeatOf(s, d) = "in" /\ SeatOf(s, d)' = "finished" /\ ~EndPends(s, d)'
    <3>1. SeatOf(s, d) = "in"
      BY <1>1, <1>6, OpsOfTypes
    <3>. QED  BY <2>2, <2>3, <3>1 DEF SeatOf, EndPends, Holds, ActiveRow
  <2>5. NoOther(s, d) <=> \A e \in Device : sd'[s, e].status \notin ActiveRow
    <3>1. sd'[s, d].status \notin ActiveRow
      BY <2>2, <2>3 DEF ActiveRow
    <3>2. \A e \in Device : SeatOf(s, e) = "in" <=> Holds(s, e)
      BY <1>1, Seats
    <3>. QED  BY <2>3, <3>1, <3>2 DEF NoOther, Holds
  <2>6. PhaseOf(s)' = IF NoOther(s, d) THEN "completed" ELSE "ending"
    <3>1. sess[s].status = "finishing"
      BY <1>1, <1>6, Phases
    <3>2. CASE NoOther(s, d)
      <4>1. Move(s, "completed")
        BY <1>6, <2>5, <3>1, <3>2 DEF EndSucceeded
      <4>2. sess'[s].status = "completed"
        BY <1>1, <4>1, MoveStatus
      <4>. QED  BY <3>2, <4>2 DEF PhaseOf
    <3>3. CASE ~NoOther(s, d)
      <4>1. UNCHANGED sess
        BY <1>6, <2>5, <3>3 DEF EndSucceeded
      <4>. QED  BY <3>1, <3>3, <4>1 DEF PhaseOf
    <3>. QED  BY <3>2, <3>3
  <2>7. Finishes(s, d)
    BY <1>1, <1>6, <2>4, <2>6 DEF Finishes
  <2>8. PendsRightly(s, d)
    BY <1>1, <1>6, <2>4 DEF PendsRightly
  <2>. QED  BY <1>2, <2>7, <2>8 DEF Changes
<1>. QED  BY <1>4, <1>5, <1>6 DEF Succeeded

LEMMA FailedChanges ==
  ASSUME QInv, PhaseInv, NEW d \in Device, NEW i \in DOMAIN queue[d], NEW c, c = queue[d][i],
         c.st # "ghost", Failed(d, c), ResultRow(d, c)
  PROVE  Changes(c.sess, d) \/ SameLife
<1> DEFINE s == c.sess
           r == sd[s, d]
<1>1. /\ c \in Sent /\ s \in Session /\ r \in Row /\ SInv /\ SessTyped
      /\ r.op = OpOf(c.type) => /\ Holds(s, d) /\ SeatOf(s, d) = "in"
                                /\ PhaseOf(s) \notin {"none", "completed"}
      /\ c.type = "END" => /\ r.op = "finish_pending" /\ PhaseOf(s) = "ending"
                           /\ \A e \in Device : e # d => ~EndPends(s, e)
  BY WaitingRow DEF QInv, SInv
<1>2. OtherRows(s, d) /\ OtherSessions(s)
  BY DEF ResultRow, OtherRows, OtherSessions
<1>3. /\ PhaseOf(s) \in {"none", "open", "ending", "completed", "failed"}
      /\ PhaseOf(s) = "open" <=> sess[s].status \in ActiveSession \ {"finishing"}
      /\ PhaseOf(s) = "ending" <=> sess[s].status = "finishing"
  BY <1>1, Phases
<1>4. \A e \in Device : /\ SeatOf(s, e) \in {"never", "in", "finished", "failed"}
                        /\ SeatOf(s, e) = "in" <=> sd[s, e].status \in ActiveRow
                        /\ SeatOf(s, e) = "never" <=> sd[s, e].status = "none"
                        /\ SeatOf(s, e) = "failed" <=> sd[s, e].status = "failed"
                        /\ SeatOf(s, e) = "finished" <=> sd[s, e].status = "finished"
  BY <1>1, Seats DEF Holds
<1>5. PhaseSound(s)
  BY <1>1 DEF PhaseInv
<1>6. CASE c.type = "START" /\ StartFailed(d, c)
  <2>1. Move(s, Aggregate(s, sd'))
    BY <1>6 DEF StartFailed
  <2>2. sess'[s].status = Aggregate(s, sd')
    BY <1>1, <2>1, MoveStatus
  <2>3. PhaseOf(s) # "open" => PhaseOf(s)' = PhaseOf(s)
    <3>1. PhaseOf(s) # "open" => sess'[s].status = sess[s].status
      BY <1>1, <2>2, AggregateOpen
    <3>. QED  BY <3>1 DEF PhaseOf
  <2>4. ASSUME PhaseOf(s) = "open", NEW e \in Device, sd'[s, e].status \in ActiveRow
        PROVE  PhaseOf(s)' = "open"
    <3>1. sess'[s].status \in ActiveSession \ {"finishing"}
      BY <1>1, <2>2, <2>4, AggregateOpen
    <3>. QED  BY <3>1 DEF PhaseOf, ActiveSession
  <2>5. CASE r.op = "start_pending"
    <3> DEFINE n == [r EXCEPT !.status = "failed", !.op = "idle"]
    <3>1. sd' = [sd EXCEPT ![<<s, d>>] = n]
      BY <1>1, <1>6, <2>5 DEF StartFailed, SInv, RowsTyped
    <3>2. n.status = "failed" /\ n.op = "idle"
      BY <1>1 DEF Row
    <3> HIDE DEF n
    <3>3. sd'[s, d] = n /\ \A e \in Device : e # d => sd'[s, e] = sd[s, e]
      <4>1. sd'[s, d] = n
        BY <1>1, <3>1, OneRow
      <4>. QED  BY <1>1, <1>2, <4>1 DEF OtherRows
    <3>4. SeatOf(s, d)' = "failed" /\ ~EndPends(s, d)'
      BY <3>2, <3>3 DEF SeatOf, EndPends, Holds, ActiveRow
    <3>5. SeatOf(s, d) = "in" /\ PhaseOf(s) \notin {"none", "completed"}
      BY <1>1, <1>6, <2>5, OpsOfTypes
    <3>6. CASE PhaseOf(s) # "open"
      <4>1. StartGivesUp(s, d)
        BY <2>3, <3>4, <3>5, <3>6 DEF StartGivesUp
      <4>2. PendsRightly(s, d)
        BY <2>3, <3>4, <3>6 DEF PendsRightly
      <4>. QED  BY <1>2, <4>1, <4>2 DEF Changes
    <3>7. CASE PhaseOf(s) = "open" /\ ~NoOther(s, d)
      <4>1. PICK e \in Device : e # d /\ SeatOf(s, e) = "in"
        BY <3>7 DEF NoOther
      <4>2. sd'[s, e].status \in ActiveRow
        BY <1>4, <3>3, <4>1
      <4>3. PhaseOf(s)' = "open"
        BY <2>4, <3>7, <4>2
      <4>4. StartGivesUp(s, d) /\ PendsRightly(s, d)
        BY <3>4, <3>5, <3>7, <4>3 DEF StartGivesUp, PendsRightly
      <4>. QED  BY <1>2, <4>4 DEF Changes
    <3>8. CASE PhaseOf(s) = "open" /\ NoOther(s, d)
      <4>1. \A e \in Device : sd'[s, e].status \in {"none", "failed"}
        BY <1>4, <1>5, <3>2, <3>3, <3>8 DEF NoOther, PhaseSound
      <4>2. sd'[s, d].status = "failed"
        BY <3>2, <3>3
      <4>3. sess'[s].status = "failed"
        BY <1>1, <2>2, <3>8, <4>1, <4>2, AggregateOpen
      <4>4. PhaseOf(s)' = "failed"
        BY <4>3 DEF PhaseOf
      <4>5. StartGivesUp(s, d) /\ PendsRightly(s, d)
        BY <3>4, <3>5, <3>8, <4>4 DEF StartGivesUp, PendsRightly
      <4>. QED  BY <1>2, <4>5 DEF Changes
    <3>. QED  BY <3>6, <3>7, <3>8
  <2>6. CASE r.op # "start_pending"
    <3>1. sd' = sd
      BY <1>6, <2>6 DEF StartFailed
    <3>2. PhaseOf(s) = "open" => \E e \in Device : sd'[s, e].status \in ActiveRow
      BY <1>4, <1>5, <3>1 DEF PhaseSound
    <3>3. PhaseOf(s)' = PhaseOf(s)
      BY <2>3, <2>4, <3>2
    <3>. QED  BY <1>1, <1>2, <3>1, <3>3, RowAsBefore
  <2>. QED  BY <2>5, <2>6
<1>7. CASE c.type \in {"PAUSE", "RESUME", "SWITCH"} /\ Restore(d, c)
  <2>1. CASE r.op = OpOf(c.type)
    <3> DEFINE back == IF c.prevPaused THEN "paused" ELSE "running"
               n == [r EXCEPT !.status = back, !.op = "idle", !.app = c.prevApp]
    <3>1. sd' = [sd EXCEPT ![<<s, d>>] = n]
      BY <1>1, <1>7, <2>1 DEF Restore, SInv, RowsTyped
    <3>2. back \in {"paused", "running"}
      OBVIOUS
    <3>3. IF sess[s].status \in TerminalSession \cup {"finishing"}
          THEN UNCHANGED sess ELSE Move(s, back)
      BY <1>7, <2>1 DEF Restore
    <3>4. n.status = back /\ n.op = "idle"
      BY <1>1 DEF Row
    <3> HIDE DEF n, back
    <3>5. sd'[s, d] = n
      BY <1>1, <3>1, OneRow
    <3>6. SeatOf(s, d)' = "in" /\ ~EndPends(s, d)'
      BY <3>2, <3>4, <3>5 DEF SeatOf, EndPends, Holds, ActiveRow
    <3>7. SeatOf(s, d) = "in" /\ PhaseOf(s) # "none"
      BY <1>1, <2>1
    <3>8. PhaseOf(s)' = PhaseOf(s)
      <4>1. CASE UNCHANGED sess
        BY <4>1 DEF PhaseOf
      <4>2. CASE sess[s].status \notin TerminalSession \cup {"finishing"} /\ Move(s, back)
        <5>1. sess'[s].status = back
          BY <1>1, <4>2, MoveStatus
        <5>2. PhaseOf(s) = "open"
          BY <1>3, <3>7, <4>2 DEF PhaseOf, TerminalSession
        <5>. QED  BY <3>2, <5>1, <5>2 DEF PhaseOf
      <4>. QED  BY <3>3, <4>1, <4>2
    <3>. QED  BY <1>1, <1>2, <3>6, <3>7, <3>8, SeatKept
  <2>2. CASE r.op # OpOf(c.type)
    <3>1. UNCHANGED <<sess, sd>>
      BY <1>7, <2>2 DEF Restore
    <3>. QED  BY <3>1, SameRows
  <2>. QED  BY <2>1, <2>2
<1>8. CASE c.type = "EXTEND" /\ ExtendFailed(d, c)
  <2>1. CASE r.op = "extend_pending"
    <3> DEFINE n == [r EXCEPT !.op = "reconciliation_required"]
    <3>1. sd' = [sd EXCEPT ![<<s, d>>] = n] /\ UNCHANGED sess
      BY <1>1, <1>8, <2>1 DEF ExtendFailed, SInv, RowsTyped
    <3>2. n.status = r.status /\ n.op = "reconciliation_required"
      BY <1>1 DEF Row
    <3> HIDE DEF n
    <3>3. sd'[s, d] = n
      BY <1>1, <3>1, OneRow
    <3>4. SeatOf(s, d)' = SeatOf(s, d) /\ ~EndPends(s, d)' /\ PhaseOf(s)' = PhaseOf(s)
      BY <3>1, <3>2, <3>3 DEF SeatOf, EndPends, Holds, PhaseOf
    <3>. QED  BY <1>1, <1>2, <3>4, SeatKept
  <2>2. CASE r.op # "extend_pending"
    <3>1. UNCHANGED <<sess, sd>>
      BY <1>8, <2>2 DEF ExtendFailed
    <3>. QED  BY <3>1, SameRows
  <2>. QED  BY <2>1, <2>2
<1>9. CASE c.type = "END" /\ EndFailed(d, c)
  <2> DEFINE n == [r EXCEPT !.status = "failed"]
  <2>1. sd' = [sd EXCEPT ![<<s, d>>] = n] /\ Move(s, "failed")
    BY <1>1, <1>3, <1>9 DEF EndFailed, SInv, RowsTyped
  <2>2. n.status = "failed"
    BY <1>1 DEF Row
  <2> HIDE DEF n
  <2>3. sd'[s, d] = n /\ sess'[s].status = "failed"
    <3>1. sd'[s, d] = n
      BY <1>1, <2>1, OneRow
    <3>2. sess'[s].status = "failed"
      BY <1>1, <2>1, MoveStatus
    <3>. QED  BY <3>1, <3>2
  <2>4. SeatOf(s, d)' = "failed" /\ ~EndPends(s, d)' /\ PhaseOf(s)' = "failed"
    BY <2>2, <2>3 DEF SeatOf, EndPends, Holds, ActiveRow, PhaseOf
  <2>5. SeatOf(s, d) = "in"
    BY <1>1, <1>9, OpsOfTypes
  <2>6. EndGivesUp(s, d) /\ PendsRightly(s, d)
    BY <1>1, <1>9, <2>4, <2>5 DEF EndGivesUp, PendsRightly
  <2>. QED  BY <1>2, <2>6 DEF Changes
<1>. QED  BY <1>6, <1>7, <1>8, <1>9 DEF Failed

LEMMA EndsLife ==
  ASSUME QInv, SInv', PhaseInv, NEW d \in Device, NEW i \in DOMAIN queue[d], Ends(d, i),
         queue[d][i].st # "ghost" => Succeeded(d, queue[d][i]) \/ Failed(d, queue[d][i])
  PROVE  PhaseInv' /\ [Contract!ContractNext]_(Contract!sessionVars)
<1>1. SInv /\ SInv'
  BY DEF QInv
<1>2. CASE UNCHANGED <<sess, sd>>
  BY <1>2, SameRows, SameLifeKept
<1>3. CASE queue[d][i].st # "ghost" /\ ResultRow(d, queue[d][i])
  <2>1. PICK c : c = queue[d][i]
    OBVIOUS
  <2>2. c.st # "ghost" /\ ResultRow(d, c) /\ (Succeeded(d, c) \/ Failed(d, c))
    BY <1>3, <2>1
  <2>3. Changes(c.sess, d) \/ SameLife
    BY <2>1, <2>2, SucceededChanges, FailedChanges
  <2>4. c.sess \in Session
    BY <2>1, <2>2, WaitingRow
  <2>. QED  BY <1>1, <2>3, <2>4, SameLifeKept, ChangesPhase, ChangesImplement
<1>. QED  BY <1>2, <1>3 DEF Ends

LEMMA AdvancesLife ==
  ASSUME QInv, NEW d \in Device, 1 \in DOMAIN queue[d], NEW c, Advances(d, c), Progress(d, c)
  PROVE  SameLife
<1>1. UNCHANGED sd /\ queue[d][1].sess \in Session
  BY QueueFacts DEF Advances, QInv, Sent
<1>2. CASE UNCHANGED sess
  BY <1>1, <1>2, SameRows
<1>3. CASE sess[queue[d][1].sess].status = "preparing" /\ Move(queue[d][1].sess, "starting")
  <2>1. PICK s \in Session : s = queue[d][1].sess
    BY <1>1
  <2>2. sess[s].status = "preparing" /\ sess'[s].status = "starting" /\ OtherSessions(s)
    BY <1>3, <2>1 DEF Move, OtherSessions, QInv, SInv, SessTyped, SessionRow
  <2>3. PhaseOf(s)' = PhaseOf(s)
    BY <2>2 DEF PhaseOf
  <2>. QED  BY <1>1, <2>2, <2>3 DEF SameLife, OtherSessions, PhaseOf, SeatOf, EndPends, Holds
<1>. QED  BY <1>2, <1>3 DEF Progress

LEMMA HeartbeatLife ==
  ASSUME QInv, NEW s \in Session, NEW d \in Device, CloudHeartbeat(s, d)
  PROVE  Changes(s, d) \/ SameLife
<1>1. /\ IsActive(s, d) /\ SInv /\ SessTyped
      /\ \/ UNCHANGED <<sess, sd>>
         \/ /\ OtherRows(s, d) /\ sd'[s, d].op = "idle" /\ sd'[s, d].status \in {"running", "paused"}
            /\ sess[s].status \in {"starting", "running", "extended", "paused"}
            /\ UNCHANGED sess \/ \E next \in {"running", "paused"} : Move(s, next)
  BY HeartbeatParts, Zenon DEF QInv, SInv
<1>2. CASE UNCHANGED <<sess, sd>>
  BY <1>2, SameRows
<1>3. CASE /\ OtherRows(s, d) /\ sd'[s, d].op = "idle" /\ sd'[s, d].status \in {"running", "paused"}
           /\ sess[s].status \in {"starting", "running", "extended", "paused"}
           /\ UNCHANGED sess \/ \E next \in {"running", "paused"} : Move(s, next)
  <2>1. SeatOf(s, d) = "in" /\ SeatOf(s, d)' = "in" /\ ~EndPends(s, d)'
    BY <1>1, <1>3 DEF SeatOf, EndPends, Holds, IsActive, ActiveRow
  <2>2. OtherSessions(s) /\ sess'[s].status \in {"starting", "running", "extended", "paused"}
    BY <1>1, <1>3 DEF Move, OtherSessions, SessTyped, SessionRow
  <2>3. PhaseOf(s)' = PhaseOf(s)
    BY <1>3, <2>2 DEF PhaseOf
  <2>. QED  BY <1>3, <2>1, <2>2, <2>3, SeatKept
<1>. QED  BY <1>1, <1>2, <1>3

\* Every step of the Cloud, the Hub and the headsets is a step of the contract or
\* none.
LEMMA NextLife ==
  ASSUME QInv, PhaseInv, [Next]_vars
  PROVE  PhaseInv' /\ [Contract!ContractNext]_(Contract!sessionVars)
<1>1. SInv /\ SInv' /\ Irrevocable
  BY NextHolds DEF QInv, StepHolds
<1> DEFINE Kept == PhaseInv' /\ [Contract!ContractNext]_(Contract!sessionVars)
<1>2. ASSUME NEW s \in Session, NEW d \in Device, Changes(s, d)
      PROVE  Kept
  BY <1>1, <1>2, ChangesPhase, ChangesImplement
<1>3. SameLife => Kept
  BY SameLifeKept
<1>4. ASSUME NEW s \in Session, NEW D \in SUBSET Device, NEW a \in App, CreateSession(s, D, a)
      PROVE  Kept
  <2>1. D # {} /\ Created(s, D)
    BY <1>4, CreateParts DEF CreateSession, QInv
  <2>2. PhaseInv' /\ Contract!Open(s, D)
    BY <1>1, <2>1, CreateOpens
  <2>. QED  BY <2>2 DEF Contract!ContractNext
<1> HIDE DEF Kept
<1>5. ASSUME NEW s \in Session, NEW d \in Device, Operator(s, d) \/ ReconcileExpired(s, d)
      PROVE  Kept
  BY <1>1, <1>2, <1>5, RequestChanges
<1>6. ASSUME NEW s \in Session, NEW d \in Device, TimeUp(s, d)
      PROVE  Kept
  <2>1. \A t \in Session, e \in Device : sd'[t, e].status = sd[t, e].status
                                         /\ sd'[t, e].op = sd[t, e].op
    BY <1>1, <1>6 DEF TimeUp, SInv, RowsTyped, Row
  <2>2. UNCHANGED sess
    BY <1>6 DEF TimeUp
  <2>. QED  BY <1>3, <2>1, <2>2 DEF SameLife, PhaseOf, SeatOf, EndPends, Holds
<1>7. ASSUME NEW s \in Session, NEW d \in Device, CloudHeartbeat(s, d)
      PROVE  Kept
  BY <1>2, <1>3, <1>7, HeartbeatLife
<1>8. ASSUME NEW d \in Device, CommandSucceeds(d) \/ CommandFails(d) \/ GhostDone(d)
      PROVE  Kept
  <2>1. 1 \in DOMAIN queue[d] /\ Ends(d, 1) /\ Current(d) = queue[d][1]
    BY <1>8, HubEnds, DropEnds DEF QInv, CommandSucceeds, CommandFails, GhostDone
  <2>2. queue[d][1].st # "ghost" => Succeeded(d, queue[d][1]) \/ Failed(d, queue[d][1])
    BY <1>8, <2>1 DEF CommandSucceeds, CommandFails, GhostDone
  <2>. QED  BY <1>1, <2>1, <2>2, EndsLife DEF Kept
<1>9. ASSUME NEW d \in Device,
             Claim(d) \/ AnnounceLost(d) \/ OutcomeUnknown(d) \/ Announce(d) \/ RunCommand(d)
      PROVE  Kept
  <2>1. 1 \in DOMAIN queue[d] /\ \E c : Advances(d, c) /\ Progress(d, c)
    BY <1>9, HubAdvances DEF QInv, BoundsInv
  <2>. QED  BY <1>3, <2>1, AdvancesLife
<1>10. ASSUME NEW d \in Device, AgentHeartbeat(d) \/ AgentTimeUp(d) \/ Telemetry(d)
       PROVE  Kept
  <2>1. UNCHANGED <<sess, sd>>
    BY <1>10 DEF AgentHeartbeat, AgentTimeUp, Telemetry
  <2>. QED  BY <1>3, <2>1, SameRows
<1>11. ASSUME NEW d \in Device, NEW i \in 1..Len(queue[d]), CancelDeviceCommand(d, i)
       PROVE  Kept
  <2>1. i \in DOMAIN queue[d] /\ Failed(d, queue[d][i])
    BY <1>11 DEF CancelDeviceCommand
  <2>2. Ends(d, i)
    BY <1>11, <2>1, CancelEnds DEF QInv
  <2>. QED  BY <1>1, <2>1, <2>2, EndsLife DEF Kept
<1>12. CASE UNCHANGED vars
  <2>1. UNCHANGED <<sess, sd>>
    BY <1>12 DEF vars
  <2>. QED  BY <1>3, <2>1, SameRows DEF Kept
<1>13. CASE Next
  BY <1>13, <1>4, <1>5, <1>6, <1>7, <1>8, <1>9, <1>10, <1>11 DEF Next, HubStep, Kept
<1>. QED  BY <1>12, <1>13

LEMMA InitLife ==
  ASSUME Init
  PROVE  PhaseInv /\ FinishedInv /\ Contract!ContractInit
<1>1. PICK a \in App :
    /\ sess = [s \in Session |-> [status |-> "none", autoEnd |-> FALSE]]
    /\ sd = [p \in Session \X Device |->
               [status |-> "none", op |-> "idle", rev |-> 0, app |-> a, expired |-> FALSE]]
  BY DEF Init
<1>2. ASSUME NEW s \in Session
      PROVE  PhaseOf(s) = "none"
  BY <1>1 DEF PhaseOf
<1>3. ASSUME NEW s \in Session, NEW d \in Device
      PROVE  SeatOf(s, d) = "never" /\ ~EndPends(s, d)
  BY <1>1 DEF SeatOf, EndPends, Holds, ActiveRow
<1>4. \A p \in Session \X Device : SeatOf(p[1], p[2]) = "never"
  BY <1>3
<1>. QED  BY <1>2, <1>3, <1>4 DEF PhaseInv, PhaseSound, FinishedInv, FinishedOver, Contract!ContractInit

THEOREM PhasesHold == Spec => [](QInv /\ PhaseInv)
<1>1. Init => QInv /\ PhaseInv
  BY InitQueues, InitLife
<1>2. QInv /\ PhaseInv /\ [Next]_vars => QInv' /\ PhaseInv'
  BY NextQueues, NextLife
<1>. QED  BY <1>1, <1>2, PTL DEF Spec

\* A session of any number of headsets does what SessionContract says, whatever
\* becomes of their commands: it is ended once, its headsets leave it for good,
\* and only the last confirmed end completes it.
THEOREM LifecycleImplementsContract == Spec => ImplementsSessionContract
<1>1. QInv /\ PhaseInv /\ [Next]_vars => [Contract!ContractNext]_(Contract!sessionVars)
  BY NextLife
<1>2. Init => Contract!ContractInit
  BY InitLife
<1>. QED
  BY <1>1, <1>2, PhasesHold, PTL DEF Spec, ImplementsSessionContract, Contract!ContractSpec

\* No session is open without a headset in it: the last headset whose start
\* fails takes the session with it, and the end of one waits for the others.
THEOREM OpenHeadsetHolds == Spec => []OpenHasHeadset
<1>1. QInv /\ PhaseInv => OpenHasHeadset
  <2>1. SUFFICES ASSUME QInv, PhaseInv, NEW s \in Session,
                        sess[s].status \in ActiveSession \ {"finishing"}
                 PROVE  \E d \in Device : Holds(s, d)
    BY DEF OpenHasHeadset
  <2>2. SInv /\ PhaseOf(s) = "open"
    BY <2>1, Phases DEF QInv
  <2>3. PICK d \in Device : SeatOf(s, d) = "in"
    BY <2>1, <2>2 DEF PhaseInv, PhaseSound
  <2>. QED  BY <2>2, <2>3, Seats
<1>. QED  BY <1>1, PhasesHold, PTL

-----------------------------------------------------------------------------
(* A headset that has finished.  It does so when its END, which it has run *)
(* and which is the last command of the session in its queue, succeeds;    *)
(* and no request reaches a row that is not active.                        *)

NoneFinishes == \A s \in Session, d \in Device :
  sd'[s, d].status = "finished" => sd[s, d].status = "finished"
\* What an agent or a queue says of a session it said before.
NothingNew(s, d) ==
  /\ agent'[d].sess = s => agent[d].sess = s \/ \E i \in DOMAIN queue[d] : queue[d][i].sess = s
  /\ \A i \in DOMAIN queue'[d] : queue'[d][i].sess = s =>
       \E j \in DOMAIN queue[d] : queue[d][j].sess = s

LEMMA FinishedKept ==
  ASSUME SInv, SInv', FinishedInv, NEW s \in Session, NEW d \in Device,
         sd'[s, d].status = "finished" => sd[s, d].status = "finished" /\ NothingNew(s, d)
  PROVE  FinishedOver(s, d)'
<1>1. SUFFICES ASSUME SeatOf(s, d)' = "finished"
               PROVE  /\ agent'[d].sess # s
                      /\ \A i \in DOMAIN queue'[d] : queue'[d][i].sess # s
  BY DEF FinishedOver
<1>2. sd'[s, d].status = "finished"
  BY <1>1, Zenon DEF SeatOf
<1>. QED  BY <1>2, Seats DEF FinishedInv, FinishedOver, NothingNew

LEMMA QuietFinished ==
  ASSUME SInv, SInv', FinishedInv, UNCHANGED queue, NoneFinishes,
         \A d \in Device : agent'[d].sess \in {agent[d].sess, None}
  PROVE  FinishedInv'
<1>1. \A s \in Session : s # None
  BY SessionAssumption
<1>2. \A s \in Session, d \in Device : NothingNew(s, d)
  BY <1>1 DEF NothingNew
<1>. QED  BY <1>2, FinishedKept DEF FinishedInv, NoneFinishes

LEMMA AsksFinished ==
  ASSUME SInv, SInv', FinishedInv, NEW s \in Session, NEW d \in Device, NEW c, Asks(s, d, c)
  PROVE  FinishedInv'
<1>1. /\ OtherRows(s, d) /\ UNCHANGED agent /\ c.sess = s /\ sd'[s, d].status \in ActiveRow
      /\ Longer(queue'[d], queue[d], c) /\ OtherQueues(d)
  BY DEF Asks, IsActive, ActiveRow
<1>2. ASSUME NEW t \in Session, NEW e \in Device, sd'[t, e].status = "finished"
      PROVE  sd[t, e].status = "finished" /\ NothingNew(t, e)
  <2>1. t # s \/ e # d
    BY <1>1, <1>2 DEF ActiveRow
  <2>2. sd[t, e].status = "finished"
    BY <1>1, <1>2, <2>1 DEF OtherRows
  <2>3. CASE e # d
    BY <1>1, <2>2, <2>3 DEF NothingNew, OtherQueues
  <2>4. CASE e = d
    <3>1. t # s
      BY <2>1, <2>4
    <3>2. ASSUME NEW i \in DOMAIN queue'[d], queue'[d][i].sess = t
          PROVE  i \in DOMAIN queue[d] /\ queue[d][i].sess = t
      BY <1>1, <3>1, <3>2 DEF Longer
    <3>. QED  BY <1>1, <2>2, <2>4, <3>2 DEF NothingNew
  <2>. QED  BY <2>3, <2>4
<1>. QED  BY <1>2, FinishedKept DEF FinishedInv

LEMMA AdvancesFinished ==
  ASSUME QInv, SInv', FinishedInv, NEW d \in Device, 1 \in DOMAIN queue[d],
         NEW c, Advances(d, c), Progress(d, c)
  PROVE  FinishedInv'
<1>1. SInv /\ queue[d][1] \in Sent /\ agent[d] \in AgentState /\ agent \in [Device -> AgentState]
  BY QueueFacts DEF QInv, BoundsInv
<1>2. /\ Oldest(queue'[d], queue[d], c) /\ OtherQueues(d) /\ c.sess = queue[d][1].sess
      /\ UNCHANGED sd
  BY DEF Advances
<1>3. \A e \in Device : agent'[e].sess \in {agent[e].sess, None}
                                           \cup (IF e = d THEN {queue[d][1].sess} ELSE {})
  BY <1>1, IntentSession DEF Progress
<1>4. ASSUME NEW e \in Device
      PROVE  \A i \in DOMAIN queue'[e] : i \in DOMAIN queue[e] /\ queue'[e][i].sess = queue[e][i].sess
  BY <1>2 DEF Oldest, OtherQueues
<1>5. ASSUME NEW s \in Session, NEW e \in Device
      PROVE  NothingNew(s, e)
  <2>1. s # None
    BY SessionAssumption
  <2>. QED  BY <1>3, <1>4, <2>1 DEF NothingNew
<1>. QED  BY <1>1, <1>2, <1>5, FinishedKept DEF FinishedInv

LEMMA CreateFinished ==
  ASSUME SInv, SInv', FinishedInv, NEW s \in Session, NEW D \in SUBSET Device, Created(s, D),
         PhaseInv
  PROVE  FinishedInv'
<1>1. \A e \in Device : sd'[s, e].status # "finished"
  <2>1. SUFFICES ASSUME NEW e \in Device PROVE sd'[s, e].status # "finished"
    OBVIOUS
  <2>2. sd[s, e].status = "none"
    <3>1. PhaseOf(s) = "none"
      BY DEF Created, PhaseOf
    <3>. QED  BY <3>1, Seats DEF PhaseInv, PhaseSound
  <2>3. CASE e \in D
    BY <2>3 DEF Created
  <2>4. CASE e \notin D
    BY <2>2, <2>4 DEF Created
  <2>. QED  BY <2>3, <2>4
<1>2. ASSUME NEW t \in Session, NEW e \in Device, sd'[t, e].status = "finished"
      PROVE  sd[t, e].status = "finished" /\ NothingNew(t, e)
  <2>1. t # s
    BY <1>1, <1>2
  <2>2. sd[t, e].status = "finished" /\ UNCHANGED agent
    BY <1>2, <2>1 DEF Created
  <2>3. CASE e \notin D
    <3>1. queue'[e] = queue[e]
      BY <2>3 DEF Created
    <3>. QED  BY <2>2, <3>1 DEF NothingNew
  <2>4. CASE e \in D
    <3>1. PICK c : Longer(queue'[e], queue[e], c) /\ c.sess = s
      BY <2>4 DEF Created, Starts
    <3>2. ASSUME NEW i \in DOMAIN queue'[e], queue'[e][i].sess = t
          PROVE  i \in DOMAIN queue[e] /\ queue[e][i].sess = t
      BY <2>1, <3>1, <3>2 DEF Longer
    <3>. QED  BY <2>2, <3>2 DEF NothingNew
  <2>. QED  BY <2>3, <2>4
<1>. QED  BY <1>2, FinishedKept DEF FinishedInv

\* A result: only that of an END makes a row finished.
LEMMA EndsFinished ==
  ASSUME QInv, SInv', FinishedInv, NEW d \in Device, NEW i \in DOMAIN queue[d], Ends(d, i),
         NEW c, c = queue[d][i],
         sd'[c.sess, d].status = "finished" => \/ sd[c.sess, d].status = "finished"
                                               \/ FinishedOver(c.sess, d)'
  PROVE  FinishedInv'
<1>1. c \in Sent /\ c.sess \in Session /\ queue[d] \in Seq(Sent) /\ SInv
  BY QueueFacts DEF QInv, Sent
<1>2. UNCHANGED agent /\ Passes(queue'[d], queue[d], i) /\ OtherQueues(d)
  BY DEF Ends
<1>3. ASSUME NEW s \in Session, NEW e \in Device
      PROVE  NothingNew(s, e)
  <2>1. CASE e = d
    <3>1. ASSUME NEW j \in DOMAIN queue'[d]
          PROVE  \E k \in DOMAIN queue[d] : queue'[d][j].sess = queue[d][k].sess
      <4>1. PICK k \in DOMAIN queue[d] : queue'[d][j].sess = queue[d][k].sess
        BY ONLY <1>1, <1>2, <3>1, PassesFrom
      <4>. QED  BY <4>1
    <3>. QED  BY <1>2, <2>1, <3>1 DEF NothingNew
  <2>2. CASE e # d
    BY <1>2, <2>2 DEF NothingNew, OtherQueues
  <2>. QED  BY <2>1, <2>2
<1>4. ASSUME NEW s \in Session, NEW e \in Device, s # c.sess \/ e # d
      PROVE  sd'[s, e] = sd[s, e]
  BY <1>4 DEF Ends, ResultRow
<1>5. ASSUME NEW s \in Session, NEW e \in Device
      PROVE  FinishedOver(s, e)'
  <2>1. CASE s # c.sess \/ e # d
    BY <1>1, <1>3, <1>4, <2>1, FinishedKept
  <2>2. CASE s = c.sess /\ e = d /\ FinishedOver(c.sess, d)'
    BY <2>2
  <2>3. CASE s = c.sess /\ e = d /\ ~FinishedOver(c.sess, d)'
    BY <1>1, <1>3, <2>3, FinishedKept
  <2>. QED  BY <2>1, <2>2, <2>3
<1>. QED  BY <1>5 DEF FinishedInv

\* No failure finishes a headset ...
LEMMA FailedFinishes ==
  ASSUME QInv, PhaseInv, NEW d \in Device, NEW i \in DOMAIN queue[d], NEW c, c = queue[d][i],
         c.st # "ghost", Failed(d, c), ResultRow(d, c), sd'[c.sess, d].status = "finished"
  PROVE  sd[c.sess, d].status = "finished"
<1>1. /\ c \in Sent /\ c.sess \in Session /\ sd[c.sess, d] \in Row
      /\ sd \in [Session \X Device -> Row]
  BY WaitingRow DEF QInv, SInv, RowsTyped
<1>2. SUFFICES ASSUME sd'[c.sess, d] # sd[c.sess, d] PROVE FALSE
  OBVIOUS
<1>3. Outcome(sd[c.sess, d], sd'[c.sess, d], c)
  BY <1>1, <1>2 DEF ResultRow
<1>4. CASE c.type = "END"
  <2>1. sd[c.sess, d].op = "finish_pending" /\ EndFailed(d, c)
    BY <1>4, WaitingRow DEF Failed
  <2>2. sd' = [sd EXCEPT ![<<c.sess, d>>].status = "failed"]
    BY <2>1 DEF EndFailed
  <2>3. sd'[c.sess, d].status = "failed"
    BY <1>1, <2>2 DEF Row
  <2>. QED  BY <2>3
<1>5. CASE c.type # "END"
  <2>1. sd[c.sess, d].status = "finished"
    BY <1>3, <1>5 DEF Outcome
  <2>2. sd[c.sess, d].op = OpOf(c.type)
    BY <1>1, <1>2 DEF ResultRow
  <2>3. Holds(c.sess, d)
    BY <2>2, WaitingRow
  <2>. QED  BY <2>1, <2>3 DEF Holds, ActiveRow
<1>. QED  BY <1>4, <1>5

\* ... and the success that does leaves nothing of the session behind.
LEMMA HubFinished ==
  ASSUME QInv, SInv', PhaseInv, FinishedInv, NEW d \in Device,
         CommandSucceeds(d) \/ CommandFails(d) \/ GhostDone(d)
  PROVE  FinishedInv'
<1>1. 1 \in DOMAIN queue[d] /\ Ends(d, 1) /\ Busy(d) /\ Drop(d) /\ UNCHANGED agent
      /\ Current(d) = queue[d][1]
  BY HubEnds, DropEnds DEF QInv, CommandSucceeds, CommandFails, GhostDone
<1>2. PICK c : c = queue[d][1]
  OBVIOUS
<1>3. /\ c \in Sent /\ c.sess \in Session /\ c.sess # None /\ SInv /\ InTurn(queue[d])
      /\ CommandSound(d, c)
  BY <1>1, <1>2, QueueFacts, SessionAssumption DEF QInv, TurnsInv, Sent
<1>4. ASSUME sd'[c.sess, d].status = "finished", sd[c.sess, d].status # "finished"
      PROVE  FinishedOver(c.sess, d)'
  <2>1. sd' # sd
    BY <1>4
  <2>2. c.st # "ghost" /\ ResultRow(d, c)
    BY <1>1, <1>2, <2>1 DEF Ends
  <2>3. CommandSucceeds(d)
    <3>1. ~GhostDone(d)
      BY <2>1 DEF GhostDone
    <3>2. ~CommandFails(d)
      BY <1>1, <1>2, <1>4, <2>2, FailedFinishes DEF CommandFails
    <3>. QED  BY <3>1, <3>2
  <2>4. c.type = "END"
    <3>1. c.done /\ Outcome(sd[c.sess, d], sd'[c.sess, d], c)
      BY <1>1, <1>2, <1>4, <2>2, <2>3 DEF CommandSucceeds, ResultRow
    <3>2. sd[c.sess, d].op = OpOf(c.type)
      BY <1>4, <2>2 DEF ResultRow
    <3>3. Holds(c.sess, d)
      BY <1>1, <1>2, <2>2, <3>2, WaitingRow
    <3>. QED  BY <1>4, <3>1 DEF Outcome
  <2>5. agent'[d].sess # c.sess
    BY <1>1, <1>2, <1>3, <2>3, <2>4 DEF CommandSucceeds, CommandSound
  <2>6. \A k \in DOMAIN queue[d] : queue[d][k].sess = c.sess => k = 1
    BY <1>1, <1>2, <1>3, <2>4, QueueFacts DEF InTurn
  <2>7. \A j \in DOMAIN queue'[d] : queue'[d][j].sess # c.sess
    BY <1>1, <1>2, <1>3, <2>4, <2>6, AfterEnd
  <2>. QED  BY <2>5, <2>7 DEF FinishedOver
<1>. QED  BY <1>1, <1>2, <1>4, EndsFinished

LEMMA CancelFinished ==
  ASSUME QInv, SInv', PhaseInv, FinishedInv, NEW d \in Device, NEW i \in DOMAIN queue[d],
         CancelDeviceCommand(d, i)
  PROVE  FinishedInv'
<1>1. PICK c : c = queue[d][i]
  OBVIOUS
<1>2. Ends(d, i) /\ c.st # "ghost" /\ Failed(d, c)
  BY <1>1, CancelEnds DEF QInv, CancelDeviceCommand
<1>3. ResultRow(d, c)
  BY <1>1, <1>2 DEF Ends
<1>4. sd'[c.sess, d].status = "finished" => sd[c.sess, d].status = "finished"
  BY <1>1, <1>2, <1>3, FailedFinishes
<1>. QED  BY <1>1, <1>2, <1>4, EndsFinished

LEMMA NextFinished ==
  ASSUME QInv, PhaseInv, FinishedInv, [Next]_vars
  PROVE  FinishedInv'
<1>1. SInv /\ SInv'
  BY NextHolds DEF QInv, StepHolds
<1>2. ASSUME NEW s \in Session, NEW D \in SUBSET Device, NEW a \in App, CreateSession(s, D, a)
      PROVE  FinishedInv'
  BY <1>1, <1>2, CreateParts, CreateFinished DEF QInv
<1>3. ASSUME NEW s \in Session, NEW d \in Device, Operator(s, d) \/ ReconcileExpired(s, d)
      PROVE  FinishedInv'
  <2>1. CASE \E c : Asks(s, d, c)
    BY <1>1, <2>1, AsksFinished
  <2>2. CASE UNCHANGED <<sd, dev, queue, agent, hb>>
    <3>1. NoneFinishes
      BY <2>2 DEF NoneFinishes
    <3>. QED  BY <1>1, <2>2, <3>1, QuietFinished
  <2>. QED  BY <1>1, <1>3, <2>1, <2>2, OperatorAsks, ExpiryAsks
<1>4. ASSUME NEW s \in Session, NEW d \in Device, TimeUp(s, d)
      PROVE  FinishedInv'
  <2>1. NoneFinishes /\ UNCHANGED <<queue, agent>>
    BY <1>1, <1>4 DEF TimeUp, NoneFinishes, SInv, RowsTyped, Row
  <2>. QED  BY <1>1, <2>1, QuietFinished
<1>5. ASSUME NEW s \in Session, NEW d \in Device, CloudHeartbeat(s, d)
      PROVE  FinishedInv'
  <2>1. /\ UNCHANGED <<queue, agent>>
        /\ \/ sd' = sd
           \/ OtherRows(s, d) /\ sd'[s, d].status \in {"running", "paused"}
    BY <1>1, <1>5, HeartbeatParts, Zenon
  <2>2. NoneFinishes
    <3>1. CASE sd' = sd
      BY <3>1 DEF NoneFinishes
    <3>2. CASE OtherRows(s, d) /\ sd'[s, d].status \in {"running", "paused"}
      BY <3>2 DEF NoneFinishes, OtherRows
    <3>. QED  BY <2>1, <3>1, <3>2
  <2>. QED  BY <1>1, <2>1, <2>2, QuietFinished
<1>6. ASSUME NEW d \in Device, CommandSucceeds(d) \/ CommandFails(d) \/ GhostDone(d)
      PROVE  FinishedInv'
  BY <1>1, <1>6, HubFinished
<1>7. ASSUME NEW d \in Device,
             Claim(d) \/ AnnounceLost(d) \/ OutcomeUnknown(d) \/ Announce(d) \/ RunCommand(d)
      PROVE  FinishedInv'
  <2>1. 1 \in DOMAIN queue[d] /\ \E c : Advances(d, c) /\ Progress(d, c)
    BY <1>7, HubAdvances DEF QInv, BoundsInv
  <2>. QED  BY <1>1, <2>1, AdvancesFinished
<1>8. ASSUME NEW d \in Device, AgentHeartbeat(d) \/ AgentTimeUp(d) \/ Telemetry(d)
      PROVE  FinishedInv'
  <2>1. NoneFinishes /\ UNCHANGED queue
    BY <1>8 DEF AgentHeartbeat, AgentTimeUp, Telemetry, NoneFinishes
  <2>2. \A e \in Device : agent'[e].sess \in {agent[e].sess, None}
    BY <1>1, <1>8, HeadsetQuiet DEF QInv, Quiet, QuietHeadsets
  <2>. QED  BY <1>1, <2>1, <2>2, QuietFinished
<1>9. ASSUME NEW d \in Device, NEW i \in 1..Len(queue[d]), CancelDeviceCommand(d, i)
      PROVE  FinishedInv'
  <2>1. i \in DOMAIN queue[d]
    BY <1>9 DEF CancelDeviceCommand
  <2>. QED  BY <1>1, <1>9, <2>1, CancelFinished
<1>10. CASE UNCHANGED vars
  <2>1. NoneFinishes /\ UNCHANGED <<queue, agent>>
    BY <1>10 DEF NoneFinishes, vars
  <2>. QED  BY <1>1, <2>1, QuietFinished
<1>11. CASE Next
  BY <1>11, <1>2, <1>3, <1>4, <1>5, <1>6, <1>7, <1>8, <1>9 DEF Next, HubStep
<1>. QED  BY <1>10, <1>11

\* A headset whose stop was confirmed is out of the session for good, whatever
\* becomes of the other headsets and of the commands still queued for it.
THEOREM FinishedStaysClean == Spec => []FinishedIsClean
<1>1. Init => FinishedInv
  BY InitLife
<1>2. QInv /\ PhaseInv /\ FinishedInv /\ [Next]_vars => FinishedInv'
  BY NextFinished
<1>3. QInv /\ FinishedInv => FinishedIsClean
  BY Seats DEF QInv, FinishedInv, FinishedOver, FinishedIsClean
<1>. QED  BY <1>1, <1>2, <1>3, PhasesHold, PTL DEF Spec

-----------------------------------------------------------------------------
(* The announcement of START.  Whoever plays in a session was announced in *)
(* it, or another headset of the session was; unless an announcement was   *)
(* lost, that has moved the session on, and no session goes back.          *)

Begun(s) == sess[s].status \in {"preparing", "starting"}
WasAnnounced(c) ==
  /\ c.st # "silent"
  /\ c.type = "START" /\ c.st = "running" => sess[c.sess].status # "preparing"
StartedInv == used["lost"] = 0 =>
  /\ \A s \in Session : Begun(s) => \A d \in Device : ~Playing(s, d)
  /\ \A d \in Device : \A i \in DOMAIN queue[d] : WasAnnounced(queue[d][i])

\* What a step may do to sessions and queues.
NoneBegins == used["lost"] = 0 => \A s \in Session :
  /\ Begun(s)' => \A d \in Device : Playing(s, d)' => Begun(s) /\ Playing(s, d)
  /\ sess'[s].status = "preparing" =>
       \/ sess[s].status = "preparing"
       \/ \A d \in Device : \A i \in DOMAIN queue[d] : queue[d][i].sess # s
NoneSent == \A d \in Device : \A j \in DOMAIN queue'[d] :
  queue'[d][j].st \in {"created", "ghost"} \/ \E i \in DOMAIN queue[d] : queue'[d][j] = queue[d][i]

LEMMA StartedKept ==
  ASSUME SInv, StartedInv, UsedGoesOn, NoneBegins, NoneSent
  PROVE  StartedInv'
<1>1. SUFFICES ASSUME used'["lost"] = 0
               PROVE  /\ \A s \in Session : Begun(s)' => \A d \in Device : ~Playing(s, d)'
                      /\ \A d \in Device : \A j \in DOMAIN queue'[d] : WasAnnounced(queue[d][j])'
  BY DEF StartedInv
<1>2. used["lost"] = 0
  BY <1>1 DEF UsedGoesOn
<1>3. \A s \in Session : Begun(s)' => \A d \in Device : ~Playing(s, d)'
  BY <1>2 DEF StartedInv, NoneBegins
<1>4. ASSUME NEW d \in Device, NEW j \in DOMAIN queue'[d]
      PROVE  WasAnnounced(queue[d][j])'
  <2>1. CASE queue'[d][j].st \in {"created", "ghost"}
    BY <2>1 DEF WasAnnounced
  <2>2. ASSUME NEW i \in DOMAIN queue[d], queue'[d][j] = queue[d][i]
        PROVE  WasAnnounced(queue[d][j])'
    <3>1. queue[d][i].sess \in Session /\ WasAnnounced(queue[d][i])
      BY <1>2, QueueFacts DEF StartedInv
    <3>. QED  BY <1>2, <2>2, <3>1 DEF WasAnnounced, NoneBegins
  <2>. QED  BY <2>1, <2>2 DEF NoneSent
<1>. QED  BY <1>3, <1>4

\* Sessions and rows of which a step changes at most one.
LEMMA OneBegins ==
  ASSUME NEW s \in Session, OtherSessions(s),
         \A t \in Session, e \in Device : t # s => sd'[t, e] = sd[t, e],
         used["lost"] = 0 =>
           /\ Begun(s)' => \A d \in Device : Playing(s, d)' => Begun(s) /\ Playing(s, d)
           /\ sess'[s].status = "preparing" => sess[s].status = "preparing"
  PROVE  NoneBegins
BY DEF NoneBegins, OtherSessions, Begun, Playing

LEMMA SameBegins ==
  ASSUME UNCHANGED sess, \A t \in Session, e \in Device : Playing(t, e)' => Playing(t, e)
  PROVE  NoneBegins
BY DEF NoneBegins, Begun

\* refreshSessionAggregate: a session in which somebody plays is not at its
\* beginning.  Only one that is being prepared can be starting next.
LEMMA AggregateBegins ==
  ASSUME SInv, NEW s \in Session, NEW rows
  PROVE  /\ Aggregate(s, rows) = "preparing" => sess[s].status = "preparing"
         /\ Aggregate(s, rows) = "starting" => sess[s].status \in {"preparing", "starting"}
         /\ (\E e \in Device : rows[s, e].status = "running") /\ sess[s].status = "starting" =>
              Aggregate(s, rows) = "running"
<1> DEFINE now == sess[s].status
           in == {rows[s, d].status : d \in {e \in Device : rows[s, e].status # "none"}}
           target == IF in = {"finished"} THEN "completed"
                     ELSE IF in = {"failed"} THEN "failed"
                     ELSE IF "running" \in in THEN "running"
                     ELSE IF "paused" \in in
                       THEN IF "preparing" \in in THEN "running" ELSE "paused"
                     ELSE IF "preparing" \in in THEN "starting"
                     ELSE now
<1>1. now \in Statuses
  BY DEF SInv, SessTyped, SessionRow, Statuses
<1>2. Aggregate(s, rows) = IF now # "finishing" /\ target \in Transitions[now] THEN target ELSE now
  BY DEF Aggregate
<1>3. target \in {"completed", "failed", "running", "paused", "starting", now}
  OBVIOUS
<1>4. (\E e \in Device : rows[s, e].status = "running") => target = "running"
  <2>1. SUFFICES ASSUME NEW e \in Device, rows[s, e].status = "running"
                 PROVE  target = "running"
    OBVIOUS
  <2>2. "running" \in in
    BY <2>1
  <2> HIDE DEF in
  <2>. QED  BY <2>2
<1> HIDE DEF target
<1>. QED  BY <1>1, <1>2, <1>3, <1>4, TransitionsTo

\* A result other than that of START makes nobody play who did not.
LEMMA ResultPlays ==
  ASSUME QInv, PhaseInv, NEW d \in Device, NEW i \in DOMAIN queue[d], NEW c, c = queue[d][i],
         c.st # "ghost", c.type # "START", ResultRow(d, c), NEW t \in Session, NEW e \in Device,
         Playing(t, e)'
  PROVE  Playing(t, e)
<1>1. c \in Sent /\ c.sess \in Session /\ RowSound(c.sess, d)
  BY WaitingRow DEF QInv, TurnsInv
<1>2. CASE sd'[t, e] = sd[t, e]
  BY <1>2 DEF Playing
<1>3. CASE t = c.sess /\ e = d /\ sd[t, e].op = OpOf(c.type) /\ Outcome(sd[t, e], sd'[t, e], c)
  <2>1. c.type # "END"
    BY <1>3 DEF Outcome, Playing
  <2>. QED  BY <1>1, <1>3, <2>1, OpsOfTypes DEF RowSound, Sent
<1>. QED  BY <1>2, <1>3 DEF ResultRow

LEMMA ResultBegins ==
  ASSUME QInv, PhaseInv, NEW d \in Device, NEW i \in DOMAIN queue[d], NEW c, c = queue[d][i],
         c.st # "ghost", c.type # "START", ResultRow(d, c),
         UNCHANGED sess \/ \E next \in {"completed", "failed"} : Move(c.sess, next)
  PROVE  NoneBegins
<1>1. c.sess \in Session /\ SInv /\ OtherSessions(c.sess)
  BY WaitingRow DEF QInv, ResultRow, OtherSessions
<1>2. \A t \in Session, e \in Device : Playing(t, e)' => Playing(t, e)
  BY ResultPlays
<1>3. CASE UNCHANGED sess
  BY <1>2, <1>3, SameBegins
<1>4. ASSUME NEW next \in {"completed", "failed"}, Move(c.sess, next)
      PROVE  NoneBegins
  <2>1. sess'[c.sess].status = next
    BY <1>1, <1>4, MoveStatus DEF SInv
  <2>. QED  BY <1>1, <1>4, <2>1 DEF NoneBegins, OtherSessions, Begun, Playing, ResultRow
<1>. QED  BY <1>3, <1>4

\* Results.  The success of START finds its session announced.
LEMMA SucceededBegins ==
  ASSUME QInv, PhaseInv, StartedInv, NEW d \in Device, NEW i \in DOMAIN queue[d],
         NEW c, c = queue[d][i], c.st # "ghost", c.st \in {"running", "silent"},
         ResultRow(d, c), Succeeded(d, c)
  PROVE  NoneBegins
<1> DEFINE s == c.sess
           r == sd[s, d]
<1>1. /\ s \in Session /\ SInv /\ c \in Sent /\ r \in Row /\ OtherSessions(s)
      /\ \A t \in Session, e \in Device : t # s => sd'[t, e] = sd[t, e]
  BY WaitingRow DEF QInv, ResultRow, OtherSessions
<1>2. CASE c.type = "START" /\ StartSucceeded(d, c)
  <2>1. CASE r.op # "start_pending"
    BY <1>2, <2>1, SameBegins DEF StartSucceeded, Playing
  <2>2. CASE r.op = "start_pending"
    <3> DEFINE n == [r EXCEPT !.status = "running", !.op = "idle", !.app = c.app]
    <3>1. sd' = [sd EXCEPT ![<<s, d>>] = n] /\ Move(s, Aggregate(s, sd'))
      BY <1>1, <1>2, <2>2 DEF StartSucceeded, SInv, RowsTyped
    <3>2. n.status = "running"
      BY <1>1 DEF Row
    <3> HIDE DEF n
    <3>3. sd'[s, d].status = "running" /\ sess'[s].status = Aggregate(s, sd')
      <4>1. sd'[s, d] = n
        BY <1>1, <3>1 DEF SInv, RowsTyped
      <4>2. sess'[s].status = Aggregate(s, sd')
        BY <1>1, <3>1, MoveStatus DEF SInv
      <4>. QED  BY <3>2, <4>1, <4>2
    <3>4. used["lost"] = 0 => sess[s].status # "preparing"
      BY <1>2 DEF StartedInv, WasAnnounced
    <3>5. used["lost"] = 0 => ~Begun(s)'
      BY <1>1, <3>3, <3>4, AggregateBegins DEF Begun
    <3>. QED  BY <1>1, <3>5, OneBegins DEF Begun
  <2>. QED  BY <2>1, <2>2
<1>3. CASE c.type \in {"PAUSE", "RESUME", "EXTEND", "SWITCH"} /\ Confirmed(d, c)
  BY <1>3, ResultBegins DEF Confirmed
<1>4. CASE c.type = "END" /\ EndSucceeded(d, c)
  BY <1>4, ResultBegins DEF EndSucceeded
<1>. QED  BY <1>2, <1>3, <1>4 DEF Succeeded

LEMMA FailedBegins ==
  ASSUME QInv, PhaseInv, StartedInv, NEW d \in Device, NEW i \in DOMAIN queue[d],
         NEW c, c = queue[d][i], c.st # "ghost", ResultRow(d, c), Failed(d, c)
  PROVE  NoneBegins
<1> DEFINE s == c.sess
           r == sd[s, d]
<1>1. /\ s \in Session /\ SInv /\ c \in Sent /\ r \in Row /\ OtherSessions(s) /\ RowSound(s, d)
      /\ \A t \in Session, e \in Device : t # s \/ e # d => sd'[t, e] = sd[t, e]
  BY WaitingRow DEF QInv, TurnsInv, ResultRow, OtherSessions
<1>2. CASE c.type = "START" /\ StartFailed(d, c)
  <2>1. sess'[s].status = Aggregate(s, sd')
    BY <1>1, <1>2, MoveStatus DEF StartFailed, SInv
  <2>2. sd'[s, d].status \in {r.status, "failed"}
    <3>1. CASE r.op = "start_pending"
      <4> DEFINE n == [r EXCEPT !.status = "failed", !.op = "idle"]
      <4>1. sd' = [sd EXCEPT ![<<s, d>>] = n]
        BY <1>1, <1>2, <3>1 DEF StartFailed, SInv, RowsTyped
      <4>2. n.status = "failed"
        BY <1>1 DEF Row
      <4> HIDE DEF n
      <4>3. sd'[s, d] = n
        BY <1>1, <4>1 DEF SInv, RowsTyped
      <4>. QED  BY <4>2, <4>3
    <3>2. CASE r.op # "start_pending"
      BY <1>2, <3>2 DEF StartFailed
    <3>. QED  BY <3>1, <3>2
  <2>3. \A e \in Device : Playing(s, e)' => Playing(s, e)
    BY <1>1, <2>2 DEF Playing
  <2>4. /\ Begun(s)' => Begun(s)
        /\ sess'[s].status = "preparing" => sess[s].status = "preparing"
    BY <1>1, <2>1, AggregateBegins DEF Begun
  <2>. QED  BY <1>1, <2>3, <2>4, OneBegins
<1>3. CASE c.type \in {"PAUSE", "RESUME", "SWITCH"} /\ Restore(d, c)
  <2>1. CASE r.op # OpOf(c.type)
    BY <1>3, <2>1, SameBegins DEF Restore, Playing
  <2>2. CASE r.op = OpOf(c.type)
    <3>1. Playing(s, d)
      BY <1>1, <1>3, <2>2, OpsOfTypes DEF RowSound, Sent
    <3>2. used["lost"] = 0 => ~Begun(s)
      BY <1>1, <3>1 DEF StartedInv
    <3>3. sess'[s].status \in {sess[s].status, "running", "paused"}
      <4>1. UNCHANGED sess \/ Move(s, "paused") \/ Move(s, "running")
        BY <1>3, <2>2 DEF Restore
      <4>. QED  BY <1>1, <4>1, MoveStatus DEF SInv
    <3>4. used["lost"] = 0 => ~Begun(s)'
      BY <3>2, <3>3 DEF Begun
    <3>. QED  BY <1>1, <3>4, OneBegins DEF Begun
  <2>. QED  BY <2>1, <2>2
<1>4. CASE c.type = "EXTEND" /\ ExtendFailed(d, c)
  BY <1>4, ResultBegins DEF ExtendFailed
<1>5. CASE c.type = "END" /\ EndFailed(d, c)
  BY <1>5, ResultBegins DEF EndFailed
<1>. QED  BY <1>2, <1>3, <1>4, <1>5 DEF Failed

LEMMA EndsBegins ==
  ASSUME QInv, PhaseInv, StartedInv, UsedGoesOn, NEW d \in Device, NEW i \in DOMAIN queue[d], Ends(d, i),
         queue[d][i].st # "ghost" =>
           \/ queue[d][i].st \in {"running", "silent"} /\ Succeeded(d, queue[d][i])
           \/ Failed(d, queue[d][i])
  PROVE  StartedInv'
<1>1. NoneSent
  <2>1. \A j \in DOMAIN queue'[d] :
          queue'[d][j].st = "ghost" \/ \E k \in DOMAIN queue[d] : queue'[d][j] = queue[d][k]
    <3>1. queue[d] \in Seq(Sent) /\ Passes(queue'[d], queue[d], i)
      BY QueueFacts DEF QInv, Ends
    <3>. QED  BY <3>1, PassesFrom
  <2>2. OtherQueues(d)
    BY DEF Ends
  <2>. QED  BY <2>1, <2>2 DEF NoneSent, OtherQueues
<1>2. NoneBegins
  <2>1. CASE UNCHANGED <<sess, sd>>
    BY <2>1, SameBegins DEF Playing
  <2>2. CASE queue[d][i].st # "ghost" /\ ResultRow(d, queue[d][i])
    <3>1. PICK c : c = queue[d][i]
      OBVIOUS
    <3>2. /\ c.st # "ghost" /\ ResultRow(d, c)
          /\ (c.st \in {"running", "silent"} /\ Succeeded(d, c)) \/ Failed(d, c)
      BY <2>2, <3>1
    <3>. QED  BY <3>1, <3>2, SucceededBegins, FailedBegins
  <2>. QED  BY <2>1, <2>2 DEF Ends
<1>. QED  BY <1>1, <1>2, StartedKept DEF QInv

\* A request is about a player who plays; the session is then not at its
\* beginning, and goes on.
LEMMA AsksBegins ==
  ASSUME SInv, StartedInv, UsedGoesOn, NEW s \in Session, NEW d \in Device, NEW c, Asks(s, d, c)
  PROVE  StartedInv'
<1>1. /\ OtherRows(s, d) /\ OtherSessions(s) /\ OtherQueues(d)
      /\ Longer(queue'[d], queue[d], c) /\ c.st = "created"
  BY DEF Asks
<1>2. NoneSent
  <2>1. \A j \in DOMAIN queue'[d] : queue'[d][j].st = "created"
                                    \/ (j \in DOMAIN queue[d] /\ queue'[d][j] = queue[d][j])
    BY <1>1 DEF Longer
  <2>. QED  BY <1>1, <2>1 DEF NoneSent, OtherQueues
<1>3. \/ sess'[s].status \in {"paused", "running", "extended", "finishing"}
      \/ sess'[s].status = sess[s].status /\ sd'[s, d].status = sd[s, d].status
  BY DEF Asks
<1>4. NoneBegins
  BY <1>1, <1>3, OneBegins DEF OtherRows, Begun, Playing
<1>. QED  BY <1>2, <1>4, StartedKept

LEMMA AdvancesBegins ==
  ASSUME QInv, StartedInv, UsedGoesOn, NEW d \in Device, 1 \in DOMAIN queue[d],
         NEW c, Advances(d, c), Progress(d, c)
  PROVE  StartedInv'
<1> DEFINE b == queue[d][1]
<1>1. b \in Sent /\ b.sess \in Session /\ SInv
  BY QueueFacts DEF QInv
<1>2. /\ Oldest(queue'[d], queue[d], c) /\ OtherQueues(d) /\ UNCHANGED sd
      /\ c.type = b.type /\ c.sess = b.sess
  BY DEF Advances
<1>3. SUFFICES ASSUME used'["lost"] = 0
               PROVE  /\ \A s \in Session : Begun(s)' => \A e \in Device : ~Playing(s, e)'
                      /\ \A e \in Device : \A j \in DOMAIN queue'[e] : WasAnnounced(queue[e][j])'
  BY DEF StartedInv
<1>4. /\ \A s \in Session : Begun(s) => \A e \in Device : ~Playing(s, e)
      /\ \A e \in Device : \A j \in DOMAIN queue[e] : WasAnnounced(queue[e][j])
  BY <1>3 DEF UsedGoesOn, StartedInv
<1>5. /\ \A s \in Session : \/ sess'[s].status = sess[s].status
                            \/ sess[s].status = "preparing" /\ sess'[s].status = "starting"
      /\ c.st # "silent"
      /\ b.type = "START" /\ c.st = "running" => sess'[b.sess].status # "preparing"
  <2>1. CASE UNCHANGED sess /\ (c.st \in {"accepted", "unknown"} \/ c.st = b.st)
    <3>1. WasAnnounced(b)
      BY <1>4
    <3>. QED  BY <2>1, <3>1 DEF WasAnnounced
  <2>2. CASE c.st = "running" /\ IF b.type = "START" /\ sess[b.sess].status = "preparing"
                                 THEN Move(b.sess, "starting") ELSE UNCHANGED sess
    <3>1. CASE b.type = "START" /\ sess[b.sess].status = "preparing"
      <4>1. sess'[b.sess].status = "starting" /\ \A t \in Session : t # b.sess => sess'[t] = sess[t]
        BY <1>1, <2>2, <3>1, MoveTyped DEF SInv, Statuses, ActiveSession
      <4>. QED  BY <2>2, <3>1, <4>1
    <3>2. CASE ~(b.type = "START" /\ sess[b.sess].status = "preparing")
      BY <2>2, <3>2
    <3>. QED  BY <3>1, <3>2
  <2>. QED  BY <1>3, <2>1, <2>2, Zenon DEF Progress
<1>6. \A s \in Session : Begun(s)' => \A e \in Device : ~Playing(s, e)'
  BY <1>2, <1>4, <1>5 DEF Begun, Playing
<1>7. ASSUME NEW e \in Device, NEW j \in DOMAIN queue'[e]
      PROVE  WasAnnounced(queue[e][j])'
  <2>1. CASE e = d /\ j = 1
    BY <1>2, <1>5, <2>1 DEF WasAnnounced, Oldest
  <2>2. CASE e # d \/ j # 1
    <3>1. j \in DOMAIN queue[e] /\ queue'[e][j] = queue[e][j]
      BY <1>2, <2>2 DEF OtherQueues, Oldest
    <3>2. WasAnnounced(queue[e][j]) /\ queue[e][j].sess \in Session
      BY <1>1, <1>4, <3>1, QueueFacts
    <3>3. sess'[queue[e][j].sess].status = "preparing" => sess[queue[e][j].sess].status = "preparing"
      BY <1>5, <3>2
    <3>. QED  BY <3>1, <3>2, <3>3 DEF WasAnnounced
  <2>. QED  BY <2>1, <2>2
<1>. QED  BY <1>6, <1>7

LEMMA CreateBegins ==
  ASSUME SInv, PhaseInv, StartedInv, UsedGoesOn, NEW s \in Session, NEW D \in SUBSET Device, Created(s, D)
  PROVE  StartedInv'
<1>1. NoneSent
  <2>1. ASSUME NEW d \in D, NEW j \in DOMAIN queue'[d]
        PROVE  queue'[d][j].st = "created" \/ (j \in DOMAIN queue[d] /\ queue'[d][j] = queue[d][j])
    <3>1. PICK c : Longer(queue'[d], queue[d], c) /\ c.st = "created"
      BY <2>1 DEF Created, Starts
    <3>. QED  BY <2>1, <3>1 DEF Longer
  <2>2. \A d \in Device \ D : queue'[d] = queue[d]
    BY DEF Created
  <2>. QED  BY <2>1, <2>2 DEF NoneSent
<1>2. \A e \in Device : ~Playing(s, e)'
  <2>1. PhaseOf(s) = "none"
    BY DEF Created, PhaseOf
  <2>2. \A e \in Device : sd[s, e].status = "none"
    BY <2>1, Seats DEF PhaseInv, PhaseSound
  <2>3. ASSUME NEW e \in Device
        PROVE  sd'[s, e].status \in {"none", "preparing"}
    BY <2>2 DEF Created
  <2>. QED  BY <2>3 DEF Playing
<1>3. /\ OtherSessions(s) /\ \A t \in Session, e \in Device : t # s => sd'[t, e] = sd[t, e]
      /\ \A d \in Device : \A i \in DOMAIN queue[d] : queue[d][i].sess # s
  <2>1. \A d \in Device : \A i \in DOMAIN queue[d] : queue[d][i].sess \in Session /\ queue[d][i].sess < s
    BY QueueFacts DEF Created
  <2>. QED  BY <2>1, SessionAssumption DEF Created
<1>4. NoneBegins
  BY <1>2, <1>3 DEF NoneBegins, OtherSessions, Begun, Playing
<1>. QED  BY <1>1, <1>4, StartedKept

LEMMA NextStarted ==
  ASSUME QInv, PhaseInv, StartedInv, [Next]_vars
  PROVE  StartedInv'
<1>1. SInv
  BY DEF QInv
<1>2. ASSUME UNCHANGED queue
      PROVE  NoneSent
  BY <1>2 DEF NoneSent
<1>3. UNCHANGED used => UsedGoesOn
  BY UnusedGoesOn DEF QInv
<1>4. ASSUME NEW s \in Session, NEW D \in SUBSET Device, NEW a \in App, CreateSession(s, D, a)
      PROVE  StartedInv'
  BY <1>1, <1>3, <1>4, CreateParts, CreateBegins DEF QInv, CreateSession
<1>5. ASSUME NEW s \in Session, NEW d \in Device, Operator(s, d)
      PROVE  StartedInv'
  BY <1>1, <1>5, OperatorAsks, RequestSpends, AsksBegins DEF QInv
<1>6. ASSUME NEW s \in Session, NEW d \in Device, TimeUp(s, d)
      PROVE  StartedInv'
  <2>1. \A t \in Session, e \in Device : sd'[t, e].status = sd[t, e].status
    BY <1>1, <1>6 DEF TimeUp, SInv, RowsTyped, Row
  <2>2. NoneBegins
    BY <1>6, <2>1, SameBegins DEF TimeUp, Playing
  <2>. QED  BY <1>1, <1>2, <1>3, <1>6, <2>2, StartedKept DEF TimeUp
<1>7. ASSUME NEW s \in Session, NEW d \in Device, ReconcileExpired(s, d)
      PROVE  StartedInv'
  <2>1. UsedGoesOn
    BY <1>1, <1>7, RequestSpends DEF QInv
  <2>2. CASE \E c : Asks(s, d, c)
    BY <1>1, <2>1, <2>2, AsksBegins
  <2>3. CASE sess'[s].status = "finishing" /\ OtherSessions(s) /\ UNCHANGED <<sd, dev, queue, agent, hb>>
    <3>1. NoneBegins
      BY <2>3, OneBegins DEF Begun
    <3>. QED  BY <1>1, <1>2, <2>1, <2>3, <3>1, StartedKept
  <2>. QED  BY <1>1, <1>7, <2>2, <2>3, ExpiryAsks
<1>8. ASSUME NEW s \in Session, NEW d \in Device, CloudHeartbeat(s, d)
      PROVE  StartedInv'
  <2>1. UNCHANGED <<queue, used>>
    BY <1>8 DEF CloudHeartbeat
  <2>2. \/ UNCHANGED <<sess, sd>>
        \/ /\ OtherRows(s, d)
           /\ \/ /\ sess[s].status \in {"starting", "running", "extended"}
                 /\ IF sess[s].status = "starting" THEN Move(s, "running") ELSE UNCHANGED sess
              \/ Move(s, "paused")
    BY <1>1, <1>8, HeartbeatParts, Zenon
  <2>3. NoneBegins
    <3>1. CASE UNCHANGED <<sess, sd>>
      BY <3>1, SameBegins DEF Playing
    <3>2. CASE OtherRows(s, d) /\ \/ /\ sess[s].status \in {"starting", "running", "extended"}
                                     /\ IF sess[s].status = "starting" THEN Move(s, "running")
                                        ELSE UNCHANGED sess
                                  \/ Move(s, "paused")
      <4>1. OtherSessions(s) /\ sess'[s].status \in {"running", "extended", "paused"}
        BY <1>1, <3>2 DEF Move, OtherSessions, SInv, SessTyped, SessionRow
      <4>. QED  BY <3>2, <4>1, OneBegins DEF OtherRows, Begun
    <3>. QED  BY <2>2, <3>1, <3>2
  <2>. QED  BY <1>1, <1>2, <1>3, <2>1, <2>3, StartedKept
<1>9. ASSUME NEW d \in Device, CommandSucceeds(d) \/ CommandFails(d) \/ GhostDone(d)
      PROVE  StartedInv'
  <2>1. 1 \in DOMAIN queue[d] /\ Ends(d, 1) /\ Current(d) = queue[d][1] /\ UNCHANGED used
    BY <1>9, HubEnds, DropEnds DEF QInv, CommandSucceeds, CommandFails, GhostDone
  <2>2. queue[d][1].st # "ghost" =>
          \/ queue[d][1].st \in {"running", "silent"} /\ Succeeded(d, queue[d][1])
          \/ Failed(d, queue[d][1])
    BY <1>9, <2>1 DEF CommandSucceeds, CommandFails, GhostDone
  <2>. QED  BY <1>3, <2>1, <2>2, EndsBegins
<1>10. ASSUME NEW d \in Device,
              Claim(d) \/ AnnounceLost(d) \/ OutcomeUnknown(d) \/ Announce(d) \/ RunCommand(d)
       PROVE  StartedInv'
  <2>1. UNCHANGED used \/ Spend("lost") \/ Spend("unknown")
    BY <1>10 DEF Claim, AnnounceLost, OutcomeUnknown, Announce, RunCommand
  <2>2. UsedGoesOn
    BY <2>1, SpendGoesOn, UnusedGoesOn DEF QInv, Budget
  <2>3. 1 \in DOMAIN queue[d] /\ \E c : Advances(d, c) /\ Progress(d, c)
    BY <1>10, HubAdvances DEF QInv, BoundsInv
  <2>. QED  BY <2>2, <2>3, AdvancesBegins
<1>11. ASSUME NEW d \in Device, AgentHeartbeat(d) \/ AgentTimeUp(d) \/ Telemetry(d)
       PROVE  StartedInv'
  <2>1. UNCHANGED <<sess, sd, queue, used>>
    BY <1>11 DEF AgentHeartbeat, AgentTimeUp, Telemetry
  <2>2. NoneBegins
    BY <2>1, SameBegins DEF Playing
  <2>. QED  BY <1>1, <1>2, <1>3, <2>1, <2>2, StartedKept
<1>12. ASSUME NEW d \in Device, NEW i \in 1..Len(queue[d]), CancelDeviceCommand(d, i)
       PROVE  StartedInv'
  <2>1. i \in DOMAIN queue[d] /\ Failed(d, queue[d][i]) /\ Spend("cancel")
    BY <1>12 DEF CancelDeviceCommand
  <2>2. Ends(d, i)
    BY <1>12, <2>1, CancelEnds DEF QInv
  <2>3. UsedGoesOn
    BY <2>1, SpendGoesOn DEF QInv, Budget
  <2>. QED  BY <2>1, <2>2, <2>3, EndsBegins
<1>13. CASE UNCHANGED vars
  <2>1. UNCHANGED <<sess, sd, queue, used>>
    BY <1>13 DEF vars
  <2>2. NoneBegins
    BY <2>1, SameBegins DEF Playing
  <2>. QED  BY <1>1, <1>2, <1>3, <2>1, <2>2, StartedKept
<1>14. CASE Next
  BY <1>14, <1>4, <1>5, <1>6, <1>7, <1>8, <1>9, <1>10, <1>11, <1>12 DEF Next, HubStep
<1>. QED  BY <1>13, <1>14

\* The aggregate of docs/session-reliability.md, as long as no report of
\* `running' is lost: a session in which any headset plays has left preparing
\* and starting behind.
THEOREM AggregateFollows == Spec => []AggregateRunsIfReported
<1>1. Init => StartedInv
  BY DEF Init, StartedInv, Begun
<1>2. QInv /\ PhaseInv /\ StartedInv /\ [Next]_vars => StartedInv'
  BY NextStarted
<1>3. StartedInv => AggregateRunsIfReported
  BY DEF StartedInv, Begun, Playing, AggregateRunsIfReported, AggregateRuns
<1>. QED  BY <1>1, <1>2, <1>3, PhasesHold, PTL DEF Spec

=============================================================================
