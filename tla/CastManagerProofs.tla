------------------------- MODULE CastManagerProofs --------------------------
(***************************************************************************)
(* What CastManager guarantees for every set of headsets and viewers and   *)
(* every limit: a cast has one producer, replaced producers are not heard, *)
(* and a cast always has something that moves it on.                       *)
(***************************************************************************)
EXTENDS CastManager, SequenceTheorems, TLAPS

One(b) == IF b THEN 1 ELSE 0
Busy(R) == R.fallback # "none" \/ R.recovery # "none"

(***************************************************************************)
(* Types.  A fallback or a recovery that is under way stands for a         *)
(* producer that will be started; a record starts one, its fallback one,   *)
(* and every recovery one at most.                                         *)
(***************************************************************************)
Counted(R, P) ==
  /\ R.producer <= Len(P)
  /\ Len(P) + One(R.fallback # "none") + One(R.recovery # "none")
       <= 1 + R.attempts + One(R.fallbackUsed)
  /\ R.fallback # "none" => R.fallbackUsed
  /\ R.fallbackUsed => R.video
  /\ R.key = 0 <=> R.state = "none"
  /\ R.state = "none" => R = NoRecord /\ P = <<>>
RegistryInv ==
  /\ \A k \in Key : streams[k] # 0 => rec[streams[k]].key = k
  /\ \A v \in Viewer : view[v].at # 0 => rec[view[v].at].key # 0

TypeInv ==
  /\ streams \in [Key -> Rec \cup {0}]
  /\ rec \in [Rec -> Record]
  /\ prod \in [Rec -> Seq(Producer)]
  /\ view \in [Viewer -> View]
  /\ shut \in BOOLEAN
  /\ \A r \in Rec : Counted(rec[r], prod[r])
  /\ RegistryInv

(***************************************************************************)
(* Producers.  Only the current one can be heard, and only while nothing   *)
(* is about to replace it; of a cast in the registry, only the current one *)
(* carries the generation of the record and only it captures.              *)
(***************************************************************************)
ReplacedIn(R, i) == R.producer # i \/ Busy(R)
Audible(p) == p.heard \/ p.boot \/ p.errors > 0
Quiet(R, P, registered) ==
  /\ R.fallback = "none" \/ R.recovery = "none"
  /\ \A i \in DOMAIN P :
       /\ P[i].errors <= 1
       /\ P[i].gen <= R.gen
       /\ ~P[i].video /\ P[i].killed => ~P[i].alive
       /\ Audible(P[i]) => ~ReplacedIn(R, i)
       /\ registered /\ ReplacedIn(R, i) =>
            P[i].gen < R.gen /\ ~(P[i].alive /\ ~P[i].killed)
QuietInv == TypeInv /\ \A r \in Rec : Quiet(rec[r], prod[r], Registered(r))

(***************************************************************************)
(* Progress.  While a fallback or a recovery is under way there is nothing *)
(* left to terminate, so that a stop meanwhile is over at once and finds   *)
(* the record out of the registry when it continues: unless a producer has *)
(* died of a signal, which a stop waits for.                               *)
(***************************************************************************)
Served(R, P) == R.producer # 0 /\ P[R.producer].gen = R.gen /\ P[R.producer].heard
\* What moves a cast on, and processes that are gone were accounted for.
Moving(R, P) ==
  \/ R.state = "starting" /\ R.fallback # "none"
  \/ R.state = "starting" /\ Served(R, P) /\ P[R.producer].boot
  \/ R.state = "reconnecting" /\ R.recovery # "none"
  \/ R.state = "streaming" /\ Served(R, P) /\ P[R.producer].alive
Accounted(P) == \A i \in DOMAIN P : P[i].video /\ ~P[i].alive => P[i].killed
Lost(P) == \E i \in DOMAIN P : P[i].lost
Driven(R, P, registered) ==
  /\ Accounted(P)
  /\ registered <=> R.key # 0 /\ R.stop # "done"
  /\ registered /\ R.stop = "no" => Moving(R, P)
  /\ \/ Lost(P)
     \/ /\ registered /\ Busy(R) => R.stop = "no" /\ Prompt(P, R.producer)
        /\ R.stop = "pending" => R.state \in {"stopping", "failed"}
ViewersInv ==
  /\ NobodyStranded
  /\ \A v \in Viewer : view[v].st = "new" => view[v].at = 0
  /\ \A r \in Rec : Registered(r) /\ rec[r].stop = "no" =>
       ~shut /\ (Viewers(r) = {} => rec[r].idle)
CastInv == /\ QuietInv
           /\ \A r \in Rec : Driven(rec[r], prod[r], Registered(r))
           /\ ViewersInv
-----------------------------------------------------------------------------
(* What happens to a producer that was started: it only ever does less.    *)

Fade(p, q) ==
  /\ q \in Producer /\ q.gen = p.gen /\ q.video = p.video
  /\ q.alive => p.alive
  /\ p.killed => q.killed
  /\ p.lost => q.lost
  /\ q.heard => p.heard
  /\ q.boot => p.boot
  /\ q.errors <= p.errors
Fades(P, Q) == /\ Q \in Seq(Producer) /\ Len(Q) = Len(P)
               /\ \A j \in DOMAIN P : Fade(P[j], Q[j])

LEMMA FadeSelf ==
  ASSUME NEW p \in Producer
  PROVE  Fade(p, p)
BY DEF Fade, Producer

LEMMA FadeAt ==
  ASSUME NEW P \in Seq(Producer), NEW i \in DOMAIN P, NEW q, Fade(P[i], q)
  PROVE  /\ Fades(P, [P EXCEPT ![i] = q])
         /\ [P EXCEPT ![i] = q][i] = q
         /\ \A j \in DOMAIN P \ {i} : [P EXCEPT ![i] = q][j] = P[j]
<1> DEFINE Q == [P EXCEPT ![i] = q]
<1>1. DOMAIN P = 1..Len(P) /\ \A j \in DOMAIN P : P[j] \in Producer
  BY LenProperties, ElementOfSeq
<1>2. q \in Producer
  BY DEF Fade
<1>3. Q \in Seq(Producer) /\ Len(Q) = Len(P)
  BY <1>1, <1>2, ExceptSeq
<1>4. \A j \in DOMAIN P : Q[j] = IF j = i THEN q ELSE P[j]
  BY <1>1
<1>5. \A j \in DOMAIN P : Fade(P[j], Q[j])
  BY <1>1, <1>4, FadeSelf
<1>. QED  BY <1>3, <1>4, <1>5 DEF Fades

\* Fading twice is fading, and so is not to change.
LEMMA FadesTwice ==
  ASSUME NEW P \in Seq(Producer), NEW Q, NEW S, Fades(P, Q), Fades(Q, S)
  PROVE  Fades(P, S)
<1>1. DOMAIN P = 1..Len(P) /\ DOMAIN Q = 1..Len(Q)
  BY LenProperties DEF Fades
<1>2. ASSUME NEW j \in DOMAIN P
      PROVE  Fade(P[j], S[j])
  <2>1. Fade(P[j], Q[j]) /\ Fade(Q[j], S[j]) /\ P[j] \in Producer
    BY <1>1, ElementOfSeq DEF Fades
  <2>. QED  BY <2>1 DEF Fade, Producer
<1>. QED  BY <1>2 DEF Fades

LEMMA FadesSelf ==
  ASSUME NEW P \in Seq(Producer)
  PROVE  Fades(P, P)
BY FadeSelf, ElementOfSeq, LenProperties DEF Fades

\* A producer that is told to end.
Told(p) == [p EXCEPT !.heard = FALSE, !.boot = FALSE, !.alive = p.video /\ @,
                     !.killed = @ \/ p.alive \/ ~p.video]

LEMMA ToldFades ==
  ASSUME NEW p \in Producer
  PROVE  /\ Fade(p, Told(p))
         /\ ~Told(p).heard /\ ~Told(p).boot /\ Told(p).errors = p.errors
         /\ ~(Told(p).alive /\ ~Told(p).killed)
         /\ ~Told(p).video => ~Told(p).alive
         /\ Told(p).killed \/ ~p.alive
<1> DEFINE a == p.video /\ p.alive
           k == p.killed \/ p.alive \/ ~p.video
<1>1. a \in BOOLEAN /\ k \in BOOLEAN
  OBVIOUS
<1>2. Told(p) = [p EXCEPT !.heard = FALSE, !.boot = FALSE, !.alive = a, !.killed = k]
  BY DEF Told
<1> HIDE DEF a, k
<1>3. /\ Told(p) \in Producer /\ Told(p).gen = p.gen /\ Told(p).video = p.video
      /\ Told(p).alive = a /\ Told(p).killed = k /\ Told(p).heard = FALSE
      /\ Told(p).boot = FALSE /\ Told(p).errors = p.errors /\ Told(p).lost = p.lost
  BY <1>1, <1>2 DEF Producer
<1>4. (a => p.video /\ p.alive) /\ (p.killed \/ p.alive \/ ~p.video => k)
  BY DEF a, k
<1>5. p.errors <= p.errors
  BY DEF Producer
<1>6. Fade(p, Told(p))
  BY <1>3, <1>4, <1>5 DEF Fade
<1>. QED  BY <1>3, <1>4, <1>6

LEMMA ReleasedFades ==
  ASSUME NEW P \in Seq(Producer), NEW i \in 0..Len(P)
  PROVE  /\ Fades(P, Released(P, i))
         /\ i # 0 => Released(P, i)[i] = Told(P[i])
         /\ \A j \in DOMAIN P \ {i} : Released(P, i)[j] = P[j]
<1>1. DOMAIN P = 1..Len(P) /\ \A j \in DOMAIN P : P[j] \in Producer
  BY LenProperties, ElementOfSeq
<1>2. CASE i = 0
  BY <1>1, <1>2, FadesSelf DEF Released
<1>3. CASE i # 0
  <2>1. i \in DOMAIN P /\ P[i] \in Producer
    BY <1>1, <1>3
  <2>2. Released(P, i) = [P EXCEPT ![i] = Told(P[i])]
    BY <1>3, <2>1 DEF Released, Told, Producer
  <2>3. Fade(P[i], Told(P[i]))
    BY <2>1, ToldFades
  <2> DEFINE q == Told(P[i])
  <2> HIDE DEF q
  <2>4. /\ Fades(P, [P EXCEPT ![i] = q])
        /\ [P EXCEPT ![i] = q][i] = q
        /\ \A j \in DOMAIN P \ {i} : [P EXCEPT ![i] = q][j] = P[j]
    BY <2>1, <2>3, FadeAt DEF q
  <2>5. Released(P, i) = [P EXCEPT ![i] = q]
    BY <2>2 DEF q
  <2>. QED  BY <2>4, <2>5 DEF q
<1>. QED  BY <1>2, <1>3
LEMMA DisarmedFades ==
  ASSUME NEW P \in Seq(Producer), NEW i \in 0..Len(P), i # 0
  PROVE  /\ Fades(P, [P EXCEPT ![i].boot = FALSE])
         /\ ~[P EXCEPT ![i].boot = FALSE][i].boot
<1>1. i \in DOMAIN P /\ P[i] \in Producer
  BY LenProperties, ElementOfSeq
<1> DEFINE q == [P[i] EXCEPT !.boot = FALSE]
<1>2. /\ q \in Producer /\ q.gen = P[i].gen /\ q.video = P[i].video /\ q.alive = P[i].alive
      /\ q.killed = P[i].killed /\ q.lost = P[i].lost /\ q.heard = P[i].heard /\ q.boot = FALSE
      /\ q.errors = P[i].errors /\ P[i].errors \in 0..2
  BY <1>1 DEF Producer
<1>3. [P EXCEPT ![i].boot = FALSE] = [P EXCEPT ![i] = q]
  OBVIOUS
<1> HIDE DEF q
<1>4. Fade(P[i], q) /\ ~q.boot
  BY <1>2 DEF Fade
<1>. QED  BY <1>1, <1>3, <1>4, FadeAt

-----------------------------------------------------------------------------
(* Types.                                                                  *)

\* A step of one record: the others, and what is said of them, stay.
LEMMA OneRecordType ==
  ASSUME TypeInv, NEW r \in Rec, NEW R \in Record, NEW P \in Seq(Producer),
         Counted(R, P), rec[r].key # 0, R.key = rec[r].key,
         rec' = [rec EXCEPT ![r] = R], prod' = [prod EXCEPT ![r] = P],
         streams' \in [Key -> Rec \cup {0}], \A k \in Key : streams'[k] \in {streams[k], 0},
         view' \in [Viewer -> View], \A v \in Viewer : view'[v].at \in {view[v].at, 0},
         shut' \in BOOLEAN
  PROVE  TypeInv'
<1>1. rec' \in [Rec -> Record] /\ prod' \in [Rec -> Seq(Producer)]
  BY DEF TypeInv
<1>2. \A q \in Rec : rec'[q] = (IF q = r THEN R ELSE rec[q])
                     /\ prod'[q] = (IF q = r THEN P ELSE prod[q])
  BY DEF TypeInv
<1>3. \A q \in Rec : Counted(rec'[q], prod'[q])
  BY <1>2 DEF TypeInv
<1>4. \A q \in Rec : rec'[q].key = rec[q].key
  BY <1>2
<1>5. RegistryInv'
  BY <1>4 DEF RegistryInv, TypeInv, View
<1>. QED  BY <1>1, <1>3, <1>5 DEF TypeInv

LEMMA CountedKeeps ==
  ASSUME NEW R, NEW P, Counted(R, P), R.key # 0, NEW S, NEW Q, Len(Q) = Len(P),
         S.key = R.key, S.state # "none", S.producer = R.producer, S.fallback = R.fallback,
         S.recovery = R.recovery, S.attempts = R.attempts,
         S.fallbackUsed = R.fallbackUsed, S.video = R.video
  PROVE  Counted(S, Q)
BY DEF Counted

\* The views after the viewers of a record were sent away.
LEMMA AwayType ==
  ASSUME TypeInv, NEW D,
         view' = [v \in Viewer |-> IF view[v].at \in D
                                   THEN [view[v] EXCEPT !.at = 0, !.st = "gone"] ELSE view[v]]
  PROVE  /\ view' \in [Viewer -> View]
         /\ \A v \in Viewer : view'[v].at = IF view[v].at \in D THEN 0 ELSE view[v].at
<1>1. ASSUME NEW v \in Viewer
      PROVE  /\ view'[v] \in View
             /\ view'[v].at = IF view[v].at \in D THEN 0 ELSE view[v].at
  <2>1. view[v] \in View
    BY DEF TypeInv
  <2>. QED  BY <2>1 DEF View
<1>. QED  BY <1>1

LEMMA StopType ==
  ASSUME TypeInv, NEW r \in Rec, NEW R \in Record, NEW P \in Seq(Producer), Counted(R, P),
         rec[r].key # 0, R.key = rec[r].key, R.key \in Key, StopWith(r, R, P), shut' \in BOOLEAN
  PROVE  TypeInv'
<1> DEFINE stop == IF Prompt(P, R.producer) THEN "done" ELSE "pending"
           S == [R EXCEPT !.state = "stopping", !.idle = FALSE, !.stop = stop]
           Q == Released(P, R.producer)
<1>1. stop \in {"no", "pending", "done"}
  OBVIOUS
<1>2. rec' = [rec EXCEPT ![r] = S] /\ prod' = [prod EXCEPT ![r] = Q]
  BY DEF StopWith
<1>3. S \in Record /\ S.key = R.key /\ S.state = "stopping" /\ S.producer = R.producer
      /\ S.fallback = R.fallback /\ S.recovery = R.recovery /\ S.attempts = R.attempts
      /\ S.fallbackUsed = R.fallbackUsed /\ S.video = R.video
  <2> HIDE DEF stop
  <2>. QED  BY <1>1 DEF Record, State
<1>4. Q \in Seq(Producer) /\ Len(Q) = Len(P)
  <2>1. R.producer \in 0..Len(P)
    BY LenProperties DEF Record, Counted
  <2>. QED  BY <2>1, ReleasedFades DEF Fades
<1>5. streams' \in [Key -> Rec \cup {0}] /\ \A k \in Key : streams'[k] \in {streams[k], 0}
  BY DEF StopWith, TypeInv
<1>6. view' \in [Viewer -> View] /\ \A v \in Viewer : view'[v].at \in {view[v].at, 0}
  <2>1. view' = [v \in Viewer |-> IF view[v].at \in {r}
                                  THEN [view[v] EXCEPT !.at = 0, !.st = "gone"] ELSE view[v]]
    BY DEF StopWith
  <2>. QED  BY <2>1, AwayType
<1> HIDE DEF S, Q, stop
<1>7. Counted(S, Q)
  BY <1>3, <1>4, CountedKeeps
<1>. QED  BY <1>2, <1>3, <1>4, <1>5, <1>6, <1>7, OneRecordType

LEMMA GiveUpType ==
  ASSUME TypeInv, NEW r \in Rec, NEW R \in Record, NEW P \in Seq(Producer), Counted(R, P),
         rec[r].key # 0, R.key = rec[r].key, GiveUp(r, R, P), shut' \in BOOLEAN
  PROVE  TypeInv'
<1>1. CASE R.stop = "no"
  BY <1>1, StopType DEF GiveUp, Record
<1>2. CASE R.stop # "no"
  <2> DEFINE S == [R EXCEPT !.state = "failed"]
  <2>1. S \in Record /\ S.key = R.key /\ S.state = "failed" /\ S.producer = R.producer
        /\ S.fallback = R.fallback /\ S.recovery = R.recovery /\ S.attempts = R.attempts
        /\ S.fallbackUsed = R.fallbackUsed /\ S.video = R.video
    BY DEF Record, State
  <2>2. rec' = [rec EXCEPT ![r] = S] /\ prod' = [prod EXCEPT ![r] = P]
        /\ UNCHANGED <<streams, view>>
    BY <1>2 DEF GiveUp
  <2> HIDE DEF S
  <2>3. Counted(S, P)
    BY <2>1, CountedKeeps
  <2>. QED  BY <2>1, <2>2, <2>3, OneRecordType DEF TypeInv
<1>. QED  BY <1>1, <1>2

LEMMA FailType ==
  ASSUME TypeInv, NEW r \in Rec, NEW P \in Seq(Producer), Len(P) = Len(prod[r]),
         NEW R, R = rec[r], R.key # 0, NEW b, Fail(r, b, P), shut' = shut
  PROVE  TypeInv'
<1>0. /\ R \in Record /\ Counted(R, prod[r]) /\ R.producer \in 0..Len(P) /\ shut' \in BOOLEAN
      /\ prod[r] \in Seq(Producer) /\ Attempts \in Nat
  BY LenProperties, CastAssumption DEF TypeInv, Counted, Record
<1>1. Counted(R, P)
  BY <1>0 DEF Counted
<1>2. CASE prod' = [prod EXCEPT ![r] = P] /\ UNCHANGED <<streams, rec, view>>
  <2>1. rec' = [rec EXCEPT ![r] = R]
    BY <1>2 DEF TypeInv
  <2>. QED  BY <1>0, <1>1, <1>2, <2>1, OneRecordType DEF TypeInv
<1>3. Released(P, R.producer) \in Seq(Producer) /\ Len(Released(P, R.producer)) = Len(P)
  BY <1>0, ReleasedFades DEF Fades
<1>4. ASSUME ToFallback(r, b), NEW f \in {"now", "waiting"},
             rec' = [rec EXCEPT ![r].fallbackUsed = TRUE, ![r].gen = @ + 1, ![r].fallback = f],
             prod' = [prod EXCEPT ![r] = Released(P, R.producer)], UNCHANGED <<streams, view>>
      PROVE  TypeInv'
  <2> DEFINE g == R.gen + 1
             S == [R EXCEPT !.fallbackUsed = TRUE, !.gen = g, !.fallback = f]
  <2>0. g \in Nat
    BY <1>0 DEF Record
  <2> HIDE DEF g
  <2>1. S \in Record /\ S.key = R.key /\ S.state = R.state /\ S.producer = R.producer
        /\ S.fallback = f /\ S.recovery = R.recovery /\ S.attempts = R.attempts
        /\ S.fallbackUsed = TRUE /\ S.video = R.video
    BY <1>0, <2>0 DEF Record
  <2>2. rec' = [rec EXCEPT ![r] = S]
    BY <1>4 DEF TypeInv, g
  <2>3. R.video /\ R.fallbackUsed = FALSE /\ R.fallback = "none"
    BY <1>0, <1>4 DEF ToFallback, Counted, Record
  <2> HIDE DEF S
  <2>4. Counted(S, Released(P, R.producer))
    <3>1. One(S.fallback # "none") = 1 /\ One(R.fallback # "none") = 0
      BY <1>4, <2>1, <2>3 DEF One
    <3>2. One(S.fallbackUsed) = 1 /\ One(R.fallbackUsed) = 0
      BY <2>1, <2>3 DEF One
    <3>3. One(S.recovery # "none") = One(R.recovery # "none") /\ One(R.recovery # "none") \in 0..1
      BY <2>1 DEF One
    <3>4. Len(P) \in Nat /\ R.attempts \in Nat /\ R.state # "none"
      BY <1>0, <1>1, LenProperties DEF Counted, Record
    <3>. QED  BY <1>0, <1>1, <1>3, <2>1, <2>3, <3>1, <3>2, <3>3, <3>4 DEF Counted
  <2>. QED  BY <1>0, <1>3, <1>4, <2>1, <2>2, <2>4, OneRecordType DEF TypeInv
<1>5. ASSUME ToRecovery(r),
             rec' = [rec EXCEPT ![r].attempts = @ + 1, ![r].gen = @ + 1,
                                ![r].state = "reconnecting", ![r].recovery = "waiting"],
             prod' = [prod EXCEPT ![r] = Released(P, R.producer)], UNCHANGED <<streams, view>>
      PROVE  TypeInv'
  <2> DEFINE a == R.attempts + 1
             g == R.gen + 1
             S == [R EXCEPT !.attempts = a, !.gen = g,
                            !.state = "reconnecting", !.recovery = "waiting"]
  <2>0. g \in Nat /\ a \in 0..Attempts
    BY <1>0, <1>5 DEF Record, ToRecovery
  <2> HIDE DEF a, g
  <2>1. S \in Record /\ S.key = R.key /\ S.state = "reconnecting" /\ S.producer = R.producer
        /\ S.fallback = R.fallback /\ S.recovery = "waiting" /\ S.attempts = a
        /\ S.fallbackUsed = R.fallbackUsed /\ S.video = R.video
    BY <1>0, <2>0 DEF Record, State
  <2>2. rec' = [rec EXCEPT ![r] = S]
    BY <1>5 DEF TypeInv, a, g
  <2>3. R.recovery = "none"
    BY <1>5 DEF ToRecovery
  <2> HIDE DEF S
  <2>4. Counted(S, Released(P, R.producer))
    <3>1. One(S.recovery # "none") = 1 /\ One(R.recovery # "none") = 0
      BY <2>1, <2>3 DEF One
    <3>2. One(S.fallbackUsed) = One(R.fallbackUsed) /\ One(R.fallbackUsed) \in 0..1
      BY <2>1 DEF One
    <3>3. One(S.fallback # "none") = One(R.fallback # "none") /\ One(R.fallback # "none") \in 0..1
      BY <2>1 DEF One
    <3>4. Len(P) \in Nat /\ R.attempts \in Nat /\ R.state # "none" /\ S.attempts = R.attempts + 1
      BY <1>0, <1>1, <2>1, LenProperties DEF Counted, Record, a
    <3>. QED  BY <1>0, <1>1, <1>3, <2>1, <2>3, <3>1, <3>2, <3>3, <3>4 DEF Counted
  <2>5. R.key = S.key /\ rec[r].key # 0
    BY <2>1
  <2>6. \A k \in Key : streams'[k] \in {streams[k], 0}
    BY <1>5
  <2>7. \A v \in Viewer : view'[v].at \in {view[v].at, 0}
    BY <1>5
  <2>. QED
    BY <1>0, <1>3, <1>5, <2>1, <2>2, <2>4, <2>5, <2>6, <2>7, OneRecordType DEF TypeInv
<1>6. ASSUME NEW Q, Q = (IF R.producer = 0 THEN P ELSE [P EXCEPT ![R.producer].boot = FALSE]),
             GiveUp(r, R, Q)
      PROVE  TypeInv'
  <2>1. Q \in Seq(Producer) /\ Len(Q) = Len(P)
    BY <1>0, <1>6, DisarmedFades, FadesSelf DEF Fades
  <2>2. Counted(R, Q)
    BY <1>1, <2>1, <1>0 DEF Counted
  <2>. QED  BY <1>0, <1>6, <2>1, <2>2, GiveUpType
<1>. QED
  BY <1>2, <1>4, <1>5, <1>6 DEF Fail

\* The producer a start adds: what beginProducer makes of the record.
New(R, video, owned, errs) ==
  [gen |-> R.gen, video |-> video, alive |-> errs < 2, killed |-> errs = 2, lost |-> FALSE,
   heard |-> owned, errors |-> IF owned THEN errs ELSE 0, boot |-> owned]

LEMMA BeginAdds ==
  ASSUME NEW r \in Rec, NEW R \in Record, NEW P \in Seq(Producer), NEW owned \in BOOLEAN,
         Begin(r, R, P, owned)
  PROVE  \E errs \in SpawnErrors, video \in BOOLEAN :
           /\ New(R, video, owned, errs) \in Producer
           /\ ~video => errs = 0
           /\ prod' = [prod EXCEPT ![r] = Append(P, New(R, video, owned, errs))]
           /\ rec' = [rec EXCEPT ![r] = [R EXCEPT !.producer = IF owned THEN Len(P) + 1 ELSE @]]
<1> DEFINE video == R.video /\ ~R.fallbackUsed
<1>1. video \in BOOLEAN
  OBVIOUS
<1>2. PICK errs \in IF video THEN SpawnErrors ELSE {0} :
        /\ prod' = [prod EXCEPT ![r] = Append(P, New(R, video, owned, errs))]
        /\ rec' = [rec EXCEPT ![r] = [R EXCEPT !.producer = IF owned THEN Len(P) + 1 ELSE @]]
  BY DEF Begin, New
<1>3. errs \in SpawnErrors /\ errs \in 0..2 /\ (~video => errs = 0)
  BY <1>2, CastAssumption
<1> HIDE DEF video
<1>4. New(R, video, owned, errs) \in Producer
  <2> DEFINE a == errs < 2
             k == errs = 2
             e == IF owned THEN errs ELSE 0
  <2>1. a \in BOOLEAN /\ k \in BOOLEAN /\ e \in 0..2 /\ R.gen \in Nat
    BY <1>3 DEF Record
  <2>2. New(R, video, owned, errs)
        = [gen |-> R.gen, video |-> video, alive |-> a, killed |-> k, lost |-> FALSE,
           heard |-> owned, errors |-> e, boot |-> owned]
    BY DEF New
  <2> HIDE DEF a, k, e
  <2>. QED  BY <1>1, <2>1, <2>2 DEF Producer
<1>. QED  BY <1>1, <1>2, <1>3, <1>4

LEMMA AppendedType ==
  ASSUME NEW P \in Seq(Producer), NEW p \in Producer
  PROVE  /\ Append(P, p) \in Seq(Producer) /\ Len(Append(P, p)) = Len(P) + 1 /\ Len(P) \in Nat
         /\ DOMAIN Append(P, p) = 1..(Len(P) + 1) /\ DOMAIN P = 1..Len(P)
         /\ Append(P, p)[Len(P) + 1] = p
         /\ \A j \in DOMAIN P : Append(P, p)[j] = P[j]
<1>1. Len(P) \in Nat /\ DOMAIN P = 1..Len(P)
  BY LenProperties
<1>2. /\ Append(P, p) \in Seq(Producer) /\ Len(Append(P, p)) = Len(P) + 1
      /\ \A j \in 1..Len(P) : Append(P, p)[j] = P[j]
      /\ Append(P, p)[Len(P) + 1] = p
  BY AppendProperties
<1>3. DOMAIN Append(P, p) = 1..(Len(P) + 1)
  BY <1>2, LenProperties
<1>. QED  BY <1>1, <1>2, <1>3

\* Room for one more producer: a start that was announced.
LEMMA BeginType ==
  ASSUME TypeInv, NEW r \in Rec, NEW R \in Record, NEW P \in Seq(Producer), P = prod[r],
         rec[r].key # 0, R.key = rec[r].key, R.state # "none",
         R.fallback # "none" => R.fallbackUsed, R.fallbackUsed => R.video, R.producer = 0,
         Len(P) + 1 + One(R.fallback # "none") + One(R.recovery # "none")
           <= 1 + R.attempts + One(R.fallbackUsed),
         NEW owned \in BOOLEAN, Begin(r, R, P, owned), UNCHANGED <<streams, view, shut>>
  PROVE  TypeInv'
<1>1. PICK errs \in SpawnErrors, video \in BOOLEAN :
        /\ New(R, video, owned, errs) \in Producer
        /\ prod' = [prod EXCEPT ![r] = Append(P, New(R, video, owned, errs))]
        /\ rec' = [rec EXCEPT ![r] = [R EXCEPT !.producer = IF owned THEN Len(P) + 1 ELSE @]]
  BY BeginAdds
<1> DEFINE p == IF owned THEN Len(P) + 1 ELSE R.producer
           S == [R EXCEPT !.producer = p]
           Q == Append(P, New(R, video, owned, errs))
<1>2. Q \in Seq(Producer) /\ Len(Q) = Len(P) + 1 /\ p \in Nat /\ p <= Len(Q)
  BY <1>1, AppendedType
<1>3. rec' = [rec EXCEPT ![r] = S] /\ prod' = [prod EXCEPT ![r] = Q]
  BY <1>1
<1> HIDE DEF p, Q
<1>4. S \in Record /\ S.key = R.key /\ S.state = R.state /\ S.producer = p
      /\ S.fallback = R.fallback /\ S.recovery = R.recovery /\ S.attempts = R.attempts
      /\ S.fallbackUsed = R.fallbackUsed /\ S.video = R.video
  BY <1>2 DEF Record
<1> HIDE DEF S
<1>5. One(S.fallback # "none") = One(R.fallback # "none")
      /\ One(S.recovery # "none") = One(R.recovery # "none")
      /\ One(S.fallbackUsed) = One(R.fallbackUsed)
  BY <1>4
<1>6. Counted(S, Q)
  BY <1>2, <1>4, <1>5 DEF Counted
<1>7. /\ \A k \in Key : streams'[k] \in {streams[k], 0}
      /\ \A v \in Viewer : view'[v].at \in {view[v].at, 0}
  OBVIOUS
<1>. QED  BY <1>2, <1>3, <1>4, <1>6, <1>7, OneRecordType DEF TypeInv

\* The steps of one record that leave its producers as they are but for a timer.
LEMMA QuietStepType ==
  ASSUME TypeInv, NEW r \in Rec, rec[r].key # 0, NEW S \in Record, NEW Q,
         Fades(prod[r], Q), S.key = rec[r].key, S.state # "none",
         S.producer = rec[r].producer, S.fallback = rec[r].fallback,
         S.recovery = rec[r].recovery, S.attempts = rec[r].attempts,
         S.fallbackUsed = rec[r].fallbackUsed, S.video = rec[r].video,
         rec' = [rec EXCEPT ![r] = S], prod' = [prod EXCEPT ![r] = Q],
         streams' \in [Key -> Rec \cup {0}], \A k \in Key : streams'[k] \in {streams[k], 0},
         view' \in [Viewer -> View], \A v \in Viewer : view'[v].at \in {view[v].at, 0},
         shut' = shut
  PROVE  TypeInv'
<1>1. Counted(S, Q)
  BY CountedKeeps DEF TypeInv, Fades
<1>. QED  BY <1>1, OneRecordType DEF TypeInv, Fades

\* Whoever has a producer was started.
LEMMA HasProducer ==
  ASSUME TypeInv, NEW r \in Rec, NEW i \in DOMAIN prod[r]
  PROVE  /\ rec[r].key # 0 /\ rec[r].state # "none" /\ prod[r] \in Seq(Producer)
         /\ prod[r][i] \in Producer /\ i \in 1..Len(prod[r])
<1>1. prod[r] \in Seq(Producer) /\ Counted(rec[r], prod[r])
  BY DEF TypeInv
<1>2. i \in 1..Len(prod[r]) /\ prod[r][i] \in Producer
  BY <1>1, LenProperties, ElementOfSeq
<1>3. prod[r] # <<>>
  BY <1>1, <1>2
<1>. QED  BY <1>1, <1>2, <1>3 DEF Counted

\* What the callbacks change in a producer.
ErrorHeard(p) == [p EXCEPT !.errors = @ - 1]
Exited(p, other, lost) ==
  [p EXCEPT !.alive = other, !.killed = @ \/ ~other, !.lost = @ \/ lost]
Ended(p) == [p EXCEPT !.alive = FALSE]
Disarmed(p) == [p EXCEPT !.boot = FALSE]

LEMMA CallbackFades ==
  ASSUME NEW p \in Producer
  PROVE  /\ p.errors > 0 =>
              Fade(p, ErrorHeard(p)) /\ ErrorHeard(p).errors = p.errors - 1
         /\ Fade(p, Ended(p)) /\ ~Ended(p).alive /\ Ended(p).errors = p.errors
         /\ Fade(p, Disarmed(p)) /\ ~Disarmed(p).boot /\ Disarmed(p).errors = p.errors
         /\ Disarmed(p).alive = p.alive /\ Disarmed(p).killed = p.killed
         /\ Disarmed(p).heard = p.heard
<1>0. p.errors \in 0..2 /\ p.errors <= p.errors
  BY DEF Producer
<1>1. ASSUME p.errors > 0
      PROVE  Fade(p, ErrorHeard(p)) /\ ErrorHeard(p).errors = p.errors - 1
  <2> DEFINE e == p.errors - 1
  <2>1. e \in 0..2 /\ e <= p.errors
    BY <1>0, <1>1
  <2>2. ErrorHeard(p) = [p EXCEPT !.errors = e]
    BY DEF ErrorHeard
  <2> HIDE DEF e
  <2>3. /\ ErrorHeard(p) \in Producer /\ ErrorHeard(p).gen = p.gen
        /\ ErrorHeard(p).video = p.video /\ ErrorHeard(p).alive = p.alive
        /\ ErrorHeard(p).killed = p.killed /\ ErrorHeard(p).heard = p.heard
        /\ ErrorHeard(p).lost = p.lost
        /\ ErrorHeard(p).boot = p.boot /\ ErrorHeard(p).errors = e
    BY <2>1, <2>2 DEF Producer
  <2>4. Fade(p, ErrorHeard(p))
    BY <2>1, <2>3 DEF Fade
  <2>. QED  BY <2>3, <2>4 DEF e
<1>2. /\ Ended(p) \in Producer /\ Ended(p).gen = p.gen
      /\ Ended(p).video = p.video /\ Ended(p).alive = FALSE
      /\ Ended(p).killed = p.killed /\ Ended(p).lost = p.lost /\ Ended(p).heard = p.heard
      /\ Ended(p).boot = p.boot /\ Ended(p).errors = p.errors
  BY DEF Producer, Ended
<1>3. /\ Disarmed(p) \in Producer /\ Disarmed(p).gen = p.gen
      /\ Disarmed(p).video = p.video /\ Disarmed(p).alive = p.alive
      /\ Disarmed(p).killed = p.killed /\ Disarmed(p).lost = p.lost
      /\ Disarmed(p).heard = p.heard
      /\ Disarmed(p).boot = FALSE /\ Disarmed(p).errors = p.errors
  BY DEF Producer, Disarmed
<1>4. Fade(p, Ended(p)) /\ Fade(p, Disarmed(p))
  BY <1>0, <1>2, <1>3 DEF Fade
<1>. QED  BY <1>1, <1>2, <1>3, <1>4

LEMMA ExitFades ==
  ASSUME NEW p \in Producer, p.alive, NEW other \in BOOLEAN, NEW lost \in BOOLEAN
  PROVE  /\ Fade(p, Exited(p, other, lost))
         /\ Exited(p, other, lost).alive = other
         /\ Exited(p, other, lost).errors = p.errors
         /\ Exited(p, other, lost).heard = p.heard
         /\ Exited(p, other, lost).boot = p.boot
         /\ ~other => Exited(p, other, lost).killed
<1> DEFINE k == p.killed \/ ~other
           l == p.lost \/ lost
           q == Exited(p, other, lost)
<1>1. k \in BOOLEAN /\ l \in BOOLEAN /\ (p.killed => k) /\ (~other => k) /\ (p.lost => l)
  OBVIOUS
<1>2. q = [p EXCEPT !.alive = other, !.killed = k, !.lost = l]
  BY DEF Exited
<1> HIDE DEF k, l, q
<1>3. /\ q \in Producer /\ q.gen = p.gen /\ q.video = p.video /\ q.alive = other
      /\ q.killed = k /\ q.lost = l /\ q.heard = p.heard /\ q.boot = p.boot
      /\ q.errors = p.errors /\ p.errors \in 0..2
  BY <1>1, <1>2 DEF Producer
<1>4. Fade(p, q)
  BY <1>1, <1>3 DEF Fade
<1>. QED  BY <1>1, <1>3, <1>4 DEF q

\* A callback: the producer fades and the record may fail over it.
Fails(r, P) ==
  \E b \in BOOLEAN : (b => rec[r].state = "starting") /\ Fail(r, b, P)
Heard(r, i, q) ==
  LET P == [prod[r] EXCEPT ![i] = q]
  IN /\ Fade(prod[r][i], q)
     /\ shut' = shut
     /\ \/ Fails(r, P)
        \/ prod' = [prod EXCEPT ![r] = P] /\ UNCHANGED <<streams, rec, view>>

LEMMA CallbackType ==
  ASSUME TypeInv, NEW r \in Rec, NEW i \in DOMAIN prod[r], NEW q, Heard(r, i, q)
  PROVE  TypeInv'
<1> DEFINE P == [prod[r] EXCEPT ![i] = q]
<1>1. rec[r].key # 0 /\ rec[r].state # "none" /\ prod[r] \in Seq(Producer)
  BY HasProducer
<1>2. Fade(prod[r][i], q)
  BY DEF Heard
<1>3. Fades(prod[r], P)
  BY <1>1, <1>2, FadeAt
<1>4. ASSUME NEW b \in BOOLEAN, Fail(r, b, P)
      PROVE  TypeInv'
  <2> HIDE DEF P
  <2>. QED  BY <1>1, <1>3, <1>4, FailType DEF Heard, Fades
<1>5. CASE prod' = [prod EXCEPT ![r] = P] /\ UNCHANGED <<streams, rec, view>>
  <2>1. rec[r] \in Record /\ rec' = [rec EXCEPT ![r] = rec[r]]
    BY <1>5 DEF TypeInv
  <2>2. streams' \in [Key -> Rec \cup {0}] /\ view' \in [Viewer -> View]
    BY <1>5 DEF TypeInv
  <2>3. /\ \A k \in Key : streams'[k] \in {streams[k], 0}
        /\ \A v \in Viewer : view'[v].at \in {view[v].at, 0}
    BY <1>5
  <2> HIDE DEF P
  <2>. QED  BY <1>1, <1>3, <1>5, <2>1, <2>2, <2>3, QuietStepType DEF Heard
<1>. QED  BY <1>4, <1>5 DEF Heard, Fails

LEMMA ErrorIsHeard ==
  ASSUME TypeInv, NEW r \in Rec, NEW i \in DOMAIN prod[r], ProcessError(r, i)
  PROVE  /\ Heard(r, i, ErrorHeard(prod[r][i]))
         /\ Fails(r, [prod[r] EXCEPT ![i] = ErrorHeard(prod[r][i])])
         /\ prod[r][i].errors > 0
<1>1. prod[r][i] \in Producer
  BY HasProducer
<1>2. [prod[r] EXCEPT ![i].errors = @ - 1] = [prod[r] EXCEPT ![i] = ErrorHeard(prod[r][i])]
  BY DEF ErrorHeard
<1> DEFINE b == rec[r].state = "starting"
<1>3. /\ b \in BOOLEAN /\ (b => rec[r].state = "starting")
      /\ Fail(r, b, [prod[r] EXCEPT ![i] = ErrorHeard(prod[r][i])])
  BY <1>2 DEF ProcessError
<1> HIDE DEF b
<1>4. Fade(prod[r][i], ErrorHeard(prod[r][i]))
  BY <1>1, CallbackFades DEF ProcessError
<1>. QED  BY <1>3, <1>4 DEF Heard, Fails, ProcessError

LEMMA CloseIsHeard ==
  ASSUME TypeInv, NEW r \in Rec, NEW i \in DOMAIN prod[r], ProcessCloses(r, i)
  PROVE  \E other, lost \in BOOLEAN :
           LET q == Exited(prod[r][i], other, lost)
               P == [prod[r] EXCEPT ![i] = q]
           IN /\ Heard(r, i, q)
              /\ prod[r][i].video /\ prod[r][i].alive
              /\ IF Current(r, i) THEN Fails(r, P)
                 ELSE prod' = [prod EXCEPT ![r] = P] /\ UNCHANGED <<streams, rec, view>>
<1> DEFINE p == prod[r][i]
<1>1. p \in Producer /\ p.alive /\ p.video
  BY HasProducer DEF ProcessCloses
<1>2. PICK other \in BOOLEAN, lost \in BOOLEAN :
        LET P == [prod[r] EXCEPT ![i].alive = other, ![i].killed = @ \/ ~other,
                                 ![i].lost = @ \/ lost]
        IN IF Current(r, i) THEN Fail(r, rec[r].state = "starting", P)
           ELSE prod' = [prod EXCEPT ![r] = P] /\ UNCHANGED <<streams, rec, view>>
  BY DEF ProcessCloses
<1> DEFINE b == rec[r].state = "starting"
           q == Exited(p, other, lost)
           P == [prod[r] EXCEPT ![i] = q]
<1>3. [prod[r] EXCEPT ![i].alive = other, ![i].killed = @ \/ ~other,
                   ![i].lost = @ \/ lost] = P
  BY <1>1, HasProducer DEF Exited
<1>4. /\ b \in BOOLEAN /\ (b => rec[r].state = "starting")
      /\ IF Current(r, i) THEN Fail(r, b, P)
         ELSE prod' = [prod EXCEPT ![r] = P] /\ UNCHANGED <<streams, rec, view>>
  BY <1>2, <1>3
<1>5. Fade(p, q)
  BY <1>1, ExitFades
<1> HIDE DEF b, q, P
<1>6. Heard(r, i, q)
  BY <1>4, <1>5 DEF Heard, Fails, ProcessCloses, P
<1>7. IF Current(r, i) THEN Fails(r, P)
      ELSE prod' = [prod EXCEPT ![r] = P] /\ UNCHANGED <<streams, rec, view>>
  BY <1>4 DEF Fails
<1>. QED  BY <1>1, <1>4, <1>6, <1>7 DEF q, P

LEMMA EndIsHeard ==
  ASSUME TypeInv, NEW r \in Rec, NEW i \in DOMAIN prod[r], CaptureFails(r, i)
  PROVE  LET q == Ended(prod[r][i])
             P == [prod[r] EXCEPT ![i] = q]
         IN /\ Heard(r, i, q)
            /\ ~prod[r][i].video /\ prod[r][i].alive
            /\ IF prod[r][i].heard THEN Fails(r, P)
               ELSE prod' = [prod EXCEPT ![r] = P] /\ UNCHANGED <<streams, rec, view>>
<1> DEFINE b == rec[r].state = "starting"
           q == Ended(prod[r][i])
           P == [prod[r] EXCEPT ![i] = q]
<1>1. prod[r][i] \in Producer
  BY HasProducer
<1>2. [prod[r] EXCEPT ![i].alive = FALSE] = P
  BY DEF Ended
<1>3. /\ b \in BOOLEAN /\ (b => rec[r].state = "starting")
      /\ IF prod[r][i].heard THEN Fail(r, b, P)
         ELSE prod' = [prod EXCEPT ![r] = P] /\ UNCHANGED <<streams, rec, view>>
  BY <1>2 DEF CaptureFails
<1>4. Fade(prod[r][i], q)
  BY <1>1, CallbackFades
<1> HIDE DEF b, q, P
<1>5. IF prod[r][i].heard THEN Fails(r, P)
      ELSE prod' = [prod EXCEPT ![r] = P] /\ UNCHANGED <<streams, rec, view>>
  BY <1>3 DEF Fails
<1>6. Heard(r, i, q)
  BY <1>4, <1>5 DEF Heard, CaptureFails, P
<1>. QED  BY <1>5, <1>6 DEF CaptureFails, q, P

LEMMA BootIsHeard ==
  ASSUME TypeInv, NEW r \in Rec, NEW i \in DOMAIN prod[r], BootTimeout(r, i)
  PROVE  LET q == Disarmed(prod[r][i])
             P == [prod[r] EXCEPT ![i] = q]
         IN /\ Heard(r, i, q)
            /\ prod[r][i].boot
            /\ IF rec[r].state = "starting" /\ prod[r][i].gen = rec[r].gen
               THEN Fails(r, P)
               ELSE prod' = [prod EXCEPT ![r] = P] /\ UNCHANGED <<streams, rec, view>>
<1> DEFINE q == Disarmed(prod[r][i])
           P == [prod[r] EXCEPT ![i] = q]
<1>1. prod[r][i] \in Producer
  BY HasProducer
<1>2. [prod[r] EXCEPT ![i].boot = FALSE] = P
  BY DEF Disarmed
<1>3. IF rec[r].state = "starting" /\ prod[r][i].gen = rec[r].gen
      THEN Fails(r, P)
      ELSE prod' = [prod EXCEPT ![r] = P] /\ UNCHANGED <<streams, rec, view>>
  BY <1>2 DEF BootTimeout, Fails
<1>4. Fade(prod[r][i], q)
  BY <1>1, CallbackFades
<1> HIDE DEF q, P
<1>5. Heard(r, i, q)
  BY <1>3, <1>4 DEF Heard, BootTimeout, P
<1>. QED  BY <1>3, <1>5 DEF BootTimeout, q, P

\* The continuations after an await.
LEMMA ContinueType ==
  ASSUME TypeInv, NEW r \in Rec, Continuation(r)
  PROVE  TypeInv'
<1> DEFINE R == rec[r]
           P == prod[r]
<1>1. R \in Record /\ P \in Seq(Producer) /\ Counted(R, P) /\ Registered(r) \in BOOLEAN
      /\ Len(P) \in Nat /\ shut \in BOOLEAN
  BY LenProperties DEF TypeInv, Registered
<1>2. R.fallback # "none" \/ R.recovery # "none" \/ R.stop # "no" =>
        R.key # 0 /\ R.state # "none"
  BY <1>1 DEF Counted, NoRecord
<1>3. CASE StopFinishes(r)
  <2> DEFINE S == [R EXCEPT !.stop = "done"]
  <2>1. S \in Record /\ S.key = R.key /\ S.state = R.state /\ S.producer = R.producer
        /\ S.fallback = R.fallback /\ S.recovery = R.recovery /\ S.attempts = R.attempts
        /\ S.fallbackUsed = R.fallbackUsed /\ S.video = R.video
    BY <1>1 DEF Record
  <2>2. rec' = [rec EXCEPT ![r] = S] /\ prod' = [prod EXCEPT ![r] = P] /\ Fades(P, P)
    BY <1>1, <1>3, FadesSelf DEF StopFinishes, TypeInv
  <2>3. streams' \in [Key -> Rec \cup {0}] /\ \A k \in Key : streams'[k] \in {streams[k], 0}
    BY <1>3 DEF StopFinishes, TypeInv
  <2>4. view' \in [Viewer -> View] /\ \A v \in Viewer : view'[v].at \in {view[v].at, 0}
    BY <1>3 DEF StopFinishes, TypeInv
  <2>5. R.key # 0 /\ S.state # "none" /\ shut' = shut
    BY <1>2, <1>3, <2>1 DEF StopFinishes
  <2> HIDE DEF S
  <2>. QED  BY <2>1, <2>2, <2>3, <2>4, <2>5, QuietStepType
<1>4. CASE FallbackContinues(r)
  <2> DEFINE S == [R EXCEPT !.fallback = "none", !.producer = 0, !.state = "starting"]
  <2>1. S \in Record /\ S.key = R.key /\ S.state = "starting" /\ S.producer = 0
        /\ S.fallback = "none" /\ S.recovery = R.recovery /\ S.attempts = R.attempts
        /\ S.fallbackUsed = R.fallbackUsed /\ S.video = R.video
    BY <1>1 DEF Record, State
  <2>2. /\ One(S.fallback # "none") = 0 /\ One(R.fallback # "none") = 1
        /\ One(S.recovery # "none") = One(R.recovery # "none") /\ One(R.recovery # "none") \in 0..1
        /\ One(S.fallbackUsed) = One(R.fallbackUsed) /\ One(R.fallbackUsed) \in 0..1
    BY <1>4, <2>1 DEF One, FallbackContinues
  <2>3. R.attempts \in Nat
    BY <1>1, CastAssumption DEF Record
  <2>4. Begin(r, S, P, Registered(r)) /\ UNCHANGED <<streams, view, shut>> /\ R.key # 0
    BY <1>2, <1>4 DEF FallbackContinues
  <2> HIDE DEF S
  <2>5. Len(P) + 1 + One(S.fallback # "none") + One(S.recovery # "none")
          <= 1 + S.attempts + One(S.fallbackUsed)
    BY <1>1, <2>1, <2>2, <2>3 DEF Counted
  <2>6. S.fallbackUsed => S.video
    BY <1>1, <2>1 DEF Counted
  <2>. QED  BY <1>1, <2>1, <2>4, <2>5, <2>6, BeginType
<1>5. CASE RecoveryResolves(r)
  <2> DEFINE S == [R EXCEPT !.recovery = "none", !.producer = 0, !.state = "starting"]
  <2>1. S \in Record /\ S.key = R.key /\ S.state = "starting" /\ S.producer = 0
        /\ S.fallback = R.fallback /\ S.recovery = "none" /\ S.attempts = R.attempts
        /\ S.fallbackUsed = R.fallbackUsed /\ S.video = R.video
    BY <1>1 DEF Record, State
  <2>2. /\ One(S.recovery # "none") = 0 /\ One(R.recovery # "none") = 1
        /\ One(S.fallback # "none") = One(R.fallback # "none") /\ One(R.fallback # "none") \in 0..1
        /\ One(S.fallbackUsed) = One(R.fallbackUsed) /\ One(R.fallbackUsed) \in 0..1
    BY <1>5, <2>1 DEF One, RecoveryResolves
  <2>3. R.attempts \in Nat
    BY <1>1, CastAssumption DEF Record
  <2>4. Begin(r, S, P, Registered(r)) /\ UNCHANGED <<streams, view, shut>> /\ R.key # 0
    BY <1>2, <1>5 DEF RecoveryResolves
  <2> HIDE DEF S
  <2>5. Len(P) + 1 + One(S.fallback # "none") + One(S.recovery # "none")
          <= 1 + S.attempts + One(S.fallbackUsed)
    BY <1>1, <2>1, <2>2, <2>3 DEF Counted
  <2>6. (S.fallbackUsed => S.video) /\ (S.fallback # "none" => S.fallbackUsed)
    BY <1>1, <2>1 DEF Counted
  <2>. QED  BY <1>1, <2>1, <2>4, <2>5, <2>6, BeginType
<1>6. ASSUME R.recovery # "none", GiveUp(r, [R EXCEPT !.recovery = "none"], P), shut' = shut
      PROVE  TypeInv'
  <2> DEFINE S == [R EXCEPT !.recovery = "none"]
  <2>1. S \in Record /\ S.key = R.key /\ S.state = R.state /\ S.producer = R.producer
        /\ S.fallback = R.fallback /\ S.recovery = "none" /\ S.attempts = R.attempts
        /\ S.fallbackUsed = R.fallbackUsed /\ S.video = R.video
    BY <1>1 DEF Record
  <2>2. /\ One(S.recovery # "none") = 0 /\ One(R.recovery # "none") = 1
        /\ One(S.fallback # "none") = One(R.fallback # "none") /\ One(R.fallback # "none") \in 0..1
        /\ One(S.fallbackUsed) = One(R.fallbackUsed) /\ One(R.fallbackUsed) \in 0..1
    BY <1>6, <2>1 DEF One
  <2>3. R.attempts \in Nat /\ R.key # 0 /\ R.state # "none"
    BY <1>1, <1>2, <1>6, CastAssumption DEF Record
  <2>4. GiveUp(r, S, P)
    BY <1>6
  <2> HIDE DEF S
  <2>5. Counted(S, P)
    BY <1>1, <2>1, <2>2, <2>3 DEF Counted
  <2>. QED  BY <1>1, <1>6, <2>1, <2>3, <2>4, <2>5, GiveUpType
<1>7. CASE RecoveryFails(r)
  BY <1>6, <1>7 DEF RecoveryFails
<1>8. CASE RecoveryWakes(r)
  <2>1. CASE Registered(r) /\ Viewers(r) # {} /\ ~shut
    <3> DEFINE S == [R EXCEPT !.recovery = "resolving"]
    <3>1. S \in Record /\ S.key = R.key /\ S.state = R.state /\ S.producer = R.producer
          /\ S.fallback = R.fallback /\ S.recovery = "resolving" /\ S.attempts = R.attempts
          /\ S.fallbackUsed = R.fallbackUsed /\ S.video = R.video
      BY <1>1 DEF Record
    <3>2. /\ One(S.recovery # "none") = 1 /\ One(R.recovery # "none") = 1
          /\ One(S.fallback # "none") = One(R.fallback # "none")
          /\ One(S.fallbackUsed) = One(R.fallbackUsed)
      BY <1>8, <3>1 DEF One, RecoveryWakes
    <3>3. rec' = [rec EXCEPT ![r] = S] /\ prod' = [prod EXCEPT ![r] = P] /\ R.key # 0
          /\ R.state # "none" /\ UNCHANGED <<streams, view, shut>>
      BY <1>2, <1>8, <2>1 DEF RecoveryWakes, TypeInv
    <3> HIDE DEF S
    <3>4. Counted(S, P)
      BY <1>1, <3>1, <3>2, <3>3 DEF Counted
    <3>5. /\ \A k \in Key : streams'[k] \in {streams[k], 0}
          /\ \A v \in Viewer : view'[v].at \in {view[v].at, 0}
      BY <3>3
    <3>. QED  BY <1>1, <3>1, <3>3, <3>4, <3>5, OneRecordType DEF TypeInv
  <2>2. CASE ~(Registered(r) /\ Viewers(r) # {} /\ ~shut)
    BY <1>6, <1>8, <2>2 DEF RecoveryWakes
  <2>. QED  BY <2>1, <2>2
<1>. QED  BY <1>3, <1>4, <1>5, <1>7, <1>8 DEF Continuation

\* Detached viewers: only the timer of the record changes.
Detached(r, R, D) == R.idle \/ (D # {} /\ Viewers(r) = D /\ R.stop = "no" /\ ~shut)

LEMMA DetachIs ==
  ASSUME NEW r, NEW R \in Record, NEW D, Detach(r, R, D)
  PROVE  \E S \in Record :
           /\ rec' = [rec EXCEPT ![r] = S]
           /\ S.idle <=> Detached(r, R, D)
           /\ S.key = R.key /\ S.state = R.state /\ S.producer = R.producer /\ S.gen = R.gen
           /\ S.fallback = R.fallback /\ S.recovery = R.recovery /\ S.attempts = R.attempts
           /\ S.fallbackUsed = R.fallbackUsed /\ S.video = R.video /\ S.stop = R.stop
<1> DEFINE idle == Detached(r, R, D)
           S == [R EXCEPT !.idle = idle]
<1>1. rec' = [rec EXCEPT ![r] = S]
  BY DEF Detach, Detached
<1>2. idle \in BOOLEAN
  BY DEF Detached
<1>3. idle <=> Detached(r, R, D)
  OBVIOUS
<1> HIDE DEF idle
<1>4. /\ S \in Record /\ S.idle = idle
      /\ S.key = R.key /\ S.state = R.state /\ S.producer = R.producer /\ S.gen = R.gen
      /\ S.fallback = R.fallback /\ S.recovery = R.recovery /\ S.attempts = R.attempts
      /\ S.fallbackUsed = R.fallbackUsed /\ S.video = R.video /\ S.stop = R.stop
  BY <1>2 DEF Record
<1>. QED  BY <1>1, <1>3, <1>4

\* What a chunk changes: its record, whose timer it disarms, and the viewers.
LEMMA PublishIs ==
  ASSUME TypeInv, NEW r \in Rec, NEW i \in DOMAIN prod[r], Publish(r, i)
  PROVE  /\ prod[r][i].alive /\ prod[r][i].heard /\ Current(r, i)
         /\ \E S \in Record, D \in SUBSET Viewers(r) :
           /\ rec' = [rec EXCEPT ![r] = S] /\ S.key = rec[r].key
           /\ S.state = IF rec[r].state = "starting" THEN "streaming" ELSE rec[r].state
           /\ S.producer = rec[r].producer /\ S.gen = rec[r].gen
           /\ S.fallback = rec[r].fallback /\ S.recovery = rec[r].recovery
           /\ S.attempts = rec[r].attempts /\ S.fallbackUsed = rec[r].fallbackUsed
           /\ S.video = rec[r].video /\ S.stop = rec[r].stop
           /\ S.idle <=> Detached(r, rec[r], D)
           /\ prod' = IF rec[r].state = "starting"
                      THEN [prod EXCEPT ![r][rec[r].producer].boot = FALSE] ELSE prod
           /\ view' \in [Viewer -> View]
           /\ \A v \in Viewer : view'[v].at = IF v \in D THEN 0 ELSE view[v].at
           /\ UNCHANGED <<streams, shut>>
<1> DEFINE R == rec[r]
           s == IF R.state = "starting" THEN "streaming" ELSE R.state
           T == [R EXCEPT !.state = s]
<1>1. T \in Record /\ T.key = R.key /\ T.state = s /\ T.producer = R.producer /\ T.gen = R.gen
      /\ T.fallback = R.fallback /\ T.recovery = R.recovery /\ T.attempts = R.attempts
      /\ T.fallbackUsed = R.fallbackUsed /\ T.video = R.video /\ T.stop = R.stop
      /\ T.idle = R.idle
  <2>1. R \in Record /\ s \in State
    BY DEF TypeInv, Record, State
  <2> HIDE DEF s
  <2>. QED  BY <2>1 DEF Record
<1>2. PICK slow \in SUBSET {v \in Viewers(r) : view[v].st = "blocked"},
           full \in SUBSET {v \in Viewers(r) : view[v].st # "blocked"} :
        LET D == slow \cup {v \in Viewers(r) : view[v].left}
        IN /\ view' = [v \in Viewer |->
                IF v \in D THEN [view[v] EXCEPT !.at = 0, !.st = "gone"]
                ELSE IF v \in full THEN [view[v] EXCEPT !.st = "blocked"]
                ELSE IF v \in Viewers(r) /\ view[v].st = "waiting" THEN [view[v] EXCEPT !.st = "fed"]
                ELSE view[v]]
           /\ Detach(r, T, D)
  BY DEF Publish
<1> DEFINE D == slow \cup {v \in Viewers(r) : view[v].left}
<1>3. D \in SUBSET Viewers(r)
  OBVIOUS
<1>4. ASSUME NEW v \in Viewer
      PROVE  view'[v] \in View /\ view'[v].at = IF v \in D THEN 0 ELSE view[v].at
  <2>1. view[v] \in View
    BY DEF TypeInv
  <2>. QED  BY <1>2, <2>1 DEF View
<1>5. view' \in [Viewer -> View]
  BY <1>2, <1>4
<1>6. Detach(r, T, D)
  BY <1>2
<1>7. Detached(r, T, D) <=> Detached(r, R, D)
  BY <1>1 DEF Detached
<1> HIDE DEF T, D
<1>8. \E S \in Record :
         /\ rec' = [rec EXCEPT ![r] = S] /\ S.key = R.key
         /\ S.state = s /\ S.producer = R.producer /\ S.gen = R.gen
         /\ S.fallback = R.fallback /\ S.recovery = R.recovery
         /\ S.attempts = R.attempts /\ S.fallbackUsed = R.fallbackUsed
         /\ S.video = R.video /\ S.stop = R.stop
         /\ S.idle <=> Detached(r, R, D)
  BY <1>1, <1>6, <1>7, DetachIs
<1>9. PICK S \in Record :
         /\ rec' = [rec EXCEPT ![r] = S] /\ S.key = R.key
         /\ S.state = s /\ S.producer = R.producer /\ S.gen = R.gen
         /\ S.fallback = R.fallback /\ S.recovery = R.recovery
         /\ S.attempts = R.attempts /\ S.fallbackUsed = R.fallbackUsed
         /\ S.video = R.video /\ S.stop = R.stop
         /\ S.idle <=> Detached(r, R, D)
  BY <1>8
<1>10. prod[r][i].alive /\ prod[r][i].heard /\ Current(r, i)
  BY DEF Publish
<1>11. /\ prod' = IF R.state = "starting"
                  THEN [prod EXCEPT ![r][R.producer].boot = FALSE] ELSE prod
       /\ UNCHANGED <<streams, shut>>
  BY DEF Publish
<1>12. \A v \in Viewer : view'[v].at = IF v \in D THEN 0 ELSE view[v].at
  BY <1>4
<1>. QED  BY <1>3, <1>5, <1>9, <1>10, <1>11, <1>12

\* The steps of the viewers.
LEMMA ViewerType ==
  ASSUME TypeInv, NEW v \in Viewer, ViewerLeaves(v) \/ Drain(v)
  PROVE  TypeInv'
<1>1. view[v] \in View /\ shut' = shut /\ prod' = prod /\ streams' = streams
  BY DEF TypeInv, ViewerLeaves, Drain
<1>2. CASE ViewerLeaves(v)
  <2>1. PICK r \in Rec :
        r = view[v].at /\ rec[r].key # 0 /\ rec[r] \in Record /\ rec[r].state # "none"
        /\ prod[r] \in Seq(Producer)
    BY <1>1, <1>2 DEF ViewerLeaves, TypeInv, RegistryInv, View, Counted
  <2>2. PICK S \in Record :
           /\ rec' = [rec EXCEPT ![r] = S]
           /\ S.idle <=> Detached(r, rec[r], {v})
           /\ S.key = rec[r].key /\ S.state = rec[r].state /\ S.producer = rec[r].producer
           /\ S.gen = rec[r].gen
           /\ S.fallback = rec[r].fallback /\ S.recovery = rec[r].recovery
           /\ S.attempts = rec[r].attempts /\ S.fallbackUsed = rec[r].fallbackUsed
           /\ S.video = rec[r].video /\ S.stop = rec[r].stop
    <3> DEFINE D == {v}
               R == rec[r]
    <3>1. Detach(r, R, D) /\ R \in Record
      BY <1>2, <2>1 DEF ViewerLeaves
    <3> HIDE DEF D, R
    <3>2. \E S \in Record :
           /\ rec' = [rec EXCEPT ![r] = S]
           /\ S.idle <=> Detached(r, R, D)
           /\ S.key = R.key /\ S.state = R.state /\ S.producer = R.producer /\ S.gen = R.gen
           /\ S.fallback = R.fallback /\ S.recovery = R.recovery /\ S.attempts = R.attempts
           /\ S.fallbackUsed = R.fallbackUsed /\ S.video = R.video /\ S.stop = R.stop
      BY <3>1, DetachIs DEF Detach
    <3>. QED  BY <3>2 DEF D, R
  <2>3. view' \in [Viewer -> View] /\ \A w \in Viewer : view'[w].at \in {view[w].at, 0}
    BY <1>1, <1>2 DEF ViewerLeaves, TypeInv, View
  <2>4. prod' = [prod EXCEPT ![r] = prod[r]] /\ Fades(prod[r], prod[r])
    BY <1>1, <2>1, FadesSelf DEF TypeInv
  <2>5. streams' \in [Key -> Rec \cup {0}] /\ \A k \in Key : streams'[k] \in {streams[k], 0}
    BY <1>1 DEF TypeInv
  <2>. QED  BY <1>1, <2>1, <2>2, <2>3, <2>4, <2>5, QuietStepType
<1>3. CASE Drain(v)
  <2>1. view' \in [Viewer -> View] /\ \A w \in Viewer : view'[w].at = view[w].at
    BY <1>1, <1>3 DEF Drain, TypeInv, View
  <2>. QED  BY <1>3, <2>1 DEF Drain, TypeInv, RegistryInv
<1>. QED  BY <1>2, <1>3

LEMMA PublishType ==
  ASSUME TypeInv, NEW r \in Rec, NEW i \in DOMAIN prod[r], Publish(r, i)
  PROVE  TypeInv'
<1>1. PICK S \in Record, D \in SUBSET Viewers(r) :
           /\ rec' = [rec EXCEPT ![r] = S] /\ S.key = rec[r].key
           /\ S.state = IF rec[r].state = "starting" THEN "streaming" ELSE rec[r].state
           /\ S.producer = rec[r].producer /\ S.gen = rec[r].gen
           /\ S.fallback = rec[r].fallback /\ S.recovery = rec[r].recovery
           /\ S.attempts = rec[r].attempts /\ S.fallbackUsed = rec[r].fallbackUsed
           /\ S.video = rec[r].video /\ S.stop = rec[r].stop
           /\ S.idle <=> Detached(r, rec[r], D)
           /\ prod' = IF rec[r].state = "starting"
                      THEN [prod EXCEPT ![r][rec[r].producer].boot = FALSE] ELSE prod
           /\ view' \in [Viewer -> View]
           /\ \A v \in Viewer : view'[v].at = IF v \in D THEN 0 ELSE view[v].at
           /\ UNCHANGED <<streams, shut>>
  BY PublishIs
<1>2. rec[r].key # 0 /\ rec[r].state # "none" /\ prod[r] \in Seq(Producer)
      /\ rec[r].producer \in 0..Len(prod[r]) /\ prod \in [Rec -> Seq(Producer)]
  BY HasProducer, LenProperties DEF TypeInv, Counted, Record
<1>3. \E Q : prod' = [prod EXCEPT ![r] = Q] /\ Fades(prod[r], Q)
  <2>1. CASE rec[r].state # "starting"
    BY <1>1, <1>2, <2>1, FadesSelf
  <2>2. CASE rec[r].state = "starting" /\ rec[r].producer # 0
    BY <1>1, <1>2, <2>2, DisarmedFades
  <2>3. CASE rec[r].producer = 0
    <3>1. [prod[r] EXCEPT ![0].boot = FALSE] = prod[r]
      BY <1>2, LenProperties
    <3>. QED  BY <1>1, <1>2, <2>3, <3>1, FadesSelf
  <2>. QED  BY <2>1, <2>2, <2>3
<1>4. PICK Q : prod' = [prod EXCEPT ![r] = Q] /\ Fades(prod[r], Q)
  BY <1>3
<1>5. streams' \in [Key -> Rec \cup {0}] /\ \A k \in Key : streams'[k] \in {streams[k], 0}
  BY <1>1 DEF TypeInv
<1>6. S.state # "none" /\ \A v \in Viewer : view'[v].at \in {view[v].at, 0}
  BY <1>1, <1>2
<1>. QED  BY <1>1, <1>2, <1>4, <1>5, <1>6, QuietStepType

\* The requests: a viewer joins a cast, or starts one with a fresh record.
LEMMA AttachType ==
  ASSUME TypeInv, NEW v \in Viewer, NEW k \in Key, NEW video \in BOOLEAN, NEW left \in BOOLEAN,
         AttachViewer(v, k, video, left)
  PROVE  TypeInv'
<1>1. streams[k] \in Rec /\ rec[streams[k]].key # 0
  BY CastKeyAssumption DEF AttachViewer, TypeInv, RegistryInv
<1>2. PICK new \in View : view' = [view EXCEPT ![v] = new] /\ new.at = streams[k]
  <2> DEFINE replayed == rec[streams[k]].state = "streaming" /\ ~left
             st == IF replayed THEN "fed" ELSE "waiting"
             new == [at |-> streams[k], left |-> left, st |-> st]
  <2>1. st \in {"new", "waiting", "fed", "blocked", "gone"}
    OBVIOUS
  <2>2. view' = [view EXCEPT ![v] = new]
    BY DEF AttachViewer
  <2> HIDE DEF st
  <2>3. new \in View /\ new.at = streams[k]
    BY <1>1, <2>1 DEF View
  <2>. QED  BY <2>2, <2>3
<1>3. /\ view' \in [Viewer -> View]
      /\ \A w \in Viewer : view'[w].at = view[w].at \/ view'[w].at = streams[k]
  BY <1>2 DEF TypeInv
<1>4. UNCHANGED <<streams, rec, prod, shut>>
  BY DEF AttachViewer
<1>5. RegistryInv'
  BY <1>1, <1>3, <1>4 DEF TypeInv, RegistryInv
<1>. QED  BY <1>3, <1>4, <1>5 DEF TypeInv

\* The record and the producer a cast starts with.
FreshRecord(S, k, video) ==
  /\ S \in Record
  /\ S.key = k /\ S.video = video /\ S.state = "starting" /\ S.gen = 1
  /\ S.attempts = 0 /\ S.fallback = "none" /\ S.recovery = "none"
  /\ S.fallbackUsed = FALSE /\ S.producer = 1 /\ S.stop = "no"
FirstProducer(p) ==
  /\ p \in Producer
  /\ p.gen = 1 /\ p.heard = TRUE /\ p.boot = TRUE
  /\ p.errors \in SpawnErrors
  /\ p.killed => ~p.alive
  /\ p.alive \/ p.killed
Starts(v, k, video, left, r, S, p) ==
  /\ rec[r].state = "none" /\ ~shut /\ shut' = shut
  /\ streams' = [streams EXCEPT ![k] = r] /\ streams[k] = 0
  /\ view' = [view EXCEPT ![v] = [at |-> r, left |-> left, st |-> "waiting"]]
  /\ rec' = [rec EXCEPT ![r] = S]
  /\ prod' = [prod EXCEPT ![r] = <<p>>]
  /\ FreshRecord(S, k, video) /\ FirstProducer(p)

LEMMA FreshIs ==
  ASSUME NEW v \in Viewer, NEW k \in Key, NEW video \in BOOLEAN, NEW left \in BOOLEAN,
         StartCast(v, k, video, left)
  PROVE  \E r \in Rec : \E S, p : Starts(v, k, video, left, r, S, p)
<1>1. PICK r \in Rec :
        /\ rec[r].state = "none"
        /\ streams' = [streams EXCEPT ![k] = r]
        /\ view' = [view EXCEPT ![v] = [at |-> r, left |-> left, st |-> "waiting"]]
        /\ Begin(r, [NoRecord EXCEPT !.key = k, !.video = video, !.state = "starting",
                                      !.gen = 1], <<>>, TRUE)
  BY DEF StartCast
<1>2. PICK S, p : /\ rec' = [rec EXCEPT ![r] = S]
                  /\ prod' = [prod EXCEPT ![r] = <<p>>]
                  /\ FreshRecord(S, k, video) /\ FirstProducer(p)
  <2> DEFINE N == NoRecord
             R == [N EXCEPT !.key = k, !.video = video, !.state = "starting", !.gen = 1]
  <2>1. /\ N \in Record /\ N.attempts = 0 /\ N.fallback = "none" /\ N.recovery = "none"
        /\ N.fallbackUsed = FALSE /\ N.stop = "no"
    BY CastAssumption DEF NoRecord, Record, State
  <2>2. Begin(r, R, <<>>, TRUE)
    BY <1>1
  <2> HIDE DEF N
  <2>3. /\ R \in Record /\ R.key = k /\ R.video = video /\ R.state = "starting" /\ R.gen = 1
        /\ R.attempts = 0 /\ R.fallback = "none" /\ R.recovery = "none"
        /\ R.fallbackUsed = FALSE /\ R.stop = "no"
    BY <2>1 DEF Record, State
  <2> HIDE DEF R
  <2>4. PICK errs \in IF R.video /\ ~R.fallbackUsed THEN SpawnErrors ELSE {0} :
          /\ prod' = [prod EXCEPT ![r] = Append(<<>>,
               [gen |-> R.gen, video |-> R.video /\ ~R.fallbackUsed,
                alive |-> errs < 2, killed |-> errs = 2, lost |-> FALSE, heard |-> TRUE,
                errors |-> IF TRUE THEN errs ELSE 0, boot |-> TRUE])]
          /\ rec' = [rec EXCEPT ![r] = [R EXCEPT !.producer = IF TRUE THEN Len(<<>>) + 1 ELSE @]]
    BY <2>2 DEF Begin
  <2> DEFINE a == errs < 2
             d == errs = 2
             w == R.video /\ ~R.fallbackUsed
             p == [gen |-> R.gen, video |-> w, alive |-> a, killed |-> d, lost |-> FALSE,
                   heard |-> TRUE, errors |-> errs, boot |-> TRUE]
             S == [R EXCEPT !.producer = 1]
  <2>5. errs \in 0..2 /\ errs \in SpawnErrors /\ a \in BOOLEAN /\ d \in BOOLEAN
        /\ w \in BOOLEAN /\ (d => ~a) /\ (a \/ d)
    BY <2>4, CastAssumption
  <2>6. prod' = [prod EXCEPT ![r] = <<p>>]
    BY <2>4
  <2>7. rec' = [rec EXCEPT ![r] = S]
    BY <2>4
  <2> HIDE DEF a, d, w
  <2>8. /\ p \in Producer /\ p.gen = 1 /\ p.heard = TRUE /\ p.boot = TRUE /\ p.errors = errs
        /\ p.alive = a /\ p.killed = d
    BY <2>3, <2>5 DEF Producer
  <2>9. FirstProducer(p)
    BY <2>5, <2>8 DEF FirstProducer
  <2>10. FreshRecord(S, k, video)
    BY <2>3 DEF FreshRecord, Record
  <2>. QED  BY <2>6, <2>7, <2>9, <2>10
<1>3. ~shut /\ shut' = shut /\ streams[k] = 0
  BY DEF StartCast
<1>. QED  BY <1>1, <1>2, <1>3 DEF Starts

LEMMA StartType ==
  ASSUME TypeInv, NEW v \in Viewer, NEW k \in Key, NEW video \in BOOLEAN, NEW left \in BOOLEAN,
         StartCast(v, k, video, left)
  PROVE  TypeInv'
<1>1. PICK r \in Rec : \E S, p : Starts(v, k, video, left, r, S, p)
  BY FreshIs
<1>2. PICK S, p : Starts(v, k, video, left, r, S, p)
  BY <1>1
<1>3. /\ rec[r].state = "none" /\ shut' = shut
      /\ streams' = [streams EXCEPT ![k] = r]
      /\ view' = [view EXCEPT ![v] = [at |-> r, left |-> left, st |-> "waiting"]]
      /\ rec' = [rec EXCEPT ![r] = S]
      /\ prod' = [prod EXCEPT ![r] = <<p>>]
      /\ p \in Producer
  BY <1>2 DEF Starts, FirstProducer
<1>4. FreshRecord(S, k, video)
  BY <1>2 DEF Starts
<1>5. S \in Record /\ S.key = k
  BY <1>4 DEF FreshRecord
<1> DEFINE Q == <<p>>
<1>6. Q \in Seq(Producer) /\ Len(Q) = 1
  BY <1>3
<1>7. prod' = [prod EXCEPT ![r] = Q]
  BY <1>3
<1> HIDE DEF Q
<1>8. One(S.fallback # "none") = 0 /\ One(S.recovery # "none") = 0 /\ One(S.fallbackUsed) = 0
  BY <1>4 DEF One, FreshRecord
<1>9. Counted(S, Q)
  BY <1>4, <1>6, <1>8, CastKeyAssumption DEF Counted, FreshRecord
<1>10. /\ rec' \in [Rec -> Record] /\ prod' \in [Rec -> Seq(Producer)]
       /\ \A q \in Rec : Counted(rec'[q], prod'[q])
       /\ \A q \in Rec : rec'[q] = IF q = r THEN S ELSE rec[q]
  BY <1>3, <1>5, <1>6, <1>7, <1>9 DEF TypeInv
<1>11. rec[r].key = 0
  BY <1>3 DEF TypeInv, Counted
<1>12. /\ streams' \in [Key -> Rec \cup {0}]
       /\ \A h \in Key : streams'[h] = IF h = k THEN r ELSE streams[h]
  BY <1>3 DEF TypeInv
<1>13. /\ view' \in [Viewer -> View]
       /\ \A u \in Viewer : view'[u].at = IF u = v THEN r ELSE view[u].at
  <2> DEFINE new == [at |-> r, left |-> left, st |-> "waiting"]
  <2>1. new \in View /\ new.at = r
    BY DEF View
  <2>2. view' = [view EXCEPT ![v] = new]
    BY <1>3
  <2> HIDE DEF new
  <2>. QED  BY <2>1, <2>2 DEF TypeInv
<1>14. RegistryInv'
  <2>1. ASSUME NEW h \in Key, streams'[h] # 0
        PROVE  rec'[streams'[h]].key = h
    <3>1. CASE h = k
      BY <1>5, <1>10, <1>12, <3>1
    <3>2. CASE h # k
      <4>1. streams[h] \in Rec /\ rec[streams[h]].key = h /\ streams'[h] = streams[h]
        BY <1>12, <2>1, <3>2 DEF TypeInv, RegistryInv
      <4>. QED  BY <1>10, <1>11, <4>1, CastKeyAssumption
    <3>. QED  BY <3>1, <3>2
  <2>2. ASSUME NEW u \in Viewer, view'[u].at # 0
        PROVE  rec'[view'[u].at].key # 0
    <3>1. view[u] \in View
      BY DEF TypeInv
    <3>2. CASE view'[u].at = r
      BY <1>5, <1>10, <3>2, CastKeyAssumption
    <3>3. CASE view'[u].at # r
      BY <1>10, <1>13, <2>2, <3>1, <3>3 DEF TypeInv, RegistryInv, View
    <3>. QED  BY <3>2, <3>3
  <2>. QED  BY <2>1, <2>2 DEF RegistryInv
<1>. QED  BY <1>3, <1>10, <1>12, <1>13, <1>14 DEF TypeInv

LEMMA IdleType ==
  ASSUME TypeInv, NEW r \in Rec, NoViewerTimer(r)
  PROVE  TypeInv'
<1>1. /\ rec[r] \in Record /\ prod[r] \in Seq(Producer) /\ Counted(rec[r], prod[r])
      /\ rec[r].key # 0 /\ rec[r].state # "none" /\ rec[r].key \in Key /\ shut' \in BOOLEAN
      /\ shut' = shut
  BY DEF TypeInv, NoViewerTimer, Counted, NoRecord, Record
<1>2. CASE Viewers(r) = {} /\ rec[r].stop = "no"
  BY <1>1, <1>2, StopType DEF NoViewerTimer
<1>3. CASE ~(Viewers(r) = {} /\ rec[r].stop = "no")
  <2> DEFINE S == [rec[r] EXCEPT !.idle = FALSE]
  <2>1. S \in Record /\ S.key = rec[r].key /\ S.state = rec[r].state
        /\ S.producer = rec[r].producer
        /\ S.fallback = rec[r].fallback /\ S.recovery = rec[r].recovery
        /\ S.attempts = rec[r].attempts /\ S.fallbackUsed = rec[r].fallbackUsed
        /\ S.video = rec[r].video
    BY <1>1 DEF Record
  <2>2. rec' = [rec EXCEPT ![r] = S] /\ prod' = [prod EXCEPT ![r] = prod[r]]
        /\ Fades(prod[r], prod[r])
    BY <1>1, <1>3, FadesSelf DEF NoViewerTimer, TypeInv
  <2>3. /\ streams' \in [Key -> Rec \cup {0}] /\ view' \in [Viewer -> View]
        /\ \A k \in Key : streams'[k] \in {streams[k], 0}
        /\ \A v \in Viewer : view'[v].at \in {view[v].at, 0}
    BY <1>3 DEF NoViewerTimer, TypeInv
  <2> HIDE DEF S
  <2>. QED  BY <1>1, <2>1, <2>2, <2>3, QuietStepType
<1>. QED  BY <1>2, <1>3

\* stopAll: every record is either as before or stopped.
LEMMA StopAllIs ==
  ASSUME TypeInv, StopAll, NEW r \in Rec
  PROVE  /\ rec'[r] \in Record /\ rec'[r].key = rec[r].key /\ rec'[r].video = rec[r].video
         /\ rec'[r].producer = rec[r].producer /\ rec'[r].gen = rec[r].gen
         /\ rec'[r].fallback = rec[r].fallback /\ rec'[r].recovery = rec[r].recovery
         /\ rec'[r].attempts = rec[r].attempts /\ rec'[r].fallbackUsed = rec[r].fallbackUsed
         /\ IF Registered(r) /\ rec[r].stop = "no"
            THEN /\ rec'[r].state = "stopping" /\ rec[r].key # 0
                 /\ rec'[r].stop = IF Prompt(prod[r], rec[r].producer) THEN "done" ELSE "pending"
                 /\ prod'[r] = Released(prod[r], rec[r].producer)
            ELSE rec'[r] = rec[r] /\ prod'[r] = prod[r]
         /\ Fades(prod[r], prod'[r])
<1> DEFINE R == {q \in Rec : Registered(q) /\ rec[q].stop = "no"}
           done == {q \in R : Prompt(prod[q], rec[q].producer)}
           stop == IF Prompt(prod[r], rec[r].producer) THEN "done" ELSE "pending"
           S == [rec[r] EXCEPT !.state = "stopping", !.idle = FALSE, !.stop = stop]
<1>1. rec[r] \in Record /\ prod[r] \in Seq(Producer) /\ rec[r].producer \in 0..Len(prod[r])
  BY LenProperties DEF TypeInv, Counted, Record
<1>2. S \in Record /\ S.key = rec[r].key /\ S.video = rec[r].video /\ S.stop = stop
      /\ S.state = "stopping" /\ S.producer = rec[r].producer /\ S.gen = rec[r].gen
      /\ S.fallback = rec[r].fallback /\ S.recovery = rec[r].recovery
      /\ S.attempts = rec[r].attempts /\ S.fallbackUsed = rec[r].fallbackUsed
  BY <1>1 DEF Record, State
<1>3. CASE r \in R
  <2>1. rec'[r] = [rec[r] EXCEPT !.state = "stopping", !.idle = FALSE,
                                 !.stop = IF r \in done THEN "done" ELSE "pending"]
    BY <1>3 DEF StopAll
  <2>2. (IF r \in done THEN "done" ELSE "pending") = stop
    BY <1>3
  <2>3. rec'[r] = S
    BY <2>1, <2>2
  <2>4. prod'[r] = Released(prod[r], rec[r].producer)
    BY <1>3 DEF StopAll
  <2>5. Registered(r) /\ rec[r].stop = "no" /\ rec[r].key # 0
    BY <1>3 DEF Registered
  <2>6. Fades(prod[r], prod'[r])
    BY <1>1, <2>4, ReleasedFades
  <2> HIDE DEF S
  <2>. QED  BY <1>2, <2>3, <2>4, <2>5, <2>6
<1>4. CASE r \notin R
  <2>1. rec'[r] = rec[r] /\ prod'[r] = prod[r]
    BY <1>4 DEF StopAll
  <2>2. ~(Registered(r) /\ rec[r].stop = "no")
    BY <1>4
  <2>. QED  BY <1>1, <2>1, <2>2, FadesSelf
<1>. QED  BY <1>3, <1>4

LEMMA StopAllType ==
  ASSUME TypeInv, StopAll
  PROVE  TypeInv'
<1>1. rec' \in [Rec -> Record] /\ \A r \in Rec : rec'[r].key = rec[r].key
  BY StopAllIs DEF StopAll
<1>2. prod' \in [Rec -> Seq(Producer)]
  BY StopAllIs DEF StopAll, Fades
<1>3. ASSUME NEW r \in Rec
      PROVE  Counted(rec'[r], prod'[r])
  <2>1. CASE Registered(r) /\ rec[r].stop = "no"
    <3>1. Len(prod'[r]) = Len(prod[r]) /\ Counted(rec[r], prod[r])
      BY StopAllIs DEF Fades, TypeInv
    <3>. QED  BY <2>1, <3>1, StopAllIs, CountedKeeps
  <2>2. CASE ~(Registered(r) /\ rec[r].stop = "no")
    BY <2>2, StopAllIs DEF TypeInv
  <2>. QED  BY <2>1, <2>2
<1>4. /\ view' \in [Viewer -> View]
      /\ \A v \in Viewer : view'[v].at \in {view[v].at, 0}
  BY AwayType DEF StopAll
<1>5. /\ streams' \in [Key -> Rec \cup {0}]
      /\ \A k \in Key : streams'[k] \in {streams[k], 0}
  BY DEF StopAll, TypeInv
<1>6. RegistryInv'
  BY <1>1, <1>4, <1>5 DEF TypeInv, RegistryInv, View
<1>. QED  BY <1>1, <1>2, <1>3, <1>4, <1>5, <1>6 DEF TypeInv, StopAll

\* Every step keeps the types.
LEMMA TypeStep ==
  ASSUME TypeInv, [Next]_vars
  PROVE  TypeInv'
<1>1. ASSUME NEW r \in Rec, NEW i \in DOMAIN prod[r],
             \/ ProcessError(r, i) \/ ProcessCloses(r, i) \/ CaptureFails(r, i)
             \/ BootTimeout(r, i)
      PROVE  TypeInv'
  <2>1. \E q : Heard(r, i, q)
    BY <1>1, ErrorIsHeard, CloseIsHeard, EndIsHeard, BootIsHeard
  <2>. QED  BY <2>1, CallbackType
<1>2. ASSUME NEW r \in Rec, FallbackContinues(r)
      PROVE  TypeInv'
  BY <1>2, ContinueType DEF Continuation
<1>3. ASSUME NEW r \in Rec, Timer(r)
      PROVE  TypeInv'
  BY <1>1, <1>3, IdleType DEF Timer
<1>4. CASE Request
  BY <1>4, AttachType, StartType DEF Request
<1>5. CASE UNCHANGED vars
  BY <1>5 DEF vars, TypeInv, Counted, RegistryInv
<1>. QED
  BY <1>1, <1>2, <1>3, <1>4, <1>5, ContinueType, PublishType, ViewerType, StopAllType DEF Next

LEMMA TypeInit ==
  ASSUME Init
  PROVE  TypeInv
<1>1. NoRecord \in Record
  BY CastAssumption DEF NoRecord, Record, State
<1>2. Counted(NoRecord, <<>>)
  BY CastAssumption DEF Counted, NoRecord, One
<1>3. <<>> \in Seq(Producer)
  OBVIOUS
<1>. QED  BY <1>1, <1>2, <1>3 DEF Init, TypeInv, RegistryInv, View

LEMMA TypeAlways == Spec => []TypeInv
BY TypeInit, TypeStep, PTL DEF Spec

\* Every variable keeps the values it may have, and a cast starts a bounded
\* number of producers however often it breaks: one for itself, one for its
\* fallback and one for every recovery (beginProducer, fail, recover).
THEOREM CastTypes == Spec => []TypeOK
<1>1. ASSUME TypeInv
      PROVE  TypeOK
  <2>1. ASSUME NEW r \in Rec
        PROVE  Len(prod[r]) <= Attempts + (IF rec[r].video THEN 2 ELSE 1)
    <3>1. rec[r] \in Record /\ Counted(rec[r], prod[r]) /\ Len(prod[r]) \in Nat
          /\ Attempts \in Nat
      BY <1>1, CastAssumption, LenProperties DEF TypeInv
    <3>2. /\ One(rec[r].fallback # "none") \in 0..1 /\ One(rec[r].recovery # "none") \in 0..1
          /\ One(rec[r].fallbackUsed) <= (IF rec[r].video THEN 1 ELSE 0)
          /\ One(rec[r].fallbackUsed) \in 0..1 /\ rec[r].attempts \in 0..Attempts
      BY <3>1 DEF One, Counted, Record
    <3>. QED  BY <3>1, <3>2 DEF Counted
  <2>. QED  BY <1>1, <2>1 DEF TypeInv, TypeOK
<1>. QED  BY <1>1, TypeAlways, PTL

-----------------------------------------------------------------------------
(* One producer.                                                           *)

Sound(P) == \A i \in DOMAIN P : ~P[i].video /\ P[i].killed => ~P[i].alive

LEMMA FadesDomain ==
  ASSUME NEW P \in Seq(Producer), NEW Q, Fades(P, Q)
  PROVE  /\ DOMAIN Q = DOMAIN P /\ Q \in Seq(Producer)
         /\ \A i \in DOMAIN P : P[i] \in Producer /\ Q[i] \in Producer /\ Fade(P[i], Q[i])
BY LenProperties DEF Fades, Fade

LEMMA ReleasedSound ==
  ASSUME NEW P \in Seq(Producer), NEW i \in 0..Len(P), Sound(P)
  PROVE  Sound(Released(P, i))
<1>1. Fades(P, Released(P, i))
  BY ReleasedFades
<1>2. DOMAIN Released(P, i) = DOMAIN P
  BY <1>1, FadesDomain
<1>3. ASSUME NEW j \in DOMAIN P
      PROVE  ~Released(P, i)[j].video /\ Released(P, i)[j].killed => ~Released(P, i)[j].alive
  <2>1. CASE j = i
    <3>1. P[i] \in Producer /\ i # 0
      BY <2>1, LenProperties
    <3>. QED  BY <2>1, <3>1, ReleasedFades, ToldFades
  <2>2. CASE j # i
    BY <2>2, ReleasedFades DEF Sound
  <2>. QED  BY <2>1, <2>2
<1>. QED  BY <1>2, <1>3 DEF Sound

\* A record that is not replaced further keeps quiet while its producers fade.
LEMMA FadingIsQuiet ==
  ASSUME NEW R \in Record, NEW P \in Seq(Producer), NEW g, Quiet(R, P, g),
         NEW S, NEW Q, Fades(P, Q), Sound(Q), NEW h, h => g,
         S.producer = R.producer, S.gen = R.gen,
         S.fallback \in {R.fallback, "none"},
         R.recovery = "none" => S.recovery = "none"
  PROVE  Quiet(S, Q, h)
<1>1. DOMAIN Q = DOMAIN P
  BY FadesDomain
<1>2. Busy(S) => Busy(R)
  BY DEF Busy
<1>3. S.fallback = "none" \/ S.recovery = "none"
  BY DEF Quiet
<1>4. ASSUME NEW i \in DOMAIN P
      PROVE  /\ Q[i].errors <= 1
             /\ Q[i].gen <= S.gen
             /\ ~Q[i].video /\ Q[i].killed => ~Q[i].alive
             /\ Audible(Q[i]) => ~ReplacedIn(S, i)
             /\ h /\ ReplacedIn(S, i) => Q[i].gen < S.gen /\ ~(Q[i].alive /\ ~Q[i].killed)
  <2>1. P[i] \in Producer /\ Q[i] \in Producer /\ Fade(P[i], Q[i])
    BY FadesDomain
  <2>2. P[i].errors \in 0..2 /\ Q[i].errors \in 0..2 /\ P[i].errors <= 1
        /\ Q[i].errors <= P[i].errors
    BY <2>1 DEF Producer, Fade, Quiet
  <2>3. Audible(Q[i]) => Audible(P[i])
    BY <2>1, <2>2 DEF Audible, Fade
  <2>4. ReplacedIn(S, i) => ReplacedIn(R, i)
    BY <1>2 DEF ReplacedIn
  <2>5. ~Q[i].video /\ Q[i].killed => ~Q[i].alive
    BY <1>1 DEF Sound
  <2>6. Q[i].gen <= S.gen
    BY <2>1 DEF Fade, Quiet
  <2>7. Audible(Q[i]) => ~ReplacedIn(S, i)
    BY <2>3, <2>4 DEF Quiet
  <2>8. h /\ ReplacedIn(S, i) => Q[i].gen < S.gen /\ ~(Q[i].alive /\ ~Q[i].killed)
    BY <2>1, <2>4 DEF Quiet, Fade
  <2>. QED  BY <2>2, <2>5, <2>6, <2>7, <2>8
<1>. QED  BY <1>1, <1>3, <1>4 DEF Quiet

\* A record whose producer is to be replaced: its producer is told to end and
\* the generation goes on.
LEMMA ReplacingIsQuiet ==
  ASSUME NEW R \in Record, NEW P \in Seq(Producer), NEW g, Quiet(R, P, g), R.producer <= Len(P),
         NEW T \in Seq(Producer), Fades(P, T), Sound(T),
         R.producer # 0 => T[R.producer].errors = 0,
         NEW S, S.producer = R.producer, S.gen = R.gen + 1,
         S.fallback = "none" \/ S.recovery = "none"
  PROVE  Quiet(S, Released(T, R.producer), g)
<1> DEFINE Q == Released(T, R.producer)
<1>1. R.producer \in 0..Len(T) /\ R.gen \in Nat
  BY LenProperties DEF Fades, Record
<1>2. Fades(T, Q) /\ Sound(Q) /\ DOMAIN Q = DOMAIN P
  BY <1>1, ReleasedFades, ReleasedSound, FadesDomain
<1>3. ASSUME NEW i \in DOMAIN P
      PROVE  /\ Q[i].errors <= 1
             /\ Q[i].gen < S.gen
             /\ ~Audible(Q[i])
             /\ g => ~(Q[i].alive /\ ~Q[i].killed)
  <2>1. P[i] \in Producer /\ T[i] \in Producer /\ Q[i] \in Producer
        /\ Fade(P[i], T[i]) /\ Fade(T[i], Q[i])
    BY <1>2, FadesDomain
  <2>2. P[i].errors \in 0..2 /\ T[i].errors \in 0..2 /\ Q[i].errors \in 0..2
        /\ P[i].errors <= 1 /\ Q[i].errors <= T[i].errors /\ T[i].errors <= P[i].errors
        /\ P[i].gen <= R.gen /\ Q[i].gen = P[i].gen /\ P[i].gen \in Nat
    BY <2>1 DEF Producer, Fade, Quiet
  <2>3. CASE i = R.producer
    <3>1. Q[i] = Told(T[i]) /\ i # 0
      BY <1>1, <2>3, ReleasedFades, LenProperties
    <3>2. /\ ~Told(T[i]).heard /\ ~Told(T[i]).boot /\ Told(T[i]).errors = 0
          /\ ~(Told(T[i]).alive /\ ~Told(T[i]).killed)
      BY <2>1, <2>3, <3>1, ToldFades
    <3>. QED  BY <1>1, <2>2, <3>1, <3>2 DEF Audible
  <2>4. CASE i # R.producer
    <3>1. ReplacedIn(R, i)
      BY <2>4 DEF ReplacedIn
    <3>2. ~Audible(P[i]) /\ (g => ~(P[i].alive /\ ~P[i].killed))
      BY <3>1 DEF Quiet
    <3>3. ~Audible(Q[i])
      BY <2>1, <2>2, <3>2 DEF Audible, Fade
    <3>4. g => ~(Q[i].alive /\ ~Q[i].killed)
      BY <2>1, <3>2 DEF Fade
    <3>. QED  BY <1>1, <2>2, <3>3, <3>4
  <2>. QED  BY <2>3, <2>4
<1>4. ASSUME NEW i \in DOMAIN P
      PROVE  ~Q[i].video /\ Q[i].killed => ~Q[i].alive
  BY <1>2 DEF Sound
<1>5. \A i \in DOMAIN P : Q[i].gen \in Nat
  BY <1>2, FadesDomain DEF Producer
<1> HIDE DEF Q
<1>6. \A i \in DOMAIN P : Q[i].gen <= S.gen
  BY <1>1, <1>3, <1>5
<1>7. DOMAIN Q = DOMAIN P
  BY <1>2
<1>8. Quiet(S, Q, g)
  BY <1>3, <1>4, <1>6, <1>7 DEF Quiet
<1>. QED  BY <1>8 DEF Q

\* A step of one record: the others, and what is said of them, stay.
LEMMA OneRecordQuiet ==
  ASSUME QuietInv, TypeInv', NEW r \in Rec, NEW S, NEW Q,
         rec' = [rec EXCEPT ![r] = S], prod' = [prod EXCEPT ![r] = Q],
         \A k \in Key : streams'[k] \in {streams[k], 0, r},
         Quiet(S, Q, Registered(r)')
  PROVE  QuietInv'
<1>1. ASSUME NEW q \in Rec
      PROVE  Quiet(rec[q], prod[q], Registered(q))'
  <2>1. CASE q = r
    BY <2>1 DEF QuietInv, TypeInv
  <2>2. CASE q # r
    <3>1. rec'[q] = rec[q] /\ prod'[q] = prod[q] /\ rec[q] \in Record
      BY <2>2 DEF QuietInv, TypeInv
    <3>2. Registered(q)' => Registered(q)
      <4>1. Registered(q)' <=> rec[q].key # 0 /\ streams'[rec[q].key] = q
        BY <3>1 DEF Registered
      <4>2. rec[q].key # 0 => rec[q].key \in Key
        BY <3>1 DEF Record
      <4>3. q # 0
        BY DEF Rec
      <4>. QED  BY <2>2, <4>1, <4>2, <4>3 DEF Registered
    <3>3. Quiet(rec[q], prod[q], Registered(q)')
      BY <3>2 DEF QuietInv, Quiet
    <3>. QED  BY <3>1, <3>3
  <2>. QED  BY <2>1, <2>2
<1>. QED  BY <1>1 DEF QuietInv

\* What stop and the end of fail leave of the record.
SameCast(S, R) ==
  /\ S \in Record /\ S.key = R.key /\ S.video = R.video /\ S.gen = R.gen
  /\ S.fallbackUsed = R.fallbackUsed /\ S.fallback = R.fallback /\ S.recovery = R.recovery
  /\ S.attempts = R.attempts /\ S.producer = R.producer

LEMMA StopIs ==
  ASSUME TypeInv, NEW r \in Rec, NEW R \in Record, NEW P \in Seq(Producer), StopWith(r, R, P)
  PROVE  /\ \E S : /\ rec' = [rec EXCEPT ![r] = S] /\ SameCast(S, R) /\ S.state = "stopping"
                   /\ S.idle = FALSE
                   /\ S.stop = IF Prompt(P, R.producer) THEN "done" ELSE "pending"
         /\ prod' = [prod EXCEPT ![r] = Released(P, R.producer)]
         /\ streams' = IF Prompt(P, R.producer) THEN [streams EXCEPT ![R.key] = 0] ELSE streams
         /\ \A k \in Key : streams'[k] \in {streams[k], 0}
         /\ \A v \in Viewer : view'[v].at = IF view[v].at = r THEN 0 ELSE view[v].at
<1> DEFINE stop == IF Prompt(P, R.producer) THEN "done" ELSE "pending"
           S == [R EXCEPT !.state = "stopping", !.idle = FALSE, !.stop = stop]
<1>1. stop \in {"no", "pending", "done"}
  OBVIOUS
<1>2. rec' = [rec EXCEPT ![r] = S]
  BY DEF StopWith
<1>3. stop = IF Prompt(P, R.producer) THEN "done" ELSE "pending"
  OBVIOUS
<1> HIDE DEF stop
<1>4. SameCast(S, R) /\ S.state = "stopping" /\ S.idle = FALSE /\ S.stop = stop
  BY <1>1 DEF SameCast, Record, State
<1> HIDE DEF S
<1>5. \A v \in Viewer : view'[v].at = IF view[v].at = r THEN 0 ELSE view[v].at
  BY DEF StopWith, TypeInv, View
<1>6. /\ prod' = [prod EXCEPT ![r] = Released(P, R.producer)]
      /\ streams' = IF Prompt(P, R.producer) THEN [streams EXCEPT ![R.key] = 0] ELSE streams
  BY DEF StopWith
<1>7. \A k \in Key : streams'[k] \in {streams[k], 0}
  BY <1>6 DEF TypeInv
<1>. QED  BY <1>2, <1>3, <1>4, <1>5, <1>6, <1>7

LEMMA GiveUpIs ==
  ASSUME TypeInv, NEW r \in Rec, NEW R \in Record, NEW P \in Seq(Producer), R.producer <= Len(P),
         Sound(P), GiveUp(r, R, P)
  PROVE  \E S, Q : /\ rec' = [rec EXCEPT ![r] = S] /\ SameCast(S, R)
                   /\ prod' = [prod EXCEPT ![r] = Q] /\ Fades(P, Q) /\ Sound(Q)
                   /\ \A k \in Key : streams'[k] \in {streams[k], 0}
<1>1. CASE R.stop = "no"
  <2>1. R.producer \in 0..Len(P)
    BY LenProperties DEF Record
  <2>2. Fades(P, Released(P, R.producer)) /\ Sound(Released(P, R.producer))
    BY <2>1, ReleasedFades, ReleasedSound
  <2>3. StopWith(r, R, P)
    BY <1>1 DEF GiveUp
  <2>4. PICK S : rec' = [rec EXCEPT ![r] = S] /\ SameCast(S, R)
    BY <2>3, StopIs
  <2>5. prod' = [prod EXCEPT ![r] = Released(P, R.producer)]
    BY <2>3 DEF StopWith
  <2>6. \A k \in Key : streams'[k] \in {streams[k], 0}
    BY <2>3 DEF StopWith, TypeInv
  <2>. QED  BY <2>2, <2>4, <2>5, <2>6
<1>2. CASE R.stop # "no"
  <2> DEFINE S == [R EXCEPT !.state = "failed"]
  <2>1. SameCast(S, R)
    BY DEF SameCast, Record, State
  <2>2. rec' = [rec EXCEPT ![r] = S] /\ prod' = [prod EXCEPT ![r] = P] /\ streams' = streams
    BY <1>2 DEF GiveUp
  <2>3. Fades(P, P)
    BY FadesSelf
  <2> HIDE DEF S
  <2>. QED  BY <2>1, <2>2, <2>3
<1>. QED  BY <1>1, <1>2

\* The registry loses records but for the one a step is about.
LEMMA StillRegistered ==
  ASSUME TypeInv, NEW r \in Rec, NEW S, S.key = rec[r].key, rec' = [rec EXCEPT ![r] = S],
         \A k \in Key : streams'[k] \in {streams[k], 0}
  PROVE  Registered(r)' => Registered(r)
<1>1. Registered(r)' <=> S.key # 0 /\ streams'[S.key] = r
  BY DEF Registered, TypeInv
<1>2. rec[r].key # 0 => rec[r].key \in Key
  BY DEF TypeInv, Record
<1>3. r # 0
  BY DEF Rec
<1>. QED  BY <1>1, <1>2, <1>3 DEF Registered

LEMMA GiveUpQuiet ==
  ASSUME QuietInv, TypeInv', NEW r \in Rec, NEW R \in Record, NEW P \in Seq(Producer),
         Fades(prod[r], P), Sound(P), R.key = rec[r].key, R.producer = rec[r].producer,
         R.gen = rec[r].gen, R.fallback = rec[r].fallback,
         rec[r].recovery = "none" => R.recovery = "none", GiveUp(r, R, P)
  PROVE  QuietInv'
<1>1. TypeInv /\ rec[r] \in Record /\ prod[r] \in Seq(Producer) /\ Counted(rec[r], prod[r])
      /\ Quiet(rec[r], prod[r], Registered(r))
  BY DEF QuietInv, TypeInv
<1>2. R.producer <= Len(P)
  BY <1>1 DEF Counted, Fades
<1>3. PICK S, Q : /\ rec' = [rec EXCEPT ![r] = S] /\ SameCast(S, R)
                  /\ prod' = [prod EXCEPT ![r] = Q] /\ Fades(P, Q) /\ Sound(Q)
                  /\ \A k \in Key : streams'[k] \in {streams[k], 0}
  BY <1>1, <1>2, GiveUpIs
<1>4. Fades(prod[r], Q)
  BY <1>1, <1>3, FadesTwice
<1>5. Registered(r)' => Registered(r)
  BY <1>1, <1>3, StillRegistered DEF SameCast
<1>6. Quiet(S, Q, Registered(r)')
  BY <1>1, <1>3, <1>4, <1>5, FadingIsQuiet DEF SameCast
<1>. QED  BY <1>3, <1>6, OneRecordQuiet

LEMMA FailQuiet ==
  ASSUME QuietInv, TypeInv', NEW r \in Rec, NEW i \in DOMAIN prod[r], NEW q,
         Fade(prod[r][i], q), q.errors = 0, ~q.video /\ q.killed => ~q.alive,
         ~ReplacedIn(rec[r], i), NEW b, Fail(r, b, [prod[r] EXCEPT ![i] = q])
  PROVE  QuietInv'
<1> DEFINE R == rec[r]
           P == prod[r]
           T == [P EXCEPT ![i] = q]
<1>1. TypeInv /\ R \in Record /\ P \in Seq(Producer) /\ Counted(R, P)
      /\ Quiet(R, P, Registered(r)) /\ R.key # 0
  BY HasProducer DEF QuietInv, TypeInv
<1>2. i = R.producer /\ R.fallback = "none" /\ R.recovery = "none"
  BY DEF ReplacedIn, Busy
<1>3. Fades(P, T) /\ T[i] = q /\ \A j \in DOMAIN P \ {i} : T[j] = P[j]
  BY <1>1, FadeAt
<1>4. Sound(T) /\ T \in Seq(Producer) /\ DOMAIN T = DOMAIN P /\ R.producer <= Len(T)
  <2>1. DOMAIN T = DOMAIN P /\ T \in Seq(Producer) /\ Len(T) = Len(P)
    BY <1>1, <1>3, FadesDomain DEF Fades
  <2>2. Sound(T)
    BY <1>1, <1>3, <2>1 DEF Sound, Quiet
  <2>. QED  BY <1>1, <2>1, <2>2 DEF Counted
<1>5. R.producer # 0 => T[R.producer].errors = 0
  BY <1>2, <1>3
<1>6. Fail(r, b, T)
  OBVIOUS
<1> HIDE DEF T
<1>7. CASE prod' = [prod EXCEPT ![r] = T] /\ UNCHANGED <<streams, rec, view>>
  <2>1. rec' = [rec EXCEPT ![r] = R] /\ \A k \in Key : streams'[k] \in {streams[k], 0}
    BY <1>1, <1>7 DEF TypeInv
  <2>2. Registered(r)' => Registered(r)
    BY <1>1, <2>1, StillRegistered
  <2>3. Quiet(R, T, Registered(r)')
    BY <1>1, <1>3, <1>4, <2>2, FadingIsQuiet
  <2>. QED  BY <1>7, <2>1, <2>3, OneRecordQuiet
<1>8. ASSUME NEW S, S.key = R.key, S.producer = R.producer, S.gen = R.gen + 1,
             S.fallback = "none" \/ S.recovery = "none",
             rec' = [rec EXCEPT ![r] = S],
             prod' = [prod EXCEPT ![r] = Released(T, R.producer)], UNCHANGED <<streams, view>>
      PROVE  QuietInv'
  <2>1. \A k \in Key : streams'[k] \in {streams[k], 0}
    BY <1>8
  <2>2. Registered(r)' => Registered(r)
    BY <1>1, <1>8, <2>1, StillRegistered
  <2>3. Quiet(S, Released(T, R.producer), Registered(r))
    BY <1>1, <1>3, <1>4, <1>5, <1>8, ReplacingIsQuiet DEF Counted
  <2>4. Quiet(S, Released(T, R.producer), Registered(r)')
    BY <2>2, <2>3 DEF Quiet
  <2>. QED  BY <1>8, <2>1, <2>4, OneRecordQuiet
<1>9. ASSUME NEW f \in {"now", "waiting"},
             rec' = [rec EXCEPT ![r].fallbackUsed = TRUE, ![r].gen = @ + 1, ![r].fallback = f],
             prod' = [prod EXCEPT ![r] = Released(T, R.producer)], UNCHANGED <<streams, view>>
      PROVE  QuietInv'
  <2> DEFINE g == R.gen + 1
             S == [R EXCEPT !.fallbackUsed = TRUE, !.gen = g, !.fallback = f]
  <2>1. rec' = [rec EXCEPT ![r] = S]
    BY <1>1, <1>9 DEF TypeInv
  <2>2. g = R.gen + 1
    OBVIOUS
  <2> HIDE DEF g
  <2>3. S.key = R.key /\ S.producer = R.producer /\ S.gen = g /\ S.recovery = R.recovery
    BY <1>1 DEF Record
  <2> HIDE DEF S
  <2>. QED  BY <1>2, <1>8, <1>9, <2>1, <2>2, <2>3
<1>10. ASSUME rec' = [rec EXCEPT ![r].attempts = @ + 1, ![r].gen = @ + 1,
                                 ![r].state = "reconnecting", ![r].recovery = "waiting"],
              prod' = [prod EXCEPT ![r] = Released(T, R.producer)], UNCHANGED <<streams, view>>
       PROVE  QuietInv'
  <2> DEFINE g == R.gen + 1
             a == R.attempts + 1
             S == [R EXCEPT !.attempts = a, !.gen = g,
                            !.state = "reconnecting", !.recovery = "waiting"]
  <2>1. rec' = [rec EXCEPT ![r] = S]
    BY <1>1, <1>10 DEF TypeInv
  <2>2. g = R.gen + 1
    OBVIOUS
  <2> HIDE DEF g, a
  <2>3. S.key = R.key /\ S.producer = R.producer /\ S.gen = g /\ S.fallback = R.fallback
    BY <1>1 DEF Record
  <2> HIDE DEF S
  <2>. QED  BY <1>2, <1>8, <1>10, <2>1, <2>2, <2>3
<1>11. ASSUME NEW U, U = (IF R.producer = 0 THEN T ELSE [T EXCEPT ![R.producer].boot = FALSE]),
              GiveUp(r, R, U)
       PROVE  QuietInv'
  <2>1. R.producer \in 0..Len(T) /\ R.producer # 0
    BY <1>1, <1>2, <1>4, LenProperties DEF Record
  <2>2. Fades(T, U) /\ U = [T EXCEPT ![R.producer].boot = FALSE]
    BY <1>4, <1>11, <2>1, DisarmedFades
  <2>3. DOMAIN U = DOMAIN T /\ U \in Seq(Producer)
    BY <1>4, <2>2, FadesDomain
  <2>4. \A j \in DOMAIN T : T[j] \in Producer
    BY <1>4, ElementOfSeq
  <2>5. Sound(U)
    <3>1. ASSUME NEW j \in DOMAIN T
          PROVE  U[j].video = T[j].video /\ U[j].killed = T[j].killed /\ U[j].alive = T[j].alive
      BY <2>2, <2>4 DEF Producer
    <3>. QED  BY <1>4, <2>3, <3>1 DEF Sound
  <2>6. Fades(P, U)
    BY <1>1, <1>3, <2>2, FadesTwice
  <2>. QED  BY <1>1, <1>11, <2>3, <2>5, <2>6, GiveUpQuiet
<1>. QED
  BY <1>6, <1>7, <1>9, <1>10, <1>11 DEF Fail

\* The bound of Producing leaves no producer out.
LEMMA AllProducing ==
  ASSUME TypeInv, NEW r \in Rec, NEW i \in DOMAIN prod[r]
  PROVE  <<r, i>> \in Producing
<1>1. rec[r] \in Record /\ Counted(rec[r], prod[r]) /\ i \in 1..Len(prod[r])
      /\ Len(prod[r]) \in Nat /\ Attempts \in Nat
  BY HasProducer, CastAssumption, LenProperties DEF TypeInv
<1>2. /\ One(rec[r].fallback # "none") \in 0..1 /\ One(rec[r].recovery # "none") \in 0..1
      /\ One(rec[r].fallbackUsed) \in 0..1 /\ rec[r].attempts \in 0..Attempts
  BY <1>1 DEF One, Record
<1>3. i \in 1..(Attempts + 3)
  BY <1>1, <1>2 DEF Counted
<1>. QED  BY <1>3 DEF Producing

LEMMA ProducingIs ==
  ASSUME NEW c \in Producing
  PROVE  \E r \in Rec : \E i \in DOMAIN prod[r] : c = <<r, i>> /\ c[1] = r /\ c[2] = i
BY DEF Producing

LEMMA NoErrorsLeft ==
  ASSUME TypeInv, NoErrors, NEW r \in Rec, NEW i \in DOMAIN prod[r]
  PROVE  prod[r][i].errors = 0
<1>1. <<r, i>> \in Producing
  BY AllProducing
<1>. QED  BY <1>1 DEF NoErrors

LEMMA HeardIsCurrent ==
  ASSUME QuietInv, NEW r \in Rec, NEW i \in DOMAIN prod[r],
         Audible(prod[r][i]) \/ Current(r, i)
  PROVE  ~ReplacedIn(rec[r], i)
<1>1. rec[r] \in Record /\ Quiet(rec[r], prod[r], Registered(r))
  BY DEF QuietInv, TypeInv
<1>2. CASE Audible(prod[r][i])
  BY <1>1, <1>2 DEF Quiet
<1>3. CASE Current(r, i)
  <2>1. Registered(r) /\ prod[r][i].gen = rec[r].gen /\ rec[r].gen \in Nat
    BY <1>1, <1>3 DEF Current, Record
  <2>2. ReplacedIn(rec[r], i) => prod[r][i].gen < rec[r].gen
    BY <1>1, <2>1 DEF Quiet
  <2>. QED  BY <2>1, <2>2
<1>. QED  BY <1>2, <1>3

LEMMA SilentQuiet ==
  ASSUME QuietInv, TypeInv', NEW r \in Rec, NEW i \in DOMAIN prod[r], NEW q,
         Fade(prod[r][i], q), ~q.video /\ q.killed => ~q.alive,
         prod' = [prod EXCEPT ![r] = [prod[r] EXCEPT ![i] = q]], UNCHANGED <<streams, rec, view>>
  PROVE  QuietInv'
<1> DEFINE P == prod[r]
           T == [P EXCEPT ![i] = q]
<1>1. TypeInv /\ rec[r] \in Record /\ P \in Seq(Producer) /\ Quiet(rec[r], P, Registered(r))
  BY DEF QuietInv, TypeInv
<1>2. Fades(P, T) /\ T[i] = q /\ \A j \in DOMAIN P \ {i} : T[j] = P[j]
  BY <1>1, FadeAt
<1>3. DOMAIN T = DOMAIN P
  BY <1>1, <1>2, FadesDomain
<1>4. Sound(T)
  BY <1>1, <1>2, <1>3 DEF Sound, Quiet
<1>5. prod' = [prod EXCEPT ![r] = T] /\ rec' = [rec EXCEPT ![r] = rec[r]]
  BY <1>1 DEF TypeInv
<1> HIDE DEF T
<1>6. Registered(r)' => Registered(r)
  BY <1>1, <1>5, StillRegistered
<1>7. Quiet(rec[r], T, Registered(r)')
  BY <1>1, <1>2, <1>4, <1>6, FadingIsQuiet
<1>. QED  BY <1>5, <1>7, OneRecordQuiet

LEMMA CallbacksQuiet ==
  ASSUME QuietInv, TypeInv', NEW r \in Rec, NEW i \in DOMAIN prod[r],
         \/ ProcessError(r, i)
         \/ NoErrors /\ (ProcessCloses(r, i) \/ CaptureFails(r, i) \/ BootTimeout(r, i))
  PROVE  QuietInv'
<1> DEFINE p == prod[r][i]
<1>1. TypeInv /\ p \in Producer /\ p.errors \in 0..1
      /\ (~p.video /\ p.killed => ~p.alive)
  BY HasProducer DEF QuietInv, Quiet, Producer
<1>2. CASE ProcessError(r, i)
  <2>1. PICK b \in BOOLEAN : Fail(r, b, [prod[r] EXCEPT ![i] = ErrorHeard(p)])
    BY <1>1, <1>2, ErrorIsHeard DEF Fails
  <2>2. p.errors > 0 /\ Audible(p)
    BY <1>2 DEF ProcessError, Audible
  <2>3. Fade(p, ErrorHeard(p)) /\ ErrorHeard(p).errors = 0
    BY <1>1, <2>2, CallbackFades
  <2>4. ErrorHeard(p).killed = p.killed /\ ErrorHeard(p).video = p.video
        /\ ErrorHeard(p).alive = p.alive
    BY <1>1 DEF ErrorHeard, Producer
  <2>. QED  BY <1>1, <2>1, <2>2, <2>3, <2>4, HeardIsCurrent, FailQuiet
<1>3. CASE NoErrors /\ ProcessCloses(r, i)
  <2>1. PICK other \in BOOLEAN, lost \in BOOLEAN :
          LET q == Exited(p, other, lost)
              P == [prod[r] EXCEPT ![i] = q]
          IN /\ Heard(r, i, q)
             /\ p.video /\ p.alive
             /\ IF Current(r, i) THEN Fails(r, P)
                ELSE prod' = [prod EXCEPT ![r] = P] /\ UNCHANGED <<streams, rec, view>>
    BY <1>1, <1>3, CloseIsHeard
  <2> DEFINE q == Exited(p, other, lost)
  <2>2. Fade(p, q) /\ q.errors = 0 /\ q.video
    <3>1. p.errors = 0 /\ p.video /\ p.alive
      BY <1>1, <1>3, <2>1, NoErrorsLeft
    <3>2. Fade(p, q) /\ q.errors = p.errors
      BY <1>1, <3>1, ExitFades
    <3> HIDE DEF q
    <3>. QED  BY <3>1, <3>2 DEF Fade
  <2>3. CASE Current(r, i)
    BY <2>1, <2>2, <2>3, HeardIsCurrent, FailQuiet DEF Fails
  <2>4. CASE ~Current(r, i)
    BY <2>1, <2>2, <2>4, SilentQuiet
  <2>. QED  BY <2>3, <2>4
<1>4. CASE NoErrors /\ CaptureFails(r, i)
  <2> DEFINE q == Ended(p)
  <2>1. IF p.heard THEN Fails(r, [prod[r] EXCEPT ![i] = q])
        ELSE /\ prod' = [prod EXCEPT ![r] = [prod[r] EXCEPT ![i] = q]]
             /\ UNCHANGED <<streams, rec, view>>
    BY <1>1, <1>4, EndIsHeard
  <2>2. Fade(p, q) /\ q.errors = 0 /\ ~q.alive
    BY <1>1, <1>4, CallbackFades, NoErrorsLeft
  <2>3. CASE p.heard
    <3>1. Audible(p)
      BY <2>3 DEF Audible
    <3>. QED  BY <2>1, <2>2, <2>3, <3>1, HeardIsCurrent, FailQuiet DEF Fails
  <2>4. CASE ~p.heard
    BY <2>1, <2>2, <2>4, SilentQuiet
  <2>. QED  BY <2>3, <2>4
<1>5. CASE NoErrors /\ BootTimeout(r, i)
  <2> DEFINE q == Disarmed(p)
  <2>1. /\ p.boot
        /\ IF rec[r].state = "starting" /\ p.gen = rec[r].gen
           THEN Fails(r, [prod[r] EXCEPT ![i] = q])
           ELSE /\ prod' = [prod EXCEPT ![r] = [prod[r] EXCEPT ![i] = q]]
                /\ UNCHANGED <<streams, rec, view>>
    BY <1>1, <1>5, BootIsHeard
  <2>2. Fade(p, q) /\ q.errors = 0 /\ (~q.video /\ q.killed => ~q.alive) /\ Audible(p)
    BY <1>1, <1>5, <2>1, CallbackFades, NoErrorsLeft DEF Fade, Audible
  <2>3. ~ReplacedIn(rec[r], i)
    BY <2>2, HeardIsCurrent
  <2>4. CASE rec[r].state = "starting" /\ p.gen = rec[r].gen
    BY <2>1, <2>2, <2>3, <2>4, FailQuiet DEF Fails
  <2>5. CASE ~(rec[r].state = "starting" /\ p.gen = rec[r].gen)
    BY <2>1, <2>2, <2>5, SilentQuiet
  <2>. QED  BY <2>4, <2>5
<1>. QED  BY <1>2, <1>3, <1>4, <1>5

\* A fallback or a recovery that ends starts the only producer there is.
LEMMA BeginQuiet ==
  ASSUME SpawnErrors \subseteq 0..1, QuietInv, TypeInv', NEW r \in Rec, NEW R \in Record,
         Busy(rec[r]), ~Busy(R), R.producer = 0, R.key = rec[r].key, R.gen = rec[r].gen,
         NEW owned \in BOOLEAN, owned = Registered(r), Begin(r, R, prod[r], owned),
         streams' = streams
  PROVE  QuietInv'
<1> DEFINE P == prod[r]
<1>1. TypeInv /\ rec[r] \in Record /\ P \in Seq(Producer) /\ Quiet(rec[r], P, Registered(r))
  BY DEF QuietInv, TypeInv
<1>2. PICK errs \in SpawnErrors, video \in BOOLEAN :
        /\ New(R, video, owned, errs) \in Producer
        /\ ~video => errs = 0
        /\ prod' = [prod EXCEPT ![r] = Append(P, New(R, video, owned, errs))]
        /\ rec' = [rec EXCEPT ![r] = [R EXCEPT !.producer = IF owned THEN Len(P) + 1 ELSE @]]
  BY <1>1, BeginAdds
<1> DEFINE n == New(R, video, owned, errs)
           m == IF owned THEN Len(P) + 1 ELSE R.producer
           S == [R EXCEPT !.producer = m]
           Q == Append(P, n)
<1>3. /\ n.gen = R.gen /\ n.video = video /\ n.killed = FALSE /\ n.errors \in 0..1
      /\ ~owned => ~Audible(n)
  <2> DEFINE k == errs = 2
             a == errs < 2
             e == IF owned THEN errs ELSE 0
  <2>1. k = FALSE /\ a \in BOOLEAN /\ e \in 0..1 /\ (~owned => e = 0)
    BY <1>2
  <2>2. n = [gen |-> R.gen, video |-> video, alive |-> a, killed |-> k, lost |-> FALSE,
             heard |-> owned, errors |-> e, boot |-> owned]
    BY DEF New
  <2> HIDE DEF k, a, e, n
  <2>3. /\ n.gen = R.gen /\ n.video = video /\ n.killed = FALSE /\ n.errors = e
        /\ n.heard = owned /\ n.boot = owned
    BY <2>1, <2>2
  <2>. QED  BY <2>1, <2>3 DEF Audible
<1>4. rec' = [rec EXCEPT ![r] = S] /\ prod' = [prod EXCEPT ![r] = Q]
  BY <1>2
<1>5. m = (IF owned THEN Len(P) + 1 ELSE 0)
  OBVIOUS
<1>6. /\ Q \in Seq(Producer) /\ Len(P) \in Nat /\ DOMAIN Q = 1..(Len(P) + 1)
      /\ DOMAIN P = 1..Len(P) /\ Q[Len(P) + 1] = n /\ \A j \in DOMAIN P : Q[j] = P[j]
  BY <1>1, <1>2, AppendedType
<1> HIDE DEF n, m, Q
<1>7. S.key = R.key /\ S.gen = R.gen /\ S.fallback = R.fallback /\ S.recovery = R.recovery
      /\ S.producer = m /\ R.gen \in Nat
  BY DEF Record
<1> HIDE DEF S
<1>8. Registered(r)' <=> owned
  BY <1>1, <1>4, <1>7 DEF Registered, TypeInv
<1>9. ~Busy(S)
  BY <1>7 DEF Busy
<1>10. ASSUME NEW i \in DOMAIN P
       PROVE  /\ P[i].errors <= 1
              /\ P[i].gen <= S.gen
              /\ ~P[i].video /\ P[i].killed => ~P[i].alive
              /\ ~Audible(P[i])
              /\ owned => P[i].gen < S.gen /\ ~(P[i].alive /\ ~P[i].killed)
  <2>1. ReplacedIn(rec[r], i)
    BY DEF ReplacedIn
  <2>. QED  BY <1>1, <1>7, <2>1 DEF Quiet
<1>11. Quiet(S, Q, Registered(r)')
  <2>1. ASSUME NEW i \in DOMAIN Q
        PROVE  /\ Q[i].errors <= 1
               /\ Q[i].gen <= S.gen
               /\ ~Q[i].video /\ Q[i].killed => ~Q[i].alive
               /\ Audible(Q[i]) => ~ReplacedIn(S, i)
               /\ owned /\ ReplacedIn(S, i) =>
                    Q[i].gen < S.gen /\ ~(Q[i].alive /\ ~Q[i].killed)
    <3>1. CASE i \in DOMAIN P
      <4>1. Q[i] = P[i]
        BY <1>6, <3>1
      <4>. QED  BY <1>10, <3>1, <4>1
    <3>2. CASE i = Len(P) + 1
      <4>1. Q[i] = n /\ n.errors <= 1 /\ n.gen <= S.gen /\ ~n.killed
        BY <1>3, <1>6, <1>7, <3>2
      <4>2. owned => ~ReplacedIn(S, i)
        BY <1>5, <1>7, <1>9, <3>2 DEF ReplacedIn
      <4>. QED  BY <1>3, <4>1, <4>2
    <3>. QED  BY <1>6, <3>1, <3>2
  <2>. QED  BY <1>8, <1>9, <2>1 DEF Quiet, Busy
<1>12. \A k \in Key : streams'[k] \in {streams[k], 0, r}
  OBVIOUS
<1>. QED  BY <1>4, <1>11, <1>12, OneRecordQuiet

\* Steps that change neither what a record produces nor its producers but for
\* a timer.
LEMMA CalmQuiet ==
  ASSUME QuietInv, TypeInv', NEW r \in Rec, NEW S, NEW Q, Fades(prod[r], Q), Sound(Q),
         S.key = rec[r].key, S.producer = rec[r].producer, S.gen = rec[r].gen,
         S.fallback = rec[r].fallback, rec[r].recovery = "none" => S.recovery = "none",
         rec' = [rec EXCEPT ![r] = S], prod' = [prod EXCEPT ![r] = Q],
         \A k \in Key : streams'[k] \in {streams[k], 0}
  PROVE  QuietInv'
<1>1. TypeInv /\ rec[r] \in Record /\ prod[r] \in Seq(Producer)
      /\ Quiet(rec[r], prod[r], Registered(r))
  BY DEF QuietInv, TypeInv
<1>2. Registered(r)' => Registered(r)
  BY <1>1, StillRegistered
<1>3. Quiet(S, Q, Registered(r)')
  BY <1>1, <1>2, FadingIsQuiet
<1>. QED  BY <1>3, OneRecordQuiet

LEMMA QuietIsSound ==
  ASSUME QuietInv, NEW r \in Rec
  PROVE  /\ Sound(prod[r]) /\ Fades(prod[r], prod[r]) /\ prod[r] \in Seq(Producer)
         /\ rec[r] \in Record /\ Counted(rec[r], prod[r]) /\ TypeInv
         /\ Quiet(rec[r], prod[r], Registered(r)) /\ Registered(r) \in BOOLEAN
         /\ prod = [prod EXCEPT ![r] = prod[r]] /\ rec = [rec EXCEPT ![r] = rec[r]]
<1>1. TypeInv /\ prod[r] \in Seq(Producer) /\ Quiet(rec[r], prod[r], Registered(r))
      /\ rec[r] \in Record /\ Counted(rec[r], prod[r])
  BY DEF QuietInv, TypeInv
<1>2. Sound(prod[r])
  BY <1>1 DEF Sound, Quiet
<1>3. Registered(r) \in BOOLEAN
  BY DEF Registered
<1>4. prod = [prod EXCEPT ![r] = prod[r]] /\ rec = [rec EXCEPT ![r] = rec[r]]
  BY <1>1 DEF TypeInv
<1>. QED  BY <1>1, <1>2, <1>3, <1>4, FadesSelf

LEMMA ContinueQuiet ==
  ASSUME SpawnErrors \subseteq 0..1, QuietInv, TypeInv', NEW r \in Rec, Continuation(r)
  PROVE  QuietInv'
<1> DEFINE R == rec[r]
           P == prod[r]
<1>1. /\ R \in Record /\ P \in Seq(Producer) /\ Registered(r) \in BOOLEAN
      /\ Sound(P) /\ Fades(P, P) /\ TypeInv
      /\ R.fallback = "none" \/ R.recovery = "none"
  BY QuietIsSound DEF Quiet
<1>2. CASE StopFinishes(r)
  <2> DEFINE S == [R EXCEPT !.stop = "done"]
  <2>1. S.key = R.key /\ S.producer = R.producer /\ S.gen = R.gen
        /\ S.fallback = R.fallback /\ S.recovery = R.recovery
    BY <1>1 DEF Record
  <2>2. rec' = [rec EXCEPT ![r] = S] /\ prod' = [prod EXCEPT ![r] = P]
        /\ \A k \in Key : streams'[k] \in {streams[k], 0}
    BY <1>1, <1>2 DEF StopFinishes, TypeInv
  <2> HIDE DEF S
  <2>. QED  BY <1>1, <2>1, <2>2, CalmQuiet
<1>3. CASE FallbackContinues(r)
  <2> DEFINE S == [R EXCEPT !.fallback = "none", !.producer = 0, !.state = "starting"]
  <2>1. S \in Record /\ S.key = R.key /\ S.producer = 0 /\ S.gen = R.gen
        /\ S.fallback = "none" /\ S.recovery = R.recovery
    BY <1>1 DEF Record, State
  <2>2. Begin(r, S, P, Registered(r)) /\ streams' = streams /\ R.fallback # "none"
    BY <1>3 DEF FallbackContinues
  <2> HIDE DEF S
  <2>3. Busy(R) /\ ~Busy(S)
    BY <1>1, <2>1, <2>2 DEF Busy
  <2>. QED  BY <1>1, <2>1, <2>2, <2>3, BeginQuiet
<1>4. CASE RecoveryResolves(r)
  <2> DEFINE S == [R EXCEPT !.recovery = "none", !.producer = 0, !.state = "starting"]
  <2>1. S \in Record /\ S.key = R.key /\ S.producer = 0 /\ S.gen = R.gen
        /\ S.fallback = R.fallback /\ S.recovery = "none"
    BY <1>1 DEF Record, State
  <2>2. Begin(r, S, P, Registered(r)) /\ streams' = streams /\ R.recovery = "resolving"
    BY <1>4 DEF RecoveryResolves
  <2> HIDE DEF S
  <2>3. Busy(R) /\ ~Busy(S)
    BY <1>1, <2>1, <2>2 DEF Busy
  <2>. QED  BY <1>1, <2>1, <2>2, <2>3, BeginQuiet
<1>5. ASSUME GiveUp(r, [R EXCEPT !.recovery = "none"], P)
      PROVE  QuietInv'
  <2> DEFINE S == [R EXCEPT !.recovery = "none"]
  <2>1. S \in Record /\ S.key = R.key /\ S.producer = R.producer /\ S.gen = R.gen
        /\ S.fallback = R.fallback /\ S.recovery = "none"
    BY <1>1 DEF Record
  <2>2. GiveUp(r, S, P)
    BY <1>5
  <2> HIDE DEF S
  <2>. QED  BY <1>1, <2>1, <2>2, GiveUpQuiet
<1>6. CASE RecoveryFails(r)
  BY <1>5, <1>6 DEF RecoveryFails
<1>7. CASE RecoveryWakes(r)
  <2>1. CASE Registered(r) /\ Viewers(r) # {} /\ ~shut
    <3> DEFINE S == [R EXCEPT !.recovery = "resolving"]
    <3>1. S.key = R.key /\ S.producer = R.producer /\ S.gen = R.gen
          /\ S.fallback = R.fallback /\ S.recovery = "resolving"
      BY <1>1 DEF Record
    <3>2. rec' = [rec EXCEPT ![r] = S] /\ prod' = [prod EXCEPT ![r] = P]
          /\ R.recovery # "none" /\ \A k \in Key : streams'[k] \in {streams[k], 0}
      BY <1>1, <1>7, <2>1 DEF RecoveryWakes, TypeInv
    <3> HIDE DEF S
    <3>. QED  BY <1>1, <3>1, <3>2, CalmQuiet
  <2>2. CASE ~(Registered(r) /\ Viewers(r) # {} /\ ~shut)
    BY <1>5, <1>7, <2>2 DEF RecoveryWakes
  <2>. QED  BY <2>1, <2>2
<1>. QED  BY <1>2, <1>3, <1>4, <1>6, <1>7 DEF Continuation

\* A chunk comes from the current producer and at most disarms its timer.
LEMMA PublishFades ==
  ASSUME QuietInv, NEW r \in Rec, NEW i \in DOMAIN prod[r], Publish(r, i)
  PROVE  /\ i = rec[r].producer /\ ~Busy(rec[r])
         /\ \E q : /\ q \in {prod[r][i], Disarmed(prod[r][i])}
                   /\ rec[r].state # "starting" => q = prod[r][i]
                   /\ prod' = [prod EXCEPT ![r] = [prod[r] EXCEPT ![i] = q]]
<1>1. prod \in [Rec -> Seq(Producer)] /\ prod[r][i] \in Producer
  BY HasProducer DEF QuietInv, TypeInv
<1>2. ~ReplacedIn(rec[r], i)
  BY HeardIsCurrent DEF Publish
<1>3. i = rec[r].producer /\ ~Busy(rec[r])
  BY <1>2 DEF ReplacedIn
<1>4. CASE rec[r].state = "starting"
  <2>1. prod' = [prod EXCEPT ![r][i].boot = FALSE]
    BY <1>3, <1>4 DEF Publish
  <2>2. [prod EXCEPT ![r][i].boot = FALSE]
        = [prod EXCEPT ![r] = [prod[r] EXCEPT ![i] = Disarmed(prod[r][i])]]
    BY <1>1 DEF Disarmed
  <2>. QED  BY <1>3, <1>4, <2>1, <2>2
<1>5. CASE rec[r].state # "starting"
  <2>1. prod' = prod
    BY <1>5 DEF Publish
  <2>2. prod = [prod EXCEPT ![r] = [prod[r] EXCEPT ![i] = prod[r][i]]]
    BY <1>1
  <2>. QED  BY <1>3, <1>5, <2>1, <2>2
<1>. QED  BY <1>4, <1>5

LEMMA PublishQuiet ==
  ASSUME QuietInv, TypeInv', NEW r \in Rec, NEW i \in DOMAIN prod[r], Publish(r, i)
  PROVE  QuietInv'
<1>1. /\ prod[r] \in Seq(Producer) /\ rec[r] \in Record /\ Sound(prod[r]) /\ TypeInv
      /\ prod[r][i] \in Producer
  BY QuietIsSound, HasProducer
<1>2. PICK q : /\ q \in {prod[r][i], Disarmed(prod[r][i])}
               /\ prod' = [prod EXCEPT ![r] = [prod[r] EXCEPT ![i] = q]]
  BY PublishFades
<1> DEFINE Q == [prod[r] EXCEPT ![i] = q]
<1>3. Fade(prod[r][i], q) /\ q.killed = prod[r][i].killed /\ q.alive = prod[r][i].alive
      /\ q.video = prod[r][i].video
  BY <1>1, <1>2, CallbackFades, FadeSelf DEF Fade
<1>4. Fades(prod[r], Q) /\ Q[i] = q /\ \A j \in DOMAIN prod[r] \ {i} : Q[j] = prod[r][j]
  BY <1>1, <1>3, FadeAt
<1>5. prod' = [prod EXCEPT ![r] = Q] /\ DOMAIN Q = DOMAIN prod[r]
  BY <1>1, <1>2, <1>4, FadesDomain
<1> HIDE DEF Q
<1>6. Sound(Q)
  <2>1. ASSUME NEW j \in DOMAIN prod[r]
        PROVE  ~Q[j].video /\ Q[j].killed => ~Q[j].alive
    BY <1>1, <1>3, <1>4 DEF Sound
  <2>. QED  BY <1>5, <2>1 DEF Sound
<1>7. PICK S \in Record :
        /\ rec' = [rec EXCEPT ![r] = S] /\ S.key = rec[r].key
        /\ S.producer = rec[r].producer /\ S.gen = rec[r].gen
        /\ S.fallback = rec[r].fallback /\ S.recovery = rec[r].recovery
        /\ UNCHANGED streams
  BY <1>1, PublishIs
<1>. QED  BY <1>4, <1>5, <1>6, <1>7, CalmQuiet

LEMMA StartQuiet ==
  ASSUME SpawnErrors \subseteq 0..1, QuietInv, TypeInv', NEW v \in Viewer, NEW k \in Key,
         NEW video \in BOOLEAN, NEW left \in BOOLEAN, StartCast(v, k, video, left)
  PROVE  QuietInv'
<1>1. PICK r \in Rec : \E S, p : Starts(v, k, video, left, r, S, p)
  BY FreshIs
<1>2. PICK S, p : Starts(v, k, video, left, r, S, p)
  BY <1>1
<1>3. /\ streams' = [streams EXCEPT ![k] = r] /\ rec' = [rec EXCEPT ![r] = S]
      /\ prod' = [prod EXCEPT ![r] = <<p>>]
  BY <1>2 DEF Starts
<1>4. /\ S.gen = 1 /\ S.fallback = "none" /\ S.recovery = "none" /\ S.producer = 1
      /\ p.gen = 1 /\ p.errors \in 0..1 /\ (p.killed => ~p.alive)
  BY <1>2 DEF Starts, FreshRecord, FirstProducer
<1>5. ~ReplacedIn(S, 1)
  BY <1>4 DEF ReplacedIn, Busy
<1> DEFINE Q == <<p>>
<1>6. DOMAIN Q = {1} /\ Q[1] = p
  OBVIOUS
<1> HIDE DEF Q
<1>7. Quiet(S, Q, Registered(r)')
  BY <1>4, <1>5, <1>6 DEF Quiet
<1>8. \A h \in Key : streams'[h] \in {streams[h], 0, r}
  BY <1>3 DEF QuietInv, TypeInv
<1>9. prod' = [prod EXCEPT ![r] = Q]
  BY <1>3 DEF Q
<1>. QED  BY <1>3, <1>7, <1>8, <1>9, OneRecordQuiet

LEMMA IdleQuiet ==
  ASSUME QuietInv, TypeInv', NEW r \in Rec, NoViewerTimer(r)
  PROVE  QuietInv'
<1>1. /\ rec[r] \in Record /\ prod[r] \in Seq(Producer) /\ Sound(prod[r])
      /\ Fades(prod[r], prod[r]) /\ TypeInv
  BY QuietIsSound
<1>2. CASE Viewers(r) = {} /\ rec[r].stop = "no"
  <2>1. GiveUp(r, rec[r], prod[r])
    BY <1>2 DEF NoViewerTimer, GiveUp
  <2>. QED  BY <1>1, <2>1, GiveUpQuiet
<1>3. CASE ~(Viewers(r) = {} /\ rec[r].stop = "no")
  <2> DEFINE S == [rec[r] EXCEPT !.idle = FALSE]
  <2>1. S.key = rec[r].key /\ S.producer = rec[r].producer /\ S.gen = rec[r].gen
        /\ S.fallback = rec[r].fallback /\ S.recovery = rec[r].recovery
    BY <1>1 DEF Record
  <2>2. rec' = [rec EXCEPT ![r] = S] /\ prod' = prod /\ streams' = streams
    BY <1>1, <1>3 DEF NoViewerTimer, TypeInv
  <2>3. prod' = [prod EXCEPT ![r] = prod[r]] /\ \A k \in Key : streams'[k] \in {streams[k], 0}
    BY <2>2, QuietIsSound
  <2> HIDE DEF S
  <2>. QED  BY <1>1, <2>1, <2>2, <2>3, CalmQuiet
<1>. QED  BY <1>2, <1>3

LEMMA LeaveQuiet ==
  ASSUME QuietInv, TypeInv', NEW v \in Viewer, ViewerLeaves(v)
  PROVE  QuietInv'
<1>1. view[v].at \in Rec /\ streams' = streams /\ prod' = prod
  BY DEF QuietInv, TypeInv, View, ViewerLeaves
<1>2. PICK r \in Rec : r = view[v].at
  BY <1>1
<1> DEFINE R == rec[r]
           D == {v}
<1>3. R \in Record /\ Detach(r, R, D)
  BY <1>2, QuietIsSound DEF ViewerLeaves
<1> HIDE DEF D, R
<1>4. \E S \in Record :
        /\ rec' = [rec EXCEPT ![r] = S]
        /\ S.idle <=> Detached(r, R, D)
        /\ S.key = R.key /\ S.state = R.state /\ S.producer = R.producer /\ S.gen = R.gen
        /\ S.fallback = R.fallback /\ S.recovery = R.recovery /\ S.attempts = R.attempts
        /\ S.fallbackUsed = R.fallbackUsed /\ S.video = R.video /\ S.stop = R.stop
  BY <1>3, DetachIs DEF Detach
<1>5. PICK S \in Record :
        /\ rec' = [rec EXCEPT ![r] = S]
        /\ S.key = R.key /\ S.producer = R.producer /\ S.gen = R.gen
        /\ S.fallback = R.fallback /\ S.recovery = R.recovery
  BY <1>4
<1>6. prod' = [prod EXCEPT ![r] = prod[r]] /\ Sound(prod[r]) /\ Fades(prod[r], prod[r])
      /\ \A k \in Key : streams'[k] \in {streams[k], 0}
  BY <1>1, QuietIsSound
<1>. QED  BY <1>6, <1>5, CalmQuiet DEF R

LEMMA StopAllQuiet ==
  ASSUME QuietInv, TypeInv', StopAll
  PROVE  QuietInv'
<1>1. ASSUME NEW r \in Rec
      PROVE  Quiet(rec[r], prod[r], Registered(r))'
  <2>1. /\ rec[r] \in Record /\ prod[r] \in Seq(Producer) /\ Sound(prod[r]) /\ TypeInv
        /\ Quiet(rec[r], prod[r], Registered(r)) /\ Counted(rec[r], prod[r])
    BY QuietIsSound
  <2>2. /\ rec'[r].key = rec[r].key /\ rec'[r].producer = rec[r].producer
        /\ rec'[r].gen = rec[r].gen /\ rec'[r].fallback = rec[r].fallback
        /\ rec'[r].recovery = rec[r].recovery /\ Fades(prod[r], prod'[r])
        /\ \/ prod'[r] = Released(prod[r], rec[r].producer)
           \/ prod'[r] = prod[r]
    BY <2>1, StopAllIs
  <2>3. rec[r].producer \in 0..Len(prod[r])
    BY <2>1, LenProperties DEF Record, Counted
  <2>4. Sound(prod'[r])
    BY <2>1, <2>2, <2>3, ReleasedSound
  <2>5. Registered(r)' => Registered(r)
    <3>1. Registered(r)' <=> rec[r].key # 0 /\ streams'[rec[r].key] = r
      BY <2>2 DEF Registered
    <3>2. \A k \in Key : streams'[k] \in {streams[k], 0}
      BY DEF StopAll
    <3>3. rec[r].key # 0 => rec[r].key \in Key
      BY <2>1 DEF Record
    <3>4. r # 0
      BY DEF Rec
    <3>. QED  BY <3>1, <3>2, <3>3, <3>4 DEF Registered
  <2>6. Quiet(rec'[r], prod'[r], Registered(r)')
    BY <2>1, <2>2, <2>4, <2>5, FadingIsQuiet
  <2>. QED  BY <2>6
<1>. QED  BY <1>1 DEF QuietInv

LEMMA QuietStep ==
  ASSUME SpawnErrors \subseteq 0..1, QuietInv, [Next]_vars
  PROVE  QuietInv'
<1>1. TypeInv'
  BY TypeStep DEF QuietInv
<1>2. ASSUME UNCHANGED <<streams, rec, prod>>
      PROVE  QuietInv'
  BY <1>1, <1>2 DEF QuietInv, Quiet, Registered
<1>3. CASE Request
  <2>1. ASSUME NEW v \in Viewer, NEW k \in Key, NEW video \in BOOLEAN, NEW left \in BOOLEAN,
               AttachViewer(v, k, video, left)
        PROVE  QuietInv'
    BY <1>2, <2>1 DEF AttachViewer
  <2>. QED  BY <1>1, <1>3, <2>1, StartQuiet DEF Request
<1>4. ASSUME NEW v \in Viewer, Drain(v)
      PROVE  QuietInv'
  BY <1>2, <1>4 DEF Drain
<1>5. ASSUME NEW r \in Rec, NoErrors, Timer(r)
      PROVE  QuietInv'
  BY <1>1, <1>5, IdleQuiet, CallbacksQuiet DEF Timer
<1>6. ASSUME NEW r \in Rec, FallbackContinues(r)
      PROVE  QuietInv'
  BY <1>1, <1>6, ContinueQuiet DEF Continuation
<1>7. CASE UNCHANGED vars
  BY <1>2, <1>7 DEF vars
<1>. QED
  BY <1>1, <1>3, <1>4, <1>5, <1>6, <1>7, ContinueQuiet, CallbacksQuiet, PublishQuiet,
     LeaveQuiet, StopAllQuiet DEF Next, Settled

LEMMA QuietInit ==
  ASSUME Init
  PROVE  QuietInv
<1>1. TypeInv
  BY TypeInit
<1>2. ASSUME NEW r \in Rec
      PROVE  Quiet(rec[r], prod[r], Registered(r))
  BY <1>2 DEF Init, Quiet, NoRecord
<1>. QED  BY <1>1, <1>2 DEF QuietInv

LEMMA QuietAlways ==
  ASSUME SpawnErrors \subseteq 0..1
  PROVE  Spec => []QuietInv
BY QuietInit, QuietStep, PTL DEF Spec

\* A cast in the registry that is not being stopped has one producer that
\* captures: whatever a fallback, a recovery or the cast itself started before
\* was told to end (fail, recover, beginProducer), provided that at most one
\* process of a pair fails to start.
THEOREM CastOwnsOneProducer ==
  ASSUME SpawnErrors \subseteq 0..1
  PROVE  Spec => []OwnsOneProducer
<1>1. ASSUME QuietInv
      PROVE  OwnsOneProducer
  <2>1. ASSUME NEW c \in Producing, Registered(c[1]), Capturing(c[1], c[2])
        PROVE  rec[c[1]].producer = c[2]
    <3>1. PICK r \in Rec : \E i \in DOMAIN prod[r] : c = <<r, i>> /\ c[1] = r /\ c[2] = i
      BY ProducingIs
    <3>2. PICK i \in DOMAIN prod[r] : c[1] = r /\ c[2] = i
      BY <3>1
    <3>3. Quiet(rec[r], prod[r], Registered(r))
      BY <1>1 DEF QuietInv
    <3>4. ~ReplacedIn(rec[r], i)
      BY <2>1, <3>2, <3>3 DEF Quiet, Capturing
    <3>. QED  BY <3>2, <3>4 DEF ReplacedIn
  <2>. QED  BY <2>1 DEF OwnsOneProducer
<1>. QED  BY <1>1, QuietAlways, PTL

-----------------------------------------------------------------------------
(* Who still hears of a replaced producer.                                 *)

\* To tell a replaced producer to end changes nothing but what its processes
\* were told.
LEMMA ToldTwice ==
  ASSUME NEW R, NEW P \in Seq(Producer), NEW g, Quiet(R, P, g), NEW i \in DOMAIN P,
         ReplacedIn(R, i), NEW j \in 0..Len(P)
  PROVE  Released(P, j)[i] = P[i] \/ Released(P, j)[i].killed # P[i].killed
<1> DEFINE p == P[i]
<1>1. p \in Producer /\ ~p.heard /\ ~p.boot /\ (~p.video /\ p.killed => ~p.alive)
  BY ElementOfSeq, LenProperties DEF Quiet, Audible
<1>2. CASE i # j
  BY <1>2, ReleasedFades
<1>3. CASE i = j
  <2>1. Released(P, j)[i] = Told(p)
    BY <1>3, ReleasedFades, LenProperties
  <2> DEFINE a == p.video /\ p.alive
             k == p.killed \/ p.alive \/ ~p.video
  <2>2. Told(p) = [p EXCEPT !.heard = FALSE, !.boot = FALSE, !.alive = a, !.killed = k]
    BY DEF Told
  <2>3. a \in BOOLEAN /\ k \in BOOLEAN /\ p.killed \in BOOLEAN /\ p.alive \in BOOLEAN
    BY <1>1 DEF Producer
  <2>4. (k <=> p.killed) => (a <=> p.alive)
    BY <1>1
  <2> HIDE DEF a, k, p
  <2>5. Told(p).killed = k
    BY <1>1, <2>2 DEF Producer
  <2>6. k = p.killed => Told(p) = p
    BY <1>1, <2>2, <2>3, <2>4 DEF Producer
  <2>. QED  BY <2>1, <2>5, <2>6 DEF p
<1>. QED  BY <1>2, <1>3

LEMMA FailTouches ==
  ASSUME TypeInv, NEW r \in Rec, NEW P \in Seq(Producer), rec[r].producer \in 1..Len(P),
         NEW b, Fail(r, b, P), NEW q \in Rec, NEW i \in DOMAIN prod[q],
         q = r => i \in DOMAIN P \ {rec[r].producer}
  PROVE  prod'[q][i] = IF q = r THEN P[i] ELSE prod[q][i]
<1> DEFINE m == rec[r].producer
           U == [P EXCEPT ![m].boot = FALSE]
<1>1. m \in 0..Len(P) /\ m # 0
  OBVIOUS
<1>2. U \in Seq(Producer) /\ Len(U) = Len(P) /\ DOMAIN U = DOMAIN P
  BY <1>1, DisarmedFades, FadesDomain DEF Fades
<1>3. prod' \in {[prod EXCEPT ![r] = P], [prod EXCEPT ![r] = Released(P, m)],
                 [prod EXCEPT ![r] = U], [prod EXCEPT ![r] = Released(U, m)]}
  BY DEF Fail, GiveUp, StopWith
<1>4. ASSUME q = r
      PROVE  Released(P, m)[i] = P[i] /\ U[i] = P[i] /\ Released(U, m)[i] = P[i]
  <2>1. i \in DOMAIN P \ {m}
    BY <1>4
  <2>2. U[i] = P[i]
    BY <2>1
  <2>3. Released(P, m)[i] = P[i]
    BY <1>1, <2>1, ReleasedFades
  <2> HIDE DEF U, m
  <2>4. Released(U, m)[i] = U[i]
    BY <1>1, <1>2, <2>1, ReleasedFades
  <2>. QED  BY <2>2, <2>3, <2>4
<1> HIDE DEF U, m
<1>. QED  BY <1>3, <1>4 DEF TypeInv

\* What an event of a producer in use changes, no replaced one shows.
LEMMA FailSpares ==
  ASSUME QuietInv, NEW r \in Rec, NEW j \in DOMAIN prod[r], NEW x, Fade(prod[r][j], x),
         ~ReplacedIn(rec[r], j), NEW b, Fail(r, b, [prod[r] EXCEPT ![j] = x]),
         NEW q \in Rec, NEW i \in DOMAIN prod[q], ReplacedIn(rec[q], i)
  PROVE  prod'[q][i] = prod[q][i]
<1> DEFINE T == [prod[r] EXCEPT ![j] = x]
<1>1. TypeInv /\ prod[r] \in Seq(Producer)
  BY QuietIsSound
<1>2. Fades(prod[r], T) /\ \A h \in DOMAIN prod[r] \ {j} : T[h] = prod[r][h]
  BY <1>1, FadeAt
<1>3. T \in Seq(Producer) /\ Len(T) = Len(prod[r]) /\ DOMAIN T = DOMAIN prod[r]
  BY <1>1, <1>2, FadesDomain DEF Fades
<1>4. rec[r].producer = j /\ j \in 1..Len(T)
  BY <1>1, <1>3, LenProperties DEF ReplacedIn
<1>5. q = r => i \in DOMAIN T \ {rec[r].producer}
  BY <1>3, <1>4
<1>6. Fail(r, b, T)
  OBVIOUS
<1> HIDE DEF T
<1>7. prod'[q][i] = IF q = r THEN T[i] ELSE prod[q][i]
  BY <1>1, <1>3, <1>4, <1>5, <1>6, FailTouches
<1>. QED  BY <1>2, <1>3, <1>4, <1>5, <1>7

\* What is said of a step and a replaced producer i of r.
Spared(r, i) == \/ prod'[r][i] = prod[r][i] \/ prod'[r][i].killed # prod[r][i].killed
                \/ rec'[r] = rec[r] /\ view' = view

LEMMA CallbacksSpare ==
  ASSUME QuietInv, NEW r \in Rec, NEW j \in DOMAIN prod[r],
         \/ ProcessError(r, j) \/ ProcessCloses(r, j) \/ CaptureFails(r, j) \/ BootTimeout(r, j),
         NEW q \in Rec, NEW i \in DOMAIN prod[q], ReplacedIn(rec[q], i)
  PROVE  Spared(q, i)
<1> DEFINE p == prod[r][j]
<1>1. TypeInv
  BY DEF QuietInv
<1>2. ASSUME NEW x, Fade(p, x), ~ReplacedIn(rec[r], j),
             Fails(r, [prod[r] EXCEPT ![j] = x])
      PROVE  Spared(q, i)
  <2>1. PICK b \in BOOLEAN : Fail(r, b, [prod[r] EXCEPT ![j] = x])
    BY <1>2 DEF Fails
  <2>. QED  BY <1>2, <2>1, FailSpares DEF Spared
<1>3. ASSUME UNCHANGED <<streams, rec, view>>
      PROVE  Spared(q, i)
  BY <1>3 DEF Spared
<1>4. CASE ProcessError(r, j)
  <2>1. /\ Fade(p, ErrorHeard(p)) /\ p.errors > 0
        /\ Fails(r, [prod[r] EXCEPT ![j] = ErrorHeard(p)])
    BY <1>1, <1>4, ErrorIsHeard DEF Heard
  <2>2. ~ReplacedIn(rec[r], j)
    BY <2>1, HeardIsCurrent DEF Audible
  <2>. QED  BY <1>2, <2>1, <2>2
<1>5. CASE ProcessCloses(r, j)
  <2>1. PICK other \in BOOLEAN, lost \in BOOLEAN :
          LET x == Exited(p, other, lost)
              P == [prod[r] EXCEPT ![j] = x]
          IN /\ Heard(r, j, x)
             /\ IF Current(r, j) THEN Fails(r, P)
                ELSE prod' = [prod EXCEPT ![r] = P] /\ UNCHANGED <<streams, rec, view>>
    BY <1>1, <1>5, CloseIsHeard
  <2> DEFINE x == Exited(p, other, lost)
  <2>2. Fade(p, x)
    BY <2>1 DEF Heard
  <2>3. CASE Current(r, j)
    BY <1>2, <2>1, <2>2, <2>3, HeardIsCurrent
  <2>4. CASE ~Current(r, j)
    BY <1>3, <2>1, <2>4
  <2>. QED  BY <2>3, <2>4
<1>6. CASE CaptureFails(r, j)
  <2> DEFINE x == Ended(p)
  <2>1. /\ Heard(r, j, x)
        /\ IF p.heard THEN Fails(r, [prod[r] EXCEPT ![j] = x])
           ELSE UNCHANGED <<streams, rec, view>>
    BY <1>1, <1>6, EndIsHeard
  <2>2. Fade(p, x)
    BY <2>1 DEF Heard
  <2>3. CASE p.heard
    <3>1. ~ReplacedIn(rec[r], j)
      BY <2>3, HeardIsCurrent DEF Audible
    <3>. QED  BY <1>2, <2>1, <2>2, <2>3, <3>1
  <2>4. CASE ~p.heard
    BY <1>3, <2>1, <2>4
  <2>. QED  BY <2>3, <2>4
<1>7. CASE BootTimeout(r, j)
  <2> DEFINE x == Disarmed(p)
  <2>1. /\ Heard(r, j, x) /\ p.boot
        /\ IF rec[r].state = "starting" /\ p.gen = rec[r].gen
           THEN Fails(r, [prod[r] EXCEPT ![j] = x])
           ELSE UNCHANGED <<streams, rec, view>>
    BY <1>1, <1>7, BootIsHeard
  <2>2. Fade(p, x) /\ ~ReplacedIn(rec[r], j)
    BY <2>1, HeardIsCurrent DEF Heard, Audible
  <2>3. CASE rec[r].state = "starting" /\ p.gen = rec[r].gen
    BY <1>2, <2>1, <2>2, <2>3
  <2>4. CASE ~(rec[r].state = "starting" /\ p.gen = rec[r].gen)
    BY <1>3, <2>1, <2>4
  <2>. QED  BY <2>3, <2>4
<1>. QED  BY <1>4, <1>5, <1>6, <1>7

LEMMA StopSpares ==
  ASSUME QuietInv, NEW r \in Rec,
         \/ prod' = [prod EXCEPT ![r] = Released(prod[r], rec[r].producer)]
         \/ prod' = [prod EXCEPT ![r] = prod[r]],
         NEW q \in Rec, NEW i \in DOMAIN prod[q], ReplacedIn(rec[q], i)
  PROVE  Spared(q, i)
<1>1. /\ rec[r] \in Record /\ prod[r] \in Seq(Producer) /\ TypeInv
      /\ Quiet(rec[r], prod[r], Registered(r)) /\ Counted(rec[r], prod[r])
  BY QuietIsSound
<1>2. rec[r].producer \in 0..Len(prod[r])
  BY <1>1, LenProperties DEF Record, Counted
<1>3. q = r => \/ Released(prod[r], rec[r].producer)[i] = prod[r][i]
               \/ Released(prod[r], rec[r].producer)[i].killed # prod[r][i].killed
  BY <1>1, <1>2, ToldTwice
<1>. QED  BY <1>1, <1>3 DEF Spared, TypeInv

LEMMA BeginSpares ==
  ASSUME QuietInv, NEW r \in Rec, NEW R \in Record, NEW owned \in BOOLEAN,
         Begin(r, R, prod[r], owned), NEW q \in Rec, NEW i \in DOMAIN prod[q]
  PROVE  Spared(q, i)
<1>1. prod[r] \in Seq(Producer) /\ prod \in [Rec -> Seq(Producer)]
  BY DEF QuietInv, TypeInv
<1>2. PICK errs \in SpawnErrors, video \in BOOLEAN :
        /\ New(R, video, owned, errs) \in Producer
        /\ prod' = [prod EXCEPT ![r] = Append(prod[r], New(R, video, owned, errs))]
  BY <1>1, BeginAdds
<1> DEFINE n == New(R, video, owned, errs)
<1> HIDE DEF n
<1>3. n \in Producer /\ prod' = [prod EXCEPT ![r] = Append(prod[r], n)]
  BY <1>2 DEF n
<1>4. q = r => Append(prod[r], n)[i] = prod[r][i]
  BY <1>1, <1>3, AppendedType
<1>. QED  BY <1>1, <1>3, <1>4 DEF Spared

LEMMA ContinueSpares ==
  ASSUME QuietInv, NEW r \in Rec, Continuation(r),
         NEW q \in Rec, NEW i \in DOMAIN prod[q], ReplacedIn(rec[q], i)
  PROVE  Spared(q, i)
<1> DEFINE R == rec[r]
           P == prod[r]
<1>1. R \in Record /\ P \in Seq(Producer) /\ Registered(r) \in BOOLEAN
      /\ prod = [prod EXCEPT ![r] = P]
  BY QuietIsSound
<1>2. CASE StopFinishes(r)
  BY <1>1, <1>2, StopSpares DEF StopFinishes
<1>3. CASE FallbackContinues(r)
  <2> DEFINE S == [R EXCEPT !.fallback = "none", !.producer = 0, !.state = "starting"]
  <2>1. S \in Record /\ Begin(r, S, P, Registered(r))
    BY <1>1, <1>3 DEF Record, State, FallbackContinues
  <2> HIDE DEF S
  <2>. QED  BY <1>1, <2>1, BeginSpares
<1>4. CASE RecoveryResolves(r)
  <2> DEFINE S == [R EXCEPT !.recovery = "none", !.producer = 0, !.state = "starting"]
  <2>1. S \in Record /\ Begin(r, S, P, Registered(r))
    BY <1>1, <1>4 DEF Record, State, RecoveryResolves
  <2> HIDE DEF S
  <2>. QED  BY <1>1, <2>1, BeginSpares
<1>5. ASSUME GiveUp(r, [R EXCEPT !.recovery = "none"], P)
      PROVE  Spared(q, i)
  <2>1. [R EXCEPT !.recovery = "none"].producer = R.producer
    BY <1>1 DEF Record
  <2>2. \/ prod' = [prod EXCEPT ![r] = Released(P, R.producer)]
        \/ prod' = [prod EXCEPT ![r] = P]
    BY <1>5, <2>1 DEF GiveUp, StopWith
  <2>. QED  BY <2>2, StopSpares
<1>6. CASE RecoveryFails(r)
  BY <1>5, <1>6 DEF RecoveryFails
<1>7. CASE RecoveryWakes(r)
  BY <1>1, <1>5, <1>7, StopSpares DEF RecoveryWakes
<1>. QED  BY <1>2, <1>3, <1>4, <1>6, <1>7 DEF Continuation

LEMMA StopAllSpares ==
  ASSUME QuietInv, StopAll, NEW q \in Rec, NEW i \in DOMAIN prod[q], ReplacedIn(rec[q], i)
  PROVE  Spared(q, i)
<1>1. /\ rec[q] \in Record /\ prod[q] \in Seq(Producer) /\ TypeInv
      /\ Quiet(rec[q], prod[q], Registered(q)) /\ Counted(rec[q], prod[q])
  BY QuietIsSound
<1>2. rec[q].producer \in 0..Len(prod[q])
  BY <1>1, LenProperties DEF Record, Counted
<1>3. prod'[q] = prod[q] \/ prod'[q] = Released(prod[q], rec[q].producer)
  BY <1>1, StopAllIs
<1>4. \/ Released(prod[q], rec[q].producer)[i] = prod[q][i]
      \/ Released(prod[q], rec[q].producer)[i].killed # prod[q][i].killed
  BY <1>1, <1>2, ToldTwice
<1>. QED  BY <1>3, <1>4 DEF Spared

LEMMA StaleStep ==
  ASSUME QuietInv, [Next]_vars, NEW q \in Rec, NEW i \in DOMAIN prod[q], ReplacedIn(rec[q], i)
  PROVE  Spared(q, i)
<1>0. TypeInv
  BY DEF QuietInv
<1>1. ASSUME prod' = prod
      PROVE  Spared(q, i)
  BY <1>1 DEF Spared
<1>2. ASSUME NEW v \in Viewer, NEW k \in Key, NEW video \in BOOLEAN, NEW left \in BOOLEAN,
             StartCast(v, k, video, left)
      PROVE  Spared(q, i)
  <2>1. PICK r \in Rec : \E S, p : Starts(v, k, video, left, r, S, p)
    BY <1>2, FreshIs
  <2>2. PICK S, p : Starts(v, k, video, left, r, S, p)
    BY <2>1
  <2>3. rec[r].state = "none" /\ prod' = [prod EXCEPT ![r] = <<p>>]
    BY <2>2 DEF Starts
  <2>4. q # r
    BY <1>0, <2>3, HasProducer
  <2>. QED  BY <1>0, <2>3, <2>4 DEF TypeInv, Spared
<1>3. CASE Request
  <2>1. ASSUME NEW v \in Viewer, NEW k \in Key, NEW video \in BOOLEAN, NEW left \in BOOLEAN,
               AttachViewer(v, k, video, left)
        PROVE  Spared(q, i)
    BY <1>1, <2>1 DEF AttachViewer
  <2>. QED  BY <1>2, <1>3, <2>1 DEF Request
<1>4. ASSUME NEW v \in Viewer, ViewerLeaves(v) \/ Drain(v)
      PROVE  Spared(q, i)
  BY <1>1, <1>4 DEF ViewerLeaves, Drain
<1>5. ASSUME NEW r \in Rec, NoViewerTimer(r)
      PROVE  Spared(q, i)
  <2>1. \/ prod' = [prod EXCEPT ![r] = Released(prod[r], rec[r].producer)]
        \/ prod' = prod
    BY <1>5 DEF NoViewerTimer, StopWith
  <2>. QED  BY <1>1, <2>1, StopSpares
<1>6. ASSUME NEW r \in Rec, Timer(r)
      PROVE  Spared(q, i)
  BY <1>5, <1>6, CallbacksSpare DEF Timer
<1>7. ASSUME NEW r \in Rec, NEW j \in DOMAIN prod[r], Publish(r, j)
      PROVE  Spared(q, i)
  <2>1. PICK x : prod' = [prod EXCEPT ![r] = [prod[r] EXCEPT ![j] = x]]
    BY <1>7, PublishFades
  <2>2. j = rec[r].producer /\ ~Busy(rec[r])
    BY <1>7, PublishFades
  <2>3. q = r => i # j
    BY <2>2 DEF ReplacedIn
  <2>. QED  BY <1>0, <2>1, <2>3 DEF TypeInv, Spared
<1>8. ASSUME NEW r \in Rec, FallbackContinues(r)
      PROVE  Spared(q, i)
  BY <1>8, ContinueSpares DEF Continuation
<1>9. CASE UNCHANGED vars
  BY <1>1, <1>9 DEF vars
<1>. QED
  BY <1>3, <1>4, <1>6, <1>7, <1>8, <1>9, ContinueSpares, CallbacksSpare, StopAllSpares DEF Next

\* What is still heard of a producer that has been replaced, or is about to be
\* (a late close, an error, a boot timer, the end of a screencap loop), changes
\* neither the cast nor its viewers (fail's guards, the generation checks of
\* the callbacks, removeOutputListeners).
THEOREM CastStaleIsSilent ==
  ASSUME SpawnErrors \subseteq 0..1
  PROVE  Spec => StaleIsSilent
<1> DEFINE Silent(c) ==
      LET r == c[1]
          i == c[2]
      IN /\ Replaced(r, i)
         /\ prod'[r][i] # prod[r][i] /\ prod'[r][i].killed = prod[r][i].killed
         => UNCHANGED <<rec[r], view>>
<1>1. ASSUME QuietInv, [Next]_vars
      PROVE  \A c \in Producing : Silent(c)
  <2>1. ASSUME NEW c \in Producing
        PROVE  Silent(c)
    <3>1. PICK r \in Rec : \E i \in DOMAIN prod[r] : c = <<r, i>> /\ c[1] = r /\ c[2] = i
      BY ProducingIs
    <3>2. PICK i \in DOMAIN prod[r] : c[1] = r /\ c[2] = i
      BY <3>1
    <3>3. Replaced(r, i) => ReplacedIn(rec[r], i)
      BY DEF Replaced, ReplacedIn, Busy
    <3>4. Replaced(r, i) => Spared(r, i)
      BY <1>1, <3>3, StaleStep
    <3>. QED  BY <3>2, <3>4 DEF Spared
  <2>. QED  BY <2>1
<1>2. [Next]_vars /\ QuietInv => [\A c \in Producing : Silent(c)]_vars
  BY <1>1
<1> HIDE DEF Silent
<1>3. Spec => [][\A c \in Producing : Silent(c)]_vars
  BY <1>2, QuietAlways, PTL DEF Spec
<1>. QED  BY <1>3 DEF StaleIsSilent, Silent

-----------------------------------------------------------------------------
(* Progress.                                                               *)

LEMMA LostStays ==
  ASSUME NEW P \in Seq(Producer), NEW Q, Fades(P, Q), Lost(P)
  PROVE  Lost(Q)
<1>1. PICK i \in DOMAIN P : P[i].lost
  BY DEF Lost
<1>2. i \in DOMAIN Q /\ Fade(P[i], Q[i])
  BY FadesDomain
<1>. QED  BY <1>1, <1>2 DEF Lost, Fade

LEMMA ReleasedDriven ==
  ASSUME NEW P \in Seq(Producer), NEW i \in 0..Len(P), Accounted(P)
  PROVE  /\ Accounted(Released(P, i))
         /\ Lost(Released(P, i)) \/ Prompt(Released(P, i), i)
         /\ Lost(P) => Lost(Released(P, i))
<1> DEFINE Q == Released(P, i)
<1>1. Fades(P, Q) /\ DOMAIN Q = DOMAIN P
  BY ReleasedFades, FadesDomain
<1>2. \A j \in DOMAIN P \ {i} : Q[j] = P[j]
  BY ReleasedFades
<1>3. ASSUME i # 0
      PROVE  (Q[i].video => Q[i].killed) /\ i \in DOMAIN P
  <2>1. Q[i] = Told(P[i]) /\ P[i] \in Producer /\ i \in DOMAIN P
    BY <1>3, ReleasedFades, LenProperties, ElementOfSeq
  <2>2. Fade(P[i], Told(P[i])) /\ (Told(P[i]).killed \/ ~P[i].alive)
    BY <2>1, ToldFades
  <2>3. P[i].video /\ ~P[i].alive => P[i].killed
    BY <2>1 DEF Accounted
  <2> HIDE DEF Q
  <2>. QED  BY <2>1, <2>2, <2>3 DEF Fade
<1> HIDE DEF Q
<1>4. Accounted(Q)
  <2>1. ASSUME NEW j \in DOMAIN P
        PROVE  Q[j].video /\ ~Q[j].alive => Q[j].killed
    <3>1. CASE j = i
      <4>1. i # 0
        BY <3>1, LenProperties
      <4>. QED  BY <1>3, <3>1, <4>1
    <3>2. CASE j # i
      BY <1>2, <3>2 DEF Accounted
    <3>. QED  BY <3>1, <3>2
  <2>. QED  BY <1>1, <2>1 DEF Accounted
<1>5. Lost(Q) \/ Prompt(Q, i)
  BY <1>1, <1>3 DEF Prompt, Lost
<1>6. Lost(P) => Lost(Q)
  BY <1>1, LostStays
<1>. QED  BY <1>4, <1>5, <1>6 DEF Q

\* A step of one record: what is said of the others and their viewers stays.
LEMMA OneRecordCast ==
  ASSUME CastInv, QuietInv', NEW r \in Rec, NEW S, NEW Q,
         rec' = [rec EXCEPT ![r] = S], prod' = [prod EXCEPT ![r] = Q], shut' = shut,
         \A k \in Key : \/ streams'[k] = streams[k]
                        \/ streams[k] \in {0, r} /\ streams'[k] \in {0, r},
         \A v \in Viewer : \/ view'[v].at = view[v].at
                           \/ view[v].at \in {0, r} /\ view'[v].at \in {0, r},
         \A v \in Viewer : view'[v].st = "new" => view'[v].at = 0,
         Driven(S, Q, Registered(r)'),
         \A v \in Viewer : view'[v].at = r => (Registered(r)' /\ S.stop = "no") \/ Lost(Q),
         Registered(r)' /\ S.stop = "no" =>
           ~shut /\ ((\A v \in Viewer : view'[v].at # r) => S.idle)
  PROVE  CastInv'
<1>1. rec \in [Rec -> Record] /\ prod \in [Rec -> Seq(Producer)] /\ r # 0
      /\ view \in [Viewer -> View]
  BY DEF CastInv, QuietInv, TypeInv, Rec
<1>2. rec'[r] = S /\ prod'[r] = Q
  BY <1>1
<1>3. ASSUME NEW q \in Rec, q # r
      PROVE  /\ rec'[q] = rec[q] /\ prod'[q] = prod[q]
             /\ Registered(q)' <=> Registered(q)
             /\ \A v \in Viewer : view'[v].at = q <=> view[v].at = q
  <2>1. rec'[q] = rec[q] /\ prod'[q] = prod[q] /\ q # 0 /\ rec[q] \in Record
    BY <1>1, <1>3 DEF Rec
  <2>2. Registered(q)' <=> rec[q].key # 0 /\ streams'[rec[q].key] = q
    BY <2>1 DEF Registered
  <2>3. rec[q].key # 0 => rec[q].key \in Key
    BY <2>1 DEF Record
  <2>4. Registered(q)' <=> Registered(q)
    BY <1>3, <2>1, <2>2, <2>3 DEF Registered
  <2>. QED  BY <1>3, <2>1, <2>4
<1>4. ASSUME NEW q \in Rec
      PROVE  Driven(rec[q], prod[q], Registered(q))'
  <2>1. CASE q = r
    <3>1. Driven(rec'[r], prod'[r], Registered(r)')
      BY <1>2
    <3>. QED  BY <2>1, <3>1
  <2>2. CASE q # r
    <3>1. Driven(rec[q], prod[q], Registered(q)')
      BY <1>3, <2>2 DEF Driven, CastInv
    <3>. QED  BY <1>3, <2>2, <3>1
  <2>. QED  BY <2>1, <2>2
<1>5. ASSUME NEW v \in Viewer, view'[v].at # 0
      PROVE  \E q \in Rec : /\ q = view'[v].at
                             /\ \/ Registered(q)' /\ rec'[q].stop = "no"
                                \/ Lost(prod'[q])
  <2>1. CASE view'[v].at = r
    BY <1>2, <2>1
  <2>2. CASE view'[v].at # r
    <3>1. view'[v].at = view[v].at /\ view[v].at \in Rec
      BY <1>1, <1>5, <2>2 DEF View
    <3>2. PICK q \in Rec : q = view[v].at
      BY <3>1
    <3>3. ((Registered(q) /\ rec[q].stop = "no") \/ Lost(prod[q])) /\ q # r
      BY <1>5, <2>2, <3>1, <3>2 DEF CastInv, ViewersInv, NobodyStranded, LostOne, Lost
    <3>. QED  BY <1>3, <3>1, <3>2, <3>3
  <2>. QED  BY <2>1, <2>2
<1>6. ASSUME NEW q \in Rec, Registered(q)', rec'[q].stop = "no"
      PROVE  ~shut' /\ (Viewers(q)' = {} => rec'[q].idle)
  <2>1. CASE q = r
    BY <1>2, <1>6, <2>1 DEF Viewers
  <2>2. CASE q # r
    <3>1. Viewers(q)' = Viewers(q)
      BY <1>3, <2>2 DEF Viewers
    <3>2. ~shut /\ (Viewers(q) = {} => rec[q].idle)
      BY <1>3, <1>6, <2>2 DEF CastInv, ViewersInv
    <3>. QED  BY <1>3, <2>2, <3>1, <3>2
  <2>. QED  BY <2>1, <2>2
<1>7. NobodyStranded'
  <2>1. ASSUME NEW v \in Viewer, view'[v].at # 0
        PROVE  \/ Registered(view[v].at)' /\ rec'[view'[v].at].stop = "no"
               \/ LostOne(view[v].at)'
    <3>1. PICK q \in Rec : /\ q = view'[v].at
                           /\ \/ Registered(q)' /\ rec'[q].stop = "no"
                              \/ Lost(prod'[q])
      BY <1>5, <2>1
    <3>2. Registered(q)' <=> Registered(view[v].at)'
      BY <3>1 DEF Registered
    <3>3. Lost(prod'[q]) <=> LostOne(view[v].at)'
      BY <3>1 DEF LostOne, Lost
    <3>. QED  BY <3>1, <3>2, <3>3
  <2>. QED  BY <2>1 DEF NobodyStranded
<1>8. ViewersInv'
  BY <1>6, <1>7 DEF ViewersInv
<1>. QED  BY <1>4, <1>8 DEF CastInv

LEMMA CastParts ==
  ASSUME CastInv, NEW r \in Rec
  PROVE  /\ QuietInv /\ TypeInv /\ rec[r] \in Record /\ prod[r] \in Seq(Producer)
         /\ Driven(rec[r], prod[r], Registered(r)) /\ Accounted(prod[r])
         /\ rec[r].producer \in 0..Len(prod[r]) /\ Len(prod[r]) \in Nat
         /\ (rec[r].key # 0 => rec[r].key \in Key)
         /\ \A v \in Viewer : view[v].at = r =>
              (Registered(r) /\ rec[r].stop = "no") \/ Lost(prod[r])
         /\ \A v \in Viewer : view[v].st = "new" => view[v].at = 0
         /\ Registered(r) /\ rec[r].stop = "no" =>
              ~shut /\ ((\A v \in Viewer : view[v].at # r) => rec[r].idle)
         /\ Registered(r) => rec[r].key # 0
<1>1. QuietInv /\ TypeInv /\ rec[r] \in Record /\ prod[r] \in Seq(Producer)
      /\ Driven(rec[r], prod[r], Registered(r)) /\ Counted(rec[r], prod[r])
  BY DEF CastInv, QuietInv, TypeInv
<1>2. rec[r].producer \in 0..Len(prod[r]) /\ (rec[r].key # 0 => rec[r].key \in Key)
      /\ Len(prod[r]) \in Nat
  BY <1>1, LenProperties DEF Record, Counted
<1>3. \A v \in Viewer : view[v].at = r =>
        (Registered(r) /\ rec[r].stop = "no") \/ Lost(prod[r])
  BY DEF CastInv, ViewersInv, NobodyStranded, LostOne, Lost, Rec
<1>4. Registered(r) /\ rec[r].stop = "no" =>
        ~shut /\ ((\A v \in Viewer : view[v].at # r) => rec[r].idle)
  BY DEF CastInv, ViewersInv, Viewers
<1>5. \A v \in Viewer : view[v].st = "new" => view[v].at = 0
  BY DEF CastInv, ViewersInv
<1>. QED  BY <1>1, <1>2, <1>3, <1>4, <1>5 DEF Driven, Registered

\* A cast that is stopped: its viewers are sent away, and it leaves the registry
\* at once when there is nothing to wait for.
LEMMA StopDriven ==
  ASSUME CastInv, QuietInv', NEW r \in Rec, NEW R \in Record, NEW P \in Seq(Producer),
         Len(P) = Len(prod[r]), Accounted(P), R.key = rec[r].key, R.key # 0,
         R.producer = rec[r].producer, rec[r].stop = "no", Busy(R) => Lost(P) \/ Prompt(P, R.producer),
         StopWith(r, R, P), shut' = shut
  PROVE  CastInv'
<1>1. /\ TypeInv /\ rec[r] \in Record /\ R.producer \in 0..Len(P) /\ R.key \in Key
      /\ Driven(rec[r], prod[r], Registered(r))
  BY CastParts
<1>2. Registered(r) /\ streams[R.key] = r
  BY <1>1 DEF Driven, Registered
<1>3. /\ prod' = [prod EXCEPT ![r] = Released(P, R.producer)]
      /\ streams' = IF Prompt(P, R.producer) THEN [streams EXCEPT ![R.key] = 0] ELSE streams
      /\ \A v \in Viewer : view'[v].at = IF view[v].at = r THEN 0 ELSE view[v].at
  BY <1>1, StopIs
<1>4. PICK S : /\ rec' = [rec EXCEPT ![r] = S] /\ SameCast(S, R) /\ S.state = "stopping"
               /\ S.idle = FALSE
               /\ S.stop = IF Prompt(P, R.producer) THEN "done" ELSE "pending"
  BY <1>1, StopIs
<1>5. Accounted(Released(P, R.producer)) /\ (Lost(P) => Lost(Released(P, R.producer)))
  BY <1>1, ReleasedDriven
<1> DEFINE Q == Released(P, R.producer)
           stopped == Prompt(P, R.producer)
<1>6. Registered(r)' <=> S.key # 0 /\ streams'[S.key] = r
  BY <1>1, <1>4 DEF Registered, TypeInv
<1>7. r # 0 /\ S.key = R.key
  BY <1>4 DEF Rec, SameCast
<1>8. Registered(r)' <=> ~stopped
  BY <1>1, <1>2, <1>3, <1>6, <1>7 DEF TypeInv
<1>9. S.stop = IF stopped THEN "done" ELSE "pending"
  BY <1>4
<1>10. Busy(S) => Busy(R)
  BY <1>4 DEF Busy, SameCast
<1> HIDE DEF Q, stopped
<1>11. Driven(S, Q, Registered(r)')
  BY <1>4, <1>5, <1>7, <1>8, <1>9, <1>10 DEF Driven, Q, stopped
<1>12. \A k \in Key : \/ streams'[k] = streams[k]
                      \/ streams[k] \in {0, r} /\ streams'[k] \in {0, r}
  BY <1>1, <1>2, <1>3 DEF TypeInv
<1>13. \A v \in Viewer : view'[v].at # r
  BY <1>3, <1>7
<1>14. \A v \in Viewer : view'[v].st = "new" => view'[v].at = 0
  <2>1. ASSUME NEW v \in Viewer, view'[v].st = "new"
        PROVE  view'[v].at = 0
    <3>1. view[v] \in View /\ (view[v].st = "new" => view[v].at = 0)
      BY <1>1, CastParts DEF TypeInv
    <3>2. view'[v] = IF view[v].at = r THEN [view[v] EXCEPT !.at = 0, !.st = "gone"]
                     ELSE view[v]
      BY DEF StopWith
    <3>. QED  BY <2>1, <3>1, <3>2 DEF View
  <2>. QED  BY <2>1
<1>15. S.stop # "no"
  BY <1>9
<1>16. prod' = [prod EXCEPT ![r] = Q]
  BY <1>3 DEF Q
<1>17. \A v \in Viewer : \/ view'[v].at = view[v].at
                         \/ view[v].at \in {0, r} /\ view'[v].at \in {0, r}
  BY <1>3
<1>. QED
  BY <1>4, <1>11, <1>12, <1>13, <1>14, <1>15, <1>16, <1>17, OneRecordCast

\* Steps that leave the registry and the viewers alone, and whether a cast is
\* being stopped.
LEMMA InnerDriven ==
  ASSUME CastInv, QuietInv', NEW r \in Rec, NEW S, NEW Q,
         rec' = [rec EXCEPT ![r] = S], prod' = [prod EXCEPT ![r] = Q],
         UNCHANGED <<streams, view, shut>>,
         S.key = rec[r].key, S.stop = rec[r].stop, S.idle = rec[r].idle,
         Driven(S, Q, Registered(r)), Lost(prod[r]) => Lost(Q)
  PROVE  CastInv'
<1>1. Registered(r)' <=> Registered(r)
  BY DEF CastInv, QuietInv, TypeInv, Registered
<1>2. Driven(S, Q, Registered(r)')
  BY <1>1 DEF Driven
<1>3. /\ \A v \in Viewer : view'[v].at = r => (Registered(r)' /\ S.stop = "no") \/ Lost(Q)
      /\ \A v \in Viewer : view'[v].st = "new" => view'[v].at = 0
      /\ Registered(r)' /\ S.stop = "no" =>
           ~shut /\ ((\A v \in Viewer : view'[v].at # r) => S.idle)
  BY <1>1, CastParts
<1>4. /\ \A k \in Key : \/ streams'[k] = streams[k]
                        \/ streams[k] \in {0, r} /\ streams'[k] \in {0, r}
      /\ \A v \in Viewer : \/ view'[v].at = view[v].at
                           \/ view[v].at \in {0, r} /\ view'[v].at \in {0, r}
  OBVIOUS
<1>5. shut' = shut
  OBVIOUS
<1>. QED  BY <1>2, <1>3, <1>4, <1>5, OneRecordCast

\* fail: what moves the cast on is now the fallback, the recovery or the stop.
LEMMA FailDriven ==
  ASSUME CastInv, QuietInv', NEW r \in Rec, NEW i \in DOMAIN prod[r], NEW q,
         Fade(prod[r][i], q), q.video /\ ~q.alive => q.killed, ~ReplacedIn(rec[r], i),
         Fails(r, [prod[r] EXCEPT ![i] = q]), shut' = shut
  PROVE  CastInv'
<1> DEFINE R == rec[r]
           P == prod[r]
           T == [P EXCEPT ![i] = q]
<1>1. /\ TypeInv /\ R \in Record /\ P \in Seq(Producer) /\ Driven(R, P, Registered(r))
      /\ Accounted(P) /\ R.producer \in 0..Len(P) /\ QuietInv
  BY CastParts
<1>2. i = R.producer /\ R.fallback = "none" /\ R.recovery = "none" /\ ~Busy(R)
  BY DEF ReplacedIn, Busy
<1>3. Fades(P, T) /\ T[i] = q /\ \A j \in DOMAIN P \ {i} : T[j] = P[j]
  BY <1>1, FadeAt
<1>4. DOMAIN T = DOMAIN P /\ T \in Seq(Producer) /\ Len(T) = Len(P)
  BY <1>1, <1>3, FadesDomain DEF Fades
<1>5. Accounted(T)
  BY <1>1, <1>3, <1>4 DEF Accounted
<1>6. PICK b \in BOOLEAN : (b => R.state = "starting") /\ Fail(r, b, T)
  BY DEF Fails
<1>7. R.producer # 0 /\ R.producer \in 0..Len(T) /\ R.key # 0
  BY <1>1, <1>2, <1>4, HasProducer, LenProperties
<1> HIDE DEF T
<1>8. /\ Accounted(Released(T, R.producer)) /\ (Lost(P) => Lost(T))
      /\ Lost(Released(T, R.producer)) \/ Prompt(Released(T, R.producer), R.producer)
      /\ Lost(T) => Lost(Released(T, R.producer))
  BY <1>1, <1>3, <1>4, <1>5, <1>7, ReleasedDriven, LostStays
<1>9. CASE ~Registered(r) \/ R.stop # "no"
  <2>1. prod' = [prod EXCEPT ![r] = T] /\ UNCHANGED <<streams, rec, view>>
    BY <1>6, <1>9 DEF Fail
  <2>2. rec' = [rec EXCEPT ![r] = R]
    BY <1>1, <2>1 DEF TypeInv
  <2>3. Driven(R, T, Registered(r))
    BY <1>1, <1>2, <1>5, <1>8, <1>9 DEF Driven
  <2>. QED  BY <1>8, <2>1, <2>2, <2>3, InnerDriven
<1>10. ASSUME NEW S, S.key = R.key, S.stop = R.stop, S.idle = R.idle, S.producer = R.producer,
              R.stop = "no", Registered(r),
              \/ S.state = "starting" /\ S.fallback # "none"
              \/ S.state = "reconnecting" /\ S.recovery # "none",
              rec' = [rec EXCEPT ![r] = S],
              prod' = [prod EXCEPT ![r] = Released(T, R.producer)], UNCHANGED <<streams, view>>
       PROVE  CastInv'
  <2> DEFINE Q == Released(T, R.producer)
  <2>1. Accounted(Q) /\ (Lost(Q) \/ Prompt(Q, S.producer)) /\ (Lost(P) => Lost(Q))
    BY <1>8, <1>10
  <2> HIDE DEF Q
  <2>2. Driven(S, Q, Registered(r))
    BY <1>7, <1>10, <2>1 DEF Driven, Moving
  <2>. QED  BY <1>10, <2>1, <2>2, InnerDriven DEF Q
<1>11. CASE Registered(r) /\ R.stop = "no" /\ ToFallback(r, b)
  <2>1. PICK f \in {"now", "waiting"} :
        rec' = [rec EXCEPT ![r].fallbackUsed = TRUE, ![r].gen = @ + 1, ![r].fallback = f]
    BY <1>6, <1>11 DEF Fail
  <2>2. /\ prod' = [prod EXCEPT ![r] = Released(T, R.producer)] /\ UNCHANGED <<streams, view>>
        /\ R.state = "starting"
    BY <1>6, <1>11 DEF Fail, ToFallback
  <2> DEFINE g == R.gen + 1
             S == [R EXCEPT !.fallbackUsed = TRUE, !.gen = g, !.fallback = f]
  <2>3. rec' = [rec EXCEPT ![r] = S]
    BY <1>1, <2>1 DEF TypeInv
  <2> HIDE DEF g
  <2>4. S.key = R.key /\ S.producer = R.producer /\ S.stop = R.stop /\ S.idle = R.idle
        /\ S.state = R.state /\ S.fallback = f
    BY <1>1 DEF Record
  <2> HIDE DEF S
  <2>5. f # "none"
    OBVIOUS
  <2>. QED  BY <1>10, <1>11, <2>2, <2>3, <2>4, <2>5
<1>12. CASE Registered(r) /\ R.stop = "no" /\ ~ToFallback(r, b) /\ ToRecovery(r)
  <2>1. /\ rec' = [rec EXCEPT ![r].attempts = @ + 1, ![r].gen = @ + 1,
                              ![r].state = "reconnecting", ![r].recovery = "waiting"]
        /\ prod' = [prod EXCEPT ![r] = Released(T, R.producer)] /\ UNCHANGED <<streams, view>>
    BY <1>6, <1>12 DEF Fail
  <2> DEFINE g == R.gen + 1
             a == R.attempts + 1
             S == [R EXCEPT !.attempts = a, !.gen = g,
                            !.state = "reconnecting", !.recovery = "waiting"]
  <2>2. rec' = [rec EXCEPT ![r] = S]
    BY <1>1, <2>1 DEF TypeInv
  <2> HIDE DEF g, a
  <2>3. S.key = R.key /\ S.producer = R.producer /\ S.stop = R.stop /\ S.idle = R.idle
        /\ S.state = "reconnecting" /\ S.recovery = "waiting"
    BY <1>1 DEF Record
  <2> HIDE DEF S
  <2>. QED  BY <1>10, <1>12, <2>1, <2>2, <2>3
<1>13. CASE Registered(r) /\ R.stop = "no" /\ ~ToFallback(r, b) /\ ~ToRecovery(r)
  <2> DEFINE U == [T EXCEPT ![R.producer].boot = FALSE]
  <2>1. StopWith(r, R, U)
    BY <1>6, <1>7, <1>13 DEF Fail, GiveUp
  <2>2. Fades(T, U)
    BY <1>4, <1>7, DisarmedFades
  <2>3. DOMAIN U = DOMAIN T /\ U \in Seq(Producer) /\ Len(U) = Len(T)
    BY <1>4, <2>2, FadesDomain DEF Fades
  <2>4. \A j \in DOMAIN T : T[j] \in Producer
    BY <1>4, ElementOfSeq
  <2>5. Accounted(U)
    <3>1. ASSUME NEW j \in DOMAIN T
          PROVE  U[j].video = T[j].video /\ U[j].killed = T[j].killed /\ U[j].alive = T[j].alive
      BY <2>4 DEF Producer
    <3>. QED  BY <1>5, <2>3, <3>1 DEF Accounted
  <2> HIDE DEF U
  <2>. QED  BY <1>1, <1>2, <1>4, <1>7, <1>13, <2>1, <2>3, <2>5, StopDriven
<1>. QED  BY <1>9, <1>11, <1>12, <1>13

\* An event of a producer that the cast does not depend on.
LEMMA SilentDriven ==
  ASSUME CastInv, QuietInv', NEW r \in Rec, NEW i \in DOMAIN prod[r], NEW q,
         Fade(prod[r][i], q), q.video /\ ~q.alive => q.killed,
         i = rec[r].producer /\ Registered(r) /\ rec[r].stop = "no" /\ ~Busy(rec[r]) =>
           /\ rec[r].state = "streaming"
           /\ q.heard = prod[r][i].heard /\ q.alive = prod[r][i].alive,
         prod' = [prod EXCEPT ![r] = [prod[r] EXCEPT ![i] = q]],
         UNCHANGED <<streams, rec, view, shut>>
  PROVE  CastInv'
<1> DEFINE R == rec[r]
           P == prod[r]
           T == [P EXCEPT ![i] = q]
<1>1. /\ TypeInv /\ R \in Record /\ P \in Seq(Producer) /\ Driven(R, P, Registered(r))
      /\ Accounted(P) /\ R.producer \in 0..Len(P) /\ QuietInv
  BY CastParts
<1>2. Fades(P, T) /\ T[i] = q /\ \A j \in DOMAIN P \ {i} : T[j] = P[j]
  BY <1>1, FadeAt
<1>3. DOMAIN T = DOMAIN P
  BY <1>1, <1>2, FadesDomain
<1>4. Accounted(T)
  BY <1>1, <1>2, <1>3 DEF Accounted
<1>5. prod' = [prod EXCEPT ![r] = T] /\ rec' = [rec EXCEPT ![r] = R]
  BY <1>1 DEF TypeInv
<1>6. R.producer # 0 => R.producer \in DOMAIN P
  BY <1>1, LenProperties
<1>10. Lost(P) => Lost(T)
  BY <1>1, <1>2, LostStays
<1> HIDE DEF T
<1>7. Lost(T) \/ (Registered(r) /\ Busy(R) => R.stop = "no" /\ Prompt(T, R.producer))
  <2>1. CASE R.producer = i
    BY <1>1, <1>2, <1>3, <1>10, <2>1 DEF Driven, Prompt, Fade, Lost
  <2>2. CASE R.producer # i
    BY <1>1, <1>2, <1>6, <1>10, <2>2 DEF Driven, Prompt
  <2>. QED  BY <2>1, <2>2
<1>8. Registered(r) /\ R.stop = "no" => Moving(R, T)
  <2>1. CASE Busy(R) /\ Registered(r) /\ R.stop = "no"
    <3>1. Moving(R, P) /\ Quiet(R, P, Registered(r))
      BY <1>1, <2>1, QuietIsSound DEF Driven
    <3>2. ~Served(R, P)
      <4>1. R.producer # 0 => ~Audible(P[R.producer])
        BY <1>6, <2>1, <3>1 DEF Quiet, ReplacedIn
      <4>. QED  BY <4>1 DEF Served, Audible
    <3>. QED  BY <3>1, <3>2 DEF Moving
  <2>2. CASE ~Busy(R) /\ Registered(r) /\ R.stop = "no" /\ R.producer = i
    <3>1. Moving(R, P) /\ R.state = "streaming"
      BY <1>1, <2>2 DEF Driven
    <3>. QED  BY <1>2, <2>2, <3>1 DEF Moving, Served, Fade
  <2>3. CASE Registered(r) /\ R.stop = "no" /\ R.producer # i
    <3>1. Moving(R, P)
      BY <1>1, <2>3 DEF Driven
    <3>2. R.producer # 0 => T[R.producer] = P[R.producer]
      BY <1>2, <1>6, <2>3
    <3>. QED  BY <3>1, <3>2 DEF Moving, Served
  <2>. QED  BY <2>1, <2>2, <2>3
<1>9. Driven(R, T, Registered(r))
  BY <1>1, <1>4, <1>7, <1>8, <1>10 DEF Driven
<1>. QED  BY <1>5, <1>9, <1>10, InnerDriven

LEMMA IdleCastIsServed ==
  ASSUME CastInv, NEW r \in Rec, Registered(r), rec[r].stop = "no", ~Busy(rec[r])
  PROVE  /\ Served(rec[r], prod[r]) /\ rec[r].state \in {"starting", "streaming"}
         /\ Current(r, rec[r].producer)
<1>1. Moving(rec[r], prod[r])
  BY CastParts DEF Driven
<1>2. Served(rec[r], prod[r]) /\ rec[r].state \in {"starting", "streaming"}
  BY <1>1 DEF Moving, Busy
<1>. QED  BY <1>2 DEF Served, Current

LEMMA CallbacksDriven ==
  ASSUME CastInv, QuietInv', NEW r \in Rec, NEW i \in DOMAIN prod[r],
         \/ ProcessError(r, i) \/ ProcessCloses(r, i) \/ CaptureFails(r, i) \/ BootTimeout(r, i)
  PROVE  CastInv'
<1> DEFINE p == prod[r][i]
           R == rec[r]
<1>1. TypeInv /\ QuietInv /\ p \in Producer /\ (p.video /\ ~p.alive => p.killed)
  BY CastParts, HasProducer DEF Accounted
<1>2. CASE ProcessError(r, i)
  <2>1. /\ Fails(r, [prod[r] EXCEPT ![i] = ErrorHeard(p)]) /\ shut' = shut /\ p.errors > 0
        /\ Fade(p, ErrorHeard(p))
    BY <1>1, <1>2, ErrorIsHeard DEF Heard
  <2>2. ~ReplacedIn(R, i)
    BY <1>1, <2>1, HeardIsCurrent DEF Audible
  <2>3. ErrorHeard(p).killed = p.killed /\ ErrorHeard(p).video = p.video
        /\ ErrorHeard(p).alive = p.alive
    BY <1>1 DEF ErrorHeard, Producer
  <2>. QED  BY <1>1, <2>1, <2>2, <2>3, FailDriven
<1>3. CASE ProcessCloses(r, i)
  <2>1. PICK other \in BOOLEAN, lost \in BOOLEAN :
          LET q == Exited(p, other, lost)
              P == [prod[r] EXCEPT ![i] = q]
          IN /\ Heard(r, i, q)
             /\ p.video /\ p.alive
             /\ IF Current(r, i) THEN Fails(r, P)
                ELSE prod' = [prod EXCEPT ![r] = P] /\ UNCHANGED <<streams, rec, view>>
    BY <1>1, <1>3, CloseIsHeard
  <2> DEFINE q == Exited(p, other, lost)
  <2>2. Fade(p, q) /\ shut' = shut
    BY <2>1 DEF Heard
  <2>3. q.video /\ ~q.alive => q.killed
    BY <1>1, <2>1, ExitFades
  <2>4. CASE Current(r, i)
    <3>1. ~ReplacedIn(R, i)
      BY <1>1, <2>4, HeardIsCurrent
    <3>. QED  BY <2>1, <2>2, <2>3, <2>4, <3>1, FailDriven
  <2>5. CASE ~Current(r, i)
    <3>1. ~(i = R.producer /\ Registered(r) /\ R.stop = "no" /\ ~Busy(R))
      BY <2>5, IdleCastIsServed
    <3> HIDE DEF q, R
    <3>2. prod' = [prod EXCEPT ![r] = [prod[r] EXCEPT ![i] = q]]
          /\ UNCHANGED <<streams, rec, view, shut>>
      BY <2>1, <2>2, <2>5 DEF q
    <3>. QED  BY <2>2, <2>3, <3>1, <3>2, SilentDriven DEF R
  <2>. QED  BY <2>4, <2>5
<1>4. CASE CaptureFails(r, i)
  <2> DEFINE q == Ended(p)
  <2>1. /\ Heard(r, i, q) /\ ~p.video
        /\ IF p.heard THEN Fails(r, [prod[r] EXCEPT ![i] = q])
           ELSE /\ prod' = [prod EXCEPT ![r] = [prod[r] EXCEPT ![i] = q]]
                /\ UNCHANGED <<streams, rec, view>>
    BY <1>1, <1>4, EndIsHeard
  <2>2. Fade(p, q) /\ shut' = shut /\ ~q.video
    BY <2>1 DEF Heard, Fade
  <2>3. CASE p.heard
    <3>1. ~ReplacedIn(R, i)
      BY <1>1, <2>3, HeardIsCurrent DEF Audible
    <3>. QED  BY <2>1, <2>2, <2>3, <3>1, FailDriven
  <2>4. CASE ~p.heard
    <3>1. ~(i = R.producer /\ Registered(r) /\ R.stop = "no" /\ ~Busy(R))
      BY <2>4, IdleCastIsServed DEF Served
    <3> HIDE DEF q, R
    <3>. QED  BY <2>1, <2>2, <2>4, <3>1, SilentDriven DEF R
  <2>. QED  BY <2>3, <2>4
<1>5. CASE BootTimeout(r, i)
  <2> DEFINE q == Disarmed(p)
  <2>1. /\ Heard(r, i, q) /\ p.boot
        /\ IF R.state = "starting" /\ p.gen = R.gen
           THEN Fails(r, [prod[r] EXCEPT ![i] = q])
           ELSE /\ prod' = [prod EXCEPT ![r] = [prod[r] EXCEPT ![i] = q]]
                /\ UNCHANGED <<streams, rec, view>>
    BY <1>1, <1>5, BootIsHeard
  <2>2. Fade(p, q) /\ shut' = shut /\ q.heard = p.heard /\ q.alive = p.alive
        /\ q.killed = p.killed /\ q.video = p.video
    BY <1>1, <2>1, CallbackFades DEF Heard, Fade
  <2>3. ~ReplacedIn(R, i)
    BY <1>1, <2>1, HeardIsCurrent DEF Audible
  <2>4. CASE R.state = "starting" /\ p.gen = R.gen
    BY <1>1, <2>1, <2>2, <2>3, <2>4, FailDriven
  <2>5. CASE ~(R.state = "starting" /\ p.gen = R.gen)
    <3>1. i = R.producer /\ Registered(r) /\ R.stop = "no" /\ ~Busy(R) => R.state = "streaming"
      BY <2>5, IdleCastIsServed DEF Served
    <3> HIDE DEF q, R
    <3>. QED  BY <1>1, <2>1, <2>2, <2>5, <3>1, SilentDriven DEF R
  <2>. QED  BY <2>4, <2>5
<1>. QED  BY <1>2, <1>3, <1>4, <1>5

\* The producer a fallback or a recovery starts moves the cast on.
LEMMA BeginDriven ==
  ASSUME SpawnErrors \subseteq 0..1, CastInv, QuietInv', NEW r \in Rec, NEW R \in Record,
         Busy(rec[r]), ~Busy(R), R.state = "starting", R.producer = 0, R.key = rec[r].key,
         R.key # 0, R.stop = rec[r].stop, R.idle = rec[r].idle,
         NEW owned \in BOOLEAN, owned = Registered(r), Begin(r, R, prod[r], owned),
         UNCHANGED <<streams, view, shut>>
  PROVE  CastInv'
<1> DEFINE P == prod[r]
<1>1. P \in Seq(Producer) /\ Driven(rec[r], P, Registered(r)) /\ Accounted(P)
  BY CastParts
<1>2. PICK errs \in SpawnErrors, video \in BOOLEAN :
        /\ New(R, video, owned, errs) \in Producer
        /\ prod' = [prod EXCEPT ![r] = Append(P, New(R, video, owned, errs))]
        /\ rec' = [rec EXCEPT ![r] = [R EXCEPT !.producer = IF owned THEN Len(P) + 1 ELSE @]]
  BY <1>1, BeginAdds
<1> DEFINE n == New(R, video, owned, errs)
           m == IF owned THEN Len(P) + 1 ELSE R.producer
           S == [R EXCEPT !.producer = m]
           Q == Append(P, n)
<1>3. n.gen = R.gen /\ n.alive = TRUE /\ n.heard = owned /\ n.boot = owned
  <2> DEFINE k == errs = 2
             a == errs < 2
             e == IF owned THEN errs ELSE 0
  <2>1. a = TRUE
    BY <1>2
  <2>2. n = [gen |-> R.gen, video |-> video, alive |-> a, killed |-> k, lost |-> FALSE,
             heard |-> owned, errors |-> e, boot |-> owned]
    BY DEF New
  <2> HIDE DEF k, a, e, n
  <2>. QED  BY <2>1, <2>2
<1>4. rec' = [rec EXCEPT ![r] = S] /\ prod' = [prod EXCEPT ![r] = Q]
  BY <1>2
<1>5. owned => m = Len(P) + 1
  OBVIOUS
<1>6. /\ Q \in Seq(Producer) /\ Len(P) \in Nat /\ DOMAIN Q = 1..(Len(P) + 1)
      /\ DOMAIN P = 1..Len(P) /\ Q[Len(P) + 1] = n /\ \A j \in DOMAIN P : Q[j] = P[j]
  BY <1>1, <1>2, AppendedType
<1> HIDE DEF n, m, Q
<1>7. S.key = R.key /\ S.gen = R.gen /\ S.fallback = R.fallback /\ S.recovery = R.recovery
      /\ S.producer = m /\ S.stop = R.stop /\ S.idle = R.idle /\ S.state = "starting"
  BY DEF Record
<1> HIDE DEF S
<1>8. Accounted(Q)
  BY <1>1, <1>3, <1>6 DEF Accounted
<1>9. ~Busy(S)
  BY <1>7 DEF Busy
<1>13. Lost(P) => Lost(Q)
  BY <1>6 DEF Lost
<1>10. /\ R.stop # "pending" \/ Lost(Q)
       /\ owned <=> R.key # 0 /\ R.stop # "done"
  BY <1>1, <1>13 DEF Driven
<1>11. owned => Moving(S, Q)
  <2>1. ASSUME owned
        PROVE  Moving(S, Q)
    <3>1. n.gen = R.gen /\ n.heard /\ n.boot
      BY <1>3, <2>1
    <3>2. S.producer = Len(P) + 1 /\ S.producer # 0
      BY <1>5, <1>6, <1>7, <2>1
    <3>3. Q[S.producer] = n
      BY <1>6, <3>2
    <3>4. Served(S, Q) /\ Q[S.producer].boot
      BY <1>7, <3>1, <3>2, <3>3 DEF Served
    <3>. QED  BY <1>7, <3>4 DEF Moving
  <2>. QED  BY <2>1
<1>12. Driven(S, Q, Registered(r))
  BY <1>7, <1>8, <1>9, <1>10, <1>11 DEF Driven
<1>. QED  BY <1>4, <1>7, <1>12, <1>13, InnerDriven

LEMMA ContinueDriven ==
  ASSUME SpawnErrors \subseteq 0..1, CastInv, QuietInv', NEW r \in Rec, Continuation(r)
  PROVE  CastInv'
<1> DEFINE R == rec[r]
           P == prod[r]
<1>1. /\ R \in Record /\ P \in Seq(Producer) /\ Registered(r) \in BOOLEAN
      /\ TypeInv /\ Accounted(P) /\ Driven(R, P, Registered(r)) /\ R.producer \in 0..Len(P)
      /\ R.fallback = "none" \/ R.recovery = "none"
      /\ P = prod[r] /\ prod = [prod EXCEPT ![r] = P] /\ rec = [rec EXCEPT ![r] = R]
  BY CastParts, QuietIsSound DEF Quiet
<1>2. R.fallback # "none" \/ R.recovery # "none" \/ R.stop # "no" => R.key # 0
  BY <1>1 DEF TypeInv, Counted, NoRecord
<1>3. CASE StopFinishes(r)
  <2> DEFINE S == [R EXCEPT !.stop = "done"]
  <2>1. S.key = R.key /\ S.stop = "done"
    BY <1>1 DEF Record
  <2>2. rec' = [rec EXCEPT ![r] = S] /\ prod' = [prod EXCEPT ![r] = P] /\ shut' = shut
        /\ view' = view /\ R.stop = "pending"
    BY <1>1, <1>3 DEF StopFinishes
  <2> HIDE DEF S
  <2>3. Registered(r) /\ streams[R.key] = r /\ R.key \in Key
    BY <1>1, <1>2, <2>2, CastParts DEF Driven, Registered
  <2>4. streams' = [streams EXCEPT ![R.key] = 0]
    BY <1>3, <2>3 DEF StopFinishes
  <2>5. ~Registered(r)'
    <3>1. Registered(r)' => streams'[R.key] = r
      BY <1>1, <2>1, <2>2 DEF Registered, TypeInv
    <3>. QED  BY <1>1, <2>3, <2>4, <3>1 DEF TypeInv, Rec
  <2>6. Driven(S, P, Registered(r)')
    BY <1>1, <2>1, <2>5 DEF Driven
  <2>7. /\ \A k \in Key : \/ streams'[k] = streams[k]
                          \/ streams[k] \in {0, r} /\ streams'[k] \in {0, r}
        /\ \A v \in Viewer : view'[v].at = r => Lost(P)
        /\ \A v \in Viewer : view'[v].st = "new" => view'[v].at = 0
    BY <1>1, <2>2, <2>3, <2>4, CastParts DEF TypeInv
  <2>8. \A v \in Viewer : \/ view'[v].at = view[v].at
                          \/ view[v].at \in {0, r} /\ view'[v].at \in {0, r}
    BY <2>2
  <2>. QED  BY <2>1, <2>2, <2>5, <2>6, <2>7, <2>8, OneRecordCast
<1>4. CASE FallbackContinues(r)
  <2> DEFINE S == [R EXCEPT !.fallback = "none", !.producer = 0, !.state = "starting"]
  <2>1. S \in Record /\ S.key = R.key /\ S.producer = 0 /\ S.state = "starting"
        /\ S.fallback = "none" /\ S.recovery = R.recovery /\ S.stop = R.stop
        /\ S.idle = R.idle
    BY <1>1 DEF Record, State
  <2>2. Begin(r, S, P, Registered(r)) /\ UNCHANGED <<streams, view, shut>>
        /\ R.fallback # "none"
    BY <1>4 DEF FallbackContinues
  <2> HIDE DEF S
  <2>3. Busy(R) /\ ~Busy(S)
    BY <1>1, <2>1, <2>2 DEF Busy
  <2>. QED  BY <1>1, <1>2, <2>1, <2>2, <2>3, BeginDriven
<1>5. CASE RecoveryResolves(r)
  <2> DEFINE S == [R EXCEPT !.recovery = "none", !.producer = 0, !.state = "starting"]
  <2>1. S \in Record /\ S.key = R.key /\ S.producer = 0 /\ S.state = "starting"
        /\ S.fallback = R.fallback /\ S.recovery = "none" /\ S.stop = R.stop
        /\ S.idle = R.idle
    BY <1>1 DEF Record, State
  <2>2. Begin(r, S, P, Registered(r)) /\ UNCHANGED <<streams, view, shut>>
        /\ R.recovery = "resolving"
    BY <1>5 DEF RecoveryResolves
  <2> HIDE DEF S
  <2>3. Busy(R) /\ ~Busy(S)
    BY <1>1, <2>1, <2>2 DEF Busy
  <2>. QED  BY <1>1, <1>2, <2>1, <2>2, <2>3, BeginDriven
<1>6. ASSUME GiveUp(r, [R EXCEPT !.recovery = "none"], P), R.recovery # "none", shut' = shut
      PROVE  CastInv'
  <2> DEFINE S == [R EXCEPT !.recovery = "none"]
             F == [S EXCEPT !.state = "failed"]
  <2>1. S \in Record /\ S.key = R.key /\ S.producer = R.producer /\ S.stop = R.stop
        /\ S.fallback = R.fallback /\ S.recovery = "none"
    BY <1>1 DEF Record
  <2>2. F.key = R.key /\ F.stop = R.stop /\ F.idle = R.idle /\ F.state = "failed"
    BY <1>1 DEF Record, State
  <2>3. IF S.stop = "no" THEN StopWith(r, S, P)
        ELSE /\ rec' = [rec EXCEPT ![r] = F] /\ prod' = [prod EXCEPT ![r] = P]
             /\ UNCHANGED <<streams, view>>
    BY <1>6 DEF GiveUp
  <2> HIDE DEF S, F
  <2>4. ~Busy(S) /\ Busy(R)
    BY <1>1, <1>6, <2>1 DEF Busy
  <2>5. CASE R.stop = "no"
    BY <1>1, <1>2, <1>6, <2>1, <2>3, <2>4, <2>5, StopDriven
  <2>6. CASE R.stop # "no"
    <3>1. Lost(P) \/ (~Registered(r) /\ R.stop = "done")
      BY <1>1, <1>2, <1>6, <2>4, <2>6 DEF Driven, Record
    <3>2. Driven(F, P, Registered(r))
      BY <1>1, <2>2, <2>6, <3>1 DEF Driven
    <3>. QED  BY <1>6, <2>1, <2>2, <2>3, <2>6, <3>2, InnerDriven
  <2>. QED  BY <2>5, <2>6
<1>7. CASE RecoveryFails(r)
  BY <1>6, <1>7 DEF RecoveryFails
<1>8. CASE RecoveryWakes(r)
  <2>1. CASE Registered(r) /\ Viewers(r) # {} /\ ~shut
    <3> DEFINE S == [R EXCEPT !.recovery = "resolving"]
    <3>1. S.key = R.key /\ S.producer = R.producer /\ S.gen = R.gen /\ S.state = R.state
          /\ S.fallback = R.fallback /\ S.recovery = "resolving" /\ S.stop = R.stop
          /\ S.idle = R.idle
      BY <1>1 DEF Record
    <3>2. rec' = [rec EXCEPT ![r] = S] /\ prod' = [prod EXCEPT ![r] = P]
          /\ R.recovery # "none" /\ UNCHANGED <<streams, view, shut>>
      BY <1>1, <1>8, <2>1 DEF RecoveryWakes
    <3> HIDE DEF S
    <3>3. Moving(R, P) => Moving(S, P)
      BY <3>1 DEF Moving, Served
    <3>4. Busy(R)
      BY <3>2 DEF Busy
    <3>5. Driven(S, P, Registered(r))
      BY <1>1, <3>1, <3>3, <3>4 DEF Driven
    <3>. QED  BY <3>1, <3>2, <3>5, InnerDriven
  <2>2. CASE ~(Registered(r) /\ Viewers(r) # {} /\ ~shut)
    BY <1>6, <1>8, <2>2 DEF RecoveryWakes
  <2>. QED  BY <2>1, <2>2
<1>. QED  BY <1>3, <1>4, <1>5, <1>7, <1>8 DEF Continuation

\* Viewers that leave: the last one arms the timer.
LEMMA DetachDriven ==
  ASSUME CastInv, QuietInv', NEW r \in Rec, NEW S, NEW Q, NEW D \in SUBSET Viewers(r),
         rec' = [rec EXCEPT ![r] = S], prod' = [prod EXCEPT ![r] = Q],
         UNCHANGED <<streams, shut>>, S.key = rec[r].key, S.stop = rec[r].stop,
         S.idle <=> Detached(r, rec[r], D), Driven(S, Q, Registered(r)),
         Lost(prod[r]) => Lost(Q),
         \A v \in Viewer : view'[v].at = IF v \in D THEN 0 ELSE view[v].at,
         \A v \in Viewer : view'[v].st = "new" => view'[v].at = 0
  PROVE  CastInv'
<1>1. Registered(r)' <=> Registered(r)
  BY DEF CastInv, QuietInv, TypeInv, Registered
<1>2. Driven(S, Q, Registered(r)')
  BY <1>1 DEF Driven
<1>3. r # 0 /\ \A v \in D : view[v].at = r
  BY DEF Viewers, Rec
<1>4. \A v \in Viewer : view'[v].at = r => (Registered(r)' /\ S.stop = "no") \/ Lost(Q)
  BY <1>1, <1>3, CastParts
<1>5. ASSUME Registered(r), S.stop = "no"
      PROVE  ~shut /\ ((\A v \in Viewer : view'[v].at # r) => S.idle)
  <2>1. ~shut /\ ((\A v \in Viewer : view[v].at # r) => rec[r].idle)
    BY <1>5, CastParts
  <2>2. ASSUME \A v \in Viewer : view'[v].at # r
        PROVE  S.idle
    <3>1. Viewers(r) = D
      BY <2>2 DEF Viewers
    <3>2. CASE D = {}
      BY <2>1, <3>1, <3>2 DEF Detached, Viewers
    <3>3. CASE D # {}
      BY <1>5, <2>1, <3>1, <3>3 DEF Detached
    <3>. QED  BY <3>2, <3>3
  <2>. QED  BY <2>1, <2>2
<1>6. /\ \A k \in Key : \/ streams'[k] = streams[k]
                        \/ streams[k] \in {0, r} /\ streams'[k] \in {0, r}
      /\ \A v \in Viewer : \/ view'[v].at = view[v].at
                           \/ view[v].at \in {0, r} /\ view'[v].at \in {0, r}
  BY <1>3
<1>7. shut' = shut
  OBVIOUS
<1>8. Registered(r)' /\ S.stop = "no" =>
        ~shut /\ ((\A v \in Viewer : view'[v].at # r) => S.idle)
  BY <1>1, <1>5
<1>. QED  BY <1>2, <1>4, <1>6, <1>7, <1>8, OneRecordCast

LEMMA PublishDriven ==
  ASSUME CastInv, QuietInv', NEW r \in Rec, NEW i \in DOMAIN prod[r], Publish(r, i)
  PROVE  CastInv'
<1> DEFINE R == rec[r]
           P == prod[r]
           p == prod[r][i]
<1>1. /\ QuietInv /\ TypeInv /\ P \in Seq(Producer) /\ R \in Record /\ p \in Producer
      /\ Accounted(P) /\ Driven(R, P, Registered(r)) /\ R.producer \in 0..Len(P)
  BY CastParts, HasProducer
<1>2. p.alive /\ p.heard /\ Current(r, i) /\ Registered(r) /\ R.stop = "no" /\ p.gen = R.gen
  BY DEF Publish, Current
<1>3. i = R.producer /\ ~Busy(R)
  BY <1>1, PublishFades
<1>4. R.state \in {"starting", "streaming"} /\ R.producer # 0
  BY <1>2, <1>3, IdleCastIsServed DEF Served
<1>5. PICK q : /\ q \in {p, Disarmed(p)}
               /\ prod' = [prod EXCEPT ![r] = [P EXCEPT ![i] = q]]
  BY <1>1, PublishFades
<1> DEFINE Q == [P EXCEPT ![i] = q]
<1>6. Fade(p, q) /\ q.killed = p.killed /\ q.alive /\ q.video = p.video /\ q.heard
      /\ q.gen = p.gen
  BY <1>1, <1>2, <1>5, CallbackFades, FadeSelf DEF Fade
<1>7. Fades(P, Q) /\ Q[i] = q /\ \A j \in DOMAIN P \ {i} : Q[j] = P[j]
  BY <1>1, <1>6, FadeAt
<1>8. DOMAIN Q = DOMAIN P
  BY <1>1, <1>7, FadesDomain
<1>9. prod' = [prod EXCEPT ![r] = Q]
  BY <1>5
<1> HIDE DEF Q
<1>10. Accounted(Q)
  BY <1>1, <1>6, <1>7, <1>8 DEF Accounted
<1>11. PICK S \in Record, D \in SUBSET Viewers(r) :
         /\ rec' = [rec EXCEPT ![r] = S] /\ S.key = R.key
         /\ S.state = IF R.state = "starting" THEN "streaming" ELSE R.state
         /\ S.producer = R.producer /\ S.gen = R.gen
         /\ S.fallback = R.fallback /\ S.recovery = R.recovery
         /\ S.stop = R.stop
         /\ S.idle <=> Detached(r, R, D)
         /\ \A v \in Viewer : view'[v].at = IF v \in D THEN 0 ELSE view[v].at
         /\ UNCHANGED <<streams, shut>>
  <2>1. \E S \in Record, D \in SUBSET Viewers(r) :
           /\ rec' = [rec EXCEPT ![r] = S] /\ S.key = rec[r].key
           /\ S.state = IF rec[r].state = "starting" THEN "streaming" ELSE rec[r].state
           /\ S.producer = rec[r].producer /\ S.gen = rec[r].gen
           /\ S.fallback = rec[r].fallback /\ S.recovery = rec[r].recovery
           /\ S.attempts = rec[r].attempts /\ S.fallbackUsed = rec[r].fallbackUsed
           /\ S.video = rec[r].video /\ S.stop = rec[r].stop
           /\ S.idle <=> Detached(r, rec[r], D)
           /\ prod' = IF rec[r].state = "starting"
                      THEN [prod EXCEPT ![r][rec[r].producer].boot = FALSE] ELSE prod
           /\ view' \in [Viewer -> View]
           /\ \A v \in Viewer : view'[v].at = IF v \in D THEN 0 ELSE view[v].at
           /\ UNCHANGED <<streams, shut>>
    BY <1>1, PublishIs
  <2>. QED  BY <2>1
<1>12. S.state = "streaming" /\ ~Busy(S)
  BY <1>3, <1>4, <1>11 DEF Busy
<1>13. Driven(S, Q, Registered(r))
  <2>1. Served(S, Q) /\ Q[S.producer].alive
    BY <1>2, <1>3, <1>4, <1>6, <1>7, <1>11 DEF Served
  <2>2. Moving(S, Q)
    BY <1>12, <2>1 DEF Moving
  <2>. QED  BY <1>1, <1>2, <1>10, <1>11, <1>12, <2>2 DEF Driven
<1>14. \A v \in Viewer : view'[v].st = "new" => view'[v].at = 0
  <2>1. PICK slow \in SUBSET {v \in Viewers(r) : view[v].st = "blocked"},
             full \in SUBSET {v \in Viewers(r) : view[v].st # "blocked"} :
          LET E == slow \cup {v \in Viewers(r) : view[v].left}
          IN view' = [v \in Viewer |->
               IF v \in E THEN [view[v] EXCEPT !.at = 0, !.st = "gone"]
               ELSE IF v \in full THEN [view[v] EXCEPT !.st = "blocked"]
               ELSE IF v \in Viewers(r) /\ view[v].st = "waiting" THEN [view[v] EXCEPT !.st = "fed"]
               ELSE view[v]]
    BY DEF Publish
  <2>2. ASSUME NEW v \in Viewer, view'[v].st = "new"
        PROVE  view'[v].at = 0
    <3>1. view[v] \in View /\ (view[v].st = "new" => view[v].at = 0)
      BY <1>1, CastParts DEF TypeInv
    <3>. QED  BY <2>1, <2>2, <3>1 DEF View
  <2>. QED  BY <2>2
<1>15. Lost(P) => Lost(Q)
  BY <1>1, <1>7, LostStays
<1>. QED  BY <1>9, <1>11, <1>13, <1>14, <1>15, DetachDriven

LEMMA LeaveDriven ==
  ASSUME CastInv, QuietInv', NEW v \in Viewer, ViewerLeaves(v)
  PROVE  CastInv'
<1>1. view[v] \in View /\ streams' = streams /\ prod' = prod /\ shut' = shut /\ view[v].at \in Rec
  BY DEF CastInv, QuietInv, TypeInv, View, ViewerLeaves
<1>2. PICK r \in Rec : r = view[v].at
  BY <1>1
<1> DEFINE R == rec[r]
           P == prod[r]
           D == {v}
<1>3. R \in Record /\ Detach(r, R, D) /\ Driven(R, P, Registered(r)) /\ TypeInv
      /\ D \in SUBSET Viewers(r)
  BY <1>1, <1>2, CastParts DEF ViewerLeaves, Viewers
<1>4. /\ view' = [view EXCEPT ![v].at = 0, ![v].st = "gone"]
      /\ view \in [Viewer -> View]
  BY <1>3 DEF ViewerLeaves, TypeInv
<1>5. ASSUME NEW w \in Viewer
      PROVE  /\ view'[w].at = IF w \in D THEN 0 ELSE view[w].at
             /\ view'[w].st = "new" => view'[w].at = 0
  <2>1. view[w] \in View /\ (view[w].st = "new" => view[w].at = 0)
    BY <1>2, <1>4, CastParts
  <2>2. CASE w = v
    BY <1>1, <1>4, <2>2 DEF View
  <2>3. CASE w # v
    BY <1>4, <2>1, <2>3
  <2>. QED  BY <2>2, <2>3
<1>6. prod' = [prod EXCEPT ![r] = P]
  BY <1>1, <1>3 DEF TypeInv
<1> HIDE DEF D, R, P
<1>7. \E S \in Record :
        /\ rec' = [rec EXCEPT ![r] = S]
        /\ S.idle <=> Detached(r, R, D)
        /\ S.key = R.key /\ S.state = R.state /\ S.producer = R.producer /\ S.gen = R.gen
        /\ S.fallback = R.fallback /\ S.recovery = R.recovery /\ S.attempts = R.attempts
        /\ S.fallbackUsed = R.fallbackUsed /\ S.video = R.video /\ S.stop = R.stop
  BY <1>3, DetachIs DEF Detach
<1>8. PICK S \in Record :
        /\ rec' = [rec EXCEPT ![r] = S]
        /\ S.idle <=> Detached(r, R, D)
        /\ S.key = R.key /\ S.state = R.state /\ S.producer = R.producer /\ S.gen = R.gen
        /\ S.fallback = R.fallback /\ S.recovery = R.recovery /\ S.stop = R.stop
  BY <1>7
<1>9. Driven(S, P, Registered(r))
  BY <1>3, <1>8 DEF Driven, Moving, Served, Busy
<1>10. UNCHANGED <<streams, shut>>
  BY <1>1
<1>. QED  BY <1>3, <1>5, <1>6, <1>8, <1>9, <1>10, DetachDriven DEF R, P

\* Viewers join casts that are not being stopped.
LEMMA AttachDriven ==
  ASSUME CastInv, QuietInv', NEW v \in Viewer, NEW k \in Key, NEW video \in BOOLEAN,
         NEW left \in BOOLEAN, AttachViewer(v, k, video, left)
  PROVE  CastInv'
<1>1. TypeInv /\ streams[k] \in Rec /\ rec[streams[k]].key = k /\ k # 0
  BY CastKeyAssumption DEF CastInv, QuietInv, TypeInv, RegistryInv, AttachViewer
<1>2. PICK r \in Rec : r = streams[k]
  BY <1>1
<1>3. Registered(r) /\ Driven(rec[r], prod[r], Registered(r)) /\ rec[r].stop \in {"no", "pending", "done"}
  BY <1>1, <1>2, CastParts DEF Registered, Record
<1>4. rec[r].state \notin {"stopping", "failed"}
  BY <1>2 DEF AttachViewer, CanJoin
<1>5. rec[r].stop = "no" \/ Lost(prod[r])
  BY <1>3, <1>4 DEF Driven
<1>6. rec' = [rec EXCEPT ![r] = rec[r]] /\ prod' = [prod EXCEPT ![r] = prod[r]]
      /\ UNCHANGED <<streams, rec, shut>>
  BY <1>1 DEF AttachViewer, TypeInv
<1>7. Registered(r)' <=> Registered(r)
  BY <1>6 DEF Registered
<1>8. Driven(rec[r], prod[r], Registered(r)')
  BY <1>3, <1>7 DEF Driven
<1> DEFINE replayed == rec[streams[k]].state = "streaming" /\ ~left
           st == IF replayed THEN "fed" ELSE "waiting"
<1>9. view' = [view EXCEPT ![v] = [at |-> streams[k], left |-> left, st |-> st]]
      /\ view[v].st = "new"
  BY DEF AttachViewer
<1>10. st # "new"
  OBVIOUS
<1> HIDE DEF st
<1>11. view'[v].at = r /\ view'[v].st # "new" /\ view[v].at = 0
  BY <1>1, <1>2, <1>9, <1>10, CastParts DEF TypeInv
<1>12. \A w \in Viewer : w # v => view'[w] = view[w]
  BY <1>1, <1>9 DEF TypeInv
<1>13. /\ \A w \in Viewer : \/ view'[w].at = view[w].at
                            \/ view[w].at \in {0, r} /\ view'[w].at \in {0, r}
       /\ \A w \in Viewer : view'[w].st = "new" => view'[w].at = 0
  BY <1>11, <1>12, CastParts
<1>14. ~shut /\ \E w \in Viewer : view'[w].at = r
  BY <1>11 DEF AttachViewer
<1>15. \A h \in Key : \/ streams'[h] = streams[h]
                      \/ streams[h] \in {0, r} /\ streams'[h] \in {0, r}
  BY <1>6
<1>16. shut' = shut
  BY <1>6
<1>. QED
  BY <1>3, <1>5, <1>6, <1>7, <1>8, <1>13, <1>14, <1>15, <1>16, OneRecordCast

LEMMA StartDriven ==
  ASSUME SpawnErrors \subseteq 0..1, CastInv, QuietInv', NEW v \in Viewer, NEW k \in Key,
         NEW video \in BOOLEAN, NEW left \in BOOLEAN, StartCast(v, k, video, left)
  PROVE  CastInv'
<1>1. PICK r \in Rec : \E S, p : Starts(v, k, video, left, r, S, p)
  BY FreshIs
<1>2. PICK S, p : Starts(v, k, video, left, r, S, p)
  BY <1>1
<1>3. /\ streams' = [streams EXCEPT ![k] = r] /\ rec' = [rec EXCEPT ![r] = S]
      /\ prod' = [prod EXCEPT ![r] = <<p>>] /\ ~shut /\ shut' = shut /\ streams[k] = 0
      /\ rec[r].state = "none"
      /\ view' = [view EXCEPT ![v] = [at |-> r, left |-> left, st |-> "waiting"]]
  BY <1>2 DEF Starts
<1>4. /\ S.gen = 1 /\ S.fallback = "none" /\ S.recovery = "none" /\ S.producer = 1
      /\ S.stop = "no" /\ S.state = "starting" /\ S.key = k /\ k # 0
      /\ p.gen = 1 /\ p.heard = TRUE /\ p.boot = TRUE
      /\ p.alive \/ p.killed
  BY <1>2, CastKeyAssumption DEF Starts, FreshRecord, FirstProducer
<1> DEFINE Q == <<p>>
<1>5. DOMAIN Q = {1} /\ Q[1] = p
  OBVIOUS
<1> HIDE DEF Q
<1>6. TypeInv /\ streams \in [Key -> Rec \cup {0}] /\ rec \in [Rec -> Record]
      /\ view \in [Viewer -> View]
  BY DEF CastInv, QuietInv, TypeInv
<1>7. Registered(r)'
  BY <1>3, <1>4, <1>6 DEF Registered
<1>8. Driven(S, Q, Registered(r)')
  <2>1. Served(S, Q) /\ Q[S.producer].boot
    BY <1>4, <1>5 DEF Served
  <2>2. Moving(S, Q)
    BY <1>4, <2>1 DEF Moving
  <2>3. Accounted(Q)
    BY <1>4, <1>5 DEF Accounted
  <2>. QED  BY <1>4, <1>7, <2>2, <2>3 DEF Driven, Busy
<1>9. view[v].at = 0
  BY CastParts DEF StartCast
<1>10. /\ \A w \in Viewer : w # v => view'[w] = view[w]
       /\ view'[v].at = r /\ view'[v].st = "waiting"
  BY <1>3, <1>6
<1>11. /\ \A w \in Viewer : \/ view'[w].at = view[w].at
                            \/ view[w].at \in {0, r} /\ view'[w].at \in {0, r}
       /\ \A w \in Viewer : view'[w].st = "new" => view'[w].at = 0
  BY <1>9, <1>10, CastParts
<1>12. \A h \in Key : \/ streams'[h] = streams[h]
                      \/ streams[h] \in {0, r} /\ streams'[h] \in {0, r}
  BY <1>3, <1>6
<1>13. prod' = [prod EXCEPT ![r] = Q]
  BY <1>3 DEF Q
<1>14. /\ \A w \in Viewer : view'[w].at = r => (Registered(r)' /\ S.stop = "no") \/ Lost(Q)
       /\ Registered(r)' /\ S.stop = "no" =>
            ~shut /\ ((\A w \in Viewer : view'[w].at # r) => S.idle)
  BY <1>3, <1>4, <1>7, <1>10
<1>15. rec' = [rec EXCEPT ![r] = S] /\ shut' = shut
  BY <1>3
<1>. QED  BY <1>8, <1>11, <1>12, <1>13, <1>14, <1>15, OneRecordCast

LEMMA DrainDriven ==
  ASSUME CastInv, QuietInv', NEW v \in Viewer, Drain(v)
  PROVE  CastInv'
<1>1. UNCHANGED <<streams, rec, prod, shut>> /\ view \in [Viewer -> View]
  BY DEF Drain, CastInv, QuietInv, TypeInv
<1>2. \A w \in Viewer : view'[w].at = view[w].at /\ (view'[w].st = "new" => view[w].st = "new")
  BY <1>1 DEF Drain, View
<1>3. \A r \in Rec : Viewers(r)' = Viewers(r)
  BY <1>2 DEF Viewers
<1>4. ViewersInv'
  BY <1>1, <1>2, <1>3 DEF CastInv, ViewersInv, NobodyStranded, Registered, LostOne
<1>. QED  BY <1>1, <1>4 DEF CastInv, Driven, Accounted, Lost, Moving, Served, Registered

LEMMA IdleDriven ==
  ASSUME CastInv, QuietInv', NEW r \in Rec, NoViewerTimer(r)
  PROVE  CastInv'
<1> DEFINE R == rec[r]
           P == prod[r]
<1>1. /\ TypeInv /\ R \in Record /\ P \in Seq(Producer) /\ Driven(R, P, Registered(r))
      /\ Accounted(P)
  BY CastParts
<1>2. R.key # 0 /\ R.idle /\ shut' = shut
  BY <1>1 DEF TypeInv, Counted, NoRecord, NoViewerTimer
<1>3. CASE Viewers(r) = {} /\ R.stop = "no"
  <2>1. StopWith(r, R, P) /\ Registered(r)
    BY <1>1, <1>2, <1>3 DEF NoViewerTimer, Driven
  <2>2. Busy(R) => Lost(P) \/ Prompt(P, R.producer)
    BY <1>1, <2>1 DEF Driven
  <2>. QED  BY <1>1, <1>2, <1>3, <2>1, <2>2, StopDriven
<1>4. CASE ~(Viewers(r) = {} /\ R.stop = "no")
  <2> DEFINE S == [R EXCEPT !.idle = FALSE]
  <2>1. S.key = R.key /\ S.producer = R.producer /\ S.gen = R.gen /\ S.state = R.state
        /\ S.fallback = R.fallback /\ S.recovery = R.recovery /\ S.stop = R.stop
    BY <1>1 DEF Record
  <2>2. rec' = [rec EXCEPT ![r] = S] /\ UNCHANGED <<streams, prod, view, shut>>
    BY <1>2, <1>4 DEF NoViewerTimer
  <2> HIDE DEF S
  <2>3. Driven(S, P, Registered(r))
    BY <1>1, <2>1 DEF Driven, Moving, Served, Busy
  <2>4. Registered(r)' <=> Registered(r)
    BY <1>1, <2>1, <2>2 DEF Registered, TypeInv
  <2>5. Driven(S, P, Registered(r)')
    BY <2>3, <2>4 DEF Driven
  <2>6. R.stop = "no" => \E v \in Viewer : view[v].at = r
    BY <1>4 DEF Viewers
  <2>7. prod' = [prod EXCEPT ![r] = P]
    BY <1>1, <2>2 DEF TypeInv
  <2>8. /\ \A v \in Viewer : view'[v].at = r => (Registered(r)' /\ S.stop = "no") \/ Lost(P)
        /\ \A v \in Viewer : view'[v].st = "new" => view'[v].at = 0
        /\ Registered(r)' /\ S.stop = "no" =>
             ~shut /\ ((\A v \in Viewer : view'[v].at # r) => S.idle)
    BY <2>1, <2>2, <2>4, <2>6, CastParts
  <2>9. /\ \A k \in Key : \/ streams'[k] = streams[k]
                          \/ streams[k] \in {0, r} /\ streams'[k] \in {0, r}
        /\ \A v \in Viewer : \/ view'[v].at = view[v].at
                             \/ view[v].at \in {0, r} /\ view'[v].at \in {0, r}
    BY <2>2
  <2>. QED  BY <1>2, <2>2, <2>5, <2>7, <2>8, <2>9, OneRecordCast
<1>. QED  BY <1>3, <1>4

LEMMA StopAllDriven ==
  ASSUME CastInv, QuietInv', StopAll
  PROVE  CastInv'
<1>1. ASSUME NEW r \in Rec
      PROVE  /\ Driven(rec[r], prod[r], Registered(r))'
             /\ ~(Registered(r)' /\ rec'[r].stop = "no")
             /\ Lost(prod[r]) => Lost(prod'[r])
  <2> DEFINE R == rec[r]
             P == prod[r]
  <2>1. /\ TypeInv /\ R \in Record /\ P \in Seq(Producer) /\ Driven(R, P, Registered(r))
        /\ Accounted(P) /\ R.producer \in 0..Len(P) /\ r # 0
        /\ (Registered(r) => R.key \in Key /\ streams[R.key] = r)
    BY CastParts DEF Registered, Rec
  <2>2. /\ rec'[r].key = R.key /\ rec'[r].producer = R.producer
        /\ rec'[r].fallback = R.fallback /\ rec'[r].recovery = R.recovery
    BY <2>1, StopAllIs
  <2>3. Registered(r)' <=> R.key # 0 /\ streams'[R.key] = r
    BY <2>2 DEF Registered
  <2>4. \A k \in Key : streams'[k] =
          IF streams[k] \in {q \in Rec : /\ Registered(q) /\ rec[q].stop = "no"
                                         /\ Prompt(prod[q], rec[q].producer)}
          THEN 0 ELSE streams[k]
    BY DEF StopAll
  <2>5. CASE Registered(r) /\ R.stop = "no"
    <3>1. /\ rec'[r].state = "stopping"
          /\ rec'[r].stop = IF Prompt(P, R.producer) THEN "done" ELSE "pending"
          /\ prod'[r] = Released(P, R.producer)
      BY <2>1, <2>5, StopAllIs
    <3>2. Registered(r)' <=> ~Prompt(P, R.producer)
      BY <2>1, <2>3, <2>4, <2>5, CastParts
    <3>3. Accounted(prod'[r]) /\ (Lost(P) => Lost(prod'[r]))
      BY <2>1, <3>1, ReleasedDriven
    <3>4. Busy(rec'[r]) => Busy(R)
      BY <2>2 DEF Busy
    <3>5. R.key # 0
      BY <2>5 DEF Registered
    <3> HIDE DEF P
    <3>6. Driven(rec'[r], prod'[r], Registered(r)')
      BY <2>1, <2>2, <2>5, <3>1, <3>2, <3>3, <3>4, <3>5 DEF Driven
    <3>7. rec'[r].stop # "no"
      BY <3>1
    <3>. QED  BY <3>3, <3>6, <3>7 DEF P
  <2>6. CASE ~(Registered(r) /\ R.stop = "no")
    <3>1. rec'[r] = R /\ prod'[r] = P
      BY <2>1, <2>6, StopAllIs
    <3>2. Registered(r)' <=> Registered(r)
      <4>1. R.key # 0 => R.key \in Key
        BY <2>1 DEF Record
      <4>. QED  BY <2>1, <2>3, <2>4, <2>6, <4>1 DEF Registered
    <3>3. Driven(R, P, Registered(r)')
      BY <2>1, <3>2 DEF Driven
    <3>. QED  BY <2>6, <3>1, <3>2, <3>3
  <2>. QED  BY <2>5, <2>6
<1> DEFINE R == {r \in Rec : Registered(r) /\ rec[r].stop = "no"}
<1>2. ASSUME NEW v \in Viewer
      PROVE  /\ view'[v].at # 0 => LostOne(view[v].at)'
             /\ view'[v].st = "new" => view'[v].at = 0
  <2>1. view[v] \in View /\ (view[v].st = "new" => view[v].at = 0)
    BY DEF CastInv, QuietInv, TypeInv, ViewersInv
  <2>2. CASE view[v].at \in R
    BY <2>1, <2>2 DEF StopAll, View
  <2>3. CASE view[v].at \notin R
    <3>1. view'[v] = view[v]
      BY <2>3 DEF StopAll
    <3>2. ASSUME view[v].at # 0
          PROVE  LostOne(view[v].at)'
      <4>1. PICK r \in Rec : r = view[v].at
        BY <2>1, <3>2 DEF View
      <4>2. Lost(prod[r])
        BY <2>3, <3>2, <4>1 DEF CastInv, ViewersInv, NobodyStranded, LostOne, Lost
      <4>3. Lost(prod'[r]) <=> LostOne(view[v].at)'
        BY <3>1, <4>1 DEF LostOne, Lost
      <4>. QED  BY <1>1, <4>2, <4>3
    <3>. QED  BY <2>1, <3>1, <3>2
  <2>. QED  BY <2>2, <2>3
<1> HIDE DEF R
<1>3. ViewersInv'
  BY <1>1, <1>2 DEF ViewersInv, NobodyStranded
<1>. QED  BY <1>1, <1>3 DEF CastInv

LEMMA CastStep ==
  ASSUME SpawnErrors \subseteq 0..1, CastInv, [Next]_vars
  PROVE  CastInv'
<1>1. QuietInv'
  BY QuietStep DEF CastInv
<1>2. CASE Request
  BY <1>1, <1>2, AttachDriven, StartDriven DEF Request
<1>3. ASSUME NEW r \in Rec, Timer(r)
      PROVE  CastInv'
  BY <1>1, <1>3, IdleDriven, CallbacksDriven DEF Timer
<1>4. ASSUME NEW r \in Rec, FallbackContinues(r)
      PROVE  CastInv'
  BY <1>1, <1>4, ContinueDriven DEF Continuation
<1>5. CASE UNCHANGED vars
  <2>1. UNCHANGED <<streams, rec, prod, view, shut>>
    BY <1>5 DEF vars
  <2>2. ViewersInv'
    BY <2>1 DEF CastInv, ViewersInv, NobodyStranded, Registered, Viewers, LostOne
  <2>. QED  BY <1>1, <2>1, <2>2 DEF CastInv, Driven, Accounted, Lost, Moving, Served, Registered
<1>. QED
  BY <1>1, <1>2, <1>3, <1>4, <1>5, ContinueDriven, CallbacksDriven, PublishDriven,
     LeaveDriven, DrainDriven, StopAllDriven DEF Next

LEMMA CastInit ==
  ASSUME Init
  PROVE  CastInv
<1>1. QuietInv
  BY QuietInit
<1>2. ASSUME NEW r \in Rec
      PROVE  Driven(rec[r], prod[r], Registered(r)) /\ ~Registered(r)
  BY DEF Init, Driven, Accounted, NoRecord, Registered, Busy
<1>3. ViewersInv
  BY <1>2 DEF Init, ViewersInv, NobodyStranded
<1>. QED  BY <1>1, <1>2, <1>3 DEF CastInv

LEMMA CastAlways ==
  ASSUME SpawnErrors \subseteq 0..1
  PROVE  Spec => []CastInv
BY CastInit, CastStep, PTL DEF Spec

\* A cast in the registry always has something that moves it on: the boot timer
\* or the fallback of one that starts, the recovery of one that reconnects, the
\* producer of one that streams, and the idle timer of one without viewers
\* (fail, recover, stop, detachViewer), also after producers have died of
\* signals.  One that is being stopped waits for what it terminates and does
\* nothing else, until a producer has died of a signal.  The hypothesis says
\* that adb starts when a capture does.
THEOREM CastAlwaysPending ==
  ASSUME SpawnErrors \subseteq 0..1
  PROVE  Spec => []AlwaysPending
<1>1. ASSUME CastInv, NEW r \in Rec, Registered(r), LostOne(r) => rec[r].stop = "no"
      PROVE  LET i == rec[r].producer
                 served(p) == i # 0 /\ Current(r, i) /\ prod[r][i].heard /\ p
             IN /\ rec[r].state = "starting" =>
                     rec[r].fallback # "none" \/ served(prod[r][i].boot)
                /\ rec[r].state = "reconnecting" => rec[r].recovery # "none"
                /\ rec[r].state = "streaming" => served(prod[r][i].alive)
                /\ rec[r].state \in {"stopping", "failed"} => rec[r].stop = "pending"
                /\ Viewers(r) = {} /\ rec[r].stop = "no" => rec[r].idle
  <2>1. /\ rec[r].stop \in {"no", "pending"}
        /\ rec[r].stop = "pending" => rec[r].state \in {"stopping", "failed"}
        /\ rec[r].stop = "no" => Moving(rec[r], prod[r])
    BY <1>1, CastParts DEF Driven, Record, LostOne, Lost
  <2>2. Served(rec[r], prod[r]) /\ rec[r].stop = "no" =>
          rec[r].producer # 0 /\ Current(r, rec[r].producer) /\ prod[r][rec[r].producer].heard
    BY <1>1 DEF Served, Current
  <2>3. Viewers(r) = {} /\ rec[r].stop = "no" => rec[r].idle
    BY <1>1 DEF CastInv, ViewersInv
  <2>. QED  BY <2>1, <2>2, <2>3 DEF Moving
<1>2. ASSUME CastInv
      PROVE  AlwaysPending
  BY <1>1, <1>2 DEF AlwaysPending
<1>. QED  BY <1>2, CastAlways, PTL

\* Every viewer there is belongs to a cast in the registry that is not being
\* stopped, or to one of whose producers died of a signal: nobody else waits
\* for a cast that will never send him anything (attachViewer, stop,
\* streamDeviceFrames).  The hypothesis says that adb starts when a capture does.
THEOREM CastStrandsNobody ==
  ASSUME SpawnErrors \subseteq 0..1
  PROVE  Spec => []NobodyStranded
<1>1. CastInv => NobodyStranded
  BY DEF CastInv, ViewersInv
<1>. QED  BY <1>1, CastAlways, PTL

=============================================================================
