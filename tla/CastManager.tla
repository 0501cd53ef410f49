---------------------------- MODULE CastManager ----------------------------
(***************************************************************************)
(* Casts of the Local Hub: one record per headset in the registry          *)
(* `streams', the capture producer a record owns, and the HTTP viewers     *)
(* that subscribe to it.  A step is what runs between two awaits: a        *)
(* callback of a process, a timer, a request, or the rest of stop(), of a  *)
(* fallback or of a recovery after its await.                              *)
(*                                                                         *)
(* A video producer is a pair of processes (adb screenrecord and ffmpeg)   *)
(* with an output; a screencap producer is a loop in the Hub that ends     *)
(* when it is detached.  Bytes, routes, headers and metrics are left out.  *)
(* The factories are taken not to throw: a spawn reports its failure as an *)
(* 'error' event, which is delivered before anything else runs.            *)
(***************************************************************************)
EXTENDS Naturals, Sequences, FiniteSets

CONSTANTS
  Key,           \* stable serials of headsets
  Viewer,        \* requests for a stream
  MaxRecords,    \* bound: casts ever started
  MaxCasts,      \* MAX_CONCURRENT_CASTS
  MaxViewers,    \* MAX_CAST_VIEWERS
  Attempts,      \* CAST_RECOVERY_ATTEMPTS
  SpawnErrors    \* how many processes of a pair may fail to start

ASSUME CastAssumption ==
  /\ MaxRecords \in Nat /\ Attempts \in Nat
  /\ MaxCasts \in Nat \ {0} /\ MaxViewers \in Nat \ {0}
  /\ SpawnErrors \subseteq 0..2 /\ 0 \in SpawnErrors

Rec == 1..MaxRecords
ASSUME CastKeyAssumption == 0 \notin Key

VARIABLES
  streams,  \* the registry: the record of each headset, or 0
  rec,      \* the records
  prod,     \* per record, the producers started for it, oldest first
  view,     \* the viewers, and the record each is attached to (0: none)
  shut      \* shuttingDown

vars == <<streams, rec, prod, view, shut>>

-----------------------------------------------------------------------------
State == {"none", "starting", "streaming", "reconnecting", "stopping", "failed"}
\* stop: stopPromise, and whether it is settled.  fallback: whether a fallback
\* awaits the end of processes ("now": there is nothing to wait for).
\* recovery: the await recoveryPromise is in.
Record == [key: Key \cup {0}, video: BOOLEAN, state: State, gen: Nat,
           stop: {"no", "pending", "done"}, fallbackUsed: BOOLEAN,
           fallback: {"none", "waiting", "now"},
           recovery: {"none", "waiting", "resolving"}, attempts: 0..Attempts,
           producer: Nat, idle: BOOLEAN]
NoRecord == [key |-> 0, video |-> FALSE, state |-> "none", gen |-> 0, stop |-> "no",
             fallbackUsed |-> FALSE, fallback |-> "none", recovery |-> "none",
             attempts |-> 0, producer |-> 0, idle |-> FALSE]
\* alive: it captures, or one of its processes still runs.  killed: all its
\* processes have been signalled or have exited.  lost: one of them died of a
\* signal that was not the Hub's.  heard: its output has listeners.  boot: its
\* boot timer is armed.
Producer == [gen: Nat, video: BOOLEAN, alive: BOOLEAN, killed: BOOLEAN, lost: BOOLEAN,
             heard: BOOLEAN, errors: 0..2, boot: BOOLEAN]
\* A viewer whose client left before it was attached hears no close event.
View == [at: Rec \cup {0}, st: {"new", "waiting", "fed", "blocked", "gone"}, left: BOOLEAN]

Viewers(r) == {v \in Viewer : view[v].at = r}
Registered(r) == rec[r].key # 0 /\ streams[rec[r].key] = r
\* Faulty: generations are not compared.
AnyGeneration(r, i) == Registered(r) /\ rec[r].stop = "no"

Current(r, i) == Registered(r) /\ rec[r].stop = "no" /\ prod[r][i].gen = rec[r].gen
Producing == {c \in Rec \X (1..Attempts + 3) : c[2] \in DOMAIN prod[c[1]]}

\* removeOutputListeners, detach and the signals of terminateOwnedProcess.
Released(P, i) ==
  IF i = 0 THEN P
  ELSE [P EXCEPT ![i].heard = FALSE, ![i].boot = FALSE,
                 ![i].alive = P[i].video /\ @,
                 ![i].killed = @ \/ P[i].alive \/ ~P[i].video]
\* terminateOwnedProcess has nothing to wait for.  A process that has died of
\* a signal has no exitCode, and a signal that cannot be sent does not set
\* `killed': it is waited for all the same.
Prompt(P, i) == i = 0 \/ ~P[i].video \/ (P[i].killed /\ ~P[i].lost)

-----------------------------------------------------------------------------
\* beginProducer.  The factory runs before the record is looked up again.
Begin(r, R, P, owned) ==
  LET video == R.video /\ ~R.fallbackUsed
  IN \E errs \in IF video THEN SpawnErrors ELSE {0} :
       /\ prod' = [prod EXCEPT ![r] = Append(P,
            [gen |-> R.gen, video |-> video, alive |-> errs < 2, killed |-> errs = 2,
             lost |-> FALSE, heard |-> owned, errors |-> IF owned THEN errs ELSE 0, boot |-> owned])]
       /\ rec' = [rec EXCEPT ![r] = [R EXCEPT !.producer = IF owned THEN Len(P) + 1 ELSE @]]

\* stop, up to its await, and past it when there is nothing to wait for.
StopWith(r, R, P) ==
  LET done == Prompt(P, R.producer) IN
  /\ rec' = [rec EXCEPT ![r] = [R EXCEPT !.state = "stopping", !.idle = FALSE,
                                         !.stop = IF done THEN "done" ELSE "pending"]]
  /\ prod' = [prod EXCEPT ![r] = Released(P, R.producer)]
  /\ view' = [v \in Viewer |-> IF view[v].at = r THEN [view[v] EXCEPT !.at = 0, !.st = "gone"]
                               ELSE view[v]]
  /\ streams' = IF done THEN [streams EXCEPT ![R.key] = 0] ELSE streams

StopFinishes(r) ==
  /\ rec[r].stop = "pending"
  /\ rec' = [rec EXCEPT ![r].stop = "done"]
  /\ streams' = IF Registered(r) THEN [streams EXCEPT ![rec[r].key] = 0] ELSE streams
  /\ UNCHANGED <<prod, view, shut>>

\* The end of fail: setState(failed) and stop, which may be under way.
GiveUp(r, R, P) ==
  IF R.stop = "no" THEN StopWith(r, R, P)
  ELSE /\ rec' = [rec EXCEPT ![r] = [R EXCEPT !.state = "failed"]]
       /\ prod' = [prod EXCEPT ![r] = P]
       /\ UNCHANGED <<streams, view>>

\* Faulty: recoveries are not counted.
RecoversAgain(r) == Viewers(r) # {} /\ ~shut /\ rec[r].recovery = "none"

\* What fail does next.
ToFallback(r, beforeReady) == beforeReady /\ rec[r].video /\ ~rec[r].fallbackUsed /\ ~shut
ToRecovery(r) ==
  rec[r].attempts < Attempts /\ Viewers(r) # {} /\ ~shut /\ rec[r].recovery = "none"

\* fail, up to its first await; P are the producers after the event.
Fail(r, beforeReady, P) ==
  LET R == rec[r]
      toFallback == ToFallback(r, beforeReady)
      toRecovery == ToRecovery(r)
      unarmed == IF R.producer = 0 THEN P ELSE [P EXCEPT ![R.producer].boot = FALSE]
  IN
  \/ /\ ~Registered(r) \/ R.stop # "no"
     /\ prod' = [prod EXCEPT ![r] = P]
     /\ UNCHANGED <<streams, rec, view>>
  \/ /\ Registered(r) /\ R.stop = "no" /\ toFallback
     /\ rec' = [rec EXCEPT ![r].fallbackUsed = TRUE, ![r].gen = @ + 1,
                           ![r].fallback = IF Prompt(P, R.producer) THEN "now" ELSE "waiting"]
     /\ prod' = [prod EXCEPT ![r] = Released(P, R.producer)]
     /\ UNCHANGED <<streams, view>>
  \/ /\ Registered(r) /\ R.stop = "no" /\ ~toFallback /\ toRecovery
     /\ rec' = [rec EXCEPT ![r].attempts = @ + 1, ![r].gen = @ + 1,
                           ![r].state = "reconnecting", ![r].recovery = "waiting"]
     /\ prod' = [prod EXCEPT ![r] = Released(P, R.producer)]
     /\ UNCHANGED <<streams, view>>
  \/ /\ Registered(r) /\ R.stop = "no" /\ ~toFallback /\ ~toRecovery
     /\ GiveUp(r, R, unarmed)

-----------------------------------------------------------------------------
\* The rest of a fallback, after the old producer has been terminated.
FallbackContinues(r) ==
  /\ rec[r].fallback # "none"
  /\ Begin(r, [rec[r] EXCEPT !.fallback = "none", !.producer = 0, !.state = "starting"], prod[r],
           Registered(r))
  /\ UNCHANGED <<streams, view, shut>>

\* The rest of a recovery: after termination and delay, and after resolveRoute.
RecoveryWakes(r) ==
  /\ rec[r].recovery = "waiting"
  /\ IF Registered(r) /\ Viewers(r) # {} /\ ~shut
     THEN rec' = [rec EXCEPT ![r].recovery = "resolving"] /\ UNCHANGED <<streams, prod, view>>
     ELSE GiveUp(r, [rec[r] EXCEPT !.recovery = "none"], prod[r])
  /\ UNCHANGED shut

RecoveryResolves(r) ==
  /\ rec[r].recovery = "resolving"
  /\ Begin(r, [rec[r] EXCEPT !.recovery = "none", !.producer = 0, !.state = "starting"], prod[r],
           Registered(r))
  /\ UNCHANGED <<streams, view, shut>>

\* Faulty: a recovery without a route leaves the cast as it is.
RecoveryForgets(r) ==
  /\ rec[r].recovery = "resolving"
  /\ rec' = [rec EXCEPT ![r].recovery = "none"]
  /\ UNCHANGED <<streams, prod, view, shut>>

\* No route, or a route to another headset.
RecoveryFails(r) ==
  /\ rec[r].recovery = "resolving"
  /\ GiveUp(r, [rec[r] EXCEPT !.recovery = "none"], prod[r])
  /\ UNCHANGED shut

-----------------------------------------------------------------------------
\* Callbacks of a producer.  'error' of a process is not compared with the
\* generation; 'close' is.
ProcessError(r, i) ==
  /\ prod[r][i].errors > 0
  /\ Fail(r, rec[r].state = "starting", [prod[r] EXCEPT ![i].errors = @ - 1])
  /\ UNCHANGED shut

ProcessCloses(r, i) ==
  /\ prod[r][i].video /\ prod[r][i].alive
  /\ \E other, lost \in IF prod[r][i].killed THEN {FALSE} ELSE BOOLEAN :
       LET P == [prod[r] EXCEPT ![i].alive = other, ![i].killed = @ \/ ~other,
                                ![i].lost = @ \/ lost]
       IN IF Current(r, i) THEN Fail(r, rec[r].state = "starting", P)
          ELSE prod' = [prod EXCEPT ![r] = P] /\ UNCHANGED <<streams, rec, view>>
  /\ UNCHANGED shut

\* A frame cannot be taken: the loop ends with an 'error' of its output.
CaptureFails(r, i) ==
  /\ ~prod[r][i].video /\ prod[r][i].alive
  /\ LET P == [prod[r] EXCEPT ![i].alive = FALSE]
     IN IF prod[r][i].heard THEN Fail(r, rec[r].state = "starting", P)
        ELSE prod' = [prod EXCEPT ![r] = P] /\ UNCHANGED <<streams, rec, view>>
  /\ UNCHANGED shut

\* Faulty: the boot timer compares with the first generation.
BootTimeoutOnce(r, i) ==
  /\ prod[r][i].boot
  /\ LET P == [prod[r] EXCEPT ![i].boot = FALSE]
     IN IF rec[r].state = "starting" /\ rec[r].gen = 1 THEN Fail(r, TRUE, P)
        ELSE prod' = [prod EXCEPT ![r] = P] /\ UNCHANGED <<streams, rec, view>>
  /\ UNCHANGED shut

BootTimeout(r, i) ==
  /\ prod[r][i].boot
  /\ LET P == [prod[r] EXCEPT ![i].boot = FALSE]
     IN IF rec[r].state = "starting" /\ prod[r][i].gen = rec[r].gen THEN Fail(r, TRUE, P)
        ELSE prod' = [prod EXCEPT ![r] = P] /\ UNCHANGED <<streams, rec, view>>
  /\ UNCHANGED shut

\* detachViewer of the viewers D; the last one arms the timer.
Detach(r, R, D) ==
  rec' = [rec EXCEPT ![r] = [R EXCEPT !.idle =
            @ \/ (D # {} /\ Viewers(r) = D /\ R.stop = "no" /\ ~shut)]]

\* publish: viewers whose client is gone or who stay blocked are detached,
\* the others get the chunk or the replay, and some of them block.
Publish(r, i) ==
  /\ prod[r][i].alive /\ prod[r][i].heard /\ prod[r][i].errors = 0 /\ Current(r, i)
  /\ \E slow \in SUBSET {v \in Viewers(r) : view[v].st = "blocked"},
        full \in SUBSET {v \in Viewers(r) : view[v].st # "blocked"} :
       LET D == slow \cup {v \in Viewers(r) : view[v].left}
       IN /\ view' = [v \in Viewer |->
               IF v \in D THEN [view[v] EXCEPT !.at = 0, !.st = "gone"]
               ELSE IF v \in full THEN [view[v] EXCEPT !.st = "blocked"]
               ELSE IF v \in Viewers(r) /\ view[v].st = "waiting" THEN [view[v] EXCEPT !.st = "fed"]
               ELSE view[v]]
          /\ Detach(r, [rec[r] EXCEPT !.state = IF @ = "starting" THEN "streaming" ELSE @], D)
  /\ prod' = IF rec[r].state = "starting" THEN [prod EXCEPT ![r][rec[r].producer].boot = FALSE]
             ELSE prod
  /\ UNCHANGED <<streams, shut>>

-----------------------------------------------------------------------------
\* Faulty: a cast that is being stopped can be joined.
CanJoinAny(k, video) ==
  rec[streams[k]].video = video /\ Cardinality(Viewers(streams[k])) < MaxViewers

\* streamDeviceFrames after its awaits, and attachViewer: a client may have
\* left in the meantime.  A refusal changes nothing.
CanJoin(k, video) ==
  LET r == streams[k] IN
  /\ rec[r].state \notin {"stopping", "failed"} /\ rec[r].video = video
  /\ Cardinality(Viewers(r)) < MaxViewers

AttachViewer(v, k, video, left) ==
  /\ ~shut /\ view[v].st = "new" /\ streams[k] # 0 /\ CanJoin(k, video)
  /\ LET replayed == rec[streams[k]].state = "streaming" /\ ~left
     IN view' = [view EXCEPT ![v] = [at |-> streams[k], left |-> left,
                                     st |-> IF replayed THEN "fed" ELSE "waiting"]]
  /\ UNCHANGED <<streams, rec, prod, shut>>

StartCast(v, k, video, left) ==
  /\ ~shut /\ view[v].st = "new" /\ streams[k] = 0
  /\ Cardinality({h \in Key : streams[h] # 0}) < MaxCasts
  /\ \E r \in Rec :
       /\ rec[r].state = "none" /\ \A q \in Rec : q < r => rec[q].state # "none"
       /\ streams' = [streams EXCEPT ![k] = r]
       /\ view' = [view EXCEPT ![v] = [at |-> r, left |-> left, st |-> "waiting"]]
       /\ Begin(r, [NoRecord EXCEPT !.key = k, !.video = video, !.state = "starting",
                                     !.gen = 1], <<>>, TRUE)
  /\ UNCHANGED shut

\* Abort, close or error of a request or response, and drain.
ViewerLeaves(v) ==
  /\ view[v].at # 0 /\ ~view[v].left
  /\ Detach(view[v].at, rec[view[v].at], {v})
  /\ view' = [view EXCEPT ![v].at = 0, ![v].st = "gone"]
  /\ UNCHANGED <<streams, prod, shut>>

Drain(v) ==
  /\ view[v].at # 0 /\ view[v].st = "blocked"
  /\ view' = [view EXCEPT ![v].st = "fed"]
  /\ UNCHANGED <<streams, rec, prod, shut>>

\* noViewerTimer.
NoViewerTimer(r) ==
  /\ rec[r].idle
  /\ IF Viewers(r) = {} /\ rec[r].stop = "no"
     THEN StopWith(r, rec[r], prod[r])
     ELSE rec' = [rec EXCEPT ![r].idle = FALSE] /\ UNCHANGED <<streams, prod, view>>
  /\ UNCHANGED shut

\* stopAll, the first step of a shutdown of the Hub.
StopAll ==
  LET R == {r \in Rec : Registered(r) /\ rec[r].stop = "no"}
      done == {r \in R : Prompt(prod[r], rec[r].producer)}
  IN
  /\ ~shut /\ shut' = TRUE
  /\ rec' = [r \in Rec |->
       IF r \notin R THEN rec[r]
       ELSE [rec[r] EXCEPT !.state = "stopping", !.idle = FALSE,
                           !.stop = IF r \in done THEN "done" ELSE "pending"]]
  /\ prod' = [r \in Rec |-> IF r \in R THEN Released(prod[r], rec[r].producer) ELSE prod[r]]
  /\ view' = [v \in Viewer |-> IF view[v].at \in R THEN [view[v] EXCEPT !.at = 0, !.st = "gone"]
                               ELSE view[v]]
  /\ streams' = [k \in Key |-> IF streams[k] \in done THEN 0 ELSE streams[k]]

-----------------------------------------------------------------------------
Init ==
  /\ streams = [k \in Key |-> 0]
  /\ rec = [r \in Rec |-> NoRecord]
  /\ prod = [r \in Rec |-> <<>>]
  /\ view = [v \in Viewer |-> [at |-> 0, st |-> "new", left |-> FALSE]]
  /\ shut = FALSE

\* process.nextTick runs first, then promises that are settled, then timers,
\* requests and answers.
NoErrors == \A c \in Producing : prod[c[1]][c[2]].errors = 0
Settled == NoErrors /\ \A r \in Rec : rec[r].fallback # "now"

Request == \E v \in Viewer, k \in Key, video, left \in BOOLEAN :
              AttachViewer(v, k, video, left) \/ StartCast(v, k, video, left)

Timer(r) == \/ NoViewerTimer(r)
            \/ \E i \in DOMAIN prod[r] : BootTimeout(r, i)
Continuation(r) == \/ StopFinishes(r) \/ FallbackContinues(r)
                   \/ RecoveryWakes(r) \/ RecoveryResolves(r) \/ RecoveryFails(r)

Next ==
  \/ \E r \in Rec : \E i \in DOMAIN prod[r] : ProcessError(r, i)
  \/ /\ NoErrors
     /\ \E r \in Rec : rec[r].fallback = "now" /\ FallbackContinues(r)
  \/ /\ Settled
     /\ \/ Request \/ StopAll
        \/ \E v \in Viewer : ViewerLeaves(v) \/ Drain(v)
        \/ \E r \in Rec : \/ Timer(r) \/ Continuation(r)
                          \/ \E i \in DOMAIN prod[r] :
                               ProcessCloses(r, i) \/ CaptureFails(r, i) \/ Publish(r, i)

Spec == Init /\ [][Next]_vars

\* Timers fire, awaits are bounded, 'error' events are delivered, and a capture
\* that has produced goes on.  One that starts may never produce; clients,
\* crashes and the shutdown owe nothing.
Fairness ==
  \A r \in Rec :
    /\ WF_vars(Settled /\ NoViewerTimer(r)) /\ WF_vars(NoErrors /\ Continuation(r))
    /\ \A i \in 1..Attempts + 3 :
         /\ WF_vars(i \in DOMAIN prod[r] /\ ProcessError(r, i))
         /\ WF_vars(Settled /\ i \in DOMAIN prod[r] /\ BootTimeout(r, i))
         /\ WF_vars(/\ Settled /\ i \in DOMAIN prod[r] /\ rec[r].state = "streaming"
                   /\ Publish(r, i))
FairSpec == Spec /\ Fairness

-----------------------------------------------------------------------------
\* The values every variable may have.  Fallback and recoveries together start a
\* bounded number of producers, also when a cast gets well and breaks again.
TypeOK ==
  /\ streams \in [Key -> Rec \cup {0}]
  /\ rec \in [Rec -> Record]
  /\ prod \in [Rec -> Seq(Producer)]
  /\ \A r \in Rec : Len(prod[r]) <= Attempts + (IF rec[r].video THEN 2 ELSE 1)
  /\ view \in [Viewer -> View]
  /\ shut \in BOOLEAN

Capturing(r, i) == prod[r][i].alive /\ ~prod[r][i].killed

\* A cast that is served has one producer: whatever else was started for it,
\* by a fallback, a recovery or the cast itself, has been told to end, however
\* errors, exits, timeouts and requests of clients interleave.
OwnsOneProducer ==
  \A c \in Producing :
    Registered(c[1]) /\ rec[c[1]].stop = "no" /\ Capturing(c[1], c[2]) => rec[c[1]].producer = c[2]

\* A producer of the cast has died of a signal: whoever terminates it waits
\* for a process that is gone, while a fallback or a recovery goes on.
LostOne(r) == \E i \in DOMAIN prod[r] : prod[r][i].lost

\* A cast in the registry always has something that moves it on: a cast that
\* starts has a boot timer or a fallback under way, one that reconnects has a
\* recovery, one that streams has a producer whose end it would hear of, one
\* without viewers is about to be stopped, and one that is being stopped does
\* nothing but wait for what it terminates.  (Only the last can fail once a
\* producer has died of a signal: the stop waits, and a fallback goes on.)
AlwaysPending ==
  \A r \in Rec : Registered(r) /\ (LostOne(r) => rec[r].stop = "no") =>
    LET i == rec[r].producer
        served(p) == i # 0 /\ Current(r, i) /\ prod[r][i].heard /\ p
    IN /\ rec[r].state = "starting" => rec[r].fallback # "none" \/ served(prod[r][i].boot)
       /\ rec[r].state = "reconnecting" => rec[r].recovery # "none"
       /\ rec[r].state = "streaming" => served(prod[r][i].alive)
       /\ rec[r].state \in {"stopping", "failed"} => rec[r].stop = "pending"
       /\ Viewers(r) = {} /\ rec[r].stop = "no" => rec[r].idle

\* A viewer belongs to a cast in the registry that is not being stopped, and
\* does not wait for a cast that will never send him anything, unless one of
\* its producers has died of a signal.
NobodyStranded ==
  \A v \in Viewer :
    LET r == view[v].at IN
    r # 0 => (Registered(r) /\ rec[r].stop = "no") \/ LostOne(r)

\* What is still heard of a producer that has been replaced, or is about to
\* be, changes neither the cast nor its viewers.
Replaced(r, i) ==
  rec[r].producer # i \/ rec[r].fallback # "none" \/ rec[r].recovery # "none"
StaleIsSilent ==
  [][\A c \in Producing :
       LET r == c[1]
           i == c[2]
       IN /\ Replaced(r, i)
          /\ prod'[r][i] # prod[r][i] /\ prod'[r][i].killed = prod[r][i].killed
          => UNCHANGED <<rec[r], view>>]_vars

\* Whoever joins a cast gets a picture or is sent away, or the cast has lost a
\* producer by a signal.
ViewerIsServed ==
  \A v \in Viewer :
    (view[v].st = "waiting") ~> (view[v].st # "waiting" \/ LostOne(view[v].at))

\* A headset is captured by one producer at a time.
OneCapture ==
  \A k \in Key :
    Cardinality({c \in Producing : rec[c[1]].key = k /\ Capturing(c[1], c[2])}) <= 1

=============================================================================
