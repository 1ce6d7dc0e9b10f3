------------------------- MODULE TransferAdmission -------------------------
(***************************************************************************)
(* Admission of uploads and downloads.  Each service of a process counts   *)
(* the transfers it has let in, in all, by actor and by target, and keeps  *)
(* the times at which it let each actor in.  A transfer holds its lease    *)
(* until the connection has ended and the work behind it has settled; for  *)
(* a download that streams, until the stream is closed.                    *)
(*                                                                         *)
(* The process has one event loop: a callback is one action.               *)
(***************************************************************************)
EXTENDS Naturals, FiniteSets

CONSTANTS Services,       \* the admission services of the process
          Uploading,      \* those that admit uploads
          Requests, Actors, Targets,
          ServiceOf,      \* the service a request is sent to
          ActorOf,        \* who sends it
          TargetOf,       \* the project, task or attachment it names, or "none"
          GlobalLimit, PerActorLimit, PerTargetLimit,   \* of each service
          RateMax,        \* admissions of one actor within a window
          Window,         \* rateWindowMs
          SweepInterval,  \* the least time between two sweeps
          TrackerMax,     \* actors whose admissions are remembered
          MaxClock        \* bound: the latest time

ASSUME AdmissionAssumption ==
  /\ IsFiniteSet(Requests) /\ IsFiniteSet(Actors)
  /\ Uploading \subseteq Services /\ "none" \notin Targets
  /\ ServiceOf \in [Requests -> Services] /\ ActorOf \in [Requests -> Actors]
  /\ TargetOf \in [Requests -> Targets \cup {"none"}]
  /\ GlobalLimit \in [Services -> Nat] /\ PerActorLimit \in [Services -> Nat]
  /\ PerTargetLimit \in [Services -> Nat] /\ RateMax \in [Services -> Nat]
  /\ Window \in Nat /\ SweepInterval \in Nat /\ SweepInterval <= Window
  /\ TrackerMax \in Nat /\ MaxClock \in Nat

VARIABLES now,
          activeGlobal, activeByActor, activeByTarget,   \* the counters
          admittedAt,   \* the admissions remembered of each actor
          lastSweep,    \* lastRateSweepAt
          stamp,        \* when each admission took place
          held,         \* the requests whose lease is not released
          stage,        \* what the handler of each request has come to
          transport,    \* the connection of each request
          source        \* the stream a download answers with

counterVars == <<activeGlobal, activeByActor, activeByTarget>>
rateVars == <<admittedAt, lastSweep, stamp>>
httpVars == <<stage, transport, source>>
vars == <<now, counterVars, rateVars, held, httpVars>>

-----------------------------------------------------------------------------

Less(n) == IF n <= 1 THEN 0 ELSE n - 1

(* Counted one up or down for request r.                                   *)
CountUp(r) ==
  LET s == ServiceOf[r] t == TargetOf[r] IN
  /\ activeGlobal' = [activeGlobal EXCEPT ![s] = @ + 1]
  /\ activeByActor' = [activeByActor EXCEPT ![s][ActorOf[r]] = @ + 1]
  /\ activeByTarget' = IF t = "none" THEN activeByTarget
                       ELSE [activeByTarget EXCEPT ![s][t] = @ + 1]

(* Mutant: the target keeps its count when the client has broken off.      *)
CountDownUnlessAborted(r) ==
  LET s == ServiceOf[r] t == TargetOf[r] IN
  /\ activeGlobal' = [activeGlobal EXCEPT ![s] = Less(@)]
  /\ activeByActor' = [activeByActor EXCEPT ![s][ActorOf[r]] = Less(@)]
  /\ activeByTarget' = IF t = "none" \/ transport[r] = "aborted" THEN activeByTarget
                       ELSE [activeByTarget EXCEPT ![s][t] = Less(@)]

CountDown(r) ==
  LET s == ServiceOf[r] t == TargetOf[r] IN
  /\ activeGlobal' = [activeGlobal EXCEPT ![s] = Less(@)]
  /\ activeByActor' = [activeByActor EXCEPT ![s][ActorOf[r]] = Less(@)]
  /\ activeByTarget' = IF t = "none" THEN activeByTarget
                       ELSE [activeByTarget EXCEPT ![s][t] = Less(@)]

(* A limit of the service is reached, or a download names no target.       *)
Busy(r) ==
  LET s == ServiceOf[r] t == TargetOf[r] IN
  \/ t = "none" /\ s \notin Uploading
  \/ activeByActor[s][ActorOf[r]] >= PerActorLimit[s]
  \/ t # "none" /\ activeByTarget[s][t] >= PerTargetLimit[s]
  \/ activeGlobal[s] >= GlobalLimit[s]

(* Mutant: an admission is forgotten with the next sweep.                  *)
RecentSinceSweep(admissions) == {q \in admissions : now - stamp[q] < SweepInterval}

Recent(admissions) == {q \in admissions : now - stamp[q] < Window}
Pruned(s) == [a \in Actors |-> Recent(admittedAt[s][a])]

(* What is remembered after the periodic sweep, and after the one made     *)
(* because there is no room for another actor.                             *)
SweepDue(s) == now - lastSweep[s] >= SweepInterval
Swept(s) == IF SweepDue(s) THEN Pruned(s) ELSE admittedAt[s]
NoRoom(known, a) ==
  /\ known[a] = {}
  /\ Cardinality({b \in Actors : known[b] # {}}) >= TrackerMax
Known(s, a) == IF NoRoom(Swept(s), a) THEN Pruned(s) ELSE Swept(s)

Sweep(s, a) ==
  lastSweep' = IF SweepDue(s) \/ NoRoom(Swept(s), a)
               THEN [lastSweep EXCEPT ![s] = now] ELSE lastSweep

(* Mutant: the end of the connection is enough.                            *)
DoneOnClose(tr, st, src) == tr # "open"

(* The lease is given back once the connection has ended and the stream,   *)
(* or without one the handler, is done.                                    *)
Done(tr, st, src) ==
  tr # "open" /\ IF src = "none" THEN st = "settled" ELSE src = "closed"

HandBackIfDone(r, tr, st, src) ==
  IF r \in held /\ Done(tr, st, src)
  THEN held' = held \ {r} /\ CountDown(r)
  ELSE UNCHANGED <<held, counterVars>>

-----------------------------------------------------------------------------

Init ==
  /\ now = Window
  /\ activeGlobal = [s \in Services |-> 0]
  /\ activeByActor = [s \in Services |-> [a \in Actors |-> 0]]
  /\ activeByTarget = [s \in Services |-> [t \in Targets |-> 0]]
  /\ admittedAt = [s \in Services |-> [a \in Actors |-> {}]]
  /\ lastSweep = [s \in Services |-> 0]
  /\ stamp = [r \in Requests |-> 0]
  /\ held = {}
  /\ stage = [r \in Requests |-> "new"]
  /\ transport = [r \in Requests |-> "open"]
  /\ source = [r \in Requests |-> "none"]

Tick ==
  /\ now < MaxClock
  /\ now' = now + 1
  /\ UNCHANGED <<counterVars, rateVars, held, httpVars>>

(* acquire throws before it looks at the rate ...                          *)
RefuseBusy(r) ==
  /\ stage[r] = "new" /\ Busy(r)
  /\ stage' = [stage EXCEPT ![r] = "refused"]
  /\ UNCHANGED <<now, counterVars, rateVars, held, transport, source>>

(* ... or for the rate, with what it swept swept.                          *)
RefuseRate(r) ==
  LET s == ServiceOf[r] a == ActorOf[r] IN
  /\ stage[r] = "new" /\ ~Busy(r)
  /\ \/ /\ NoRoom(Known(s, a), a)
        /\ admittedAt' = [admittedAt EXCEPT ![s] = Known(s, a)]
     \/ /\ ~NoRoom(Known(s, a), a)
        /\ Cardinality(Recent(Known(s, a)[a])) >= RateMax[s]
        /\ admittedAt' =
             [admittedAt EXCEPT ![s] = [Known(s, a) EXCEPT ![a] = Recent(@)]]
  /\ Sweep(s, a)
  /\ stage' = [stage EXCEPT ![r] = "refused"]
  /\ UNCHANGED <<now, counterVars, stamp, held, transport, source>>

Admit(r) ==
  LET s == ServiceOf[r] a == ActorOf[r] IN
  /\ stage[r] = "new" /\ ~Busy(r)
  /\ ~NoRoom(Known(s, a), a)
  /\ Cardinality(Recent(Known(s, a)[a])) < RateMax[s]
  /\ admittedAt' =
       [admittedAt EXCEPT ![s] = [Known(s, a) EXCEPT ![a] = Recent(@) \cup {r}]]
  /\ Sweep(s, a)
  /\ stamp' = [stamp EXCEPT ![r] = now]
  /\ CountUp(r)
  /\ held' = held \cup {r}
  /\ stage' = [stage EXCEPT ![r] = "running"]
  /\ UNCHANGED <<now, transport, source>>

(* Mutant: a stream for a client that is gone is left alone.               *)
SourceTrackedOpen(r, src) == src

(* The handler returns or throws.  A download may answer with a stream     *)
(* that is open or already closed; on a connection that broke off before   *)
(* it is destroyed at once.                                                *)
SourceTracked(r, src) ==
  IF src = "open" /\ transport[r] = "aborted" THEN "destroyed" ELSE src

Return(r) ==
  /\ stage[r] = "running"
  /\ stage' = [stage EXCEPT ![r] = "settled"]
  /\ \E src \in IF ServiceOf[r] \in Uploading THEN {"none"}
                ELSE {"none", "open", "closed"} :
       /\ source' = [source EXCEPT ![r] = SourceTracked(r, src)]
       /\ HandBackIfDone(r, transport[r], "settled", SourceTracked(r, src))
  /\ UNCHANGED <<now, rateVars, transport>>

(* The client goes away, even before the request reaches admission.        *)
SourceAfterAbort(r) == IF source[r] = "open" THEN "destroyed" ELSE source[r]

Abort(r) ==
  /\ transport[r] = "open" /\ stage[r] # "refused"
  /\ transport' = [transport EXCEPT ![r] = "aborted"]
  /\ source' = [source EXCEPT ![r] = SourceAfterAbort(r)]
  /\ HandBackIfDone(r, "aborted", stage[r], SourceAfterAbort(r))
  /\ UNCHANGED <<now, rateVars, stage>>

(* The answer is out: the handler is done and its stream has ended.        *)
Finish(r) ==
  /\ transport[r] = "open" /\ stage[r] = "settled" /\ source[r] # "open"
  /\ transport' = [transport EXCEPT ![r] = "finished"]
  /\ HandBackIfDone(r, "finished", stage[r], source[r])
  /\ UNCHANGED <<now, rateVars, stage, source>>

(* The stream is read to its end, or fails and is destroyed; either way    *)
(* it closes later.                                                        *)
EndSource(r) ==
  /\ source[r] = "open"
  /\ \E src \in {"ended", "destroyed"} : source' = [source EXCEPT ![r] = src]
  /\ UNCHANGED <<now, counterVars, rateVars, held, stage, transport>>

CloseSource(r) ==
  /\ source[r] \in {"ended", "destroyed"}
  /\ source' = [source EXCEPT ![r] = "closed"]
  /\ HandBackIfDone(r, transport[r], stage[r], "closed")
  /\ UNCHANGED <<now, rateVars, stage, transport>>

Next ==
  \/ Tick
  \/ \E r \in Requests :
       \/ RefuseBusy(r) \/ RefuseRate(r) \/ Admit(r)
       \/ Return(r) \/ Abort(r) \/ Finish(r) \/ EndSource(r) \/ CloseSource(r)

Spec == Init /\ [][Next]_vars

(* Handlers return and streams that ended or were destroyed close.  A      *)
(* client may keep its connection for ever.                                *)
FairSpec ==
  Spec /\ \A r \in Requests : WF_vars(Return(r)) /\ WF_vars(CloseSource(r))

-----------------------------------------------------------------------------
(* Properties.                                                             *)

TypeOK ==
  /\ now \in Nat
  /\ activeGlobal \in [Services -> Nat]
  /\ activeByActor \in [Services -> [Actors -> Nat]]
  /\ activeByTarget \in [Services -> [Targets -> Nat]]
  /\ admittedAt \in [Services -> [Actors -> SUBSET Requests]]
  /\ lastSweep \in [Services -> Nat] /\ stamp \in [Requests -> Nat]
  /\ held \subseteq Requests
  /\ stage \in [Requests -> {"new", "refused", "running", "settled"}]
  /\ transport \in [Requests -> {"open", "aborted", "finished"}]
  /\ source \in [Requests -> {"none", "open", "ended", "destroyed", "closed"}]
  /\ \A s \in Services : lastSweep[s] <= now
  /\ \A r \in Requests : stamp[r] <= now

HeldIn(s) == {r \in held : ServiceOf[r] = s}
HeldBy(s, a) == {r \in HeldIn(s) : ActorOf[r] = a}
HeldOn(s, t) == {r \in HeldIn(s) : TargetOf[r] = t}

(* The counters say how many leases are out, whatever order the events of  *)
(* a connection, a handler and a stream come in: no slot leaks, and none   *)
(* is handed back twice.                                                   *)
CountersMatchLeases ==
  \A s \in Services :
    /\ activeGlobal[s] = Cardinality(HeldIn(s))
    /\ \A a \in Actors : activeByActor[s][a] = Cardinality(HeldBy(s, a))
    /\ \A t \in Targets : activeByTarget[s][t] = Cardinality(HeldOn(s, t))

(* Requests that use the process: their handler runs, their stream is not  *)
(* closed or their client is still connected.                              *)
Using ==
  {r \in Requests :
     \/ stage[r] = "running"
     \/ source[r] \in {"open", "ended", "destroyed"}
     \/ stage[r] = "settled" /\ transport[r] = "open"}

(* What really goes on at one time stays within the limits of a service,   *)
(* in all, for an actor and on a target, also when clients break off and   *)
(* their work goes on without them.                                        *)
UseWithinLimits ==
  \A s \in Services :
    LET used == {r \in Using : ServiceOf[r] = s} IN
    /\ Cardinality(used) <= GlobalLimit[s]
    /\ \A a \in Actors :
         Cardinality({r \in used : ActorOf[r] = a}) <= PerActorLimit[s]
    /\ \A t \in Targets :
         Cardinality({r \in used : TargetOf[r] = t}) <= PerTargetLimit[s]

(* No actor is let in more often than RateMax within a window, although    *)
(* sweeps forget admissions and actors.                                    *)
AdmittedRecently(s, a) ==
  {r \in Requests : /\ stage[r] \in {"running", "settled"}
                    /\ ServiceOf[r] = s /\ ActorOf[r] = a
                    /\ now - stamp[r] < Window}

RateKept ==
  \A s \in Services : \A a \in Actors :
    Cardinality(AdmittedRecently(s, a)) <= RateMax[s]

(* A lease comes back once the client is gone or has its answer.           *)
LeaseReturns ==
  \A r \in Requests : r \in held /\ transport[r] # "open" ~> r \notin held

=============================================================================
