-------------------------- MODULE NotificationQueue --------------------------
(***************************************************************************)
(* The queue of system notices and the shutdown of the process that serves *)
(* it.  A notice is enqueued by an HTTP request, waits in a Redis list or, *)
(* when Redis does not answer, in the memory of the process, and is taken  *)
(* by a worker that writes it to the notifications table.  At shutdown the *)
(* process drains its connections, its handlers and its background writers *)
(* and then exits cleanly, or gives up.                                    *)
(*                                                                         *)
(* One action runs from one await of the code to the next.                 *)
(***************************************************************************)
EXTENDS Naturals, Sequences, SequencesExt, FiniteSets

CONSTANTS Notices,      \* one request, one job and one notice each
          Leftover,     \* those an earlier process left in Redis
          Users,        \* recipients
          UserOf,       \* the recipient of each notice
          Keys,         \* keys a sender may choose
          KeyOf,        \* the dedupeKey its sender chose, or "none"
          Scans,        \* the other background writers of the process
          RedisMax,     \* notificationRedisQueueMaxJobs
          MemoryMax,    \* notificationMemoryQueueMaxJobs
          MaxRetries,   \* notificationMaxRetries
          Batch,        \* jobs the worker looks at in one go
          MaxOutages,   \* bound: Redis calls that fail
          MaxFailures   \* bound: deliveries that fail

ASSUME QueueAssumption ==
  /\ IsFiniteSet(Notices) /\ Leftover \subseteq Notices
  /\ UserOf \in [Notices -> Users] /\ KeyOf \in [Notices -> Keys \cup {"none"}]
  /\ RedisMax \in Nat /\ Cardinality(Leftover) <= RedisMax
  /\ MemoryMax \in Nat /\ MaxOutages \in Nat /\ MaxFailures \in Nat
  /\ MaxRetries \in Nat \ {0} /\ Batch \in Nat \ {0}

VARIABLES request,    \* what has become of each notice's request
          open,       \* the connections the server has, by request
          redis,      \* the list at QUEUE_KEY; the next job is the last
          memory,     \* memoryQueue; the next job is the last
          worker,     \* where processPendingJobs is, and its job
          inbox,      \* the notices each row has held; the last one stands
          dropped,    \* notices the worker gave up
          lost,       \* notices Redis handed over without the reply arriving
          admitted,   \* the notices accepted so far, in order
          busy,       \* the scans in flight
          server,     \* serving, draining, or how the process ended
          outages,    \* Redis calls that failed
          failures    \* deliveries that failed

queueVars == <<redis, memory, dropped, lost, admitted, outages>>
workerVars == <<worker, inbox, failures>>
serverVars == <<request, open, busy, server>>
vars == <<queueVars, workerVars, serverVars>>

-----------------------------------------------------------------------------

Jobs == [notice : Notices, tries : 0 .. MaxRetries - 1]
NoJob == [notice |-> "none", tries |-> 0]

(* The row a notice is written to.  Without a key of its own it has the    *)
(* one that all system notices of its recipient share.                     *)
Rows == Users \cup Keys
RowOf(n) == IF KeyOf[n] # "none" THEN KeyOf[n] ELSE UserOf[n]

RequestStates == {"unsent", "arriving", "enqueueing", "refused", "full", "queued"}
Active == {n \in Notices : request[n] = "enqueueing"}

Places == {"idle", "popping", "handling", "requeueing", "postponing"}
Idle == [at |-> "idle", job |-> NoJob, inspected |-> 0]

(* Whether the worker's loop goes on after it has inspected i jobs.        *)
Loop(i) == IF server = "serving" /\ i < Batch
           THEN [at |-> "popping", job |-> NoJob, inspected |-> i]
           ELSE Idle

(* Handlers and timers go on until the process exits: at once when the     *)
(* drain has failed, after app.close when it is complete.                  *)
Running == server # "failed"

RedisHasRoom  == Len(redis) < RedisMax
MemoryHasRoom == Len(memory) < MemoryMax

Outage == outages < MaxOutages /\ outages' = outages + 1
Failure == failures < MaxFailures /\ failures' = failures + 1

(* A script that pushes to Redis does so while the list has room.          *)
Pushed(longer) == IF RedisHasRoom THEN longer ELSE redis

(* A call that fails may have been carried out all the same.               *)
PushFails(longer) == Outage /\ redis' \in {redis, Pushed(longer)}

-----------------------------------------------------------------------------
(* Requests.                                                               *)

Connect(n) ==
  /\ server = "serving" /\ request[n] = "unsent"
  /\ open' = open \cup {n}
  /\ UNCHANGED <<queueVars, workerVars, request, busy, server>>

(* A connection that is open may still carry a request during the drain.   *)
Send(n) ==
  /\ Running /\ n \in open /\ request[n] = "unsent"
  /\ request' = [request EXCEPT ![n] = "arriving"]
  /\ UNCHANGED <<queueVars, workerVars, open, busy, server>>

(* The client goes away; what its request has started goes on.             *)
Abort(n) ==
  /\ Running /\ n \in open
  /\ open' = open \ {n}
  /\ UNCHANGED <<queueVars, workerVars, request, busy, server>>

(* The interceptor, after the guards.                                      *)
Admit(n) ==
  /\ Running /\ request[n] = "arriving"
  /\ request' = [request EXCEPT ![n] = IF server = "serving" THEN "enqueueing" ELSE "refused"]
  /\ UNCHANGED <<queueVars, workerVars, open, busy, server>>

Enqueue(n) ==
  LET job     == [notice |-> n, tries |-> 0]
      Queued  == /\ request' = [request EXCEPT ![n] = "queued"]
                 /\ admitted' = Append(admitted, n)
      Refused == /\ request' = [request EXCEPT ![n] = "full"]
                 /\ UNCHANGED admitted
  IN  /\ Running /\ request[n] = "enqueueing"
      /\ \/ /\ IF RedisHasRoom THEN Queued ELSE Refused
            /\ redis' = Pushed(Cons(job, redis))
            /\ UNCHANGED <<memory, outages>>
         \/ /\ PushFails(Cons(job, redis))
            /\ IF MemoryHasRoom THEN Queued /\ memory' = Cons(job, memory)
                                ELSE Refused /\ UNCHANGED memory
      /\ UNCHANGED <<workerVars, dropped, lost, open, busy, server>>

-----------------------------------------------------------------------------
(* The worker.                                                             *)

Tick ==
  /\ server = "serving" /\ worker.at = "idle"
  /\ worker' = Loop(0)
  /\ UNCHANGED <<queueVars, serverVars, inbox, failures>>

(* Mutant: a worker told to stop forgets the job it is being handed.       *)
TakenUnlessStopping(job) ==
  IF server = "serving"
  THEN [at |-> "handling", job |-> job, inspected |-> worker.inspected + 1]
  ELSE Idle

Taken(job) == [at |-> "handling", job |-> job, inspected |-> worker.inspected + 1]

PopRedis ==
  /\ Running /\ worker.at = "popping" /\ redis # <<>>
  /\ worker' = Taken(Last(redis))
  /\ redis' = Front(redis)
  /\ UNCHANGED <<serverVars, memory, inbox, dropped, lost, admitted, outages, failures>>

(* Mutant: the memory is only looked at when Redis does not answer.        *)
PopMemoryOnOutage ==
  /\ Running /\ worker.at = "popping"
  /\ Outage /\ UNCHANGED <<redis, lost>>
  /\ IF memory = <<>> THEN worker' = Idle /\ UNCHANGED memory
     ELSE worker' = Taken(Last(memory)) /\ memory' = Front(memory)
  /\ UNCHANGED <<serverVars, inbox, dropped, admitted, failures>>

(* Redis has no job, or does not answer: then it may have given one away.  *)
PopMemory ==
  /\ Running /\ worker.at = "popping"
  /\ \/ redis = <<>> /\ UNCHANGED <<redis, lost, outages>>
     \/ Outage /\ UNCHANGED <<redis, lost>>
     \/ /\ Outage /\ redis # <<>>
        /\ redis' = Front(redis)
        /\ lost' = lost \cup {Last(redis).notice}
  /\ IF memory = <<>> THEN worker' = Idle /\ UNCHANGED memory
     ELSE worker' = Taken(Last(memory)) /\ memory' = Front(memory)
  /\ UNCHANGED <<serverVars, inbox, dropped, admitted, failures>>

(* A retry whose time has not come goes back and ends the loop.            *)
Postpone ==
  /\ Running /\ worker.at = "handling" /\ worker.job.tries > 0
  /\ worker' = [worker EXCEPT !.at = "postponing"]
  /\ UNCHANGED <<queueVars, serverVars, inbox, failures>>

Written(n) == [inbox EXCEPT ![RowOf(n)] = Append(@, n)]

Deliver ==
  /\ Running /\ worker.at = "handling"
  /\ inbox' = Written(worker.job.notice)
  /\ worker' = Loop(worker.inspected)
  /\ UNCHANGED <<queueVars, serverVars, failures>>

Exhausted(job) == job.tries + 1 >= MaxRetries

(* The transaction fails, or only its acknowledgement does.                *)
FailDelivery ==
  /\ Running /\ worker.at = "handling" /\ Failure
  /\ inbox' \in {inbox, Written(worker.job.notice)}
  /\ IF Exhausted(worker.job)
     THEN /\ worker' = Loop(worker.inspected)
          /\ dropped' = dropped \cup {worker.job.notice}
     ELSE /\ worker' = [worker EXCEPT !.at = "requeueing", !.job.tries = @ + 1]
          /\ UNCHANGED dropped
  /\ UNCHANGED <<serverVars, redis, memory, lost, admitted, outages>>

(* Jobs of an earlier release may be invalid, or of a retired kind.        *)
Discard ==
  /\ Running /\ worker.at = "handling" /\ worker.job.notice \in Leftover
  /\ dropped' = dropped \cup {worker.job.notice}
  /\ worker' = Loop(worker.inspected)
  /\ UNCHANGED <<serverVars, redis, memory, inbox, lost, admitted, outages, failures>>

(* Mutant: a retry goes behind the others.                                 *)
RequeuedLast(job) == Cons(job, redis)

Requeued(job) == Append(redis, job)

(* The job goes back to where it is the next, or behind those in memory.   *)
Requeue ==
  LET job  == worker.job
      Drop == dropped' = dropped \cup {job.notice}
  IN  /\ Running /\ worker.at \in {"requeueing", "postponing"}
      /\ \/ /\ IF RedisHasRoom THEN UNCHANGED dropped ELSE Drop
            /\ redis' = Pushed(Requeued(job))
            /\ UNCHANGED <<memory, outages>>
         \/ /\ PushFails(Requeued(job))
            /\ IF MemoryHasRoom THEN memory' = Cons(job, memory) /\ UNCHANGED dropped
                                ELSE Drop /\ UNCHANGED memory
      /\ worker' = IF worker.at = "postponing" THEN Idle ELSE Loop(worker.inspected)
      /\ UNCHANGED <<serverVars, inbox, lost, admitted, failures>>

-----------------------------------------------------------------------------
(* The scans, and the shutdown.                                            *)

StartScan(s) ==
  /\ server = "serving" /\ s \notin busy
  /\ busy' = busy \cup {s}
  /\ UNCHANGED <<queueVars, workerVars, request, open, server>>

(* Mutant: the flag of a scan that ends during the drain stays set.        *)
EndScanWhileServing(s) ==
  /\ server = "serving" /\ s \in busy
  /\ busy' = busy \ {s}
  /\ UNCHANGED <<queueVars, workerVars, request, open, server>>

EndScan(s) ==
  /\ Running /\ s \in busy
  /\ busy' = busy \ {s}
  /\ UNCHANGED <<queueVars, workerVars, request, open, server>>

(* A signal: every writer is told to stop before the server closes.        *)
Shutdown ==
  /\ server = "serving"
  /\ server' = "draining"
  /\ UNCHANGED <<queueVars, workerVars, request, open, busy>>

(* The sweep closes the connections whose request has been answered.       *)
CloseIdle(n) ==
  /\ server = "draining" /\ n \in open
  /\ request[n] \in {"refused", "full", "queued"}
  /\ open' = open \ {n}
  /\ UNCHANGED <<queueVars, workerVars, request, busy, server>>

(* Mutants: handlers whose client went away are not waited for; the jobs   *)
(* in memory are not looked at.                                            *)
WritersIdleButHandlers == worker.at = "idle" /\ memory = <<>> /\ busy = {}
WritersIdleButMemory   == Active = {} /\ worker.at = "idle" /\ busy = {}

WritersIdle == Active = {} /\ worker.at = "idle" /\ memory = <<>> /\ busy = {}

FinishDrain ==
  /\ server = "draining" /\ open = {} /\ WritersIdle
  /\ server' = "clean"
  /\ UNCHANGED <<queueVars, workerVars, request, open, busy>>

TimeOut ==
  /\ server = "draining"
  /\ server' = "failed"
  /\ UNCHANGED <<queueVars, workerVars, request, open, busy>>

-----------------------------------------------------------------------------

Init ==
  /\ \E order \in SetToSeqs(Leftover), tries \in [Leftover -> 0 .. MaxRetries - 1] :
       redis = [i \in DOMAIN order |-> [notice |-> order[i], tries |-> tries[order[i]]]]
  /\ request = [n \in Notices |-> IF n \in Leftover THEN "queued" ELSE "unsent"]
  /\ admitted = Reverse([i \in DOMAIN redis |-> redis[i].notice])
  /\ memory = <<>> /\ worker = Idle
  /\ inbox = [r \in Rows |-> <<>>]
  /\ dropped = {} /\ lost = {} /\ open = {} /\ busy = {}
  /\ server = "serving"
  /\ outages = 0 /\ failures = 0

Work == Tick \/ PopRedis \/ PopMemory \/ Postpone \/ Deliver \/ FailDelivery \/ Discard \/ Requeue

Serve(n) == Connect(n) \/ Send(n) \/ Abort(n) \/ Admit(n) \/ Enqueue(n)

Stop == Shutdown \/ (\E n \in Notices : CloseIdle(n)) \/ FinishDrain \/ TimeOut

Next ==
  \/ Work
  \/ \E n \in Notices : Serve(n)
  \/ \E s \in Scans : StartScan(s) \/ EndScan(s)
  \/ Stop

Spec == Init /\ [][Next]_vars

(* Timers fire, awaited calls come back, a retry's time comes, and idle    *)
(* connections are swept.  Nothing is assumed of clients or of failures.   *)
QueueFairness ==
  /\ WF_vars(Tick) /\ WF_vars(PopRedis \/ PopMemory)
  /\ SF_vars(Deliver \/ Discard) /\ WF_vars(Requeue)
  /\ \A n \in Notices : WF_vars(Admit(n) \/ Enqueue(n)) /\ WF_vars(CloseIdle(n))
  /\ \A s \in Scans : WF_vars(EndScan(s))
  /\ WF_vars(FinishDrain)

FairSpec == Spec /\ QueueFairness

-----------------------------------------------------------------------------
(* Properties.                                                             *)

(* The types, the capacities of both queues, and no job past its retries.  *)
TypeOK ==
  /\ request \in [Notices -> RequestStates]
  /\ open \subseteq Notices /\ busy \subseteq Scans
  /\ redis \in Seq(Jobs) /\ Len(redis) <= RedisMax
  /\ memory \in Seq(Jobs) /\ Len(memory) <= MemoryMax
  /\ worker \in [at : Places, job : Jobs \cup {NoJob}, inspected : 0 .. Batch]
  /\ worker.at \in {"handling", "requeueing", "postponing"} => worker.job \in Jobs
  /\ worker.at = "popping" => worker.inspected < Batch
  /\ inbox \in [Rows -> Seq(Notices)]
  /\ dropped \subseteq Notices /\ lost \subseteq Notices
  /\ admitted \in Seq(Notices)
  /\ server \in {"serving", "draining", "clean", "failed"}
  /\ outages \in 0 .. MaxOutages /\ failures \in 0 .. MaxFailures

NoticesIn(queue) == {queue[i].notice : i \in DOMAIN queue}
InHand == IF worker.at \in {"handling", "requeueing", "postponing"}
          THEN {worker.job.notice} ELSE {}
Delivered == {n \in Notices : n \in ToSet(inbox[RowOf(n)])}
Settled == Delivered \cup dropped \cup lost

(* A notice the client was told is queued is delivered, given up with a    *)
(* log line, or still somewhere: only a reply Redis never gave can make it *)
(* disappear, whatever is interleaved and whichever calls fail.            *)
NothingVanishes ==
  \A n \in Notices : request[n] = "queued" =>
    n \in Settled \cup NoticesIn(redis) \cup NoticesIn(memory) \cup InHand

(* After a clean exit a queued notice that is not settled is in Redis,     *)
(* where the next process finds it.                                        *)
CleanExitIsDurable ==
  server = "clean" =>
    \A n \in Notices : request[n] = "queued" => n \in Settled \cup NoticesIn(redis)

(* Nothing is written after the drain has been found complete, not even by *)
(* a handler whose client went away: the point is good for a backup.       *)
CleanExitIsFinal ==
  [][server = "clean" => UNCHANGED <<queueVars, workerVars, busy>>]_vars

(* A clean exit is one to restart or to back up from.                      *)
CleanExitHolds == []CleanExitIsDurable /\ CleanExitIsFinal

(* While Redis answers, a row never goes back to a notice accepted before  *)
(* the one it holds, retries and their delays included.                    *)
NoticesInOrder ==
  outages = 0 =>
    \A r \in Rows : \A i, j \in DOMAIN inbox[r] : i < j =>
      \E a, b \in DOMAIN admitted :
        a <= b /\ admitted[a] = inbox[r][i] /\ admitted[b] = inbox[r][j]

(* As long as the process serves, every queued notice gets settled.        *)
EveryNoticeSettles ==
  \A n \in Notices : request[n] = "queued" ~> n \in Settled \/ server # "serving"

(* A drain comes to its end by itself, unless notices are left in memory   *)
(* or a client keeps a connection open and never sends its request.        *)
DrainCompletes ==
  server = "draining" ~>
    \/ server \in {"clean", "failed"}
    \/ memory # <<>>
    \/ \E n \in open : request[n] = "unsent"

(* What the notification guide forbids: notices of different events that   *)
(* overwrite one another although no sender said they are one.  The code   *)
(* gives all system notices of a user without a key the same dedupeKey.    *)
NoticesKeepApart ==
  \A r \in Rows : \A i, j \in DOMAIN inbox[r] :
    inbox[r][i] # inbox[r][j] => KeyOf[inbox[r][i]] = r

=============================================================================
