----------------------- MODULE NotificationQueue_proofs -----------------------
(***************************************************************************)
(* No notice vanishes, rows never go back while Redis answers, and what a  *)
(* clean exit promises, for any notices, queue lengths, numbers of retries *)
(* and failures.                                                           *)
(***************************************************************************)
EXTENDS NotificationQueue, FiniteSetTheorems, SequenceTheorems, TLAPS

(* Once the drain is complete nothing is open, under way or in memory.     *)
Quiet == server = "clean" => open = {} /\ WritersIdle

QueueInv == TypeOK /\ NothingVanishes /\ Quiet

-----------------------------------------------------------------------------
(* What the queue operations do to the notices of a queue.                 *)

LEMMA PutFirst ==
  ASSUME NEW q \in Seq(Jobs), NEW job \in Jobs
  PROVE  /\ Cons(job, q) \in Seq(Jobs)
         /\ Len(Cons(job, q)) = Len(q) + 1
         /\ NoticesIn(Cons(job, q)) = NoticesIn(q) \cup {job.notice}
<1> DEFINE p == Cons(job, q)
<1>1. /\ <<job>> \in Seq(Jobs)
      /\ Len(<<job>>) = 1
      /\ <<job>>[1] = job
  OBVIOUS
<1>2. /\ p \in Seq(Jobs)
      /\ Len(p) = Len(q) + 1
      /\ \A i \in 1 .. Len(q) + 1 : p[i] = IF i <= 1 THEN job ELSE q[i - 1]
  BY <1>1, ConcatProperties, LenProperties DEF Cons
<1>3. DOMAIN p = 1 .. Len(q) + 1 /\ DOMAIN q = 1 .. Len(q) /\ Len(q) \in Nat
  BY <1>2, LenProperties
<1> HIDE DEF p
<1>4. \A i \in 1 .. Len(q) : p[i + 1] = q[i]
  BY <1>2, <1>3
<1>5. p[1] = job /\ 1 \in DOMAIN p
  BY <1>2, <1>3
<1>6. NoticesIn(p) \subseteq NoticesIn(q) \cup {job.notice}
  BY <1>2, <1>3 DEF NoticesIn
<1>7. NoticesIn(q) \subseteq NoticesIn(p)
  BY <1>3, <1>4 DEF NoticesIn
<1>8. job.notice \in NoticesIn(p)
  BY <1>5 DEF NoticesIn
<1> QED
  BY <1>2, <1>6, <1>7, <1>8 DEF p

LEMMA PutLast ==
  ASSUME NEW q \in Seq(Jobs), NEW job \in Jobs
  PROVE  /\ Append(q, job) \in Seq(Jobs)
         /\ Len(Append(q, job)) = Len(q) + 1
         /\ NoticesIn(Append(q, job)) = NoticesIn(q) \cup {job.notice}
<1> DEFINE p == Append(q, job)
<1>1. /\ p \in Seq(Jobs)
      /\ Len(p) = Len(q) + 1
      /\ \A i \in 1 .. Len(q) : p[i] = q[i]
      /\ p[Len(q) + 1] = job
  BY AppendProperties
<1>2. DOMAIN p = 1 .. Len(q) + 1 /\ DOMAIN q = 1 .. Len(q) /\ Len(q) \in Nat
  BY <1>1, LenProperties
<1> HIDE DEF p
<1>3. NoticesIn(p) = NoticesIn(q) \cup {job.notice}
  BY <1>1, <1>2 DEF NoticesIn
<1> QED
  BY <1>1, <1>3 DEF p

LEMMA TakeLast ==
  ASSUME NEW q \in Seq(Jobs), q # <<>>
  PROVE  /\ Front(q) \in Seq(Jobs) /\ Last(q) \in Jobs
         /\ Len(Front(q)) = Len(q) - 1
         /\ NoticesIn(q) = NoticesIn(Front(q)) \cup {Last(q).notice}
<1> DEFINE p == Front(q)
<1>1. /\ Len(q) \in Nat \ {0}
      /\ DOMAIN q = 1 .. Len(q)
      /\ \A i \in 1 .. Len(q) : q[i] \in Jobs
  BY EmptySeq, LenProperties, ElementOfSeq
<1>2. \A i \in 1 .. Len(q) - 1 : q[i] \in Jobs
  BY <1>1
<1>3. /\ p \in Seq(Jobs)
      /\ Len(p) = Len(q) - 1
      /\ \A i \in 1 .. Len(q) - 1 : p[i] = q[i]
  <2>1. /\ p \in Seq(Jobs)
        /\ Len(p) = IF 1 <= Len(q) - 1 THEN Len(q) - 1 - 1 + 1 ELSE 0
        /\ \A i \in 1 .. Len(q) - 1 - 1 + 1 : p[i] = q[1 + i - 1]
    BY <1>1, <1>2, SubSeqProperties DEF Front
  <2> DEFINE n == Len(q)
  <2>2. n \in Nat \ {0}
    BY <1>1
  <2>3. \A i \in 1 .. n - 1 : i \in 1 .. n - 1 - 1 + 1 /\ 1 + i - 1 = i
    <3> HIDE DEF n
    <3> QED
      BY <2>2
  <2>4. (IF 1 <= n - 1 THEN n - 1 - 1 + 1 ELSE 0) = n - 1
    <3> HIDE DEF n
    <3> QED
      BY <2>2
  <2> HIDE DEF p
  <2> QED
    BY <2>1, <2>3, <2>4
<1>4. DOMAIN p = 1 .. Len(q) - 1
  BY <1>3, LenProperties
<1> HIDE DEF p
<1>5. NoticesIn(q) = NoticesIn(p) \cup {Last(q).notice}
  BY <1>1, <1>3, <1>4 DEF NoticesIn, Last
<1> QED
  BY <1>1, <1>3, <1>5 DEF p, Last

(* A push to Redis adds its job while there is room and does nothing then. *)
LEMMA PushKeeps ==
  ASSUME NEW longer \in Seq(Jobs), NEW job \in Jobs,
         redis \in Seq(Jobs), Len(redis) <= RedisMax,
         Len(longer) = Len(redis) + 1,
         NoticesIn(longer) = NoticesIn(redis) \cup {job.notice}
  PROVE  /\ Pushed(longer) \in Seq(Jobs)
         /\ Len(Pushed(longer)) <= RedisMax
         /\ NoticesIn(redis) \subseteq NoticesIn(Pushed(longer))
         /\ RedisHasRoom => job.notice \in NoticesIn(Pushed(longer))
<1>1. Len(redis) \in Nat /\ RedisMax \in Nat
  BY LenProperties, QueueAssumption
<1> QED
  BY <1>1 DEF Pushed, RedisHasRoom

(* A call that fails leaves the list alone or does what it was sent to do. *)
LEMMA FailedPushKeeps ==
  ASSUME NEW longer \in Seq(Jobs), NEW job \in Jobs, TypeOK,
         Len(longer) = Len(redis) + 1,
         NoticesIn(longer) = NoticesIn(redis) \cup {job.notice},
         PushFails(longer)
  PROVE  /\ redis' \in Seq(Jobs) /\ Len(redis') <= RedisMax
         /\ NoticesIn(redis) \subseteq NoticesIn(redis')
         /\ outages' \in 0 .. MaxOutages
<1>1. /\ redis \in Seq(Jobs) /\ Len(redis) <= RedisMax
      /\ outages \in 0 .. MaxOutages /\ MaxOutages \in Nat
  BY QueueAssumption DEF TypeOK
<1>2. /\ Pushed(longer) \in Seq(Jobs) /\ Len(Pushed(longer)) <= RedisMax
      /\ NoticesIn(redis) \subseteq NoticesIn(Pushed(longer))
  BY <1>1, PushKeeps
<1>3. redis' = redis \/ redis' = Pushed(longer)
  BY DEF PushFails
<1>4. outages' \in 0 .. MaxOutages
  BY <1>1 DEF PushFails, Outage
<1> QED
  BY <1>1, <1>2, <1>3, <1>4

-----------------------------------------------------------------------------
(* Types.                                                                  *)

LEMMA WorkerTypes ==
  /\ Idle \in [at : Places, job : Jobs \cup {NoJob}, inspected : 0 .. Batch]
  /\ Idle.at = "idle"
  /\ \A i \in 0 .. Batch :
       /\ Loop(i) \in [at : Places, job : Jobs \cup {NoJob}, inspected : 0 .. Batch]
       /\ Loop(i).at \in {"idle", "popping"}
       /\ Loop(i).at = "popping" => Loop(i).inspected < Batch
       /\ server # "serving" => Loop(i).at = "idle"
BY QueueAssumption DEF Idle, Loop, Places

LEMMA TakenTypes ==
  ASSUME TypeOK, worker.at = "popping", NEW job \in Jobs
  PROVE  /\ Taken(job) \in [at : Places, job : Jobs \cup {NoJob}, inspected : 0 .. Batch]
         /\ Taken(job).at = "handling" /\ Taken(job).job = job
<1>1. worker.inspected \in 0 .. Batch /\ worker.inspected < Batch /\ Batch \in Nat
  BY QueueAssumption DEF TypeOK
<1>2. worker.inspected + 1 \in 0 .. Batch
  BY <1>1
<1> QED
  BY <1>2 DEF Taken, Places

LEMMA WrittenTypes ==
  ASSUME TypeOK, NEW n \in Notices
  PROVE  /\ Written(n) \in [Rows -> Seq(Notices)]
         /\ \A m \in Notices : m \in ToSet(inbox[RowOf(m)]) =>
                              m \in ToSet(Written(n)[RowOf(m)])
         /\ n \in ToSet(Written(n)[RowOf(n)])
<1>1. \A m \in Notices : RowOf(m) \in Rows
  BY QueueAssumption DEF RowOf, Rows
<1>2. inbox \in [Rows -> Seq(Notices)]
  BY DEF TypeOK
<1> DEFINE old == inbox[RowOf(n)]
           new == Append(old, n)
<1>3. old \in Seq(Notices)
  BY <1>1, <1>2
<1>4. /\ new \in Seq(Notices)
      /\ Len(new) = Len(old) + 1 /\ Len(old) \in Nat
      /\ DOMAIN new = 1 .. Len(new) /\ DOMAIN old = 1 .. Len(old)
      /\ \A i \in 1 .. Len(old) : new[i] = old[i]
      /\ new[Len(old) + 1] = n
  BY <1>3, AppendProperties, LenProperties
<1>5. ToSet(old) \subseteq ToSet(new) /\ n \in ToSet(new)
  <2> HIDE DEF old, new
  <2> QED
    BY <1>4 DEF ToSet
<1>6. Written(n) = [inbox EXCEPT ![RowOf(n)] = new]
  BY DEF Written
<1> HIDE DEF new
<1> QED
  BY <1>1, <1>2, <1>4, <1>5, <1>6

LEMMA InHandIs ==
  ASSUME worker.at \in {"handling", "requeueing", "postponing"}
  PROVE  InHand = {worker.job.notice}
BY DEF InHand

-----------------------------------------------------------------------------
(* Where the notices are after each action.                                *)

Found == Settled \cup NoticesIn(redis) \cup NoticesIn(memory) \cup InHand

(* Types, nothing found gets lost, and who is told queued can be found.    *)
Kept == /\ TypeOK'
        /\ Found \subseteq Found'
        /\ \A n \in Notices : request'[n] = "queued" => request[n] = "queued" \/ n \in Found'

LEMMA ConnectionKeeps ==
  ASSUME TypeOK, NEW n \in Notices,
         Connect(n) \/ Send(n) \/ Abort(n) \/ Admit(n) \/ CloseIdle(n)
  PROVE  Kept
<1> USE DEF RequestStates
<1>1. UNCHANGED <<queueVars, workerVars, busy, server>>
  BY DEF Connect, Send, Abort, Admit, CloseIdle
<1>2. /\ request' \in [Notices -> RequestStates] /\ open' \subseteq Notices
      /\ \A m \in Notices : request'[m] = "queued" => request[m] = "queued"
  BY DEF TypeOK, Connect, Send, Abort, Admit, CloseIdle
<1>3. TypeOK'
  BY <1>1, <1>2 DEF TypeOK, queueVars, workerVars
<1>4. Found' = Found
  BY <1>1 DEF Found, Settled, Delivered, NoticesIn, InHand, queueVars, workerVars
<1> QED
  BY <1>2, <1>3, <1>4 DEF Kept

LEMMA ServerKeeps ==
  ASSUME TypeOK,
         \/ \E s \in Scans : StartScan(s) \/ EndScan(s)
         \/ Shutdown \/ FinishDrain \/ TimeOut
  PROVE  Kept
<1>1. UNCHANGED <<queueVars, workerVars, request, open>>
  BY DEF StartScan, EndScan, Shutdown, FinishDrain, TimeOut
<1>2. busy' \subseteq Scans /\ server' \in {"serving", "draining", "clean", "failed"}
  BY DEF TypeOK, StartScan, EndScan, Shutdown, FinishDrain, TimeOut
<1>3. TypeOK'
  BY <1>1, <1>2 DEF TypeOK, queueVars, workerVars
<1>4. Found' = Found
  BY <1>1 DEF Found, Settled, Delivered, NoticesIn, InHand, queueVars, workerVars
<1> QED
  BY <1>1, <1>3, <1>4 DEF Kept

(* The new job is in Redis, in memory, or its sender is told it is not.    *)
LEMMA EnqueueKeeps ==
  ASSUME TypeOK, NEW n \in Notices, Enqueue(n)
  PROVE  Kept
<1> DEFINE job == [notice |-> n, tries |-> 0]
<1>1. job \in Jobs
  BY QueueAssumption DEF Jobs
<1> HIDE DEF job
<1>2. job.notice = n
  BY DEF job
<1>3. /\ Cons(job, redis) \in Seq(Jobs) /\ Len(Cons(job, redis)) = Len(redis) + 1
      /\ NoticesIn(Cons(job, redis)) = NoticesIn(redis) \cup {job.notice}
  BY <1>1, PutFirst DEF TypeOK
<1>4. /\ Cons(job, memory) \in Seq(Jobs) /\ Len(Cons(job, memory)) = Len(memory) + 1
      /\ NoticesIn(Cons(job, memory)) = NoticesIn(memory) \cup {job.notice}
  BY <1>1, PutFirst DEF TypeOK
<1>5. UNCHANGED <<workerVars, dropped, lost, open, busy, server>>
  BY DEF Enqueue
<1>6. /\ request' \in [Notices -> RequestStates]
      /\ \A m \in Notices : request'[m] = "queued" => request[m] = "queued" \/ m = n
      /\ admitted' \in Seq(Notices)
  <2>1. Append(admitted, n) \in Seq(Notices)
    BY AppendProperties DEF TypeOK
  <2> QED
    BY <2>1 DEF TypeOK, Enqueue, RequestStates
<1>7. /\ redis' \in Seq(Jobs) /\ Len(redis') <= RedisMax
      /\ NoticesIn(redis) \subseteq NoticesIn(redis')
      /\ memory' \in Seq(Jobs) /\ Len(memory') <= MemoryMax
      /\ NoticesIn(memory) \subseteq NoticesIn(memory')
      /\ outages' \in 0 .. MaxOutages
      /\ request'[n] = "queued" => n \in NoticesIn(redis') \cup NoticesIn(memory')
  <2>0. /\ redis \in Seq(Jobs) /\ Len(redis) <= RedisMax
        /\ memory \in Seq(Jobs) /\ Len(memory) <= MemoryMax
        /\ outages \in 0 .. MaxOutages /\ request \in [Notices -> RequestStates]
    BY DEF TypeOK
  <2>1. CASE /\ redis' = Pushed(Cons(job, redis)) /\ UNCHANGED <<memory, outages>>
             /\ RedisHasRoom \/ request' = [request EXCEPT ![n] = "full"]
    BY <1>1, <1>2, <1>3, <2>0, <2>1, PushKeeps
  <2>2. CASE /\ PushFails(Cons(job, redis))
             /\ \/ MemoryHasRoom /\ memory' = Cons(job, memory)
                \/ request' = [request EXCEPT ![n] = "full"] /\ UNCHANGED memory
    <3>1. Len(memory) \in Nat /\ MemoryMax \in Nat
      BY <2>0, LenProperties, QueueAssumption
    <3>2. /\ redis' \in Seq(Jobs) /\ Len(redis') <= RedisMax
          /\ NoticesIn(redis) \subseteq NoticesIn(redis')
          /\ outages' \in 0 .. MaxOutages
      BY <1>1, <1>3, <2>2, FailedPushKeeps
    <3> QED
      BY <1>2, <1>4, <2>0, <2>2, <3>1, <3>2 DEF MemoryHasRoom
  <2> QED
    BY <2>1, <2>2 DEF Enqueue, job
<1>8. TypeOK'
  BY <1>5, <1>6, <1>7 DEF TypeOK, workerVars
<1>9. /\ Settled' = Settled /\ InHand' = InHand
  BY <1>5 DEF Settled, Delivered, InHand, workerVars
<1> QED
  BY <1>6, <1>7, <1>8, <1>9 DEF Kept, Found

LEMMA TickKeeps ==
  ASSUME TypeOK, Tick
  PROVE  Kept
<1>1. UNCHANGED <<queueVars, serverVars, inbox, failures>> /\ worker' = Loop(0)
  BY DEF Tick
<1>2. /\ worker' \in [at : Places, job : Jobs \cup {NoJob}, inspected : 0 .. Batch]
      /\ worker'.at \in {"idle", "popping"}
      /\ worker'.at = "popping" => worker'.inspected < Batch
  BY <1>1, WorkerTypes, QueueAssumption
<1>3. TypeOK'
  BY <1>1, <1>2 DEF TypeOK, queueVars, serverVars
<1>4. InHand = {}
  BY DEF Tick, InHand
<1>5. Found \subseteq Found'
  BY <1>1, <1>4 DEF Found, Settled, Delivered, NoticesIn, queueVars
<1> QED
  BY <1>1, <1>3, <1>5 DEF Kept, serverVars

(* A popped job is in the hand of the worker.                              *)
LEMMA PopRedisKeeps ==
  ASSUME TypeOK, PopRedis
  PROVE  Kept
<1>1. /\ Front(redis) \in Seq(Jobs) /\ Last(redis) \in Jobs
      /\ Len(Front(redis)) = Len(redis) - 1
      /\ NoticesIn(redis) = NoticesIn(Front(redis)) \cup {Last(redis).notice}
  BY TakeLast DEF TypeOK, PopRedis
<1>2. /\ worker' = Taken(Last(redis)) /\ redis' = Front(redis)
      /\ UNCHANGED <<serverVars, memory, inbox, dropped, lost, admitted, outages, failures>>
      /\ worker.at = "popping"
  BY DEF PopRedis
<1>3. /\ worker' \in [at : Places, job : Jobs \cup {NoJob}, inspected : 0 .. Batch]
      /\ worker'.at = "handling" /\ worker'.job = Last(redis)
  BY <1>1, <1>2, TakenTypes
<1>4. Len(redis') <= RedisMax
  <2>1. Len(redis) \in Nat /\ RedisMax \in Nat /\ Len(redis) <= RedisMax
    BY LenProperties, QueueAssumption DEF TypeOK
  <2> QED
    BY <1>1, <1>2, <2>1
<1>5. TypeOK'
  BY <1>1, <1>2, <1>3, <1>4 DEF TypeOK, serverVars
<1>6. InHand = {} /\ InHand' = {Last(redis).notice}
  BY <1>2, <1>3 DEF InHand
<1>7. Settled' = Settled /\ NoticesIn(memory)' = NoticesIn(memory)
  BY <1>2 DEF Settled, Delivered, NoticesIn
<1>8. Found \subseteq Found'
  BY <1>1, <1>2, <1>6, <1>7 DEF Found
<1> QED
  BY <1>2, <1>5, <1>8 DEF Kept, serverVars

(* A job is popped from memory, after Redis may have given one away.       *)
LEMMA PopMemoryKeeps ==
  ASSUME TypeOK, PopMemory
  PROVE  Kept
<1>0. /\ redis \in Seq(Jobs) /\ memory \in Seq(Jobs) /\ lost \subseteq Notices
      /\ Len(redis) <= RedisMax /\ Len(memory) <= MemoryMax /\ outages \in 0 .. MaxOutages
      /\ RedisMax \in Nat /\ MemoryMax \in Nat /\ MaxOutages \in Nat
      /\ Len(redis) \in Nat /\ Len(memory) \in Nat
  BY LenProperties, QueueAssumption DEF TypeOK
<1>1. /\ UNCHANGED <<serverVars, inbox, dropped, admitted, failures>>
      /\ worker.at = "popping"
  BY DEF PopMemory
<1>2. /\ redis' \in Seq(Jobs) /\ Len(redis') <= RedisMax
      /\ lost \subseteq lost' /\ lost' \subseteq Notices
      /\ NoticesIn(redis) \subseteq NoticesIn(redis') \cup lost'
      /\ outages' \in 0 .. MaxOutages
  <2>1. CASE UNCHANGED <<redis, lost>> /\ (Outage \/ UNCHANGED outages)
    BY <1>0, <2>1 DEF Outage
  <2>2. CASE /\ Outage /\ redis # <<>>
             /\ redis' = Front(redis)
             /\ lost' = lost \cup {Last(redis).notice}
    <3>1. /\ Front(redis) \in Seq(Jobs) /\ Last(redis) \in Jobs
          /\ Len(Front(redis)) = Len(redis) - 1
          /\ NoticesIn(redis) = NoticesIn(Front(redis)) \cup {Last(redis).notice}
      BY <1>0, <2>2, TakeLast
    <3>2. Last(redis).notice \in Notices
      BY <3>1 DEF Jobs
    <3>3. outages' \in 0 .. MaxOutages
      BY <1>0, <2>2 DEF Outage
    <3> QED
      BY <1>0, <2>2, <3>1, <3>2, <3>3
  <2> QED
    BY <2>1, <2>2 DEF PopMemory
<1>3. /\ worker' \in [at : Places, job : Jobs \cup {NoJob}, inspected : 0 .. Batch]
      /\ worker'.at \in {"handling", "requeueing", "postponing"} => worker'.job \in Jobs
      /\ worker'.at # "popping"
      /\ memory' \in Seq(Jobs) /\ Len(memory') <= MemoryMax
      /\ NoticesIn(memory) \subseteq NoticesIn(memory') \cup InHand'
  <2>1. CASE memory = <<>> /\ worker' = Idle /\ UNCHANGED memory
    BY <1>0, <2>1, WorkerTypes
  <2>2. CASE memory # <<>> /\ worker' = Taken(Last(memory)) /\ memory' = Front(memory)
    <3>1. /\ Front(memory) \in Seq(Jobs) /\ Last(memory) \in Jobs
          /\ Len(Front(memory)) = Len(memory) - 1
          /\ NoticesIn(memory) = NoticesIn(Front(memory)) \cup {Last(memory).notice}
      BY <1>0, <2>2, TakeLast
    <3>2. /\ worker' \in [at : Places, job : Jobs \cup {NoJob}, inspected : 0 .. Batch]
          /\ worker'.at = "handling" /\ worker'.job = Last(memory)
      BY <1>1, <2>2, <3>1, TakenTypes
    <3>3. InHand' = {Last(memory).notice}
      BY <3>2 DEF InHand
    <3> QED
      BY <1>0, <2>2, <3>1, <3>2, <3>3
  <2> QED
    BY <2>1, <2>2 DEF PopMemory
<1>4. TypeOK'
  BY <1>1, <1>2, <1>3 DEF TypeOK, serverVars
<1>5. InHand = {} /\ dropped' = dropped /\ Delivered' = Delivered
  BY <1>1 DEF InHand, Delivered
<1>6. Found \subseteq Found'
  BY <1>2, <1>3, <1>5 DEF Found, Settled
<1> QED
  BY <1>1, <1>4, <1>6 DEF Kept, serverVars

LEMMA PostponeKeeps ==
  ASSUME TypeOK, Postpone
  PROVE  Kept
<1>1. /\ UNCHANGED <<queueVars, serverVars, inbox, failures>>
      /\ worker' = [worker EXCEPT !.at = "postponing"] /\ worker.at = "handling"
  BY DEF Postpone
<1>2. /\ worker' \in [at : Places, job : Jobs \cup {NoJob}, inspected : 0 .. Batch]
      /\ worker'.at = "postponing" /\ worker'.job = worker.job /\ worker.job \in Jobs
  BY <1>1 DEF TypeOK, Places
<1>3. TypeOK'
  BY <1>1, <1>2 DEF TypeOK, queueVars, serverVars
<1>4. InHand' = InHand
  BY <1>1, <1>2 DEF InHand
<1>5. Found' = Found
  BY <1>1, <1>4 DEF Found, Settled, Delivered, NoticesIn, queueVars
<1> QED
  BY <1>1, <1>3, <1>5 DEF Kept, serverVars

(* What the worker had in hand is in its row.                              *)
LEMMA DeliverKeeps ==
  ASSUME TypeOK, Deliver
  PROVE  Kept
<1> DEFINE n == worker.job.notice
<1>1. /\ UNCHANGED <<queueVars, serverVars, failures>>
      /\ inbox' = Written(n) /\ worker' = Loop(worker.inspected)
      /\ worker.at = "handling"
  BY DEF Deliver
<1>2. n \in Notices /\ worker.inspected \in 0 .. Batch
  BY <1>1 DEF TypeOK, Jobs
<1> HIDE DEF n
<1>3. /\ inbox' \in [Rows -> Seq(Notices)]
      /\ \A m \in Notices : m \in ToSet(inbox[RowOf(m)]) => m \in ToSet(inbox'[RowOf(m)])
      /\ n \in ToSet(inbox'[RowOf(n)])
  BY <1>1, <1>2, WrittenTypes
<1>4. /\ worker' \in [at : Places, job : Jobs \cup {NoJob}, inspected : 0 .. Batch]
      /\ worker'.at \in {"idle", "popping"}
      /\ worker'.at = "popping" => worker'.inspected < Batch
  BY <1>1, <1>2, WorkerTypes
<1>5. TypeOK'
  BY <1>1, <1>3, <1>4 DEF TypeOK, queueVars, serverVars
<1>6. Delivered \subseteq Delivered' /\ n \in Delivered'
  BY <1>2, <1>3 DEF Delivered
<1>7. InHand = {n}
  BY <1>1 DEF InHand, n
<1>8. Found \subseteq Found'
  BY <1>1, <1>6, <1>7 DEF Found, Settled, NoticesIn, queueVars
<1> QED
  BY <1>1, <1>5, <1>8 DEF Kept, serverVars

(* A failed job is given up or on its way back.                            *)
LEMMA FailDeliveryKeeps ==
  ASSUME TypeOK, FailDelivery
  PROVE  Kept
<1> DEFINE n == worker.job.notice
<1>1. /\ UNCHANGED <<serverVars, redis, memory, lost, admitted, outages>>
      /\ inbox' \in {inbox, Written(n)} /\ worker.at = "handling" /\ Failure
  BY DEF FailDelivery
<1>2. /\ n \in Notices /\ worker.inspected \in 0 .. Batch /\ worker.job \in Jobs
      /\ worker.job.tries \in 0 .. MaxRetries - 1 /\ MaxRetries \in Nat
      /\ inbox \in [Rows -> Seq(Notices)] /\ dropped \subseteq Notices
  BY <1>1, QueueAssumption DEF TypeOK, Jobs
<1>3. /\ inbox' \in [Rows -> Seq(Notices)]
      /\ \A m \in Notices : m \in ToSet(inbox[RowOf(m)]) => m \in ToSet(inbox'[RowOf(m)])
  BY <1>1, <1>2, WrittenTypes
<1>4. failures' \in 0 .. MaxFailures
  BY <1>1, QueueAssumption DEF Failure, TypeOK
<1>5. /\ worker' \in [at : Places, job : Jobs \cup {NoJob}, inspected : 0 .. Batch]
      /\ worker'.at \in {"handling", "requeueing", "postponing"} => worker'.job \in Jobs
      /\ worker'.at = "popping" => worker'.inspected < Batch
      /\ dropped \subseteq dropped' /\ dropped' \subseteq Notices
      /\ n \in dropped' \cup InHand'
  <2>1. CASE /\ worker' = Loop(worker.inspected)
             /\ dropped' = dropped \cup {n}
    <3>1. /\ Loop(worker.inspected) \in [at : Places, job : Jobs \cup {NoJob}, inspected : 0 .. Batch]
          /\ Loop(worker.inspected).at \in {"idle", "popping"}
          /\ Loop(worker.inspected).at = "popping" => Loop(worker.inspected).inspected < Batch
      BY <1>2, WorkerTypes
    <3> QED
      BY <1>2, <2>1, <3>1
  <2>2. CASE /\ ~Exhausted(worker.job)
             /\ worker' = [worker EXCEPT !.at = "requeueing", !.job.tries = @ + 1]
             /\ UNCHANGED dropped
    <3>1. worker.job.tries + 1 \in 0 .. MaxRetries - 1
      BY <1>2, <2>2 DEF Exhausted
    <3>2. worker \in [at : Places, job : Jobs \cup {NoJob}, inspected : 0 .. Batch]
      BY DEF TypeOK
    <3>3. /\ worker'.at = "requeueing"
          /\ worker'.job = [worker.job EXCEPT !.tries = worker.job.tries + 1]
          /\ worker' = [at |-> "requeueing", job |-> worker'.job, inspected |-> worker.inspected]
      BY <2>2, <3>2
    <3>4. worker'.job \in Jobs /\ worker'.job.notice = n
      BY <1>2, <3>1, <3>3 DEF Jobs
    <3>5. worker' \in [at : Places, job : Jobs \cup {NoJob}, inspected : 0 .. Batch]
      BY <1>2, <3>3, <3>4 DEF Places
    <3>6. InHand' = {n}
      BY <3>3, <3>4 DEF InHand
    <3> QED
      BY <1>2, <2>2, <3>3, <3>4, <3>5, <3>6
  <2> QED
    BY <2>1, <2>2 DEF FailDelivery
<1>6. TypeOK'
  BY <1>1, <1>3, <1>4, <1>5 DEF TypeOK, serverVars
<1>7. Delivered \subseteq Delivered'
  BY <1>3 DEF Delivered
<1>8. InHand = {n}
  BY <1>1 DEF InHand
<1>9. Found \subseteq Found'
  BY <1>1, <1>5, <1>7, <1>8 DEF Found, Settled, NoticesIn
<1> QED
  BY <1>1, <1>6, <1>9 DEF Kept, serverVars

LEMMA DiscardKeeps ==
  ASSUME TypeOK, Discard
  PROVE  Kept
<1>1. /\ UNCHANGED <<serverVars, redis, memory, inbox, lost, admitted, outages, failures>>
      /\ dropped' = dropped \cup {worker.job.notice}
      /\ worker' = Loop(worker.inspected) /\ worker.at = "handling"
  BY DEF Discard
<1>2. worker.job.notice \in Notices /\ worker.inspected \in 0 .. Batch
  BY <1>1 DEF TypeOK, Jobs
<1>3. /\ worker' \in [at : Places, job : Jobs \cup {NoJob}, inspected : 0 .. Batch]
      /\ worker'.at \in {"idle", "popping"}
      /\ worker'.at = "popping" => worker'.inspected < Batch
  BY <1>1, <1>2, WorkerTypes
<1>4. TypeOK'
  BY <1>1, <1>2, <1>3 DEF TypeOK, serverVars
<1>5. InHand = {worker.job.notice}
  BY <1>1 DEF InHand
<1>6. Found \subseteq Found'
  BY <1>1, <1>5 DEF Found, Settled, Delivered, NoticesIn
<1> QED
  BY <1>1, <1>4, <1>6 DEF Kept, serverVars

(* The job in hand is in Redis, in memory, or given up.                    *)
LEMMA RequeueKeeps ==
  ASSUME TypeOK, Requeue
  PROVE  Kept
<1> DEFINE job == worker.job
           longer == Requeued(job)
<1>1. /\ UNCHANGED <<serverVars, inbox, lost, admitted, failures>>
      /\ worker.at \in {"requeueing", "postponing"}
      /\ worker' = IF worker.at = "postponing" THEN Idle ELSE Loop(worker.inspected)
  BY DEF Requeue
<1>2. /\ job \in Jobs /\ job.notice \in Notices /\ worker.inspected \in 0 .. Batch
      /\ redis \in Seq(Jobs) /\ memory \in Seq(Jobs) /\ dropped \subseteq Notices
      /\ Len(redis) <= RedisMax /\ Len(memory) <= MemoryMax /\ outages \in 0 .. MaxOutages
      /\ MemoryMax \in Nat /\ Len(memory) \in Nat
  BY <1>1, QueueAssumption, LenProperties DEF TypeOK, Jobs
<1> HIDE DEF job
<1>3. /\ longer \in Seq(Jobs) /\ Len(longer) = Len(redis) + 1
      /\ NoticesIn(longer) = NoticesIn(redis) \cup {job.notice}
  BY <1>2, PutLast DEF Requeued
<1>4. /\ Cons(job, memory) \in Seq(Jobs) /\ Len(Cons(job, memory)) = Len(memory) + 1
      /\ NoticesIn(Cons(job, memory)) = NoticesIn(memory) \cup {job.notice}
  BY <1>2, PutFirst
<1> HIDE DEF longer
<1>5. /\ redis' \in Seq(Jobs) /\ Len(redis') <= RedisMax
      /\ NoticesIn(redis) \subseteq NoticesIn(redis')
      /\ memory' \in Seq(Jobs) /\ Len(memory') <= MemoryMax
      /\ NoticesIn(memory) \subseteq NoticesIn(memory')
      /\ outages' \in 0 .. MaxOutages
      /\ dropped \subseteq dropped' /\ dropped' \subseteq Notices
      /\ job.notice \in NoticesIn(redis') \cup NoticesIn(memory') \cup dropped'
  <2>1. CASE /\ redis' = Pushed(longer) /\ UNCHANGED <<memory, outages>>
             /\ \/ RedisHasRoom /\ UNCHANGED dropped
                \/ dropped' = dropped \cup {job.notice}
    BY <1>2, <1>3, <2>1, PushKeeps
  <2>2. CASE /\ PushFails(longer)
             /\ \/ MemoryHasRoom /\ memory' = Cons(job, memory) /\ UNCHANGED dropped
                \/ UNCHANGED memory /\ dropped' = dropped \cup {job.notice}
    <3>1. /\ redis' \in Seq(Jobs) /\ Len(redis') <= RedisMax
          /\ NoticesIn(redis) \subseteq NoticesIn(redis')
          /\ outages' \in 0 .. MaxOutages
      BY <1>2, <1>3, <2>2, FailedPushKeeps
    <3> QED
      BY <1>2, <1>4, <2>2, <3>1 DEF MemoryHasRoom
  <2> QED
    BY <2>1, <2>2 DEF Requeue, job, longer
<1>6. /\ worker' \in [at : Places, job : Jobs \cup {NoJob}, inspected : 0 .. Batch]
      /\ worker'.at \in {"idle", "popping"}
      /\ worker'.at = "popping" => worker'.inspected < Batch
  BY <1>1, <1>2, WorkerTypes
<1>7. TypeOK'
  BY <1>1, <1>5, <1>6 DEF TypeOK, serverVars
<1>8. InHand = {job.notice} /\ Delivered' = Delivered /\ lost' = lost
  BY <1>1 DEF InHand, Delivered, job
<1>9. Found \subseteq Found'
  BY <1>5, <1>8 DEF Found, Settled
<1> QED
  BY <1>1, <1>7, <1>9 DEF Kept, serverVars

-----------------------------------------------------------------------------
(* The invariant.                                                          *)

(* Leftover jobs are all in the list the process starts with.              *)
LEMMA InitHolds ==
  Init => QueueInv
<1> SUFFICES ASSUME Init PROVE QueueInv
  OBVIOUS
<1>1. PICK order \in SetToSeqs(Leftover), tries \in [Leftover -> 0 .. MaxRetries - 1] :
        redis = [i \in DOMAIN order |-> [notice |-> order[i], tries |-> tries[order[i]]]]
  BY DEF Init
<1> DEFINE k == Cardinality(Leftover)
<1>2. IsFiniteSet(Leftover) /\ k \in Nat /\ k <= RedisMax /\ Leftover \subseteq Notices
  BY FS_Subset, FS_CardinalityType, QueueAssumption
<1>3. order \in [1 .. k -> Leftover] /\ \A i, j \in 1 .. k : i # j => order[i] # order[j]
  BY DEF SetToSeqs
<1> HIDE DEF k
<1>4. \A n \in Leftover : \E i \in 1 .. k : order[i] = n
  <2>1. order \in Injection(1 .. k, Leftover)
    BY <1>3 DEF Injection, IsInjective
  <2>2. Cardinality(1 .. k) = Cardinality(Leftover)
    BY <1>2, FS_Interval DEF k
  <2>3. order \in Surjection(1 .. k, Leftover)
    BY <1>2, <2>1, <2>2, FS_Injection
  <2> QED
    BY <2>3 DEF Surjection
<1>5. /\ redis \in [1 .. k -> Jobs]
      /\ \A i \in 1 .. k : redis[i].notice = order[i]
  BY <1>1, <1>2, <1>3 DEF Jobs
<1>6. redis \in Seq(Jobs) /\ Len(redis) = k /\ DOMAIN redis = 1 .. k
  BY <1>2, <1>5
<1>7. Leftover \subseteq NoticesIn(redis)
  BY <1>4, <1>5, <1>6 DEF NoticesIn
<1>8. admitted \in Seq(Notices)
  <2> DEFINE names == [i \in DOMAIN redis |-> redis[i].notice]
  <2>1. names \in [1 .. k -> Notices]
    BY <1>2, <1>3, <1>5, <1>6
  <2>2. names \in Seq(Notices) /\ Len(names) = k
    BY <1>2, <2>1
  <2>3. admitted = Reverse(names)
    BY DEF Init
  <2> HIDE DEF names
  <2>4. Reverse(names) \in [1 .. k -> Notices]
    BY <1>2, <2>1, <2>2 DEF Reverse
  <2> QED
    BY <1>2, <2>3, <2>4
<1>9. TypeOK
  <2>1. /\ request \in [Notices -> RequestStates]
        /\ memory = <<>> /\ worker = Idle /\ inbox = [r \in Rows |-> <<>>]
        /\ dropped = {} /\ lost = {} /\ open = {} /\ busy = {}
        /\ server = "serving" /\ outages = 0 /\ failures = 0
    BY DEF Init, RequestStates
  <2>2. memory \in Seq(Jobs) /\ Len(memory) <= MemoryMax
    BY <2>1, EmptySeq, QueueAssumption
  <2>3. inbox \in [Rows -> Seq(Notices)]
    BY <2>1, EmptySeq
  <2> QED
    BY <1>2, <1>6, <1>8, <2>1, <2>2, <2>3, WorkerTypes, QueueAssumption DEF TypeOK
<1>10. NothingVanishes
  BY <1>7 DEF NothingVanishes, Init
<1> QED
  BY <1>9, <1>10 DEF QueueInv, Quiet, Init

LEMMA StepKeeps ==
  ASSUME TypeOK, Next
  PROVE  Kept
<1>1. CASE Work
  BY <1>1, TickKeeps, PopRedisKeeps, PopMemoryKeeps, PostponeKeeps, DeliverKeeps,
     FailDeliveryKeeps, DiscardKeeps, RequeueKeeps DEF Work
<1>2. CASE \E n \in Notices : Serve(n)
  BY <1>2, ConnectionKeeps, EnqueueKeeps DEF Serve
<1>3. CASE \E s \in Scans : StartScan(s) \/ EndScan(s)
  BY <1>3, ServerKeeps
<1>4. CASE Stop
  BY <1>4, ConnectionKeeps, ServerKeeps DEF Stop
<1> QED
  BY <1>1, <1>2, <1>3, <1>4 DEF Next

(* After the drain no action can begin anything: requests are refused, the *)
(* worker and the scans have been told to stop.                            *)
LEMMA CleanIsStill ==
  ASSUME TypeOK, Quiet, Next, server = "clean"
  PROVE  /\ UNCHANGED <<queueVars, workerVars, busy, server>>
         /\ open' = {} /\ Active' = {}
<1>1. /\ open = {} /\ Active = {} /\ worker.at = "idle" /\ busy = {}
      /\ \A n \in Notices : request[n] # "enqueueing"
      /\ request \in [Notices -> RequestStates]
  BY DEF Quiet, WritersIdle, Active, TypeOK
<1>2. ~Work
  BY <1>1 DEF Work, Tick, PopRedis, PopMemory, Postpone, Deliver, FailDelivery, Discard, Requeue
<1>3. ~Stop /\ \A s \in Scans : ~StartScan(s) /\ ~EndScan(s)
  BY <1>1 DEF Stop, Shutdown, CloseIdle, FinishDrain, TimeOut, StartScan, EndScan
<1>4. PICK n \in Notices : Admit(n)
  BY <1>1, <1>2, <1>3 DEF Next, Serve, Connect, Send, Abort, Enqueue
<1>5. request' = [request EXCEPT ![n] = "refused"]
  BY <1>4 DEF Admit
<1> QED
  BY <1>1, <1>4, <1>5 DEF Admit, Active

LEMMA QuietStays ==
  ASSUME QueueInv, Next
  PROVE  Quiet'
<1>1. CASE server = "clean"
  <2>1. UNCHANGED <<memory, worker, busy>>
    BY <1>1, CleanIsStill DEF QueueInv, queueVars, workerVars
  <2> QED
    BY <1>1, <2>1, CleanIsStill DEF QueueInv, Quiet, WritersIdle
<1>2. CASE server # "clean" /\ FinishDrain
  BY <1>2 DEF FinishDrain, Quiet, WritersIdle, Active, queueVars, workerVars
<1>3. CASE server # "clean" /\ ~FinishDrain
  <2>1. server' = server \/ server' \in {"draining", "failed"}
    BY <1>3 DEF Next, Work, Serve, Stop, Tick, PopRedis, PopMemory, Postpone, Deliver,
       FailDelivery, Discard, Requeue, Connect, Send, Abort, Admit, Enqueue, StartScan,
       EndScan, Shutdown, CloseIdle, TimeOut, serverVars
  <2> QED
    BY <1>3, <2>1 DEF Quiet
<1> QED
  BY <1>1, <1>2, <1>3

LEMMA InvariantStays ==
  ASSUME QueueInv, [Next]_vars
  PROVE  QueueInv'
<1>1. CASE Next
  <2>1. Kept /\ Quiet'
    BY <1>1, StepKeeps, QuietStays DEF QueueInv
  <2>2. NothingVanishes'
    BY <2>1 DEF QueueInv, Kept, NothingVanishes, Found
  <2> QED
    BY <2>1, <2>2 DEF QueueInv, Kept
<1>2. CASE UNCHANGED vars
  BY <1>2 DEF QueueInv, TypeOK, NothingVanishes, Quiet, WritersIdle, Active, Settled,
     Delivered, NoticesIn, InHand, vars, queueVars, workerVars, serverVars
<1> QED
  BY <1>1, <1>2

(* Types, the whereabouts of every notice and the quiet after the drain    *)
(* hold together in every reachable state.                                 *)
THEOREM QueueInvariant ==
  Spec => []QueueInv
BY InitHolds, InvariantStays, PTL DEF Spec

(* Every reachable state is well typed: the queues keep their capacities   *)
(* and no job is tried once too often.                                     *)
THEOREM QueueTyped ==
  Spec => []TypeOK
BY QueueInvariant, PTL DEF QueueInv

(* Every notice a client was told is queued is settled or still somewhere. *)
THEOREM NoticesAccounted ==
  Spec => []NothingVanishes
BY QueueInvariant, PTL DEF QueueInv

(* After a clean exit what is not settled is in Redis.                     *)
THEOREM CleanExitDurable ==
  Spec => []CleanExitIsDurable
<1>1. QueueInv => CleanExitIsDurable
  <2> SUFFICES ASSUME QueueInv, server = "clean", NEW n \in Notices, request[n] = "queued"
               PROVE  n \in Settled \cup NoticesIn(redis)
    BY DEF CleanExitIsDurable
  <2>1. memory = <<>> /\ worker.at = "idle"
    BY DEF QueueInv, Quiet, WritersIdle
  <2>2. NoticesIn(memory) = {} /\ InHand = {}
    BY <2>1 DEF NoticesIn, InHand
  <2> QED
    BY <2>2 DEF QueueInv, NothingVanishes
<1> QED
  BY <1>1, QueueInvariant, PTL

(* Nothing is written once the drain has been found complete.              *)
THEOREM CleanExitFinal ==
  Spec => CleanExitIsFinal
<1>1. QueueInv /\ [Next]_vars =>
        [server = "clean" => UNCHANGED <<queueVars, workerVars, busy>>]_vars
  BY CleanIsStill DEF QueueInv
<1> QED
  BY <1>1, QueueInvariant, PTL DEF Spec, CleanExitIsFinal

(* A clean exit leaves everything in Redis and is followed by nothing.     *)
THEOREM CleanExit ==
  Spec => CleanExitHolds
BY CleanExitDurable, CleanExitFinal DEF CleanExitHolds

-----------------------------------------------------------------------------
(* The order of the notices.  NoticesInOrder speaks of the rows alone; it  *)
(* is inductive with the order of what is still on its way: the rows, the  *)
(* job in hand and the list in Redis, from its end, are one line in which  *)
(* every notice was admitted before those behind it.                       *)

InOrder(q, x, y) == \E a, b \in DOMAIN q : a <= b /\ q[a] = x /\ q[b] = y

Lined(q, jobs) ==
  \A i, j \in DOMAIN jobs : i <= j => InOrder(q, jobs[j].notice, jobs[i].notice)

HandInOrder ==
  \A n \in InHand : /\ InOrder(admitted, n, n)
                    /\ \A m \in NoticesIn(redis) : InOrder(admitted, n, m)

RowInOrder(q, row, next) ==
  \A i \in DOMAIN row :
    /\ \A m \in next : InOrder(q, row[i], m)
    /\ \A j \in DOMAIN row : i <= j => InOrder(q, row[i], row[j])

RowsInOrder ==
  \A r \in Rows : RowInOrder(admitted, inbox[r], NoticesIn(redis) \cup InHand)

Orderly == outages = 0 => memory = <<>> /\ Lined(admitted, redis) /\ HandInOrder /\ RowsInOrder

LineInv == QueueInv /\ Orderly

(* Who is in order with another has been admitted, and so has the other.   *)
LEMMA BothAdmitted ==
  ASSUME NEW q \in Seq(Notices), NEW x, NEW y, InOrder(q, x, y)
  PROVE  InOrder(q, x, x) /\ InOrder(q, y, y)
<1>1. DOMAIN q = 1 .. Len(q) /\ Len(q) \in Nat
  BY LenProperties
<1>2. PICK a \in 1 .. Len(q), b \in 1 .. Len(q) : q[a] = x /\ q[b] = y
  BY <1>1 DEF InOrder
<1>3. a <= a /\ b <= b
  BY <1>1
<1> QED
  BY <1>1, <1>2, <1>3 DEF InOrder

(* A notice that is admitted comes after all the others.                   *)
LEMMA AdmittedLast ==
  ASSUME NEW q \in Seq(Notices), NEW n \in Notices
  PROVE  /\ \A x, y : InOrder(q, x, y) => InOrder(Append(q, n), x, y)
         /\ \A x : InOrder(q, x, x) => InOrder(Append(q, n), x, n)
         /\ InOrder(Append(q, n), n, n)
<1> DEFINE p == Append(q, n)
           k == Len(q)
<1>1. /\ DOMAIN q = 1 .. k /\ k \in Nat
      /\ p \in Seq(Notices) /\ Len(p) = k + 1
      /\ \A i \in 1 .. k : p[i] = q[i]
      /\ p[k + 1] = n
  BY AppendProperties, LenProperties
<1>2. DOMAIN p = 1 .. k + 1
  BY <1>1, LenProperties
<1> HIDE DEF p, k
<1>3. k + 1 \in DOMAIN p /\ \A i \in 1 .. k : i \in DOMAIN p /\ i <= k + 1
  BY <1>1, <1>2
<1>4. ASSUME NEW x, NEW y, InOrder(q, x, y)
      PROVE  InOrder(p, x, y)
  BY <1>1, <1>3, <1>4 DEF InOrder
<1>5. ASSUME NEW x, InOrder(q, x, x)
      PROVE  InOrder(p, x, n)
  BY <1>1, <1>3, <1>5 DEF InOrder
<1>6. k + 1 <= k + 1
  BY <1>1
<1>7. InOrder(p, n, n)
  BY <1>1, <1>3, <1>6 DEF InOrder
<1> QED
  BY <1>4, <1>5, <1>7 DEF p

(* A job put first is the last to be taken.                                *)
LEMMA LinedFirst ==
  ASSUME NEW q, NEW jobs \in Seq(Jobs), NEW job \in Jobs,
         Lined(q, jobs), InOrder(q, job.notice, job.notice),
         \A m \in NoticesIn(jobs) : InOrder(q, m, job.notice)
  PROVE  Lined(q, Cons(job, jobs))
<1> DEFINE p == Cons(job, jobs)
           k == Len(jobs)
<1>1. <<job>> \in Seq(Jobs) /\ Len(<<job>>) = 1 /\ <<job>>[1] = job
  OBVIOUS
<1>2. /\ p \in Seq(Jobs) /\ Len(p) = k + 1
      /\ \A i \in 1 .. k + 1 : p[i] = IF i <= 1 THEN job ELSE jobs[i - 1]
  BY <1>1, ConcatProperties, LenProperties DEF Cons
<1>3. DOMAIN p = 1 .. k + 1 /\ DOMAIN jobs = 1 .. k /\ k \in Nat
  BY <1>2, LenProperties
<1> HIDE DEF p, k
<1>4. p[1] = job /\ \A i \in 1 .. k + 1 : i # 1 => i - 1 \in 1 .. k /\ p[i] = jobs[i - 1]
  BY <1>2, <1>3
<1>5. ASSUME NEW i \in 1 .. k + 1, NEW j \in 1 .. k + 1, i <= j
      PROVE  InOrder(q, p[j].notice, p[i].notice)
  <2>1. CASE j = 1
    <3>1. i = 1
      BY <1>3, <1>5, <2>1
    <3> QED
      BY <1>4, <2>1, <3>1
  <2>2. CASE j # 1 /\ i = 1
    <3>1. p[j].notice \in NoticesIn(jobs)
      BY <1>3, <1>4, <2>2 DEF NoticesIn
    <3> QED
      BY <1>4, <2>2, <3>1
  <2>3. CASE j # 1 /\ i # 1
    <3>1. /\ i - 1 \in DOMAIN jobs /\ j - 1 \in DOMAIN jobs /\ i - 1 <= j - 1
          /\ p[i] = jobs[i - 1] /\ p[j] = jobs[j - 1]
      BY <1>3, <1>4, <1>5, <2>3
    <3> QED
      BY <3>1 DEF Lined
  <2> QED
    BY <2>1, <2>2, <2>3
<1> QED
  BY <1>3, <1>5 DEF Lined, p

(* A job put last is the next to be taken.                                 *)
LEMMA LinedLast ==
  ASSUME NEW q, NEW jobs \in Seq(Jobs), NEW job \in Jobs,
         Lined(q, jobs), InOrder(q, job.notice, job.notice),
         \A m \in NoticesIn(jobs) : InOrder(q, job.notice, m)
  PROVE  Lined(q, Append(jobs, job))
<1> DEFINE p == Append(jobs, job)
           k == Len(jobs)
<1>1. /\ p \in Seq(Jobs) /\ Len(p) = k + 1
      /\ \A i \in 1 .. k : p[i] = jobs[i]
      /\ p[k + 1] = job
  BY AppendProperties
<1>2. DOMAIN p = 1 .. k + 1 /\ DOMAIN jobs = 1 .. k /\ k \in Nat
  BY <1>1, LenProperties
<1> HIDE DEF p, k
<1>3. ASSUME NEW i \in 1 .. k + 1, NEW j \in 1 .. k + 1, i <= j
      PROVE  InOrder(q, p[j].notice, p[i].notice)
  <2>1. CASE i = k + 1
    <3>1. j = k + 1
      BY <1>2, <1>3, <2>1
    <3> QED
      BY <1>1, <2>1, <3>1
  <2>2. CASE i # k + 1 /\ j = k + 1
    <3>1. i \in 1 .. k
      BY <1>2, <2>2
    <3>2. p[i].notice \in NoticesIn(jobs)
      BY <1>1, <1>2, <3>1 DEF NoticesIn
    <3> QED
      BY <1>1, <2>2, <3>2
  <2>3. CASE i # k + 1 /\ j # k + 1
    <3>1. i \in 1 .. k /\ j \in 1 .. k
      BY <1>2, <2>3
    <3> QED
      BY <1>1, <1>2, <1>3, <3>1 DEF Lined
  <2> QED
    BY <2>1, <2>2, <2>3
<1> QED
  BY <1>2, <1>3 DEF Lined, p

(* What is left is in order, behind the job that was taken.                *)
LEMMA LinedTaken ==
  ASSUME NEW q, NEW jobs \in Seq(Jobs), jobs # <<>>, Lined(q, jobs)
  PROVE  /\ Lined(q, Front(jobs))
         /\ \A m \in NoticesIn(jobs) : InOrder(q, Last(jobs).notice, m)
<1> DEFINE p == Front(jobs)
           k == Len(jobs)
<1>1. k \in Nat \ {0} /\ DOMAIN jobs = 1 .. k
  BY EmptySeq, LenProperties
<1>2. \A i \in 1 .. k - 1 : p[i] = jobs[i]
  <2>1. \A i \in 1 .. k : jobs[i] \in Jobs
    BY <1>1, ElementOfSeq
  <2>2. \A i \in 1 .. k - 1 : jobs[i] \in Jobs
    BY <1>1, <2>1
  <2>3. \A i \in 1 .. k - 1 - 1 + 1 : p[i] = jobs[1 + i - 1]
    BY <1>1, <2>2, SubSeqProperties DEF Front
  <2>4. \A i \in 1 .. k - 1 : i \in 1 .. k - 1 - 1 + 1 /\ 1 + i - 1 = i
    <3> HIDE DEF k
    <3> QED
      BY <1>1
  <2> HIDE DEF p, k
  <2> QED
    BY <2>3, <2>4
<1>3. DOMAIN p = 1 .. k - 1
  BY TakeLast, LenProperties
<1> HIDE DEF p, k
<1>4. Lined(q, p)
  <2>1. \A i \in 1 .. k - 1 : i \in DOMAIN jobs
    BY <1>1
  <2> QED
    BY <1>2, <1>3, <2>1 DEF Lined
<1>5. ASSUME NEW i \in DOMAIN jobs
      PROVE  InOrder(q, jobs[k].notice, jobs[i].notice)
  <2>1. k \in DOMAIN jobs /\ i <= k
    BY <1>1
  <2> QED
    BY <2>1 DEF Lined
<1>6. \A m \in NoticesIn(jobs) : InOrder(q, jobs[k].notice, m)
  BY <1>5 DEF NoticesIn
<1> QED
  BY <1>4, <1>6 DEF Last, p, k

-----------------------------------------------------------------------------
(* The line after each action.                                             *)

(* A row that gets the notice of the job in hand stays in order.           *)
LEMMA RowExtended ==
  ASSUME NEW q, NEW row \in Seq(Notices), NEW n \in Notices, NEW next, NEW rest,
         RowInOrder(q, row, next), n \in next, rest \subseteq next,
         InOrder(q, n, n), \A m \in rest : InOrder(q, n, m)
  PROVE  RowInOrder(q, Append(row, n), rest)
<1> DEFINE p == Append(row, n)
           k == Len(row)
<1>1. /\ DOMAIN row = 1 .. k /\ k \in Nat
      /\ p \in Seq(Notices) /\ Len(p) = k + 1
      /\ \A i \in 1 .. k : p[i] = row[i]
      /\ p[k + 1] = n
  BY AppendProperties, LenProperties
<1>2. DOMAIN p = 1 .. k + 1
  BY <1>1, LenProperties
<1> HIDE DEF p, k
<1>3. ASSUME NEW i \in 1 .. k + 1, NEW m \in rest
      PROVE  InOrder(q, p[i], m)
  <2>1. CASE i = k + 1
    BY <1>1, <2>1
  <2>2. CASE i # k + 1
    <3>1. i \in 1 .. k
      BY <1>1, <2>2
    <3> QED
      BY <1>1, <3>1 DEF RowInOrder
  <2> QED
    BY <2>1, <2>2
<1>4. ASSUME NEW i \in 1 .. k + 1, NEW j \in 1 .. k + 1, i <= j
      PROVE  InOrder(q, p[i], p[j])
  <2>1. CASE i = k + 1
    <3>1. j = k + 1
      BY <1>1, <1>4, <2>1
    <3> QED
      BY <1>1, <2>1, <3>1
  <2>2. CASE i # k + 1 /\ j = k + 1
    <3>1. i \in 1 .. k
      BY <1>1, <2>2
    <3> QED
      BY <1>1, <2>2, <3>1 DEF RowInOrder
  <2>3. CASE i # k + 1 /\ j # k + 1
    <3>1. i \in 1 .. k /\ j \in 1 .. k
      BY <1>1, <2>3
    <3> QED
      BY <1>1, <1>4, <3>1 DEF RowInOrder
  <2> QED
    BY <2>1, <2>2, <2>3
<1> QED
  BY <1>2, <1>3, <1>4 DEF RowInOrder, p

(* Less may be on its way without disturbing a row.                        *)
LEMMA RowKept ==
  ASSUME NEW q, NEW row, NEW next, NEW rest, RowInOrder(q, row, next), rest \subseteq next
  PROVE  RowInOrder(q, row, rest)
BY DEF RowInOrder

(* Nothing is disturbed by a step that leaves the line alone, or drops the *)
(* job in hand.                                                            *)
LEMMA LineLeftAlone ==
  ASSUME Orderly, UNCHANGED <<redis, memory, inbox, admitted, outages>>, InHand' \subseteq InHand
  PROVE  Orderly'
<1> SUFFICES ASSUME outages = 0
             PROVE  (memory = <<>> /\ Lined(admitted, redis) /\ HandInOrder /\ RowsInOrder)'
  BY DEF Orderly
<1>1. memory' = <<>> /\ Lined(admitted', redis')
  BY DEF Orderly
<1>2. NoticesIn(redis)' = NoticesIn(redis)
  BY DEF NoticesIn
<1>3. HandInOrder'
  BY <1>2 DEF Orderly, HandInOrder
<1>4. RowsInOrder'
  BY <1>2, RowKept DEF Orderly, RowsInOrder
<1> QED
  BY <1>1, <1>3, <1>4

(* A call that fails ends what is promised.                                *)
LEMMA OutageEnds ==
  ASSUME TypeOK, Outage
  PROVE  outages' # 0
<1>1. outages \in Nat
  BY QueueAssumption DEF TypeOK
<1> QED
  BY <1>1 DEF Outage

(* A new job goes to the end of the line, behind all that was admitted.    *)
LEMMA EnqueueOrderly ==
  ASSUME TypeOK, Orderly, NEW n \in Notices, Enqueue(n)
  PROVE  Orderly'
<1> DEFINE job == [notice |-> n, tries |-> 0]
<1>1. job \in Jobs /\ job.notice = n
  BY QueueAssumption DEF Jobs
<1>2. UNCHANGED <<worker, inbox>>
  BY DEF Enqueue, workerVars
<1>3. InHand' = InHand
  BY <1>2 DEF InHand
<1>4. CASE PushFails(Cons(job, redis))
  BY <1>4, OutageEnds DEF PushFails, Orderly
<1>5. CASE ~RedisHasRoom /\ UNCHANGED <<redis, memory, admitted, outages>>
  BY <1>2, <1>3, <1>5, LineLeftAlone
<1>6. CASE /\ RedisHasRoom /\ redis' = Cons(job, redis)
           /\ admitted' = Append(admitted, n) /\ UNCHANGED <<memory, outages>>
  <2>0. SUFFICES ASSUME outages = 0
                 PROVE  (memory = <<>> /\ Lined(admitted, redis) /\ HandInOrder /\ RowsInOrder)'
    BY <1>6 DEF Orderly
  <2>1. memory = <<>> /\ Lined(admitted, redis) /\ HandInOrder /\ RowsInOrder
    BY <2>0 DEF Orderly
  <2>2. /\ redis \in Seq(Jobs) /\ admitted \in Seq(Notices)
        /\ DOMAIN redis = 1 .. Len(redis) /\ Len(redis) \in Nat
    BY LenProperties DEF TypeOK
  <2>3. /\ \A x, y : InOrder(admitted, x, y) => InOrder(admitted', x, y)
        /\ \A x : InOrder(admitted, x, x) => InOrder(admitted', x, n)
        /\ InOrder(admitted', n, n)
    BY <1>6, <2>2, AdmittedLast
  <2>4. \A x, y : InOrder(admitted, x, y) => InOrder(admitted', x, n)
    BY <2>2, <2>3, BothAdmitted
  <2>5. Lined(admitted', redis)
    BY <2>1, <2>3 DEF Lined
  <2>6. \A m \in NoticesIn(redis) : InOrder(admitted', m, n)
    <3>1. \A i \in DOMAIN redis : i <= i
      BY <2>2
    <3>2. \A i \in DOMAIN redis : InOrder(admitted, redis[i].notice, redis[i].notice)
      BY <2>1, <3>1 DEF Lined
    <3> QED
      BY <2>4, <3>2 DEF NoticesIn
  <2>7. Lined(admitted', redis') /\ NoticesIn(redis') = NoticesIn(redis) \cup {n}
    <3> HIDE DEF job
    <3> QED
      BY <1>1, <1>6, <2>2, <2>3, <2>5, <2>6, LinedFirst, PutFirst
  <2>8. HandInOrder'
    BY <1>3, <2>1, <2>3, <2>4, <2>7 DEF HandInOrder
  <2>9. ASSUME NEW r \in Rows
        PROVE  RowInOrder(admitted', inbox[r], NoticesIn(redis') \cup InHand)
    <3>1. RowInOrder(admitted, inbox[r], NoticesIn(redis) \cup InHand)
      BY <2>1 DEF RowsInOrder
    <3>2. inbox[r] \in Seq(Notices)
      BY DEF TypeOK
    <3>3. \A i \in DOMAIN inbox[r] : i <= i
      BY <3>2, LenProperties
    <3>4. \A i \in DOMAIN inbox[r] : InOrder(admitted, inbox[r][i], inbox[r][i])
      BY <3>1, <3>3 DEF RowInOrder
    <3>5. \A i \in DOMAIN inbox[r] : InOrder(admitted', inbox[r][i], n)
      BY <2>3, <3>4
    <3> QED
      BY <2>3, <2>7, <3>1, <3>5 DEF RowInOrder
  <2> QED
    BY <1>2, <1>3, <1>6, <2>1, <2>7, <2>8, <2>9 DEF RowsInOrder
<1> QED
  BY <1>4, <1>5, <1>6 DEF Enqueue, Pushed

(* The job that is taken was the next in the line.                         *)
LEMMA PopRedisOrderly ==
  ASSUME TypeOK, Orderly, PopRedis
  PROVE  Orderly'
<1> SUFFICES ASSUME outages = 0
             PROVE  (memory = <<>> /\ Lined(admitted, redis) /\ HandInOrder /\ RowsInOrder)'
  BY DEF Orderly, PopRedis
<1>1. memory = <<>> /\ Lined(admitted, redis) /\ HandInOrder /\ RowsInOrder
  BY DEF Orderly
<1>2. /\ redis \in Seq(Jobs) /\ redis # <<>> /\ worker.at = "popping"
      /\ redis' = Front(redis) /\ worker' = Taken(Last(redis))
      /\ UNCHANGED <<memory, inbox, admitted>>
  BY DEF TypeOK, PopRedis
<1>3. /\ Last(redis) \in Jobs
      /\ NoticesIn(redis) = NoticesIn(redis') \cup {Last(redis).notice}
  BY <1>2, TakeLast
<1>4. /\ Lined(admitted, redis')
      /\ \A m \in NoticesIn(redis) : InOrder(admitted, Last(redis).notice, m)
  BY <1>1, <1>2, LinedTaken
<1>5. InHand' = {Last(redis).notice} /\ InHand = {}
  BY <1>2 DEF InHand, Taken
<1>6. HandInOrder'
  BY <1>2, <1>3, <1>4, <1>5 DEF HandInOrder
<1>7. RowsInOrder'
  BY <1>1, <1>2, <1>3, <1>5, RowKept DEF RowsInOrder
<1> QED
  BY <1>1, <1>2, <1>4, <1>6, <1>7

(* Memory is empty while Redis answers: nothing is taken from it.          *)
LEMMA PopMemoryOrderly ==
  ASSUME TypeOK, Orderly, PopMemory
  PROVE  Orderly'
<1>1. CASE Outage
  BY <1>1, OutageEnds DEF Orderly
<1>2. CASE UNCHANGED <<redis, outages>> /\ outages = 0
  <2>1. memory = <<>>
    BY <1>2 DEF Orderly
  <2>2. UNCHANGED <<redis, memory, inbox, admitted, outages>> /\ worker' = Idle
    BY <1>2, <2>1 DEF PopMemory
  <2>3. InHand' = {}
    BY <2>2 DEF InHand, Idle
  <2> QED
    BY <2>2, <2>3, LineLeftAlone
<1>3. CASE UNCHANGED outages /\ outages # 0
  BY <1>3 DEF Orderly
<1> QED
  BY <1>1, <1>2, <1>3 DEF PopMemory

(* A row gets the notice in hand, which then is behind all it has held.    *)
LEMMA WrittenOrderly ==
  ASSUME TypeOK, Orderly, worker.at = "handling", inbox' = Written(worker.job.notice),
         UNCHANGED <<redis, memory, admitted, outages>>, InHand' \subseteq InHand
  PROVE  Orderly'
<1> DEFINE n == worker.job.notice
<1> SUFFICES ASSUME outages = 0
             PROVE  (memory = <<>> /\ Lined(admitted, redis) /\ HandInOrder /\ RowsInOrder)'
  BY DEF Orderly
<1>1. memory = <<>> /\ Lined(admitted, redis) /\ HandInOrder /\ RowsInOrder
  BY DEF Orderly
<1>2. n \in Notices /\ InHand = {n} /\ inbox \in [Rows -> Seq(Notices)]
  BY DEF TypeOK, Jobs, InHand
<1> HIDE DEF n
<1>3. NoticesIn(redis') = NoticesIn(redis)
  OBVIOUS
<1>4. HandInOrder'
  BY <1>1, <1>3 DEF HandInOrder
<1>5. ASSUME NEW r \in Rows
      PROVE  RowInOrder(admitted, inbox'[r], NoticesIn(redis) \cup InHand)
  <2>1. RowInOrder(admitted, inbox[r], NoticesIn(redis) \cup InHand)
    BY <1>1 DEF RowsInOrder
  <2>2. CASE r # RowOf(n)
    BY <1>2, <2>1, <2>2 DEF Written, n
  <2>3. CASE r = RowOf(n)
    <3>1. inbox'[r] = Append(inbox[r], n)
      BY <1>2, <1>5, <2>3 DEF Written, n
    <3>2. InOrder(admitted, n, n) /\ \A m \in NoticesIn(redis) : InOrder(admitted, n, m)
      BY <1>1, <1>2 DEF HandInOrder
    <3>3. inbox[r] \in Seq(Notices)
      BY <1>2, <1>5
    <3>4. n \in NoticesIn(redis) \cup InHand
      BY <1>2
    <3>5. \A m \in NoticesIn(redis) \cup InHand : InOrder(admitted, n, m)
      BY <1>2, <3>2
    <3> QED
      BY <1>2, <2>1, <3>1, <3>2, <3>3, <3>4, <3>5, RowExtended
  <2> QED
    BY <2>2, <2>3
<1>6. RowsInOrder'
  BY <1>3, <1>5, RowKept DEF RowsInOrder
<1> QED
  BY <1>1, <1>4, <1>6

(* The job in hand ends in its row.                                        *)
LEMMA DeliverOrderly ==
  ASSUME TypeOK, Orderly, Deliver
  PROVE  Orderly'
<1>1. /\ UNCHANGED <<redis, memory, admitted, outages>> /\ worker.at = "handling"
      /\ inbox' = Written(worker.job.notice) /\ worker' = Loop(worker.inspected)
  BY DEF Deliver, queueVars
<1>2. InHand' = {}
  BY <1>1 DEF InHand, Loop, Idle
<1> QED
  BY <1>1, <1>2, WrittenOrderly

(* A failed attempt leaves its job in hand or drops it; either way what it *)
(* may have written is in order.                                           *)
LEMMA FailDeliveryOrderly ==
  ASSUME TypeOK, Orderly, FailDelivery
  PROVE  Orderly'
<1>1. /\ UNCHANGED <<redis, memory, admitted, outages>> /\ worker.at = "handling"
      /\ inbox' = inbox \/ inbox' = Written(worker.job.notice)
  BY DEF FailDelivery
<1>2. InHand' \subseteq InHand
  <2>1. InHand = {worker.job.notice} /\ worker.job \in Jobs
    BY <1>1 DEF InHand, TypeOK
  <2>2. CASE worker' = Loop(worker.inspected)
    BY <2>2 DEF InHand, Loop, Idle
  <2>3. CASE worker' = [worker EXCEPT !.at = "requeueing", !.job.tries = @ + 1]
    <3>1. worker \in [at : Places, job : Jobs \cup {NoJob}, inspected : 0 .. Batch]
      BY DEF TypeOK
    <3>2. worker'.at = "requeueing" /\ worker'.job.notice = worker.job.notice
      BY <2>1, <2>3, <3>1 DEF Jobs
    <3> QED
      BY <2>1, <3>2 DEF InHand
  <2> QED
    BY <2>2, <2>3 DEF FailDelivery
<1> QED
  BY <1>1, <1>2, LineLeftAlone, WrittenOrderly

(* The job in hand was the next in the line, and is so again.              *)
LEMMA RequeueOrderly ==
  ASSUME TypeOK, Orderly, Requeue
  PROVE  Orderly'
<1> DEFINE job == worker.job
           n == job.notice
<1>1. /\ worker.at \in {"requeueing", "postponing"} /\ job \in Jobs
      /\ InHand = {n} /\ n \in Notices
  BY DEF Requeue, TypeOK, InHand, Jobs
<1>2. /\ UNCHANGED <<inbox, admitted>>
      /\ worker' = Idle \/ worker' = Loop(worker.inspected)
  BY DEF Requeue
<1>3. InHand' = {}
  BY <1>2 DEF InHand, Loop, Idle
<1>4. CASE PushFails(Requeued(job))
  BY <1>4, OutageEnds DEF PushFails, Orderly
<1>5. CASE ~RedisHasRoom /\ UNCHANGED <<redis, memory, outages>>
  BY <1>2, <1>3, <1>5, LineLeftAlone
<1>6. CASE redis' = Append(redis, job) /\ UNCHANGED <<memory, outages>>
  <2> SUFFICES ASSUME outages = 0
               PROVE  (memory = <<>> /\ Lined(admitted, redis) /\ HandInOrder /\ RowsInOrder)'
    BY <1>6 DEF Orderly
  <2>1. memory = <<>> /\ Lined(admitted, redis) /\ HandInOrder /\ RowsInOrder
    BY DEF Orderly
  <2>2. redis \in Seq(Jobs)
    BY DEF TypeOK
  <2>3. InOrder(admitted, n, n) /\ \A m \in NoticesIn(redis) : InOrder(admitted, n, m)
    BY <1>1, <2>1 DEF HandInOrder
  <2> HIDE DEF job
  <2>4. Lined(admitted, redis') /\ NoticesIn(redis') = NoticesIn(redis) \cup {n}
    BY <1>1, <1>6, <2>1, <2>2, <2>3, LinedLast, PutLast
  <2>5. HandInOrder'
    BY <1>3 DEF HandInOrder
  <2>6. RowsInOrder'
    <3>1. NoticesIn(redis') \cup InHand' = NoticesIn(redis) \cup InHand
      BY <1>1, <1>3, <2>4
    <3> QED
      BY <1>2, <2>1, <3>1 DEF RowsInOrder
  <2> QED
    BY <1>2, <1>6, <2>1, <2>4, <2>5, <2>6
<1> QED
  BY <1>4, <1>5, <1>6 DEF Requeue, Pushed, Requeued

(* The rest of the worker and the server leave the line alone.             *)
LEMMA OthersOrderly ==
  ASSUME Orderly,
         \/ Tick \/ Postpone \/ Discard
         \/ \E n \in Notices : Connect(n) \/ Send(n) \/ Abort(n) \/ Admit(n)
         \/ \E s \in Scans : StartScan(s) \/ EndScan(s)
         \/ Stop \/ UNCHANGED vars,
         TypeOK
  PROVE  Orderly'
<1>1. UNCHANGED <<redis, memory, inbox, admitted, outages>>
  BY DEF Tick, Postpone, Discard, Connect, Send, Abort, Admit, StartScan, EndScan, Stop,
     Shutdown, CloseIdle, FinishDrain, TimeOut, vars, queueVars, workerVars
<1>2. CASE Tick \/ Discard
  <2>1. worker' = Loop(0) \/ worker' = Loop(worker.inspected)
    BY <1>2 DEF Tick, Discard
  <2>2. InHand' = {}
    BY <2>1 DEF InHand, Loop, Idle
  <2> QED
    BY <1>1, <2>2, LineLeftAlone
<1>3. CASE Postpone
  <2>1. /\ worker.at = "handling" /\ worker' = [worker EXCEPT !.at = "postponing"]
        /\ worker \in [at : Places, job : Jobs \cup {NoJob}, inspected : 0 .. Batch]
    BY <1>3 DEF Postpone, TypeOK
  <2>2. InHand' = InHand
    BY <2>1 DEF InHand
  <2> QED
    BY <1>1, <2>2, LineLeftAlone
<1>4. CASE UNCHANGED worker
  <2>1. InHand' = InHand
    BY <1>4 DEF InHand
  <2> QED
    BY <1>1, <2>1, LineLeftAlone
<1> QED
  BY <1>2, <1>3, <1>4 DEF Connect, Send, Abort, Admit, StartScan, EndScan, Stop,
     Shutdown, CloseIdle, FinishDrain, TimeOut, vars, workerVars

(* The jobs the process starts with were admitted from the end of the list *)
(* to its beginning.                                                       *)
LEMMA InitOrderly ==
  ASSUME Init, TypeOK
  PROVE  Orderly
<1> DEFINE k == Len(redis)
           names == [i \in DOMAIN redis |-> redis[i].notice]
<1>1. redis \in Seq(Jobs) /\ DOMAIN redis = 1 .. k /\ k \in Nat
  BY LenProperties DEF TypeOK
<1>2. \A i \in 1 .. k : redis[i].notice \in Notices
  <2>1. \A i \in 1 .. k : redis[i] \in Jobs
    BY <1>1, ElementOfSeq
  <2> HIDE DEF k
  <2> QED
    BY <2>1 DEF Jobs
<1>3. names \in [1 .. k -> Notices]
  BY <1>1, <1>2
<1>4. names \in Seq(Notices) /\ Len(names) = k
  BY <1>1, <1>3
<1>5. admitted = [i \in 1 .. k |-> names[k - i + 1]]
  BY <1>4 DEF Init, Reverse
<1>6. \A i \in 1 .. k : names[i] = redis[i].notice
  BY <1>1
<1> HIDE DEF k, names
<1>7. ASSUME NEW i \in 1 .. k, NEW j \in 1 .. k, i <= j
      PROVE  InOrder(admitted, redis[j].notice, redis[i].notice)
  <2> DEFINE a == k - j + 1
             b == k - i + 1
  <2>1. a \in 1 .. k /\ b \in 1 .. k /\ a <= b /\ k - a + 1 = j /\ k - b + 1 = i
    BY <1>1, <1>7
  <2> HIDE DEF a, b
  <2>2. admitted[a] = redis[j].notice /\ admitted[b] = redis[i].notice
    BY <1>5, <1>6, <2>1
  <2>3. a \in DOMAIN admitted /\ b \in DOMAIN admitted
    BY <1>5, <2>1
  <2> QED
    BY <2>1, <2>2, <2>3 DEF InOrder
<1>8. Lined(admitted, redis)
  BY <1>1, <1>7 DEF Lined
<1>9. memory = <<>> /\ InHand = {} /\ \A r \in Rows : inbox[r] = <<>>
  BY DEF Init, InHand, Idle
<1>10. \A r \in Rows : DOMAIN inbox[r] = {}
  BY <1>9
<1> QED
  BY <1>8, <1>9, <1>10 DEF Orderly, HandInOrder, RowsInOrder, RowInOrder

(* Every step keeps the line in order.                                     *)
LEMMA LineStays ==
  ASSUME LineInv, [Next]_vars
  PROVE  LineInv'
<1>1. QueueInv'
  BY InvariantStays DEF LineInv
<1>2. TypeOK /\ Orderly
  BY DEF LineInv, QueueInv
<1>3. Orderly'
  <2>1. CASE Work
    BY <1>2, <2>1, PopRedisOrderly, PopMemoryOrderly, DeliverOrderly, FailDeliveryOrderly,
       RequeueOrderly, OthersOrderly DEF Work
  <2>2. CASE \E n \in Notices : Serve(n)
    BY <1>2, <2>2, EnqueueOrderly, OthersOrderly DEF Serve
  <2>3. CASE (\E s \in Scans : StartScan(s) \/ EndScan(s)) \/ Stop \/ UNCHANGED vars
    BY <1>2, <2>3, OthersOrderly
  <2> QED
    BY <2>1, <2>2, <2>3 DEF Next
<1> QED
  BY <1>1, <1>3 DEF LineInv

(* While Redis answers, the rows, the job in hand and the list in Redis    *)
(* are one line in the order in which the notices were accepted.           *)
THEOREM LineInvariant ==
  Spec => []LineInv
<1>1. Init => LineInv
  BY InitHolds, InitOrderly DEF LineInv, QueueInv
<1> QED
  BY <1>1, LineStays, PTL DEF Spec

(* While Redis answers, a row never goes back to a notice accepted before  *)
(* the one it holds, whatever is retried, postponed or written twice.      *)
THEOREM RowsNeverGoBack ==
  Spec => []NoticesInOrder
<1>1. LineInv => NoticesInOrder
  <2> SUFFICES ASSUME LineInv, outages = 0, NEW r \in Rows,
                      NEW i \in DOMAIN inbox[r], NEW j \in DOMAIN inbox[r], i < j
               PROVE  InOrder(admitted, inbox[r][i], inbox[r][j])
    BY DEF NoticesInOrder, InOrder
  <2>1. inbox[r] \in Seq(Notices)
    BY DEF LineInv, QueueInv, TypeOK
  <2>2. i <= j
    BY <2>1, LenProperties
  <2> QED
    BY <2>2 DEF LineInv, Orderly, RowsInOrder, RowInOrder
<1> QED
  BY <1>1, LineInvariant, PTL

=============================================================================
