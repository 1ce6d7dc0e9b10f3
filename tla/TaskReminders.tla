---------------------------- MODULE TaskReminders ----------------------------
(***************************************************************************)
(* The scan that reminds people of the due months of a review.  Any timer  *)
(* of any process may scan; a lease kept in the database lets one in at a  *)
(* time, and a cursor kept with it lets the next one go on where a scan    *)
(* ended, was cut short or died.                                           *)
(*                                                                         *)
(* Tasks and users are numbered as their ids are ordered.  The scan of the *)
(* ordinary tasks is this one with tasks that are planned from the start,  *)
(* are in no stage and are not marked overdue.                             *)
(***************************************************************************)
EXTENDS Naturals, FiniteSets

CONSTANTS Scanners, Tasks, Users,
          AbleAtStart,     \* the users who have the role of the review at first
          None, Lost,      \* no token; the token of a scan that has died
          PlannedAt, DueAt,
          Day,             \* the length of a business day
          PageSize, MaxScanned, MaxRecipients,   \* of one scan
          MaxClock, MaxChanges, MaxFaults        \* bounds

ASSUME ReminderAssumption ==
  /\ IsFiniteSet(Tasks) /\ Tasks \subseteq Nat \ {0}
  /\ IsFiniteSet(Users) /\ Users \subseteq Nat \ {0} /\ None \notin Users
  /\ AbleAtStart \subseteq Users
  /\ None \notin Scanners /\ Lost \notin Scanners /\ None # Lost
  /\ PlannedAt \in [Tasks -> Nat] /\ DueAt \in [Tasks -> Nat]
  /\ {Day, PageSize, MaxScanned, MaxRecipients} \subseteq Nat \ {0}
  /\ {MaxClock, MaxChanges, MaxFaults} \subseteq Nat

VARIABLES now,
          task,      \* status, owner and epoch of each month
          review,    \* the review they belong to: its round, and whether it is open
          able,      \* the users who may be given these tasks
          told,      \* the reminders, and what each is bound to
          row,       \* the scan state: token, whether the lease runs, cursor
          scan,      \* the local variables of each scanner
          changes, faults,
          served,    \* history: who was reminded of what since the cursor was reset
          replays    \* history: reminders repeated within such a pass

workVars == <<task, review, able>>
historyVars == <<served, replays>>
vars == <<now, workVars, told, row, scan, changes, faults, historyVars>>

initialCursor == [after |-> 0, current |-> 0, user |-> 0]
Cursors == [after : Tasks \cup {0}, current : Tasks \cup {0}, user : Users \cup {0}]

DayOf(time) == time \div Day
Key(kind, day) == [kind |-> kind, day |-> day]
Keys == {Key("ACTIVATE", 0), Key("DUE_SOON", 0)}
          \cup {Key("OVERDUE_DAY", d) : d \in 0..DayOf(MaxClock)}
Bindings == [epoch : Nat, round : Nat]

Steps == {"idle", "load", "pick", "page", "remind", "save", "end"}

-----------------------------------------------------------------------------

First(S) == CHOOSE x \in S : \A y \in S : x <= y

Open(t) == task[t].status \in {"open", "overdue"}

(* What a scan that began at the given time may remind of, and whom.       *)
Target(t, time) == Open(t) /\ PlannedAt[t] <= time /\ review.open

Receivers(t) == {u \in able : task[t].owner \in {None, u}}

Binding(t) == [epoch |-> task[t].epoch, round |-> review.round]

KeysFor(t, time) ==
  {Key("ACTIVATE", 0)}
    \cup IF DueAt[t] < time THEN {Key("OVERDUE_DAY", DayOf(time))}
         ELSE IF DueAt[t] < (DayOf(time) + 1) * Day THEN {Key("DUE_SOON", 0)} ELSE {}

(* A reminder there is already is bound anew.                              *)
Bound(t, u, keys, binding) ==
  [told EXCEPT ![t][u] = [k \in Keys |-> IF k \in keys THEN {binding} ELSE @[k]]]

(* Mutant: any lease that runs will do.                                    *)
HoldsSomeones(s) == row.live

Holds(s) == row.token = s

Idle == [at |-> "idle", next |-> "end", time |-> 0, cursor |-> initialCursor,
         page |-> {}, more |-> FALSE, scanned |-> 0, recipients |-> 0]
Ended == [Idle EXCEPT !.at = "end"]

Running(s) == scan[s].at # "idle"

-----------------------------------------------------------------------------
(* The scan, one transaction or statement of it at a time.                 *)

Begin(s) ==
  /\ ~Running(s)
  /\ ~row.live
  /\ row' = [row EXCEPT !.token = s, !.live = TRUE]
  /\ scan' = [scan EXCEPT ![s] = [@ EXCEPT !.at = "load", !.time = now]]
  /\ UNCHANGED <<now, workVars, told, changes, faults, historyVars>>

Load(s) ==
  /\ scan[s].at = "load"
  /\ scan' = [scan EXCEPT ![s] = [@ EXCEPT !.at = "pick", !.cursor = row.cursor]]
  /\ UNCHANGED <<now, workVars, told, row, changes, faults, historyVars>>

Candidates(s) ==
  LET c == scan[s].cursor IN
  IF c.current # 0 THEN {c.current}
  ELSE {t \in Tasks : t > c.after /\ Open(t) /\ PlannedAt[t] <= scan[s].time}

Exhausted(s) == scan[s].scanned >= MaxScanned \/ scan[s].recipients >= MaxRecipients

(* Mutant: past the last task the cursor stays where it is.                *)
WrappedNowhere(l) == [l EXCEPT !.at = "save", !.next = "end"]

Wrapped(l) == [l EXCEPT !.cursor = initialCursor, !.at = "save", !.next = "end"]

(* The next open task, or, past the last one, the beginning.               *)
Pick(s) ==
  /\ scan[s].at = "pick"
  /\ scan' = [scan EXCEPT ![s] =
       IF Exhausted(s) THEN Ended
       ELSE IF Candidates(s) = {} THEN Wrapped(@)
       ELSE [@ EXCEPT !.at = "page", !.cursor.current = First(Candidates(s))]]
  /\ UNCHANGED <<now, workVars, told, row, changes, faults, historyVars>>

(* Mutant: a page takes no account of those reminded already.              *)
TakeWholePage(l) == PageSize

Take(l) ==
  IF PageSize <= MaxRecipients - l.recipients THEN PageSize ELSE MaxRecipients - l.recipients

(* The first n of a set of users.                                          *)
FirstOf(n, S) == {u \in S : Cardinality({v \in S : v < u}) < n}

(* The page done with, the cursor goes past the task unless users are left. *)
PastPage(l) ==
  IF l.page # {} THEN [l EXCEPT !.at = "remind"]
  ELSE IF l.more THEN [l EXCEPT !.at = "pick", !.next = "end", !.more = FALSE]
  ELSE [l EXCEPT !.at = "save", !.next = "pick", !.scanned = @ + 1,
                 !.cursor = [initialCursor EXCEPT !.after = l.cursor.current]]

(* Reads a page of receivers, under the lock of the project, and marks a   *)
(* month overdue when its time is up.                                      *)
ReadPage(s) ==
  LET l  == scan[s]
      t  == l.cursor.current
      to == IF Target(t, l.time) THEN {u \in Receivers(t) : u > l.cursor.user} ELSE {}
  IN
  /\ l.at = "page"
  /\ task' = IF Target(t, l.time) /\ DueAt[t] < l.time
             THEN [task EXCEPT ![t].status = "overdue"] ELSE task
  /\ scan' = [scan EXCEPT ![s] = PastPage([l EXCEPT !.page = FirstOf(Take(l), to),
                                             !.more = Cardinality(to) > Take(l)])]
  /\ UNCHANGED <<now, review, able, told, row, changes, faults, historyVars>>

(* Reads the task and the user again, and reminds them if both still stand. *)
Remind(s) ==
  LET l == scan[s] t == l.cursor.current u == First(l.page) IN
  /\ l.at = "remind"
  /\ IF Target(t, l.time) /\ u \in Receivers(t)
     THEN /\ told' = Bound(t, u, KeysFor(t, l.time), Binding(t))
          /\ served' = served \cup {<<t, u>>}
          /\ replays' = IF <<t, u>> \in served THEN replays + 1 ELSE replays
     ELSE UNCHANGED <<told, historyVars>>
  /\ scan' = [scan EXCEPT ![s] = [l EXCEPT !.page = @ \ {u}, !.recipients = @ + 1,
                                    !.cursor.user = u, !.at = "save", !.next = "remind"]]
  /\ UNCHANGED <<now, workVars, row, changes, faults>>

(* Stores the cursor and renews the lease; a scan that lost it ends.       *)
Checkpoint(s) ==
  LET l == scan[s] IN
  /\ l.at = "save"
  /\ IF Holds(s)
     THEN /\ row' = [row EXCEPT !.cursor = l.cursor, !.live = TRUE]
          /\ scan' = [scan EXCEPT ![s] = CASE l.next = "remind" -> PastPage(l)
                                           [] l.next = "pick" -> [l EXCEPT !.at = "pick", !.next = "end"]
                                           [] l.next = "end" -> Ended]
          /\ served' = IF l.cursor = initialCursor THEN {} ELSE served
     ELSE /\ scan' = [scan EXCEPT ![s] = Ended]
          /\ UNCHANGED <<row, served>>
  /\ UNCHANGED <<now, workVars, told, changes, faults, replays>>

(* The lease is given back, whatever ended the scan.                       *)
Release(s) ==
  /\ scan[s].at = "end"
  /\ row' = IF row.token = s THEN [row EXCEPT !.token = None, !.live = FALSE] ELSE row
  /\ scan' = [scan EXCEPT ![s] = Idle]
  /\ UNCHANGED <<now, workVars, told, changes, faults, historyVars>>

-----------------------------------------------------------------------------
(* Faults.  A lease runs for a minute after its last renewal.              *)

(* The database or the connection fails: the scan ends with an exception.  *)
Fail(s) ==
  /\ scan[s].at \notin {"idle", "end"} /\ faults < MaxFaults
  /\ scan' = [scan EXCEPT ![s] = Ended]
  /\ faults' = faults + 1
  /\ UNCHANGED <<now, workVars, told, row, changes, historyVars>>

(* The process dies.                                                       *)
Crash(s) ==
  /\ Running(s) /\ faults < MaxFaults
  /\ row' = IF row.token = s THEN [row EXCEPT !.token = Lost] ELSE row
  /\ scan' = [scan EXCEPT ![s] = Idle]
  /\ faults' = faults + 1
  /\ UNCHANGED <<now, workVars, told, changes, historyVars>>

Expire ==
  /\ row.live /\ row.token = Lost
  /\ row' = [row EXCEPT !.live = FALSE]
  /\ UNCHANGED <<now, workVars, told, scan, changes, faults, historyVars>>

(* A step of the scan takes longer than the lease runs.                    *)
Outlive ==
  /\ row.live /\ row.token \in Scanners /\ faults < MaxFaults
  /\ row' = [row EXCEPT !.live = FALSE]
  /\ faults' = faults + 1
  /\ UNCHANGED <<now, workVars, told, scan, changes, historyVars>>

-----------------------------------------------------------------------------
(* What others do to the tasks meanwhile.                                  *)

Tick == /\ now < MaxClock /\ now' = now + 1
        /\ UNCHANGED <<workVars, told, row, scan, changes, faults, historyVars>>

Change == /\ changes < MaxChanges /\ changes' = changes + 1
          /\ UNCHANGED <<now, row, scan, faults, historyVars>>

(* A claim or a transfer reminds the new owner itself.                     *)
Assign(t, u) ==
  /\ Change
  /\ Target(t, now) /\ u \in able /\ task[t].owner # u
  /\ task' = [task EXCEPT ![t].owner = u, ![t].epoch = @ + 1]
  /\ told' = Bound(t, u, {Key("ACTIVATE", 0)},
                   [epoch |-> task[t].epoch + 1, round |-> review.round])
  /\ UNCHANGED <<review, able>>

Close(t) ==
  /\ Change
  /\ Target(t, now)
  /\ task' = [task EXCEPT ![t].status = "closed"]
  /\ UNCHANGED <<review, able, told>>

(* A user gets or loses the role.  Tasks whose owner may no longer have    *)
(* them, or that nobody has, go to the only user left or to the queue.     *)
Qualify(S) ==
  LET sole == IF Cardinality(S) = 1 THEN First(S) ELSE None
      moved == {t \in Tasks : Open(t) /\ task[t].owner \notin S /\ task[t].owner # sole}
  IN
  /\ Change
  /\ \E u \in Users : S \in {able \cup {u}, able \ {u}} /\ S # able
  /\ able' = S
  /\ task' = [t \in Tasks |-> IF t \in moved
                THEN [task[t] EXCEPT !.owner = sole, !.epoch = @ + 1] ELSE task[t]]
  /\ UNCHANGED <<review, told>>

(* The review is sent back, and a later round of it opens.                 *)
TurnReview ==
  /\ Change
  /\ review' = IF review.open THEN [review EXCEPT !.open = FALSE]
               ELSE [open |-> TRUE, round |-> review.round + 1]
  /\ UNCHANGED <<task, able, told>>

-----------------------------------------------------------------------------

Init ==
  /\ now = 0
  /\ able = AbleAtStart
  /\ task = [t \in Tasks |-> [status |-> "open", epoch |-> 0,
               owner |-> IF Cardinality(AbleAtStart) = 1 THEN First(AbleAtStart) ELSE None]]
  /\ review = [open |-> TRUE, round |-> 1]
  /\ told = [t \in Tasks |-> [u \in Users |-> [k \in Keys |-> {}]]]
  /\ row = [token |-> None, live |-> FALSE, cursor |-> initialCursor]
  /\ scan = [s \in Scanners |-> Idle]
  /\ changes = 0 /\ faults = 0
  /\ served = {} /\ replays = 0

Work(s) ==
  Load(s) \/ Pick(s) \/ ReadPage(s) \/ Remind(s) \/ Checkpoint(s) \/ Release(s)

Next ==
  \/ \E s \in Scanners : Begin(s) \/ Work(s) \/ Fail(s) \/ Crash(s)
  \/ Expire \/ Outlive \/ Tick \/ TurnReview
  \/ \E t \in Tasks : Close(t) \/ \E u \in Users : Assign(t, u)
  \/ \E S \in SUBSET Users : Qualify(S)

Spec == Init /\ [][Next]_vars

(* A scan that runs goes on, timers keep beginning scans, and a lease that *)
(* nobody renews runs out.                                                 *)
Fairness ==
  /\ \A s \in Scanners : WF_vars(Work(s))
  /\ WF_vars(\E s \in Scanners : Begin(s))
  /\ WF_vars(Expire)

FairSpec == Spec /\ Fairness

-----------------------------------------------------------------------------

Locals == [at : Steps, next : {"pick", "remind", "end"}, time : Nat, cursor : Cursors,
           page : SUBSET Users, more : BOOLEAN,
           scanned : 0..MaxScanned, recipients : 0..MaxRecipients]

(* Types; one scan passes no more tasks and reminds no more users than its *)
(* limits (MaxScanned, MaxRecipients), whatever pages the users came in.   *)
TypeOK ==
  /\ now \in Nat /\ changes \in Nat /\ faults \in Nat /\ replays \in Nat
  /\ task \in [Tasks -> [status : {"open", "overdue", "closed"},
                         owner : Users \cup {None}, epoch : Nat]]
  /\ review \in [open : BOOLEAN, round : Nat]
  /\ able \subseteq Users
  /\ told \in [Tasks -> [Users -> [Keys -> SUBSET Bindings]]]
  /\ row \in [token : Scanners \cup {None, Lost}, live : BOOLEAN, cursor : Cursors]
  /\ scan \in [Scanners -> Locals]
  /\ served \subseteq Tasks \X Users

(* A crash, an error or an expired lease repeats at most the last          *)
(* reminder: in one pass over the tasks, nobody is reminded of a task      *)
(* again more often than scans have broken off or been overtaken.          *)
AtMostOneReplay == replays <= faults

Due(t, u) ==
  /\ Target(t, now) /\ u \in Receivers(t)
  /\ \E k \in KeysFor(t, now) : told[t][u][k] # {Binding(t)}

(* Whoever a due month waits for is told of it as it now is assigned, in   *)
(* the round the review is now in, and told again when it falls overdue;   *)
(* unless that changes, no crash, lost lease or full scan leaves them out. *)
EveryoneReminded ==
  \A t \in Tasks, u \in Users : Due(t, u) ~> ~Due(t, u)

=============================================================================
