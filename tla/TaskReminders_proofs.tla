------------------------ MODULE TaskReminders_proofs ------------------------
(***************************************************************************)
(* Proofs about TaskReminders, for every number of scanners, tasks, users, *)
(* changes and faults.                                                     *)
(***************************************************************************)
EXTENDS TaskReminders, FiniteSetTheorems, TLAPS

-----------------------------------------------------------------------------
(* Finite sets of numbers.                                                 *)

(* Every set of numbers that is not empty has a least one.  The library's  *)
(* induction theorems take a formula as a parameter; that the finite       *)
(* subsets of Nat are well founded does not.                               *)
LEMMA Least ==
  ASSUME NEW T \in SUBSET Nat, T # {}
  PROVE  \E m \in T : \A k \in T : m <= k
<1> DEFINE R == StrictSubsetOrdering(Nat)
           U == {S \in FiniteSubsetsOf(Nat) : \E m \in T : S = 0 .. m - 1}
<1>1. IsWellFoundedOn(R, FiniteSubsetsOf(Nat))
  BY FS_StrictSubsetOrderingWellFounded
<1>2. ASSUME NEW m \in T PROVE 0 .. m - 1 \in U
  BY FS_Interval DEF FiniteSubsetsOf
<1>3. U \subseteq FiniteSubsetsOf(Nat) /\ U # {}
  BY <1>2
<1>4. PICK S \in U : \A V \in U : ~(<<V, S>> \in R)
  <2> HIDE DEF R, U
  <2> QED
    BY <1>1, <1>3, WFMin
<1>5. PICK m \in T : S = 0 .. m - 1
  OBVIOUS
<1>6. ASSUME NEW k \in T, k < m PROVE FALSE
  <2>1. 0 .. k - 1 \in U
    BY <1>2
  <2>2. 0 .. k - 1 \subseteq S /\ 0 .. k - 1 # S
    <3>1. k \in S /\ k \notin 0 .. k - 1
      BY <1>5, <1>6
    <3> QED
      BY <1>5, <1>6, <3>1
  <2>3. <<0 .. k - 1, S>> \in R
    BY <2>1, <2>2 DEF StrictSubsetOrdering
  <2> QED
    BY <1>4, <2>1, <2>3
<1> QED
  BY <1>6

(* First picks the least number.                                           *)
LEMMA FirstIs ==
  ASSUME NEW S \in SUBSET Nat, S # {}
  PROVE  First(S) \in S /\ \A y \in S : First(S) <= y
BY Least DEF First

(* The first n of a set are at most n.                                     *)
LEMMA FirstOfFits ==
  ASSUME NEW S \in SUBSET Nat, IsFiniteSet(S), NEW n \in Nat
  PROVE  /\ FirstOf(n, S) \subseteq S
         /\ IsFiniteSet(FirstOf(n, S))
         /\ Cardinality(FirstOf(n, S)) <= n
<1> DEFINE below(u) == {v \in S : v < u}
           rank == [u \in FirstOf(n, S) |-> Cardinality(below(u))]
<1>1. FirstOf(n, S) \subseteq S
  BY DEF FirstOf
<1>2. ASSUME NEW u \in S PROVE IsFiniteSet(below(u)) /\ Cardinality(below(u)) \in Nat
  <2>1. below(u) \subseteq S
    OBVIOUS
  <2> HIDE DEF below
  <2> QED
    BY <2>1, FS_Subset, FS_CardinalityType
<1>3. ASSUME NEW u \in S, NEW v \in S, u < v
      PROVE  Cardinality(below(u)) < Cardinality(below(v))
  <2>1. below(u) \subseteq below(v) /\ u \in below(v) /\ u \notin below(u)
    <3>1. u \in Nat /\ v \in Nat /\ below(u) \subseteq Nat
      OBVIOUS
    <3>2. \A w \in below(u) : w \in S /\ w < u
      OBVIOUS
    <3>3. \A w \in below(u) : w < v
      BY <1>3, <3>1, <3>2
    <3> QED
      BY <1>3, <3>1, <3>2, <3>3
  <2>2. Cardinality(below(u)) <= Cardinality(below(v))
          /\ Cardinality(below(u)) # Cardinality(below(v))
    <3>1. below(u) # below(v) /\ below(u) \in SUBSET below(v) /\ IsFiniteSet(below(v))
      BY <1>2, <2>1
    <3> HIDE DEF below
    <3> QED
      BY <3>1, FS_Subset
  <2> QED
    BY <1>2, <2>2
<1>4. rank \in Injection(FirstOf(n, S), 0 .. n - 1)
  <2>1. ASSUME NEW u \in FirstOf(n, S) PROVE rank[u] \in 0 .. n - 1
    BY <1>1, <1>2 DEF FirstOf
  <2>2. ASSUME NEW u \in FirstOf(n, S), NEW v \in FirstOf(n, S), rank[u] = rank[v] PROVE u = v
    <3>1. u \in S /\ v \in S /\ u \in Nat /\ v \in Nat
      BY <1>1
    <3>2. Cardinality(below(u)) = Cardinality(below(v))
      BY <2>2
    <3> HIDE DEF below
    <3>3. ~(u < v) /\ ~(v < u)
      BY <1>2, <1>3, <3>1, <3>2
    <3> QED
      BY <3>1, <3>3
  <2> HIDE DEF rank
  <2>3. rank \in [FirstOf(n, S) -> 0 .. n - 1]
    BY <2>1 DEF rank
  <2> QED
    BY <2>2, <2>3 DEF Injection, IsInjective
<1>5. IsFiniteSet(0 .. n - 1) /\ Cardinality(0 .. n - 1) = n
  BY FS_Interval
<1> QED
  BY <1>1, <1>4, <1>5, FS_Injection

(* A set with no more than one element beyond S has no more than one more. *)
LEMMA OneMore ==
  ASSUME NEW S, NEW T, NEW x, IsFiniteSet(S), T \subseteq S \cup {x}
  PROVE  /\ IsFiniteSet(T) /\ Cardinality(T) \in Nat /\ Cardinality(S) \in Nat
         /\ Cardinality(T) <= Cardinality(S) + 1
<1>1. /\ IsFiniteSet(S \cup {x}) /\ Cardinality(S \cup {x}) <= Cardinality(S) + 1
      /\ Cardinality(S) \in Nat
  BY FS_AddElement, FS_CardinalityType
<1>2. IsFiniteSet(T) /\ Cardinality(T) <= Cardinality(S \cup {x})
  BY <1>1, FS_Subset
<1> QED
  BY <1>1, <1>2, FS_CardinalityType

(* A subset has no more elements.                                          *)
LEMMA NoMore ==
  ASSUME NEW S, NEW T, IsFiniteSet(S), T \subseteq S
  PROVE  /\ IsFiniteSet(T) /\ Cardinality(T) \in Nat /\ Cardinality(S) \in Nat
         /\ Cardinality(T) <= Cardinality(S)
BY FS_Subset, FS_CardinalityType

(* A subset without x has fewer elements than a set with x.                *)
LEMMA OneLess ==
  ASSUME NEW S, NEW T, NEW x \in S, IsFiniteSet(S), T \subseteq S \ {x}
  PROVE  /\ IsFiniteSet(T) /\ Cardinality(T) \in Nat /\ Cardinality(S) \in Nat
         /\ Cardinality(T) + 1 <= Cardinality(S)
<1>1. IsFiniteSet(S \ {x}) /\ Cardinality(S \ {x}) = Cardinality(S) - 1
  BY FS_RemoveElement
<1>2. IsFiniteSet(T) /\ Cardinality(T) <= Cardinality(S \ {x})
  BY <1>1, FS_Subset
<1> QED
  BY <1>1, <1>2, FS_CardinalityType

-----------------------------------------------------------------------------
(* The inductive invariant.                                                *)

(* What each scanner keeps of its limits, whoever holds the lease.         *)
Limits(l) ==
  /\ l.at \in {"page", "remind"} \/ (l.at = "save" /\ l.next = "remind")
       => l.cursor.current # 0 /\ l.scanned < MaxScanned
  /\ l.at = "page" => l.recipients < MaxRecipients
  /\ l.at = "remind" \/ (l.at = "save" /\ l.next = "remind")
       => l.recipients + Cardinality(l.page) <= MaxRecipients
  /\ l.at = "remind" => l.page # {}
  /\ l.at = "save" => l.next = "pick" \/ l.next = "remind" \/ l.cursor = initialCursor

(* The cursor c has not come past the task t, or past the user u of it.    *)
BeforeTask(c, t) == IF c.current = 0 THEN t > c.after ELSE t = c.current

Before(c, t, u) ==
  IF c.current = 0 THEN t > c.after
  ELSE t > c.current \/ (t = c.current /\ u > c.user)

(* The task the scan has come to is the next one after the cursor c.       *)
AtNext(c, l) == BeforeTask(c, l.cursor.current) /\ l.cursor.user = c.user

(* The holder of the lease is where the stored cursor c says, or one       *)
(* reminder or one task further.                                           *)
InStep(c, l) ==
  /\ l.at = "pick" => l.cursor = c \/ (l.cursor.current # 0 /\ AtNext(c, l))
  /\ l.at \in {"page", "remind"} => AtNext(c, l)
  /\ l.at = "save" /\ l.next = "remind" =>
       /\ BeforeTask(c, l.cursor.current)
       /\ Before(c, l.cursor.current, l.cursor.user)
  /\ l.at = "save" /\ l.next = "pick" =>
       l.cursor.current = 0 /\ BeforeTask(c, l.cursor.after)
  /\ l.at = "remind" \/ (l.at = "save" /\ l.next = "remind") =>
       \A u \in l.page : u > l.cursor.user

HolderInStep ==
  row.token \in Scanners => Running(row.token) /\ InStep(row.cursor, scan[row.token])

(* The reminders the stored cursor has not come past.                      *)
Ahead == {p \in served : Before(row.cursor, p[1], p[2])}

(* The one the holder of the lease has sent and not yet stored.            *)
Unsaved ==
  IF row.token \in Scanners /\ scan[row.token].at = "save" /\ scan[row.token].next = "remind"
  THEN {<<scan[row.token].cursor.current, scan[row.token].cursor.user>>} ELSE {}

(* The scans that lost the lease and may yet send a reminder.              *)
Overtaken ==
  {s \in Scanners : row.token # s /\ scan[s].at \in {"load", "pick", "page", "remind"}}

(* The holder's lease ran out, and nobody has taken it yet.                *)
RanOut == IF row.token \in Scanners /\ ~row.live THEN 1 ELSE 0

(* Every fault pays for one repeated reminder: one that was repeated, one  *)
(* that the next scan will repeat, or one a scan overtaken may still send. *)
Paid ==
  /\ IsFiniteSet(Overtaken)
  /\ replays + Cardinality(Ahead \ Unsaved) + Cardinality(Overtaken) + RanOut <= faults

ReminderInv ==
  /\ TypeOK
  /\ \A s \in Scanners : Limits(scan[s])
  /\ HolderInStep
  /\ Paid


-----------------------------------------------------------------------------
(* Types and limits.                                                       *)

(* A scanner's local variables are of their types and within its limits.   *)
Sound(l) == l \in Locals /\ Limits(l)

(* Tasks and users are finitely many numbers, and 0 is none of them.       *)
LEMMA Numbers ==
  /\ Tasks \in SUBSET Nat /\ Users \in SUBSET Nat /\ 0 \notin Tasks /\ 0 \notin Users
  /\ MaxScanned \in Nat \ {0} /\ MaxRecipients \in Nat \ {0} /\ PageSize \in Nat \ {0}
  /\ \A S \in SUBSET Users : IsFiniteSet(S) /\ Cardinality(S) \in Nat
BY ReminderAssumption, FS_Subset, FS_CardinalityType

(* A scanner that does not run, or has ended, keeps its limits.            *)
LEMMA IdleSound == Sound(Idle) /\ Sound(Ended)
<1>1. Idle \in Locals /\ Ended \in Locals
  <2>1. initialCursor \in Cursors
    BY DEF Cursors, initialCursor
  <2>2. 0 \in 0 .. MaxScanned /\ 0 \in 0 .. MaxRecipients
    BY Numbers
  <2>3. Idle \in Locals
    BY <2>1, <2>2 DEF Idle, Locals, Steps
  <2> QED
    BY <2>3 DEF Ended, Locals, Steps
<1>2. Limits(Idle) /\ Limits(Ended)
  BY DEF Idle, Ended, Limits
<1> QED
  BY <1>1, <1>2 DEF Sound

(* The end of a page, or the next user of it, is within the limits.        *)
LEMMA PastPageSound ==
  ASSUME NEW l \in Locals, l.cursor.current # 0, l.scanned < MaxScanned,
         l.recipients + Cardinality(l.page) <= MaxRecipients
  PROVE  Sound(PastPage(l))
<1>1. CASE l.page # {}
  BY <1>1 DEF PastPage, Sound, Limits, Locals, Steps
<1>2. CASE l.page = {} /\ l.more
  BY <1>2 DEF PastPage, Sound, Limits, Locals, Steps
<1>3. CASE l.page = {} /\ ~l.more
  <2>1. l.scanned + 1 \in 0 .. MaxScanned
    BY Numbers DEF Locals
  <2>2. [initialCursor EXCEPT !.after = l.cursor.current] \in Cursors
    BY DEF Locals, Cursors, initialCursor
  <2> QED
    BY <1>3, <2>1, <2>2 DEF PastPage, Sound, Limits, Locals, Steps
<1> QED
  BY <1>1, <1>2, <1>3 DEF Locals


(* What TypeOK and the limits say, taken apart for the steps below.        *)
TypesAndLimits == TypeOK /\ \A s \in Scanners : Limits(scan[s])

(* A step that changes the local variables of one scanner, soundly, and    *)
(* nothing else but the row and the histories, keeps the types.            *)
LEMMA OneScanMoves ==
  ASSUME TypesAndLimits, NEW s \in Scanners, NEW l, Sound(l),
         scan' = [scan EXCEPT ![s] = l]
  PROVE  /\ scan' \in [Scanners -> Locals]
         /\ \A z \in Scanners : Limits(scan[z])'
<1>1. scan \in [Scanners -> Locals]
  BY DEF TypesAndLimits, TypeOK
<1>2. \A z \in Scanners : scan'[z] = IF z = s THEN l ELSE scan[z]
  BY <1>1
<1>3. \A z \in Scanners : Limits(scan'[z])
  BY <1>2 DEF TypesAndLimits, Sound
<1> QED
  BY <1>1, <1>3 DEF Sound

(* A scan begins.                                                          *)
LEMMA BeginTypes ==
  ASSUME TypesAndLimits, NEW s \in Scanners, Begin(s)
  PROVE  TypesAndLimits'
<1> DEFINE l == [scan[s] EXCEPT !.at = "load", !.time = now]
<1>1. scan[s] \in Locals /\ scan[s].at = "idle"
  BY DEF TypesAndLimits, TypeOK, Begin, Running
<1>2. Sound(l)
  <2>1. l \in Locals
    BY <1>1 DEF TypesAndLimits, TypeOK, Locals, Steps
  <2> QED
    BY <1>1, <2>1 DEF Sound, Limits, Locals
<1>3. scan' = [scan EXCEPT ![s] = l]
  BY DEF Begin
<1>4. scan' \in [Scanners -> Locals] /\ \A z \in Scanners : Limits(scan[z])'
  <2> HIDE DEF l
  <2> QED
    BY <1>2, <1>3, OneScanMoves
<1>5. row' \in [token : Scanners \cup {None, Lost}, live : BOOLEAN, cursor : Cursors]
  BY DEF TypesAndLimits, TypeOK, Begin
<1> QED
  BY <1>4, <1>5 DEF TypesAndLimits, TypeOK, Begin, workVars, historyVars

(* A scan loads the stored cursor.                                         *)
LEMMA LoadTypes ==
  ASSUME TypesAndLimits, NEW s \in Scanners, Load(s)
  PROVE  TypesAndLimits'
<1> DEFINE l == [scan[s] EXCEPT !.at = "pick", !.cursor = row.cursor]
<1>1. scan[s] \in Locals /\ row.cursor \in Cursors
  BY DEF TypesAndLimits, TypeOK
<1>2. Sound(l)
  <2>1. l \in Locals
    BY <1>1 DEF Locals, Steps
  <2> QED
    BY <1>1, <2>1 DEF Sound, Limits, Locals
<1>3. scan' = [scan EXCEPT ![s] = l]
  BY DEF Load
<1>4. scan' \in [Scanners -> Locals] /\ \A z \in Scanners : Limits(scan[z])'
  <2> HIDE DEF l
  <2> QED
    BY <1>2, <1>3, OneScanMoves
<1> QED
  BY <1>4 DEF TypesAndLimits, TypeOK, Load, workVars, historyVars

(* The task a scan picks is one, and 0 is none.                            *)
LEMMA Picked ==
  ASSUME TypesAndLimits, NEW s \in Scanners, Candidates(s) # {}
  PROVE  /\ First(Candidates(s)) \in Candidates(s)
         /\ First(Candidates(s)) \in Tasks /\ First(Candidates(s)) # 0
<1>1. scan[s].cursor.current \in Tasks \cup {0}
  BY DEF TypesAndLimits, TypeOK, Locals, Cursors
<1>2. Candidates(s) \subseteq Tasks
  BY <1>1 DEF Candidates
<1>3. Candidates(s) \in SUBSET Nat
  BY <1>2, Numbers
<1>4. First(Candidates(s)) \in Candidates(s)
  BY <1>3, FirstIs
<1> QED
  BY <1>2, <1>4, Numbers

(* A scan picks the next task.                                             *)
LEMMA PickTypes ==
  ASSUME TypesAndLimits, NEW s \in Scanners, Pick(s)
  PROVE  TypesAndLimits'
<1>1. scan[s] \in Locals
  BY DEF TypesAndLimits, TypeOK
<1>2. PICK l : Sound(l) /\ scan' = [scan EXCEPT ![s] = l]
  <2>1. CASE Exhausted(s)
    BY <2>1, IdleSound DEF Pick
  <2>2. CASE ~Exhausted(s) /\ Candidates(s) = {}
    <3>1. Wrapped(scan[s]) \in Locals /\ Limits(Wrapped(scan[s]))
      <4>1. initialCursor \in Cursors
        BY DEF Cursors, initialCursor
      <4>2. Wrapped(scan[s]) \in Locals
        BY <1>1, <4>1 DEF Wrapped, Locals, Steps
      <4>3. Limits(Wrapped(scan[s]))
        BY <1>1 DEF Wrapped, Limits, Locals
      <4> QED
        BY <4>2, <4>3
    <3> QED
      BY <2>2, <3>1 DEF Pick, Sound
  <2>3. CASE ~Exhausted(s) /\ Candidates(s) # {}
    <3> DEFINE t == First(Candidates(s))
               l == [scan[s] EXCEPT !.at = "page", !.cursor.current = t]
    <3>1. t \in Tasks /\ t # 0
      BY <2>3, Picked
    <3>2. scan[s].scanned < MaxScanned /\ scan[s].recipients < MaxRecipients
      BY <1>1, <2>3, Numbers DEF Exhausted, Locals
    <3>3. scan' = [scan EXCEPT ![s] = l]
      BY <2>3 DEF Pick
    <3> HIDE DEF t
    <3>4. l \in Locals
      BY <1>1, <3>1 DEF Locals, Steps, Cursors
    <3>5. Limits(l)
      BY <1>1, <3>1, <3>2 DEF Limits, Locals, Cursors
    <3> QED
      BY <3>3, <3>4, <3>5 DEF Sound
  <2> QED
    BY <2>1, <2>2, <2>3
<1>3. scan' \in [Scanners -> Locals] /\ \A z \in Scanners : Limits(scan[z])'
  BY <1>2, OneScanMoves
<1> QED
  BY <1>3 DEF TypesAndLimits, TypeOK, Pick, workVars, historyVars


(* The page that ReadPage takes of those who remain.                       *)
PageOf(s) ==
  LET l == scan[s]
      t == l.cursor.current
      to == IF Target(t, l.time) THEN {u \in Receivers(t) : u > l.cursor.user} ELSE {}
  IN [l EXCEPT !.page = FirstOf(Take(l), to), !.more = Cardinality(to) > Take(l)]

(* A page is a set of users beyond the cursor and within the limit, and    *)
(* all else about the scan is as it was.                                   *)
LEMMA PageFits ==
  ASSUME TypesAndLimits, NEW s \in Scanners, scan[s].at = "page"
  PROVE  /\ PageOf(s) \in Locals
         /\ PageOf(s).cursor = scan[s].cursor /\ PageOf(s).at = "page"
         /\ PageOf(s).cursor.current # 0 /\ PageOf(s).scanned < MaxScanned
         /\ PageOf(s).recipients + Cardinality(PageOf(s).page) <= MaxRecipients
         /\ \A u \in PageOf(s).page : u > scan[s].cursor.user
<1> DEFINE l == scan[s]
           t == l.cursor.current
           to == IF Target(t, l.time) THEN {u \in Receivers(t) : u > l.cursor.user} ELSE {}
           page == FirstOf(Take(l), to)
           more == Cardinality(to) > Take(l)
<1>1. l \in Locals /\ l.cursor.current # 0 /\ l.scanned < MaxScanned
        /\ l.recipients < MaxRecipients
  BY DEF TypesAndLimits, TypeOK, Limits
<1>2. to \in SUBSET Users
  BY DEF TypesAndLimits, TypeOK, Receivers
<1>3. \A u \in to : u > l.cursor.user
  OBVIOUS
<1>4. Take(l) \in Nat /\ l.recipients + Take(l) <= MaxRecipients
  BY <1>1, Numbers DEF Take, Locals
<1>5. PageOf(s) = [l EXCEPT !.page = page, !.more = more] /\ more \in BOOLEAN
  BY DEF PageOf
<1> HIDE DEF to
<1>6. page \in SUBSET to /\ Cardinality(page) <= Take(l) /\ Cardinality(page) \in Nat
  BY <1>2, <1>4, Numbers, FirstOfFits
<1> HIDE DEF page, more
<1>7. PageOf(s) \in Locals
  BY <1>1, <1>2, <1>5, <1>6 DEF Locals
<1>8. PageOf(s).page = page /\ PageOf(s).recipients = l.recipients
        /\ PageOf(s).cursor = l.cursor /\ PageOf(s).at = l.at /\ PageOf(s).scanned = l.scanned
  BY <1>1, <1>5 DEF Locals
<1>9. l.recipients + Cardinality(page) <= MaxRecipients
  BY <1>1, <1>4, <1>6, Numbers DEF Locals
<1> QED
  BY <1>1, <1>3, <1>6, <1>7, <1>8, <1>9

(* A scan reads a page of receivers.                                       *)
LEMMA ReadPageTypes ==
  ASSUME TypesAndLimits, NEW s \in Scanners, ReadPage(s)
  PROVE  TypesAndLimits'
<1>1. scan[s].at = "page"
  BY DEF ReadPage
<1>2. scan' = [scan EXCEPT ![s] = PastPage(PageOf(s))]
  BY DEF ReadPage, PageOf
<1>3. Sound(PastPage(PageOf(s)))
  BY <1>1, PageFits, PastPageSound
<1>4. scan' \in [Scanners -> Locals] /\ \A z \in Scanners : Limits(scan[z])'
  BY <1>2, <1>3, OneScanMoves
<1>5. task' \in [Tasks -> [status : {"open", "overdue", "closed"},
                         owner : Users \cup {None}, epoch : Nat]]
  <2> DEFINE t == scan[s].cursor.current
  <2>1. task' = task \/ task' = [task EXCEPT ![t].status = "overdue"]
    BY DEF ReadPage
  <2>2. task \in [Tasks -> [status : {"open", "overdue", "closed"},
                          owner : Users \cup {None}, epoch : Nat]]
    BY DEF TypesAndLimits, TypeOK
  <2>3. t \in Tasks
    BY <1>1 DEF TypesAndLimits, TypeOK, Limits, Locals, Cursors
  <2>4. [task[t] EXCEPT !.status = "overdue"] \in
          [status : {"open", "overdue", "closed"}, owner : Users \cup {None}, epoch : Nat]
    BY <2>2, <2>3
  <2> HIDE DEF t
  <2> QED
    BY <2>1, <2>2, <2>3, <2>4
<1> QED
  BY <1>4, <1>5 DEF TypesAndLimits, TypeOK, ReadPage, historyVars

(* A binding added to the reminders keeps their type.                      *)
LEMMA BoundTypes ==
  ASSUME TypeOK, NEW t \in Tasks, NEW u \in Users, NEW keys, NEW binding \in Bindings
  PROVE  Bound(t, u, keys, binding) \in [Tasks -> [Users -> [Keys -> SUBSET Bindings]]]
<1> DEFINE new == [k \in Keys |-> IF k \in keys THEN {binding} ELSE told[t][u][k]]
<1>1. told \in [Tasks -> [Users -> [Keys -> SUBSET Bindings]]]
  BY DEF TypeOK
<1>2. new \in [Keys -> SUBSET Bindings]
  BY <1>1
<1>3. Bound(t, u, keys, binding) = [told EXCEPT ![t][u] = new]
  BY <1>1 DEF Bound
<1> HIDE DEF new
<1> QED
  BY <1>1, <1>2, <1>3

(* The user a scan is about to remind is the first of its page.            *)
LEMMA FirstOfPage ==
  ASSUME TypesAndLimits, NEW s \in Scanners, scan[s].at = "remind"
  PROVE  /\ First(scan[s].page) \in scan[s].page /\ First(scan[s].page) \in Users
         /\ \A v \in scan[s].page : First(scan[s].page) <= v
         /\ scan[s].cursor.current \in Tasks
<1>1. scan[s].page # {} /\ scan[s].page \in SUBSET Users
        /\ scan[s].cursor.current \in Tasks \cup {0} /\ scan[s].cursor.current # 0
  BY DEF TypesAndLimits, TypeOK, Limits, Locals, Cursors
<1>2. scan[s].page \in SUBSET Nat
  BY <1>1, Numbers
<1> QED
  BY <1>1, <1>2, FirstIs

(* A user is reminded.                                                     *)
LEMMA RemindTypes ==
  ASSUME TypesAndLimits, NEW s \in Scanners, Remind(s)
  PROVE  TypesAndLimits'
<1> DEFINE t == scan[s].cursor.current
           u == First(scan[s].page)
           l == [scan[s] EXCEPT !.page = @ \ {u}, !.recipients = @ + 1,
                                !.cursor.user = u, !.at = "save", !.next = "remind"]
<1>1. scan[s] \in Locals /\ scan[s].at = "remind" /\ t # 0 /\ scan[s].scanned < MaxScanned
        /\ scan[s].recipients + Cardinality(scan[s].page) <= MaxRecipients
  BY DEF TypesAndLimits, TypeOK, Limits, Remind
<1>2. u \in scan[s].page /\ u \in Users /\ t \in Tasks
  BY <1>1, FirstOfPage
<1>3. scan' = [scan EXCEPT ![s] = l]
  BY DEF Remind
<1>4. /\ Cardinality(scan[s].page \ {u}) \in Nat
      /\ Cardinality(scan[s].page \ {u}) + 1 <= Cardinality(scan[s].page)
      /\ Cardinality(scan[s].page) \in Nat
  BY <1>1, <1>2, Numbers, OneLess DEF Locals
<1>5. /\ told' \in [Tasks -> [Users -> [Keys -> SUBSET Bindings]]]
      /\ served' \subseteq Tasks \X Users /\ replays' \in Nat
  <2>1. CASE Target(t, scan[s].time) /\ u \in Receivers(t)
    <3>1. told' = Bound(t, u, KeysFor(t, scan[s].time), Binding(t))
            /\ served' = served \cup {<<t, u>>} /\ replays' \in {replays, replays + 1}
      BY <2>1 DEF Remind
    <3>2. Binding(t) \in Bindings
      BY <1>2 DEF Binding, Bindings, TypesAndLimits, TypeOK
    <3> QED
      BY <1>2, <3>1, <3>2, BoundTypes DEF TypesAndLimits, TypeOK
  <2>2. CASE ~(Target(t, scan[s].time) /\ u \in Receivers(t))
    BY <2>2 DEF Remind, TypesAndLimits, TypeOK, historyVars
  <2> QED
    BY <2>1, <2>2
<1> HIDE DEF t, u
<1>6. Sound(l)
  <2>1. scan[s].recipients + 1 \in 0 .. MaxRecipients
    BY <1>1, <1>4, Numbers DEF Locals
  <2>2. l \in Locals
    BY <1>1, <1>2, <2>1 DEF Locals, Steps, Cursors
  <2>3. l.recipients + Cardinality(l.page) <= MaxRecipients
    BY <1>1, <1>4, Numbers DEF Locals
  <2> QED
    BY <1>1, <2>2, <2>3 DEF Sound, Limits, Locals, Cursors, t
<1>7. scan' \in [Scanners -> Locals] /\ \A z \in Scanners : Limits(scan[z])'
  <2> HIDE DEF l
  <2> QED
    BY <1>3, <1>6, OneScanMoves
<1> QED
  BY <1>5, <1>7 DEF TypesAndLimits, TypeOK, Remind, workVars


(* A scan stores its cursor, or finds that it lost the lease.              *)
LEMMA CheckpointTypes ==
  ASSUME TypesAndLimits, NEW s \in Scanners, Checkpoint(s)
  PROVE  TypesAndLimits'
<1> DEFINE l == scan[s]
<1>1. l \in Locals /\ l.at = "save" /\ Limits(l)
  BY DEF TypesAndLimits, TypeOK, Checkpoint
<1>2. PICK m : Sound(m) /\ scan' = [scan EXCEPT ![s] = m]
  <2>1. CASE Holds(s) /\ l.next = "remind"
    <3>1. scan' = [scan EXCEPT ![s] = PastPage(l)]
      BY <2>1 DEF Checkpoint
    <3>2. Sound(PastPage(l))
      BY <1>1, <2>1, PastPageSound DEF Limits
    <3> QED
      BY <3>1, <3>2
  <2>2. CASE Holds(s) /\ l.next = "pick"
    <3> DEFINE m == [l EXCEPT !.at = "pick", !.next = "end"]
    <3>1. scan' = [scan EXCEPT ![s] = m]
      BY <2>2 DEF Checkpoint
    <3>2. Sound(m)
      BY <1>1 DEF Sound, Limits, Locals, Steps
    <3> QED
      BY <3>1, <3>2
  <2>3. CASE Holds(s) /\ l.next = "end"
    BY <2>3, IdleSound DEF Checkpoint
  <2>4. CASE ~Holds(s)
    BY <2>4, IdleSound DEF Checkpoint
  <2> QED
    BY <1>1, <2>1, <2>2, <2>3, <2>4 DEF Locals
<1>3. scan' \in [Scanners -> Locals] /\ \A z \in Scanners : Limits(scan[z])'
  BY <1>2, OneScanMoves
<1>4. row' \in [token : Scanners \cup {None, Lost}, live : BOOLEAN, cursor : Cursors]
  <2>1. l.cursor \in Cursors
    BY <1>1 DEF Locals
  <2>2. row' = row \/ row' = [row EXCEPT !.cursor = l.cursor, !.live = TRUE]
    BY DEF Checkpoint
  <2> QED
    BY <2>1, <2>2 DEF TypesAndLimits, TypeOK
<1>5. served' \subseteq Tasks \X Users
  BY DEF TypesAndLimits, TypeOK, Checkpoint
<1> QED
  BY <1>3, <1>4, <1>5 DEF TypesAndLimits, TypeOK, Checkpoint, workVars

(* A scan that has ended gives the lease back.                             *)
LEMMA ReleaseTypes ==
  ASSUME TypesAndLimits, NEW s \in Scanners, Release(s)
  PROVE  TypesAndLimits'
<1>1. scan' \in [Scanners -> Locals] /\ \A z \in Scanners : Limits(scan[z])'
  BY IdleSound, OneScanMoves DEF Release
<1>2. row' \in [token : Scanners \cup {None, Lost}, live : BOOLEAN, cursor : Cursors]
  BY DEF TypesAndLimits, TypeOK, Release
<1> QED
  BY <1>1, <1>2 DEF TypesAndLimits, TypeOK, Release, workVars, historyVars

(* A scan fails, or its process dies.                                      *)
LEMMA BreakTypes ==
  ASSUME TypesAndLimits, NEW s \in Scanners, Fail(s) \/ Crash(s)
  PROVE  TypesAndLimits'
<1>1. scan' \in [Scanners -> Locals] /\ \A z \in Scanners : Limits(scan[z])'
  BY IdleSound, OneScanMoves DEF Fail, Crash
<1>2. row' \in [token : Scanners \cup {None, Lost}, live : BOOLEAN, cursor : Cursors]
  BY DEF TypesAndLimits, TypeOK, Fail, Crash
<1>3. faults' = faults + 1 /\ UNCHANGED <<now, workVars, told, changes, historyVars>>
  BY DEF Fail, Crash
<1> QED
  BY <1>1, <1>2, <1>3 DEF TypesAndLimits, TypeOK, workVars, historyVars

(* A lease runs out, or time passes.                                       *)
LEMMA TimeTypes ==
  ASSUME TypesAndLimits, Expire \/ Outlive \/ Tick
  PROVE  TypesAndLimits'
<1>1. row' \in [token : Scanners \cup {None, Lost}, live : BOOLEAN, cursor : Cursors]
  BY DEF TypesAndLimits, TypeOK, Expire, Outlive, Tick
<1> QED
  BY <1>1 DEF TypesAndLimits, TypeOK, Expire, Outlive, Tick, workVars, historyVars

(* Others change the tasks, the review or the roles.                       *)
Changed ==
  \/ TurnReview
  \/ \E t \in Tasks : Close(t) \/ \E u \in Users : Assign(t, u)
  \/ \E S \in SUBSET Users : Qualify(S)

(* They change no scan and nothing of its lease.                           *)
LEMMA ChangedLeaves ==
  ASSUME Changed
  PROVE  UNCHANGED <<now, row, scan, faults, served, replays>> /\ changes' = changes + 1
BY DEF Changed, TurnReview, Close, Assign, Qualify, Change, historyVars

(* The only one who may be given a task is a user.                         *)
LEMMA SoleUser ==
  ASSUME NEW S \in SUBSET Users
  PROVE  (IF Cardinality(S) = 1 THEN First(S) ELSE None) \in Users \cup {None}
<1>1. ASSUME Cardinality(S) = 1 PROVE First(S) \in Users
  <2>1. S # {}
    BY <1>1, FS_EmptySet
  <2>2. S \in SUBSET Nat
    BY Numbers
  <2> QED
    BY <2>1, <2>2, FirstIs
<1> QED
  BY <1>1

(* A task that gets another owner, or a review another round, keeps its    *)
(* type.                                                                   *)
LEMMA Moved ==
  /\ \A r \in [status : {"open", "overdue", "closed"},
               owner : Users \cup {None}, epoch : Nat], u \in Users \cup {None} :
       [r EXCEPT !.owner = u, !.epoch = @ + 1]
         \in [status : {"open", "overdue", "closed"}, owner : Users \cup {None}, epoch : Nat]
  /\ \A r \in [open : BOOLEAN, round : Nat] :
       [open |-> TRUE, round |-> r.round + 1] \in [open : BOOLEAN, round : Nat]
<1>1. \A r \in [open : BOOLEAN, round : Nat] :
        [open |-> TRUE, round |-> r.round + 1] \in [open : BOOLEAN, round : Nat]
  OBVIOUS
<1>2. ASSUME NEW r \in [status : {"open", "overdue", "closed"},
                       owner : Users \cup {None}, epoch : Nat], NEW u \in Users \cup {None}
      PROVE  [r EXCEPT !.owner = u, !.epoch = @ + 1]
         \in [status : {"open", "overdue", "closed"}, owner : Users \cup {None}, epoch : Nat]
  <2> DEFINE e == r.epoch + 1
             Owners == Users \cup {None}
  <2>1. e \in Nat /\ u \in Owners
    OBVIOUS
  <2>2. [r EXCEPT !.owner = u, !.epoch = @ + 1] = [r EXCEPT !.owner = u, !.epoch = e]
    OBVIOUS
  <2> HIDE DEF e
  <2>3. [r EXCEPT !.owner = u, !.epoch = e] \in
          [status : {"open", "overdue", "closed"}, owner : Owners, epoch : Nat]
    BY <2>1
  <2> QED
    BY <2>2, <2>3
<1> QED
  BY <1>1, <1>2

(* What others change keeps its type.                                      *)
LEMMA ChangedTypes ==
  ASSUME TypesAndLimits, Changed
  PROVE  TypesAndLimits'
<1> DEFINE Task == [status : {"open", "overdue", "closed"},
                    owner : Users \cup {None}, epoch : Nat]
<1>1. task \in [Tasks -> Task] /\ review \in [open : BOOLEAN, round : Nat]
        /\ able \subseteq Users
        /\ told \in [Tasks -> [Users -> [Keys -> SUBSET Bindings]]]
  BY DEF TypesAndLimits, TypeOK
<1>2. /\ task' \in [Tasks -> Task] /\ review' \in [open : BOOLEAN, round : Nat]
      /\ able' \subseteq Users
      /\ told' \in [Tasks -> [Users -> [Keys -> SUBSET Bindings]]]
  <2>1. CASE TurnReview
    <3>1. UNCHANGED <<task, able, told>>
      BY <2>1 DEF TurnReview
    <3>2. review' \in [open : BOOLEAN, round : Nat]
      <4>1. CASE review.open
        BY <1>1, <2>1, <4>1 DEF TurnReview
      <4>2. CASE ~review.open
        BY <1>1, <2>1, <4>2, Moved DEF TurnReview
      <4> QED
        BY <4>1, <4>2
    <3> QED
      BY <1>1, <3>1, <3>2
  <2>2. CASE \E t \in Tasks : Close(t)
    <3>1. PICK t \in Tasks : Close(t)
      BY <2>2
    <3>2. task' = [task EXCEPT ![t].status = "closed"] /\ UNCHANGED <<review, able, told>>
      BY <3>1 DEF Close
    <3>3. [task[t] EXCEPT !.status = "closed"] \in Task
      BY <1>1
    <3> QED
      BY <1>1, <3>2, <3>3
  <2>3. CASE \E t \in Tasks : \E u \in Users : Assign(t, u)
    <3>1. PICK t \in Tasks, u \in Users : Assign(t, u)
      BY <2>3
    <3> DEFINE binding == [epoch |-> task[t].epoch + 1, round |-> review.round]
    <3>2. /\ task' = [task EXCEPT ![t].owner = u, ![t].epoch = @ + 1]
          /\ told' = Bound(t, u, {Key("ACTIVATE", 0)}, binding)
          /\ UNCHANGED <<review, able>>
      BY <3>1 DEF Assign
    <3>3. binding \in Bindings
      BY <1>1 DEF Bindings
    <3>4. told' \in [Tasks -> [Users -> [Keys -> SUBSET Bindings]]]
      BY <3>2, <3>3, BoundTypes DEF TypesAndLimits
    <3>5. task' = [task EXCEPT ![t] = [task[t] EXCEPT !.owner = u, !.epoch = @ + 1]]
      BY <1>1, <3>2
    <3>6. [task[t] EXCEPT !.owner = u, !.epoch = @ + 1] \in Task
      <4>1. task[t] \in Task /\ u \in Users \cup {None}
        BY <1>1
      <4> QED
        BY <4>1, Moved
    <3>7. task' \in [Tasks -> Task]
      BY <1>1, <3>5, <3>6
    <3> QED
      BY <1>1, <3>2, <3>4, <3>7
  <2>4. CASE \E S \in SUBSET Users : Qualify(S)
    <3>1. PICK S \in SUBSET Users : Qualify(S)
      BY <2>4
    <3> DEFINE sole == IF Cardinality(S) = 1 THEN First(S) ELSE None
               moved == {t \in Tasks : Open(t) /\ task[t].owner \notin S
                                          /\ task[t].owner # sole}
    <3>2. sole \in Users \cup {None}
      BY SoleUser
    <3>3. /\ able' = S /\ UNCHANGED <<review, told>>
          /\ task' = [t \in Tasks |-> IF t \in moved
                THEN [task[t] EXCEPT !.owner = sole, !.epoch = @ + 1] ELSE task[t]]
      BY <3>1 DEF Qualify
    <3> HIDE DEF sole, moved
    <3>4. ASSUME NEW t \in Tasks
          PROVE  [task[t] EXCEPT !.owner = sole, !.epoch = @ + 1] \in Task /\ task[t] \in Task
      <4>1. task[t] \in Task
        BY <1>1
      <4> QED
        BY <3>2, <4>1, Moved
    <3> HIDE DEF Task
    <3>5. task' \in [Tasks -> Task]
      BY <3>3, <3>4
    <3> QED
      BY <1>1, <3>3, <3>5
  <2> QED
    BY <2>1, <2>2, <2>3, <2>4 DEF Changed
<1> QED
  BY <1>2, ChangedLeaves DEF TypesAndLimits, TypeOK


(* Every step keeps the types and the limits.                              *)
LEMMA TypesStep == TypesAndLimits /\ [Next]_vars => TypesAndLimits'
<1> SUFFICES ASSUME TypesAndLimits, [Next]_vars PROVE TypesAndLimits'
  OBVIOUS
<1>1. ASSUME NEW s \in Scanners, Begin(s) \/ Work(s) \/ Fail(s) \/ Crash(s)
      PROVE  TypesAndLimits'
  BY <1>1, BeginTypes, LoadTypes, PickTypes, ReadPageTypes, RemindTypes, CheckpointTypes,
     ReleaseTypes, BreakTypes DEF Work
<1>2. CASE Expire \/ Outlive \/ Tick
  BY <1>2, TimeTypes
<1>3. CASE Changed
  BY <1>3, ChangedTypes
<1>4. CASE UNCHANGED vars
  BY <1>4 DEF TypesAndLimits, TypeOK, vars, workVars, historyVars
<1> QED
  BY <1>1, <1>2, <1>3, <1>4 DEF Next, Changed

(* The initial state is of its types and within the limits.                *)
LEMMA TypesInit == Init => TypesAndLimits
<1> SUFFICES ASSUME Init PROVE TypesAndLimits
  OBVIOUS
<1>1. (IF Cardinality(AbleAtStart) = 1 THEN First(AbleAtStart) ELSE None) \in Users \cup {None}
  BY SoleUser, ReminderAssumption
<1>2. task \in [Tasks -> [status : {"open", "overdue", "closed"},
                        owner : Users \cup {None}, epoch : Nat]]
  <2> DEFINE owner == IF Cardinality(AbleAtStart) = 1 THEN First(AbleAtStart) ELSE None
  <2>1. task = [t \in Tasks |-> [status |-> "open", epoch |-> 0, owner |-> owner]]
    BY DEF Init
  <2>2. owner \in Users \cup {None}
    BY <1>1
  <2> HIDE DEF owner
  <2> QED
    BY <2>1, <2>2
<1>3. row \in [token : Scanners \cup {None, Lost}, live : BOOLEAN, cursor : Cursors]
  <2>1. initialCursor \in Cursors
    BY DEF initialCursor, Cursors
  <2> QED
    BY <2>1 DEF Init
<1>4. scan \in [Scanners -> Locals] /\ \A s \in Scanners : Limits(scan[s])
  BY IdleSound DEF Init, Sound
<1>5. told \in [Tasks -> [Users -> [Keys -> SUBSET Bindings]]]
  BY DEF Init
<1> QED
  BY <1>2, <1>3, <1>4, <1>5, ReminderAssumption DEF Init, TypesAndLimits, TypeOK

(* Types hold in every state: no scan passes more tasks or reminds more    *)
(* users than its limits allow, whatever pages the users came in, however  *)
(* many scans there are and however often they fail.                       *)
THEOREM ScansKeepLimits == Spec => []TypeOK
<1>1. TypesAndLimits => TypeOK
  BY DEF TypesAndLimits
<1> QED
  BY <1>1, TypesInit, TypesStep, PTL DEF Spec

-----------------------------------------------------------------------------
(* The holder of the lease and the stored cursor.                          *)

(* Past the page, the holder is still where the cursor says.               *)
LEMMA PastPageInStep ==
  ASSUME NEW l \in Locals, NEW c \in Cursors, l.cursor.current # 0, AtNext(c, l),
         \A u \in l.page : u > l.cursor.user
  PROVE  InStep(c, PastPage(l)) /\ PastPage(l).at # "idle"
<1>1. CASE l.page # {}
  <2> DEFINE m == [l EXCEPT !.at = "remind"]
  <2>1. PastPage(l) = m
    BY <1>1 DEF PastPage
  <2>2. m.at = "remind" /\ m.cursor = l.cursor /\ m.page = l.page
    BY DEF Locals
  <2> QED
    BY <2>1, <2>2 DEF InStep, AtNext
<1>2. CASE l.page = {} /\ l.more
  <2> DEFINE m == [l EXCEPT !.at = "pick", !.next = "end", !.more = FALSE]
  <2>1. PastPage(l) = m
    BY <1>2 DEF PastPage
  <2>2. m.at = "pick" /\ m.cursor = l.cursor
    BY DEF Locals
  <2> QED
    BY <2>1, <2>2 DEF InStep, AtNext
<1>3. CASE l.page = {} /\ ~l.more
  <2> DEFINE m == [l EXCEPT !.at = "save", !.next = "pick", !.scanned = @ + 1,
                 !.cursor = [initialCursor EXCEPT !.after = l.cursor.current]]
  <2>1. PastPage(l) = m
    BY <1>3 DEF PastPage
  <2>2. m.at = "save" /\ m.next = "pick" /\ m.cursor.current = 0
          /\ m.cursor.after = l.cursor.current
    BY DEF Locals, initialCursor
  <2> QED
    BY <2>1, <2>2 DEF InStep, AtNext
<1> QED
  BY <1>1, <1>2, <1>3 DEF Locals

(* A step of the holder, or one that gives the lease to a scan, that ends  *)
(* in step with the stored cursor.                                         *)
LEMMA HolderMoves ==
  ASSUME TypesAndLimits, NEW s \in Scanners, NEW l, scan' = [scan EXCEPT ![s] = l],
         row'.token = s, l.at # "idle", InStep(row'.cursor, l)
  PROVE  HolderInStep'
BY DEF HolderInStep, TypesAndLimits, TypeOK, Running

(* A step of a scan that does not hold the lease changes nothing for the   *)
(* one that does.                                                          *)
LEMMA OtherMoves ==
  ASSUME TypesAndLimits, HolderInStep, NEW s \in Scanners, NEW l,
         scan' = [scan EXCEPT ![s] = l], row' = row, row.token # s
  PROVE  HolderInStep'
BY DEF HolderInStep, TypesAndLimits, TypeOK, Running

(* The steps in which the holder reads.                                    *)
LEMMA ReadingInStep ==
  ASSUME TypesAndLimits, HolderInStep, NEW s \in Scanners,
         Load(s) \/ Pick(s) \/ ReadPage(s)
  PROVE  HolderInStep'
<1>0. scan[s] \in Locals /\ row.cursor \in Cursors /\ row' = row
  BY DEF TypesAndLimits, TypeOK, Load, Pick, ReadPage
<1>1. PICK l : scan' = [scan EXCEPT ![s] = l]
  BY DEF Load, Pick, ReadPage
<1>2. CASE row.token # s
  BY <1>0, <1>1, <1>2, OtherMoves
<1>3. CASE row.token = s /\ Load(s)
  <2> DEFINE m == [scan[s] EXCEPT !.at = "pick", !.cursor = row.cursor]
  <2>1. scan' = [scan EXCEPT ![s] = m]
    BY <1>3 DEF Load
  <2>2. m.at = "pick" /\ m.cursor = row.cursor
    BY <1>0 DEF Locals
  <2> HIDE DEF m
  <2>3. InStep(row.cursor, m)
    BY <2>2 DEF InStep
  <2> QED
    BY <1>0, <1>3, <2>1, <2>2, <2>3, HolderMoves
<1>4. CASE row.token = s /\ Pick(s)
  <2>1. CASE Exhausted(s)
    <3>1. scan' = [scan EXCEPT ![s] = Ended] /\ Ended.at = "end"
      BY <1>4, <2>1 DEF Pick, Ended, Idle
    <3>2. InStep(row.cursor, Ended)
      BY <3>1 DEF InStep
    <3> QED
      BY <1>0, <1>4, <3>1, <3>2, HolderMoves
  <2>2. CASE ~Exhausted(s) /\ Candidates(s) = {}
    <3> DEFINE m == Wrapped(scan[s])
    <3>1. scan' = [scan EXCEPT ![s] = m]
      BY <1>4, <2>2 DEF Pick
    <3>2. m.at = "save" /\ m.next = "end"
      BY <1>0 DEF Wrapped, Locals
    <3> HIDE DEF m
    <3>3. InStep(row.cursor, m)
      BY <3>2 DEF InStep
    <3> QED
      BY <1>0, <1>4, <3>1, <3>2, <3>3, HolderMoves
  <2>3. CASE ~Exhausted(s) /\ Candidates(s) # {}
    <3> DEFINE t == First(Candidates(s))
               m == [scan[s] EXCEPT !.at = "page", !.cursor.current = t]
    <3>1. t \in Candidates(s)
      BY <2>3, Picked
    <3>2. scan' = [scan EXCEPT ![s] = m]
      BY <1>4, <2>3 DEF Pick
    <3>3. scan[s].cursor = row.cursor
            \/ (scan[s].cursor.current # 0 /\ AtNext(row.cursor, scan[s]))
      BY <1>4 DEF HolderInStep, InStep, Pick
    <3> HIDE DEF t
    <3>4. m.at = "page" /\ m.cursor.current = t /\ m.cursor.user = scan[s].cursor.user
      BY <1>0 DEF Locals, Cursors
    <3> HIDE DEF m
    <3>5. BeforeTask(row.cursor, t) /\ scan[s].cursor.user = row.cursor.user
      BY <3>1, <3>3 DEF Candidates, AtNext, BeforeTask
    <3>6. InStep(row.cursor, m)
      BY <3>4, <3>5 DEF InStep, AtNext
    <3> QED
      BY <1>0, <1>4, <3>2, <3>4, <3>6, HolderMoves
  <2> QED
    BY <2>1, <2>2, <2>3
<1>5. CASE row.token = s /\ ReadPage(s)
  <2>1. scan' = [scan EXCEPT ![s] = PastPage(PageOf(s))] /\ scan[s].at = "page"
    BY <1>5 DEF ReadPage, PageOf
  <2>2. AtNext(row.cursor, scan[s])
    BY <1>5, <2>1 DEF HolderInStep, InStep
  <2>3. AtNext(row.cursor, PageOf(s))
    BY <2>1, <2>2, PageFits DEF AtNext
  <2>4. InStep(row.cursor, PastPage(PageOf(s))) /\ PastPage(PageOf(s)).at # "idle"
    BY <1>0, <2>1, <2>3, PageFits, PastPageInStep
  <2> QED
    BY <1>0, <1>5, <2>1, <2>4, HolderMoves
<1> QED
  BY <1>2, <1>3, <1>4, <1>5

(* The holder reminds the first user of its page.                          *)
LEMMA RemindInStep ==
  ASSUME TypesAndLimits, HolderInStep, NEW s \in Scanners, Remind(s)
  PROVE  /\ HolderInStep'
         /\ row.token = s =>
              Before(row.cursor, scan[s].cursor.current, First(scan[s].page))
<1> DEFINE t == scan[s].cursor.current
           u == First(scan[s].page)
           l == [scan[s] EXCEPT !.page = @ \ {u}, !.recipients = @ + 1,
                                !.cursor.user = u, !.at = "save", !.next = "remind"]
<1>1. scan[s] \in Locals /\ scan[s].at = "remind" /\ row' = row
        /\ scan' = [scan EXCEPT ![s] = l] /\ row.cursor \in Cursors
  BY DEF TypesAndLimits, TypeOK, Remind
<1>2. u \in scan[s].page /\ \A v \in scan[s].page : u <= v
  BY <1>1, FirstOfPage
<1> HIDE DEF u
<1>3. l.at = "save" /\ l.next = "remind" /\ l.cursor.current = t /\ l.cursor.user = u
        /\ l.page = scan[s].page \ {u}
  BY <1>1 DEF Locals, Cursors
<1>4. \A v \in l.page : v > u
  BY <1>1, <1>2, <1>3, Numbers DEF Locals
<1> HIDE DEF l
<1>5. CASE row.token = s
  <2>1. AtNext(row.cursor, scan[s]) /\ \A v \in scan[s].page : v > scan[s].cursor.user
    BY <1>1, <1>5 DEF HolderInStep, InStep
  <2>2. BeforeTask(row.cursor, t) /\ u > row.cursor.user
    BY <1>2, <2>1 DEF AtNext
  <2>3. Before(row.cursor, t, u)
    BY <2>2 DEF BeforeTask, Before
  <2>4. InStep(row.cursor, l)
    BY <1>3, <1>4, <2>2, <2>3 DEF InStep
  <2> QED
    BY <1>1, <1>3, <1>5, <2>3, <2>4, HolderMoves DEF u
<1>6. CASE row.token # s
  BY <1>1, <1>6, OtherMoves
<1> QED
  BY <1>5, <1>6


(* The holder stores its cursor.                                           *)
LEMMA CheckpointInStep ==
  ASSUME TypesAndLimits, HolderInStep, NEW s \in Scanners, Checkpoint(s)
  PROVE  HolderInStep'
<1> DEFINE l == scan[s]
<1>1. l \in Locals /\ l.at = "save" /\ Limits(l) /\ l.cursor \in Cursors
  BY DEF TypesAndLimits, TypeOK, Checkpoint, Locals
<1>2. CASE ~Holds(s)
  BY <1>2, OtherMoves DEF Checkpoint, Holds
<1>3. CASE Holds(s)
  <2>1. row'.token = s /\ row'.cursor = l.cursor /\ InStep(row.cursor, l)
    BY <1>3 DEF Checkpoint, Holds, TypesAndLimits, TypeOK, HolderInStep
  <2>2. CASE l.next = "remind"
    <3>1. scan' = [scan EXCEPT ![s] = PastPage(l)]
      BY <1>3, <2>2 DEF Checkpoint
    <3>2. l.cursor.current # 0 /\ \A u \in l.page : u > l.cursor.user
      BY <1>1, <2>1, <2>2 DEF Limits, InStep
    <3>3. AtNext(l.cursor, l)
      BY <3>2 DEF AtNext, BeforeTask
    <3>4. InStep(l.cursor, PastPage(l)) /\ PastPage(l).at # "idle"
      BY <1>1, <3>2, <3>3, PastPageInStep
    <3> QED
      BY <2>1, <3>1, <3>4, HolderMoves
  <2>3. CASE l.next = "pick"
    <3> DEFINE m == [l EXCEPT !.at = "pick", !.next = "end"]
    <3>1. scan' = [scan EXCEPT ![s] = m]
      BY <1>3, <2>3 DEF Checkpoint
    <3>2. m.at = "pick" /\ m.cursor = l.cursor
      BY <1>1 DEF Locals
    <3> HIDE DEF m
    <3>3. InStep(l.cursor, m)
      BY <3>2 DEF InStep
    <3> QED
      BY <2>1, <3>1, <3>2, <3>3, HolderMoves
  <2>4. CASE l.next = "end"
    <3>1. scan' = [scan EXCEPT ![s] = Ended] /\ Ended.at = "end"
      BY <1>3, <2>4 DEF Checkpoint, Ended, Idle
    <3>2. InStep(l.cursor, Ended)
      BY <3>1 DEF InStep
    <3> QED
      BY <2>1, <3>1, <3>2, HolderMoves
  <2> QED
    BY <1>1, <2>2, <2>3, <2>4 DEF Locals
<1> QED
  BY <1>2, <1>3

(* A scan takes the lease, or ends.                                        *)
LEMMA EndsInStep ==
  ASSUME TypesAndLimits, HolderInStep, NEW s \in Scanners,
         Begin(s) \/ Release(s) \/ Fail(s) \/ Crash(s)
  PROVE  HolderInStep'
<1>0. /\ scan[s] \in Locals /\ scan \in [Scanners -> Locals]
      /\ row \in [token : Scanners \cup {None, Lost}, live : BOOLEAN, cursor : Cursors]
  BY DEF TypesAndLimits, TypeOK
<1>1. CASE Begin(s)
  <2> DEFINE m == [scan[s] EXCEPT !.at = "load", !.time = now]
  <2>1. scan' = [scan EXCEPT ![s] = m] /\ row'.token = s
    BY <1>0, <1>1 DEF Begin
  <2>2. m.at = "load"
    BY <1>0 DEF Locals
  <2> HIDE DEF m
  <2>3. InStep(row'.cursor, m)
    BY <2>2 DEF InStep
  <2> QED
    BY <2>1, <2>2, <2>3, HolderMoves
<1>2. CASE Fail(s)
  <2>1. scan' = [scan EXCEPT ![s] = Ended] /\ row' = row /\ Ended.at = "end"
    BY <1>2 DEF Fail, Ended, Idle
  <2>2. InStep(row'.cursor, Ended)
    BY <2>1 DEF InStep
  <2> QED
    BY <2>1, <2>2, HolderMoves, OtherMoves
<1>3. CASE Release(s) \/ Crash(s)
  <2>1. scan' = [scan EXCEPT ![s] = Idle]
    BY <1>3 DEF Release, Crash
  <2>2. CASE row.token # s
    BY <1>3, <2>1, <2>2, OtherMoves DEF Release, Crash
  <2>3. CASE row.token = s
    <3>1. row'.token \in {None, Lost}
      BY <1>0, <1>3, <2>3 DEF Release, Crash
    <3> QED
      BY <3>1, ReminderAssumption DEF HolderInStep
  <2> QED
    BY <2>2, <2>3
<1> QED
  BY <1>1, <1>2, <1>3

(* In every step the holder of the lease keeps in step with the cursor.    *)
LEMMA InStepStep == TypesAndLimits /\ HolderInStep /\ [Next]_vars => HolderInStep'
<1> SUFFICES ASSUME TypesAndLimits, HolderInStep, [Next]_vars PROVE HolderInStep'
  OBVIOUS
<1>1. ASSUME NEW s \in Scanners, Begin(s) \/ Work(s) \/ Fail(s) \/ Crash(s)
      PROVE  HolderInStep'
  BY <1>1, ReadingInStep, RemindInStep, CheckpointInStep, EndsInStep DEF Work
<1>2. CASE Expire \/ Outlive
  <2>1. row'.token = row.token /\ row'.cursor = row.cursor /\ scan' = scan
    BY <1>2 DEF Expire, Outlive, TypesAndLimits, TypeOK
  <2> QED
    BY <2>1 DEF HolderInStep, Running
<1>3. CASE Tick \/ Changed \/ UNCHANGED vars
  <2>1. row' = row /\ scan' = scan
    BY <1>3, ChangedLeaves DEF Tick, vars
  <2> QED
    BY <2>1 DEF HolderInStep, Running
<1> QED
  BY <1>1, <1>2, <1>3 DEF Next, Changed

-----------------------------------------------------------------------------
(* What the faults pay for.                                                *)

(* What is counted is finite.                                              *)
LEMMA Counted ==
  ASSUME TypesAndLimits, Paid
  PROVE  /\ IsFiniteSet(Ahead \ Unsaved) /\ Cardinality(Ahead \ Unsaved) \in Nat
         /\ IsFiniteSet(Overtaken) /\ Cardinality(Overtaken) \in Nat
         /\ RanOut \in {0, 1} /\ replays \in Nat /\ faults \in Nat
<1>1. IsFiniteSet(Tasks \X Users)
  BY ReminderAssumption, FS_Product
<1>2. Ahead \ Unsaved \in SUBSET (Tasks \X Users)
  BY DEF Ahead, TypesAndLimits, TypeOK
<1> QED
  BY <1>1, <1>2, FS_Subset, FS_CardinalityType DEF Paid, RanOut, TypesAndLimits, TypeOK

(* A step that counts nothing new is paid for.                             *)
LEMMA NothingNew ==
  ASSUME TypesAndLimits, Paid, TypesAndLimits',
         (Ahead \ Unsaved)' \subseteq Ahead \ Unsaved, Overtaken' \subseteq Overtaken,
         RanOut' = RanOut \/ RanOut' = 0, replays' = replays, faults' = faults
  PROVE  Paid'
<1>1. /\ IsFiniteSet(Overtaken') /\ Cardinality(Overtaken') \in Nat
      /\ Cardinality(Overtaken') <= Cardinality(Overtaken)
  BY Counted, NoMore
<1>2. /\ Cardinality((Ahead \ Unsaved)') \in Nat
      /\ Cardinality((Ahead \ Unsaved)') <= Cardinality(Ahead \ Unsaved)
  BY Counted, NoMore
<1>3. replays + Cardinality(Ahead \ Unsaved) + Cardinality(Overtaken) + RanOut <= faults
  BY DEF Paid
<1>4. replays' + Cardinality((Ahead \ Unsaved)') + Cardinality(Overtaken') + RanOut' <= faults'
  BY <1>1, <1>2, <1>3, Counted
<1> QED
  BY <1>1, <1>4 DEF Paid

(* A fault pays for one reminder that will be repeated.                    *)
LEMMA FaultPays ==
  ASSUME TypesAndLimits, Paid, TypesAndLimits', NEW p,
         (Ahead \ Unsaved)' \subseteq (Ahead \ Unsaved) \cup {p}, Overtaken' \subseteq Overtaken,
         RanOut' = RanOut \/ RanOut' = 0, replays' = replays, faults' = faults + 1
  PROVE  Paid'
<1>1. /\ IsFiniteSet(Overtaken') /\ Cardinality(Overtaken') \in Nat
      /\ Cardinality(Overtaken') <= Cardinality(Overtaken)
  BY Counted, NoMore
<1>2. /\ Cardinality((Ahead \ Unsaved)') \in Nat
      /\ Cardinality((Ahead \ Unsaved)') <= Cardinality(Ahead \ Unsaved) + 1
  BY Counted, OneMore
<1>3. replays + Cardinality(Ahead \ Unsaved) + Cardinality(Overtaken) + RanOut <= faults
  BY DEF Paid
<1>4. replays' + Cardinality((Ahead \ Unsaved)') + Cardinality(Overtaken') + RanOut' <= faults'
  BY <1>1, <1>2, <1>3, Counted
<1> QED
  BY <1>1, <1>4 DEF Paid


(* The steps in which a scan reads, or ends in order, count nothing new.   *)
LEMMA ReadingPaid ==
  ASSUME TypesAndLimits, Paid, TypesAndLimits', NEW s \in Scanners,
         Load(s) \/ Pick(s) \/ ReadPage(s) \/ Release(s)
  PROVE  Paid'
<1>1. scan[s].at \in {"load", "pick", "page", "end"} /\ scan[s] \in Locals
        /\ scan \in [Scanners -> Locals]
  BY DEF Load, Pick, ReadPage, Release, TypesAndLimits, TypeOK
<1>2. PICK l : scan' = [scan EXCEPT ![s] = l]
                 /\ (scan[s].at = "end" => l.at = "idle")
  <2>1. CASE Release(s)
    <3>1. Idle.at = "idle" /\ scan' = [scan EXCEPT ![s] = Idle]
      BY <2>1 DEF Release, Idle
    <3> QED
      BY <3>1
  <2>2. CASE Load(s) \/ Pick(s) \/ ReadPage(s)
    BY <2>2 DEF Load, Pick, ReadPage
  <2> QED
    BY <2>1, <2>2
<1>3. /\ UNCHANGED <<served, replays, faults>>
      /\ row' = row \/ (row.token = s /\ scan[s].at = "end"
                          /\ row' = [row EXCEPT !.token = None, !.live = FALSE])
  BY DEF Load, Pick, ReadPage, Release, historyVars
<1>4. row \in [token : Scanners \cup {None, Lost}, live : BOOLEAN, cursor : Cursors]
  BY DEF TypesAndLimits, TypeOK
<1>5. row'.cursor = row.cursor /\ (row'.token = row.token \/ row'.token = None)
        /\ (row'.token = None => RanOut' = 0) /\ (row'.token = row.token => row' = row)
        /\ (row' = row \/ row.token = s)
  BY <1>3, <1>4, ReminderAssumption DEF RanOut
<1>6. Ahead' = Ahead
  BY <1>3, <1>5 DEF Ahead
<1>7. Unsaved = {} \/ Unsaved' = Unsaved
  <2>1. CASE row.token = s
    BY <1>1, <2>1 DEF Unsaved
  <2>2. CASE row.token # s
    BY <1>1, <1>2, <1>5, <2>2 DEF Unsaved
  <2> QED
    BY <2>1, <2>2
<1>8. Overtaken' \subseteq Overtaken
  <2> SUFFICES ASSUME NEW z \in Overtaken' PROVE z \in Overtaken
    OBVIOUS
  <2>1. z \in Scanners /\ row'.token # z
          /\ scan'[z].at \in {"load", "pick", "page", "remind"}
    BY DEF Overtaken
  <2>2. CASE z = s
    <3>1. scan'[z] = l
      BY <1>1, <1>2, <2>2
    <3>2. scan[s].at # "end" /\ row' = row
      BY <1>2, <1>3, <2>1, <3>1
    <3> QED
      BY <1>1, <2>1, <2>2, <3>2 DEF Overtaken
  <2>3. CASE z # s
    BY <1>1, <1>2, <1>5, <2>1, <2>3 DEF Overtaken
  <2> QED
    BY <2>2, <2>3
<1>9. RanOut' = RanOut \/ RanOut' = 0
  BY <1>5 DEF RanOut
<1> QED
  BY <1>3, <1>6, <1>7, <1>8, <1>9, NothingNew

(* A reminder is paid for: the holder repeats one only that was ahead of   *)
(* the stored cursor, and a scan overtaken sends no more than one.         *)
LEMMA RemindPaid ==
  ASSUME TypesAndLimits, HolderInStep, Paid, TypesAndLimits', NEW s \in Scanners, Remind(s)
  PROVE  Paid'
<1> DEFINE t == scan[s].cursor.current
           u == First(scan[s].page)
           l == [scan[s] EXCEPT !.page = @ \ {u}, !.recipients = @ + 1,
                                !.cursor.user = u, !.at = "save", !.next = "remind"]
           p == <<t, u>>
<1>1. scan[s] \in Locals /\ scan[s].at = "remind" /\ row' = row /\ faults' = faults
        /\ scan' = [scan EXCEPT ![s] = l] /\ scan \in [Scanners -> Locals]
  BY DEF TypesAndLimits, TypeOK, Remind
<1>2. /\ served' \in {served, served \cup {p}}
      /\ replays' = replays \/ (p \in served /\ replays' = replays + 1)
  BY DEF Remind, historyVars
<1>3. row.token = s => Before(row.cursor, t, u)
  BY RemindInStep
<1> HIDE DEF u
<1>4. l.at = "save" /\ l.next = "remind" /\ l.cursor.current = t /\ l.cursor.user = u
  BY <1>1 DEF Locals, Cursors
<1> HIDE DEF l
<1>5. scan'[s] = l /\ \A z \in Scanners : z # s => scan'[z] = scan[z]
  BY <1>1
<1>6. Ahead' \subseteq Ahead \cup {p} /\ (p \in served => Ahead' \subseteq Ahead)
  BY <1>1, <1>2 DEF Ahead
<1>7. RanOut' = RanOut
  BY <1>1 DEF RanOut
<1>8. Overtaken' \subseteq Overtaken \ {s}
  BY <1>1, <1>4, <1>5 DEF Overtaken
<1>9. CASE row.token = s
  <2>1. Unsaved = {} /\ Unsaved' = {p}
    BY <1>1, <1>4, <1>5, <1>9 DEF Unsaved
  <2>2. CASE replays' = replays
    BY <1>1, <1>6, <1>7, <1>8, <2>1, <2>2, NothingNew
  <2>3. CASE replays' # replays
    <3>1. replays' = replays + 1 /\ p \in served
      BY <1>2, <2>3
    <3>2. p \in Ahead
      BY <1>3, <1>9, <3>1 DEF Ahead
    <3>3. p \in Ahead \ Unsaved /\ (Ahead \ Unsaved)' \subseteq (Ahead \ Unsaved) \ {p}
      BY <1>6, <2>1, <3>1, <3>2
    <3>4. /\ Cardinality((Ahead \ Unsaved)') \in Nat
          /\ Cardinality((Ahead \ Unsaved)') + 1 <= Cardinality(Ahead \ Unsaved)
      BY <3>3, Counted, OneLess
    <3>5. /\ IsFiniteSet(Overtaken') /\ Cardinality(Overtaken') \in Nat
          /\ Cardinality(Overtaken') <= Cardinality(Overtaken)
      BY <1>8, Counted, NoMore
    <3>6. replays + Cardinality(Ahead \ Unsaved) + Cardinality(Overtaken) + RanOut <= faults
      BY DEF Paid
    <3>7. replays' + Cardinality((Ahead \ Unsaved)') + Cardinality(Overtaken') + RanOut' <= faults'
      BY <1>1, <1>7, <3>1, <3>4, <3>5, <3>6, Counted
    <3> QED
      BY <3>5, <3>7 DEF Paid
  <2> QED
    BY <2>2, <2>3
<1>10. CASE row.token # s
  <2>1. s \in Overtaken
    BY <1>1, <1>10 DEF Overtaken
  <2>2. /\ IsFiniteSet(Overtaken') /\ Cardinality(Overtaken') \in Nat
        /\ Cardinality(Overtaken') + 1 <= Cardinality(Overtaken)
    BY <1>8, <2>1, Counted, OneLess
  <2>3. Unsaved' = Unsaved
    BY <1>1, <1>5, <1>10 DEF Unsaved
  <2>4. /\ Cardinality((Ahead \ Unsaved)') \in Nat
        /\ replays' + Cardinality((Ahead \ Unsaved)') <= replays + Cardinality(Ahead \ Unsaved) + 1
    <3>1. CASE replays' = replays
      <4>1. (Ahead \ Unsaved)' \subseteq (Ahead \ Unsaved) \cup {p}
        BY <1>6, <2>3
      <4>2. /\ Cardinality((Ahead \ Unsaved)') \in Nat
            /\ Cardinality((Ahead \ Unsaved)') <= Cardinality(Ahead \ Unsaved) + 1
        BY <4>1, Counted, OneMore
      <4> QED
        BY <3>1, <4>2, Counted
    <3>2. CASE replays' # replays
      <4>1. (Ahead \ Unsaved)' \subseteq Ahead \ Unsaved /\ replays' = replays + 1
        BY <1>2, <1>6, <2>3, <3>2
      <4>2. /\ Cardinality((Ahead \ Unsaved)') \in Nat
            /\ Cardinality((Ahead \ Unsaved)') <= Cardinality(Ahead \ Unsaved)
        BY <4>1, Counted, NoMore
      <4> QED
        BY <4>1, <4>2, Counted
    <3> QED
      BY <3>1, <3>2
  <2>5. replays + Cardinality(Ahead \ Unsaved) + Cardinality(Overtaken) + RanOut <= faults
    BY DEF Paid
  <2>6. replays' \in Nat
    BY DEF TypesAndLimits, TypeOK
  <2>7. replays' + Cardinality((Ahead \ Unsaved)') + Cardinality(Overtaken') + RanOut' <= faults'
    BY <1>1, <1>7, <2>2, <2>4, <2>5, <2>6, Counted
  <2> QED
    BY <2>2, <2>7 DEF Paid
<1> QED
  BY <1>9, <1>10


(* Storing the cursor leaves behind it the reminder it stands for.         *)
LEMMA CheckpointPaid ==
  ASSUME TypesAndLimits, HolderInStep, Paid, TypesAndLimits', NEW s \in Scanners, Checkpoint(s)
  PROVE  Paid'
<1> DEFINE l == scan[s]
<1>1. /\ l \in Locals /\ l.at = "save" /\ Limits(l) /\ l.cursor \in Cursors
      /\ scan \in [Scanners -> Locals] /\ served \subseteq Tasks \X Users
      /\ row \in [token : Scanners \cup {None, Lost}, live : BOOLEAN, cursor : Cursors]
  BY DEF TypesAndLimits, TypeOK, Checkpoint, Locals
<1>2. UNCHANGED <<replays, faults>> /\ row'.token = row.token
        /\ \A z \in Scanners : z # s => scan'[z] = scan[z]
  BY <1>1 DEF Checkpoint
<1>3. Overtaken' \subseteq Overtaken
  <2> SUFFICES ASSUME NEW z \in Overtaken' PROVE z \in Overtaken
    OBVIOUS
  <2>1. z \in Scanners /\ row'.token # z
          /\ scan'[z].at \in {"load", "pick", "page", "remind"}
    BY DEF Overtaken
  <2>2. z # s
    <3>1. ASSUME z = s PROVE FALSE
      <4>1. ~Holds(s)
        BY <1>2, <2>1, <3>1 DEF Holds
      <4>2. scan'[s] = Ended
        BY <1>1, <4>1 DEF Checkpoint
      <4> QED
        BY <2>1, <3>1, <4>2 DEF Ended, Idle
    <3> QED
      BY <3>1
  <2> QED
    BY <1>2, <2>1, <2>2 DEF Overtaken
<1>4. RanOut' = RanOut \/ RanOut' = 0
  BY <1>1 DEF Checkpoint, RanOut
<1>5. CASE ~Holds(s)
  <2>1. UNCHANGED <<row, served>>
    BY <1>5 DEF Checkpoint
  <2>2. Ahead' = Ahead
    BY <2>1 DEF Ahead
  <2>3. Unsaved' = Unsaved
    BY <1>2, <1>5, <2>1 DEF Unsaved, Holds
  <2> QED
    BY <1>2, <1>3, <1>4, <2>2, <2>3, NothingNew
<1>6. CASE Holds(s)
  <2>1. row'.cursor = l.cursor /\ InStep(row.cursor, l) /\ row.token = s
    BY <1>1, <1>6 DEF Checkpoint, Holds, HolderInStep
  <2>2. served' = IF l.cursor = initialCursor THEN {} ELSE served
    BY <1>6 DEF Checkpoint
  <2>3. Ahead' \subseteq Ahead \ Unsaved
    <3> SUFFICES ASSUME NEW p \in Ahead' PROVE p \in Ahead \ Unsaved
      OBVIOUS
    <3>1. p \in served /\ Before(l.cursor, p[1], p[2]) /\ l.cursor # initialCursor
      BY <2>1, <2>2 DEF Ahead
    <3>2. p[1] \in Nat /\ p[2] \in Nat /\ p = <<p[1], p[2]>>
      <4>1. p \in Tasks \X Users
        BY <1>1, <3>1
      <4>2. p[1] \in Tasks /\ p[2] \in Users /\ p = <<p[1], p[2]>>
        BY <4>1
      <4>3. Tasks \in SUBSET Nat /\ Users \in SUBSET Nat
        BY Numbers
      <4> QED
        BY <4>2, <4>3
    <3>3. /\ l.cursor.current \in Nat /\ l.cursor.user \in Nat /\ l.cursor.after \in Nat
          /\ row.cursor.current \in Nat /\ row.cursor.user \in Nat /\ row.cursor.after \in Nat
      <4>1. row.cursor \in Cursors /\ l.cursor \in Cursors
        BY <1>1
      <4>2. (\A x \in Tasks \cup {0} : x \in Nat) /\ \A x \in Users \cup {0} : x \in Nat
        BY Numbers
      <4>3. \A c \in Cursors : c.current \in Nat /\ c.user \in Nat /\ c.after \in Nat
        <5> SUFFICES ASSUME NEW c \in Cursors
                     PROVE  c.current \in Nat /\ c.user \in Nat /\ c.after \in Nat
          OBVIOUS
        <5>1. c.current \in Tasks \cup {0} /\ c.user \in Users \cup {0}
                /\ c.after \in Tasks \cup {0}
          BY DEF Cursors
        <5> QED
          BY <4>2, <5>1
      <4> QED
        BY <4>1, <4>3
    <3>4. CASE l.next = "remind"
      <4>1. /\ BeforeTask(row.cursor, l.cursor.current) /\ l.cursor.current # 0
            /\ Before(row.cursor, l.cursor.current, l.cursor.user)
        BY <1>1, <2>1, <3>4 DEF InStep, Limits
      <4>2. Before(row.cursor, p[1], p[2])
        BY <3>1, <3>2, <3>3, <4>1 DEF Before, BeforeTask
      <4>3. p # <<l.cursor.current, l.cursor.user>>
        BY <3>1, <3>3, <4>1 DEF Before
      <4> QED
        BY <3>1, <4>2, <4>3, <2>1 DEF Ahead, Unsaved
    <3>5. CASE l.next = "pick"
      <4>1. l.cursor.current = 0 /\ BeforeTask(row.cursor, l.cursor.after)
        BY <1>1, <2>1, <3>5 DEF InStep
      <4>2. Before(row.cursor, p[1], p[2])
        BY <3>1, <3>2, <3>3, <4>1 DEF Before, BeforeTask
      <4>3. Unsaved = {}
        BY <2>1, <3>5 DEF Unsaved
      <4> QED
        BY <3>1, <4>2, <4>3 DEF Ahead
    <3> QED
      BY <1>1, <3>1, <3>4, <3>5 DEF Limits
  <2> QED
    BY <1>2, <1>3, <1>4, <2>3, NothingNew
<1> QED
  BY <1>5, <1>6

(* Whoever takes a lease that ran out repeats what its holder had not      *)
(* stored, or leaves it one reminder to send: the fault paid for that.     *)
LEMMA BeginPaid ==
  ASSUME TypesAndLimits, HolderInStep, Paid, TypesAndLimits', NEW s \in Scanners, Begin(s)
  PROVE  Paid'
<1>1. /\ scan \in [Scanners -> Locals] /\ scan[s].at = "idle" /\ ~row.live
      /\ row \in [token : Scanners \cup {None, Lost}, live : BOOLEAN, cursor : Cursors]
      /\ row' = [row EXCEPT !.token = s, !.live = TRUE]
      /\ UNCHANGED <<served, replays, faults>>
      /\ \A z \in Scanners : z # s => scan'[z] = scan[z]
      /\ scan'[s].at = "load"
  BY DEF TypesAndLimits, TypeOK, Begin, Running, historyVars, Locals
<1>2. row'.token = s /\ row'.live /\ row'.cursor = row.cursor /\ row.token # s
  BY <1>1 DEF HolderInStep, Running
<1>3. Ahead' = Ahead /\ Unsaved' = {} /\ RanOut' = 0
  BY <1>1, <1>2 DEF Ahead, Unsaved, RanOut
<1>4. CASE row.token \notin Scanners
  <2>1. Unsaved = {}
    BY <1>4 DEF Unsaved
  <2>2. Overtaken' \subseteq Overtaken
    BY <1>1, <1>2, <1>4 DEF Overtaken
  <2> QED
    BY <1>1, <1>3, <2>1, <2>2, NothingNew
<1>5. CASE row.token \in Scanners
  <2> DEFINE z == row.token
  <2>1. RanOut = 1
    BY <1>1, <1>5 DEF RanOut
  <2>2. Overtaken' \subseteq Overtaken \cup {z}
    BY <1>1, <1>2 DEF Overtaken
  <2>3. /\ IsFiniteSet(Overtaken') /\ Cardinality(Overtaken') \in Nat
        /\ Cardinality(Overtaken') <= Cardinality(Overtaken) + 1
    BY <2>2, Counted, OneMore
  <2>4. /\ Cardinality((Ahead \ Unsaved)') \in Nat
        /\ Cardinality((Ahead \ Unsaved)') + Cardinality(Overtaken')
              <= Cardinality(Ahead \ Unsaved) + Cardinality(Overtaken) + 1
    <3>1. CASE scan[z].at = "save"
      <4>1. Overtaken' \subseteq Overtaken
        BY <1>1, <1>2, <3>1 DEF Overtaken
      <4>2. Cardinality(Overtaken') <= Cardinality(Overtaken)
        BY <4>1, Counted, NoMore
      <4>3. (Ahead \ Unsaved)' \subseteq (Ahead \ Unsaved)
                                        \cup {<<scan[z].cursor.current, scan[z].cursor.user>>}
        BY <1>3 DEF Unsaved
      <4>4. /\ Cardinality((Ahead \ Unsaved)') \in Nat
            /\ Cardinality((Ahead \ Unsaved)') <= Cardinality(Ahead \ Unsaved) + 1
        BY <4>3, Counted, OneMore
      <4> QED
        BY <2>3, <4>2, <4>4, Counted
    <3>2. CASE scan[z].at # "save"
      <4>1. Unsaved = {}
        BY <3>2 DEF Unsaved
      <4>2. /\ Cardinality((Ahead \ Unsaved)') \in Nat
            /\ Cardinality((Ahead \ Unsaved)') <= Cardinality(Ahead \ Unsaved)
        BY <1>3, <4>1, Counted, NoMore
      <4> QED
        BY <2>3, <4>2, Counted
    <3> QED
      BY <3>1, <3>2
  <2>5. replays + Cardinality(Ahead \ Unsaved) + Cardinality(Overtaken) + RanOut <= faults
    BY DEF Paid
  <2>6. replays' + Cardinality((Ahead \ Unsaved)') + Cardinality(Overtaken') + RanOut' <= faults'
    BY <1>1, <1>3, <2>1, <2>3, <2>4, <2>5, Counted
  <2> QED
    BY <2>3, <2>6 DEF Paid
<1> QED
  BY <1>4, <1>5

(* A scan that breaks off pays for what it had not stored.                 *)
LEMMA BreakPaid ==
  ASSUME TypesAndLimits, Paid, TypesAndLimits', NEW s \in Scanners, Fail(s) \/ Crash(s)
  PROVE  Paid'
<1>1. /\ scan \in [Scanners -> Locals]
      /\ row \in [token : Scanners \cup {None, Lost}, live : BOOLEAN, cursor : Cursors]
      /\ \A z \in Scanners : z # s => scan'[z] = scan[z]
      /\ scan'[s].at \in {"idle", "end"}
      /\ served' = served /\ replays' = replays /\ faults' = faults + 1
  BY DEF TypesAndLimits, TypeOK, Fail, Crash, Idle, Ended, historyVars
<1>2. row' = row \/ (row.token = s /\ row' = [row EXCEPT !.token = Lost])
  BY DEF Fail, Crash
<1>3. /\ row'.cursor = row.cursor /\ row'.live = row.live
      /\ row'.token = row.token \/ (row'.token = Lost /\ row.token = s)
  <2>1. CASE row' = row
    BY <2>1
  <2>2. CASE row.token = s /\ row' = [row EXCEPT !.token = Lost]
    BY <1>1, <2>2
  <2> QED
    BY <1>2, <2>1, <2>2
<1>4. Ahead' = Ahead /\ (RanOut' = RanOut \/ RanOut' = 0)
  BY <1>1, <1>3, ReminderAssumption DEF Ahead, RanOut
<1>5. Overtaken' \subseteq Overtaken
  BY <1>1, <1>3, ReminderAssumption DEF Overtaken
<1>6. (Ahead \ Unsaved)' \subseteq (Ahead \ Unsaved)
                                  \cup {<<scan[s].cursor.current, scan[s].cursor.user>>}
  <2>1. CASE row.token = s
    BY <1>4, <2>1 DEF Unsaved
  <2>2. CASE row.token # s
    <3>1. Unsaved' = Unsaved
      BY <1>1, <1>2, <2>2 DEF Unsaved
    <3> QED
      BY <1>4, <3>1
  <2> QED
    BY <2>1, <2>2
<1> QED
  BY <1>1, <1>4, <1>5, <1>6, FaultPays

(* Every step is paid for.                                                 *)
LEMMA PaidStep ==
  TypesAndLimits /\ HolderInStep /\ Paid /\ [Next]_vars => Paid'
<1> SUFFICES ASSUME TypesAndLimits, HolderInStep, Paid, [Next]_vars PROVE Paid'
  OBVIOUS
<1>0. TypesAndLimits'
  BY TypesStep
<1>1. ASSUME NEW s \in Scanners, Begin(s) \/ Work(s) \/ Fail(s) \/ Crash(s)
      PROVE  Paid'
  BY <1>0, <1>1, BeginPaid, ReadingPaid, RemindPaid, CheckpointPaid, BreakPaid DEF Work
<1>2. CASE Expire
  <2>1. /\ row'.token = row.token /\ row'.cursor = row.cursor /\ row.token = Lost
        /\ UNCHANGED <<scan, served, replays, faults>>
    BY <1>2 DEF Expire, TypesAndLimits, TypeOK, historyVars
  <2>2. Ahead' = Ahead /\ Unsaved' = Unsaved /\ Overtaken' = Overtaken /\ RanOut' = 0
    BY <2>1, ReminderAssumption DEF Ahead, Unsaved, Overtaken, RanOut
  <2> QED
    BY <1>0, <2>1, <2>2, NothingNew
<1>3. CASE Outlive
  <2>1. /\ row'.token = row.token /\ row'.cursor = row.cursor /\ row.live
        /\ faults' = faults + 1 /\ UNCHANGED <<scan, served, replays>>
    BY <1>3 DEF Outlive, TypesAndLimits, TypeOK, historyVars
  <2>2. Ahead' = Ahead /\ Unsaved' = Unsaved /\ Overtaken' = Overtaken /\ RanOut = 0
    BY <2>1 DEF Ahead, Unsaved, Overtaken, RanOut
  <2>3. RanOut' \in {0, 1}
    BY DEF RanOut
  <2>4. replays + Cardinality(Ahead \ Unsaved) + Cardinality(Overtaken) + RanOut <= faults
    BY DEF Paid
  <2>5. replays' + Cardinality((Ahead \ Unsaved)') + Cardinality(Overtaken') + RanOut' <= faults'
    BY <2>1, <2>2, <2>3, <2>4, Counted
  <2> QED
    BY <2>2, <2>5, Counted DEF Paid
<1>4. CASE Tick \/ Changed \/ UNCHANGED vars
  <2>1. UNCHANGED <<row, scan, served, replays, faults>>
    BY <1>4, ChangedLeaves DEF Tick, vars, historyVars
  <2>2. Ahead' = Ahead /\ Unsaved' = Unsaved /\ Overtaken' = Overtaken /\ RanOut' = RanOut
    BY <2>1 DEF Ahead, Unsaved, Overtaken, RanOut
  <2> QED
    BY <1>0, <2>1, <2>2, NothingNew
<1> QED
  BY <1>1, <1>2, <1>3, <1>4 DEF Next, Changed

-----------------------------------------------------------------------------
(* The theorems.                                                           *)

(* The invariant holds: the holder of the lease is never more than one     *)
(* reminder or one task from the stored cursor, and every reminder that    *)
(* was or may yet be repeated is set against a fault of its own.           *)
THEOREM ReminderInvariant == Spec => []ReminderInv
<1>1. Init => ReminderInv
  <2> SUFFICES ASSUME Init PROVE ReminderInv
    OBVIOUS
  <2>1. TypesAndLimits
    BY TypesInit
  <2>2. row.token = None /\ served = {} /\ replays = 0 /\ faults = 0
          /\ \A s \in Scanners : scan[s].at = "idle"
    BY DEF Init, Idle
  <2>3. HolderInStep
    BY <2>2, ReminderAssumption DEF HolderInStep
  <2>4. Ahead \ Unsaved = {} /\ Overtaken = {} /\ RanOut = 0
    BY <2>2, ReminderAssumption DEF Ahead, Overtaken, RanOut
  <2>5. Paid
    BY <2>2, <2>4, FS_EmptySet DEF Paid
  <2> QED
    BY <2>1, <2>3, <2>5 DEF ReminderInv, TypesAndLimits
<1>2. ReminderInv /\ [Next]_vars => ReminderInv'
  BY TypesStep, InStepStep, PaidStep DEF ReminderInv, TypesAndLimits
<1> QED
  BY <1>1, <1>2, PTL DEF Spec

(* A crash, an error or an expired lease repeats at most one reminder of   *)
(* a pass, however many scans there are and wherever they are when it      *)
(* happens.                                                                *)
THEOREM RepeatsAreFaults == Spec => []AtMostOneReplay
<1>1. ReminderInv => AtMostOneReplay
  <2> SUFFICES ASSUME ReminderInv PROVE AtMostOneReplay
    OBVIOUS
  <2>1. TypesAndLimits /\ Paid
    BY DEF ReminderInv, TypesAndLimits
  <2>2. replays + Cardinality(Ahead \ Unsaved) + Cardinality(Overtaken) + RanOut <= faults
    BY <2>1 DEF Paid
  <2> QED
    BY <2>1, <2>2, Counted DEF AtMostOneReplay
<1> QED
  BY <1>1, ReminderInvariant, PTL

=============================================================================
