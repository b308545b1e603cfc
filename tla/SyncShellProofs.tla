----------------------------- MODULE SyncShellProofs -----------------------------
(***************************************************************************)
(* What SyncShell promises for every number of tabs and of waiting runs.   *)
(* A restore that holds the lock has marked the workspace, and it keeps    *)
(* the mark until it ends: whatever a run writes after its outcome, the    *)
(* outbox of a marked workspace has been empty since the mark.             *)
(***************************************************************************)
EXTENDS SyncShell, FiniteSetTheorems, TLAPS

\* A run in progress is the head of the queue and has cleared the error on record; only
\* a sync pushes, and a restore has marked the workspace.
RunFits ==
  running # None =>
    /\ queue # <<>> /\ meta.failure = None
    /\ running = "pushing" => Holder.kind = "sync"
    /\ Holder.kind # "sync" => meta.operation # "idle"

WInv == TypeOK /\ RestoringHasNoQueue /\ RunFits

-----------------------------------------------------------------------------
(* The queue *)

\* A run of another tab than t that is under way stays so.
OthersStay(t) == \A u \in Tab \ {t} : InFlight(u) => InFlight(u)'

\* Who holds the lock keeps it.
SameHolder == queue # <<>> => queue' # <<>> /\ (Head(queue').kind = Head(queue).kind)

LEMMA HeadType ==
  ASSUME TypeOK, queue # <<>>
  PROVE  Holder \in Run /\ Holder \in Range(queue)
<1>1. queue \in Seq(Run) /\ Len(queue) \in Nat \ {0} /\ DOMAIN queue = 1 .. Len(queue)
  BY DEF TypeOK
<1>2. Holder = queue[1] /\ 1 \in DOMAIN queue
  BY <1>1 DEF Holder
<1> QED BY <1>1, <1>2 DEF Range

LEMMA AskQueues ==
  ASSUME TypeOK, NEW t \in Tab, NEW kind \in {"sync", "restore", "resume"}, Ask(t, kind)
  PROVE  /\ queue' \in Seq(Run) /\ queue' # <<>>
         /\ SameHolder
         /\ \A r \in Range(queue) : r \in Range(queue')
         /\ [tab |-> t, kind |-> kind, current |-> TRUE] \in Range(queue')
<1>1. PICK r : r = [tab |-> t, kind |-> kind, current |-> TRUE]
  OBVIOUS
<1>2. PICK n : n = Len(queue)
  OBVIOUS
<1>3. r \in Run /\ queue \in Seq(Run) /\ n \in Nat /\ queue' = Append(queue, r)
  BY <1>1, <1>2 DEF TypeOK, Run, Ask
<1>4. /\ queue' \in Seq(Run) /\ Len(queue') = n + 1
      /\ \A k \in 1 .. n : queue'[k] = queue[k]
      /\ queue'[n + 1] = r
  BY <1>2, <1>3
<1>5. DOMAIN queue = 1 .. n /\ DOMAIN queue' = 1 .. n + 1
  BY <1>2, <1>3, <1>4
<1>6. SameHolder
  <2> SUFFICES ASSUME queue # <<>> PROVE queue' # <<>> /\ Head(queue') = Head(queue)
    BY DEF SameHolder
  <2>1. n > 0
    BY <1>2, <1>3
  <2> QED BY <1>3, <1>4, <2>1
<1>7. \A q \in Range(queue) : q \in Range(queue')
  BY <1>3, <1>4, <1>5 DEF Range
<1>8. r \in Range(queue')
  BY <1>3, <1>4, <1>5 DEF Range
<1>9. queue' # <<>>
  BY <1>3, <1>4
<1> QED BY <1>1, <1>4, <1>6, <1>7, <1>8, <1>9

LEMMA runSyncQueues ==
  ASSUME TypeOK, NEW t \in Tab, runSync(t)
  PROVE  /\ queue' \in Seq(Run)
         /\ SameHolder
         /\ queue = <<>> => queue' = queue \/ queue' # <<>>
         /\ \A u \in Tab : InFlight(u) => InFlight(u)'
         /\ t \in signedIn => InFlight(t)'
<1>1. CASE UNCHANGED queue /\ (t \notin signedIn \/ InFlight(t))
  BY <1>1 DEF TypeOK, SameHolder, InFlight
<1>2. CASE Ask(t, "sync")
  BY <1>2, AskQueues DEF InFlight
<1> QED BY <1>1, <1>2 DEF runSync

\* A new session: the runs of the tab are not current any more, and stay.
LEMMA NewGenerationQueues ==
  ASSUME TypeOK, NEW t \in Tab
  PROVE  /\ NewGeneration(t) \in Seq(Run)
         /\ Len(NewGeneration(t)) = Len(queue)
         /\ \A n \in DOMAIN queue : /\ NewGeneration(t)[n].kind = queue[n].kind
                                    /\ NewGeneration(t)[n].tab = queue[n].tab
                                    /\ queue[n].tab # t => NewGeneration(t)[n] = queue[n]
<1>1. queue \in Seq(Run) /\ DOMAIN queue = 1 .. Len(queue) /\ Len(queue) \in Nat
  BY DEF TypeOK
<1>2. ASSUME NEW n \in DOMAIN queue, NEW r, r = queue[n], NEW q,
             q = [r EXCEPT !.current = @ /\ r.tab # t]
      PROVE  q \in Run /\ q.kind = r.kind /\ q.tab = r.tab /\ (r.tab # t => q = r)
  <2>1. r \in Run
    BY <1>1, <1>2
  <2>2. CASE r.tab = t
    <3>1. q = [r EXCEPT !.current = FALSE]
      BY <1>2, <2>2
    <3> QED BY <2>1, <2>2, <3>1 DEF Run
  <2>3. CASE r.tab # t
    <3>1. q = [r EXCEPT !.current = r.current]
      BY <1>2, <2>1, <2>3 DEF Run
    <3>2. q = r
      BY <2>1, <3>1 DEF Run
    <3> QED BY <2>1, <3>2
  <2> QED BY <2>2, <2>3
<1>3. \A n \in DOMAIN queue :
        /\ NewGeneration(t)[n] \in Run
        /\ NewGeneration(t)[n].kind = queue[n].kind
        /\ NewGeneration(t)[n].tab = queue[n].tab
        /\ queue[n].tab # t => NewGeneration(t)[n] = queue[n]
  BY <1>2 DEF NewGeneration
<1>4. DOMAIN NewGeneration(t) = 1 .. Len(queue)
  BY <1>1 DEF NewGeneration
<1>5. NewGeneration(t) = [n \in 1 .. Len(queue) |-> NewGeneration(t)[n]]
  BY <1>1 DEF NewGeneration
<1>6. NewGeneration(t) \in [1 .. Len(queue) -> Run]
  BY <1>1, <1>3, <1>5
<1> QED BY <1>1, <1>3, <1>4, <1>6

LEMMA NewGenerationStays ==
  ASSUME TypeOK, NEW t \in Tab, queue' = NewGeneration(t)
  PROVE  queue' \in Seq(Run) /\ SameHolder /\ OthersStay(t)
<1>1. queue \in Seq(Run) /\ DOMAIN queue = 1 .. Len(queue) /\ Len(queue) \in Nat
  BY DEF TypeOK
<1>2. /\ queue' \in Seq(Run) /\ Len(queue') = Len(queue)
      /\ \A n \in 1 .. Len(queue) : /\ queue'[n].kind = queue[n].kind
                                    /\ queue[n].tab # t => queue'[n] = queue[n]
  BY <1>1, NewGenerationQueues
<1>3. SameHolder
  BY <1>1, <1>2 DEF SameHolder
<1>4. ASSUME NEW u \in Tab \ {t}, InFlight(u) PROVE InFlight(u)'
  <2>1. PICK n \in 1 .. Len(queue) : queue[n] = [tab |-> u, kind |-> "sync", current |-> TRUE]
    BY <1>1, <1>4 DEF InFlight, Range
  <2>2. queue'[n] = queue[n] /\ n \in DOMAIN queue'
    <3>1. DOMAIN queue' = 1 .. Len(queue)
      BY <1>2
    <3>2. queue[n].tab # t
      BY <1>4, <2>1
    <3> QED BY <1>2, <3>1, <3>2
  <2> QED BY <2>1, <2>2 DEF InFlight, Range
<1> QED BY <1>2, <1>3, <1>4 DEF OthersStay

\* A tab that closes takes its own runs out, and only them.
LEMMA WithoutStays ==
  ASSUME TypeOK, NEW t \in Tab, queue' \in Without(t)
  PROVE  /\ queue' \in Seq(Run) /\ OthersStay(t)
         /\ queue = <<>> => queue' = <<>>
         /\ queue # <<>> /\ Holder.tab # t => SameHolder
<1>1. queue \in Seq(Run) /\ DOMAIN queue = 1 .. Len(queue) /\ Len(queue) \in Nat
  BY DEF TypeOK
<1> DEFINE kept == {n \in DOMAIN queue : queue[n].tab # t}
           size == Cardinality(kept)
<1>2. size \in Nat /\ IsFiniteSet(kept)
  <2>1. IsFiniteSet(1 .. Len(queue))
    BY <1>1, FS_Interval
  <2>2. kept \subseteq 1 .. Len(queue)
    BY <1>1
  <2> QED BY <2>1, <2>2, FS_Subset, FS_CardinalityType
<1>3. PICK f \in [1 .. size -> kept] :
        /\ Range(f) = kept
        /\ \A m, n \in DOMAIN f : m < n => f[m] < f[n]
        /\ queue' = [n \in 1 .. size |-> queue[f[n]]]
  BY DEF Without
<1> HIDE DEF size
<1>4. f \in [1 .. size -> kept] /\ \A k \in kept : \E n \in 1 .. size : f[n] = k
  BY <1>3 DEF Range
<1>5. \A n \in 1 .. size : f[n] \in 1 .. Len(queue) /\ queue[f[n]] \in Run
  BY <1>1, <1>4
<1>6. queue' \in [1 .. size -> Run]
  BY <1>3, <1>5
<1>7. queue' \in Seq(Run) /\ Len(queue') = size /\ DOMAIN queue' = 1 .. size
  BY <1>2, <1>6
<1>8. OthersStay(t)
  <2> SUFFICES ASSUME NEW u \in Tab \ {t}, InFlight(u) PROVE InFlight(u)'
    BY DEF OthersStay
  <2>1. PICK k \in 1 .. Len(queue) : queue[k] = [tab |-> u, kind |-> "sync", current |-> TRUE]
    BY <1>1 DEF InFlight, Range
  <2>2. PICK n \in 1 .. size : f[n] = k
    BY <1>1, <1>4, <2>1
  <2>3. queue'[n] = queue[k]
    BY <1>3, <2>2
  <2> QED BY <1>7, <2>1, <2>3 DEF InFlight, Range
<1>9. ASSUME queue = <<>> PROVE queue' = <<>>
  <2>1. kept = {}
    BY <1>1, <1>9
  <2>2. size = 0
    BY <1>2, <2>1, FS_EmptySet DEF size
  <2> QED BY <1>7, <2>2
<1>10. ASSUME queue # <<>>, Holder.tab # t PROVE SameHolder
  <2>1. 1 \in kept /\ Holder = queue[1]
    BY <1>1, <1>10 DEF Holder
  <2>2. PICK n \in 1 .. size : f[n] = 1
    BY <1>4, <2>1
  <2>3. n = 1
    <3>1. CASE n > 1
      <4>1. 1 \in 1 .. size /\ DOMAIN f = 1 .. size
        BY <1>2, <1>4, <3>1
      <4>2. f[1] < 1 /\ f[1] \in 1 .. Len(queue)
        BY <1>3, <1>5, <2>2, <3>1, <4>1
      <4> QED BY <1>1, <4>2
    <3> QED BY <1>2, <3>1
  <2>4. queue'[1] = Holder /\ size > 0
    BY <1>2, <1>3, <2>1, <2>2, <2>3
  <2>5. queue' # <<>> /\ Head(queue') = Holder
    BY <1>7, <2>4
  <2> QED BY <2>5 DEF SameHolder, Holder
<1> QED BY <1>7, <1>8, <1>9, <1>10

\* A run that settles leaves the queue.
LEMMA TailStays ==
  ASSUME NEW q \in Seq(Run), q # <<>>
  PROVE  /\ Tail(q) \in Seq(Run)
         /\ \A r \in Range(q) : r = Head(q) \/ r \in Range(Tail(q))
<1>1. PICK n : n = Len(q)
  OBVIOUS
<1>2. n \in Nat \ {0} /\ DOMAIN q = 1 .. n
  BY <1>1
<1>3. /\ Tail(q) \in Seq(Run) /\ DOMAIN Tail(q) = 1 .. n - 1
      /\ \A k \in 1 .. n - 1 : Tail(q)[k] = q[k + 1]
  BY <1>1, <1>2
<1>4. ASSUME NEW k \in 1 .. n PROVE q[k] = Head(q) \/ q[k] \in Range(Tail(q))
  <2>1. CASE k = 1
    BY <2>1
  <2>2. CASE k # 1
    <3>1. k - 1 \in 1 .. n - 1 /\ Tail(q)[k - 1] = q[k]
      BY <1>2, <1>3, <2>2
    <3> QED BY <1>3, <3>1 DEF Range
  <2> QED BY <2>1, <2>2
<1> QED BY <1>2, <1>3, <1>4 DEF Range

-----------------------------------------------------------------------------
(* Checks and badges *)

CheckState == {"none", "reading", "running", "scheduled", "failed"}
Shown == {"idle", "restoring", "restore_failed"}

LEMMA StartCheckType ==
  ASSUME TypeOK, NEW S, NEW ready \in BOOLEAN, StartCheck(S, ready)
  PROVE  /\ check' \in [Tab -> CheckState]
         /\ \A u \in S \intersect Visible : check'[u] = IF ready THEN "reading" ELSE "none"
         /\ \A u \in Tab : u \notin S => check'[u] = check[u]
<1>1. check \in [Tab -> CheckState] /\ Visible \subseteq Tab
  BY VisibleAssumption DEF TypeOK, CheckState
<1>2. check' = [u \in Tab |-> IF u \notin S \intersect Visible THEN check[u]
                             ELSE IF ready THEN "reading" ELSE "none"]
  BY DEF StartCheck
<1> QED BY <1>1, <1>2 DEF CheckState

LEMMA StatusOfType ==
  ASSUME NEW m \in Meta
  PROVE  StatusOf(m) \in SyncStatus
BY NoneAssumption DEF Meta, StatusOf, SyncStatus

LEMMA EffectType ==
  ASSUME TypeOK, NEW t \in Tab, NEW s \in SyncStatus, AccountEffect(t, s)
  PROVE  status' \in [Tab -> SyncStatus] /\ shown' \in [Tab -> Shown]
BY DEF AccountEffect, TypeOK, Shown

LEMMA ClearType ==
  ASSUME TypeOK, NEW t \in Tab, Clear(t)
  PROVE  /\ signedIn' = signedIn \ {t} /\ signedIn' \in SUBSET Tab
         /\ status' \in [Tab -> SyncStatus] /\ shown' \in [Tab -> Shown]
         /\ check' \in [Tab -> CheckState]
         /\ \A u \in Tab \ {t} : check'[u] = check[u]
<1>1. status' \in [Tab -> SyncStatus] /\ shown' \in [Tab -> Shown]
  BY EffectType DEF Clear, SyncStatus
<1>2. check' \in [Tab -> CheckState] /\ \A u \in Tab \ {t} : check'[u] = check[u]
  BY StartCheckType DEF Clear
<1> QED BY <1>1, <1>2 DEF Clear, TypeOK

\* A run that settles, and what the check that awaited it does
LEMMA SettleType ==
  ASSUME TypeOK, queue # <<>>, Settle
  PROVE  /\ queue' \in Seq(Run) /\ running' = None
         /\ check' \in [Tab -> CheckState]
         /\ \A u \in Tab : u # Holder.tab => check'[u] = check[u]
         /\ \A u \in Tab : check'[u] = "running" /\ InFlight(u) => InFlight(u)'
         /\ \A u \in Tab : check'[u] \in {check[u], "scheduled"}
<1>1. Holder \in Run /\ queue \in Seq(Run)
  BY HeadType DEF TypeOK
<1>2. PICK h : h = Holder
  OBVIOUS
<1>3. h \in Run /\ h.tab \in Tab
  BY <1>1, <1>2 DEF Run
<1>4. /\ queue' = Tail(queue) /\ running' = None
      /\ check' = [check EXCEPT ![h.tab] = IF Awaited(h) THEN "scheduled" ELSE check[h.tab]]
  BY <1>2, <1>3 DEF Settle, TypeOK
<1>5. check \in [Tab -> CheckState]
  BY DEF TypeOK, CheckState
<1>6. check' \in [Tab -> CheckState]
  BY <1>3, <1>4, <1>5 DEF CheckState
<1>7. \A u \in Tab : u # h.tab => check'[u] = check[u]
  BY <1>4, <1>5
<1>8. \A u \in Tab : check'[u] \in {check[u], "scheduled"}
  BY <1>3, <1>4, <1>5
<1>9. queue' \in Seq(Run) /\ \A r \in Range(queue) : r = h \/ r \in Range(queue')
  BY <1>1, <1>2, <1>4, TailStays DEF Holder
<1>10. ASSUME NEW u \in Tab, check'[u] = "running", InFlight(u) PROVE InFlight(u)'
  <2>1. PICK r : r = [tab |-> u, kind |-> "sync", current |-> TRUE]
    OBVIOUS
  <2>2. CASE r = h
    <3>1. h.tab = u /\ h.kind = "sync" /\ h.current
      BY <2>1, <2>2
    <3>2. check[u] = "running"
      BY <1>8, <1>10
    <3>3. check'[u] = "scheduled"
      BY <1>3, <1>4, <1>5, <3>1, <3>2 DEF Awaited
    <3> QED BY <1>10, <3>3
  <2>3. CASE r # h
    BY <1>9, <1>10, <2>1, <2>3 DEF InFlight
  <2> QED BY <2>2, <2>3
<1> QED BY <1>2, <1>4, <1>6, <1>7, <1>8, <1>9, <1>10

-----------------------------------------------------------------------------
(* What a step must keep *)

LEMMA WorkspaceStep ==
  ASSUME WInv, meta'.operation = meta.operation, meta'.failure = meta.failure,
         outbox' = "empty" \/ outbox # "empty" \/ meta.operation = "idle",
         running' = None \/ (running' = running /\ SameHolder)
  PROVE  RestoringHasNoQueue' /\ RunFits'
BY DEF WInv, RestoringHasNoQueue, RunFits, SameHolder, Holder

\* The check of tab u has what it had, or is well where it is now.
Still(u) == /\ u \in signedIn /\ check'[u] = check[u]
            /\ online' => online
            /\ check'[u] = "running" /\ InFlight(u) => InFlight(u)'
            /\ meta.failure # None => meta'.failure # None \/ ErrorIsCleared
Fresh(u) == /\ check'[u] = "none" => ~online'
            /\ check'[u] = "running" => InFlight(u)'
            /\ check'[u] = "failed" => meta'.failure # None

ArmedKept ==
  \A t \in signedIn' \intersect Visible :
    t \notin signedIn \/ Armed(t) \/ Excused(t)
      => Armed(t)' \/ Excused(t)' \/ ErrorIsCleared

LEMMA ArmedStep ==
  ASSUME TypeOK', \A u \in signedIn' \intersect Visible : Still(u) \/ Fresh(u)
  PROVE  ArmedKept
<1> SUFFICES ASSUME NEW u \in signedIn' \intersect Visible,
                    u \notin signedIn \/ Armed(u) \/ Excused(u)
             PROVE  Armed(u)' \/ Excused(u)' \/ ErrorIsCleared
  BY DEF ArmedKept
<1>1. CASE Still(u)
  BY <1>1 DEF Still, Armed, Excused
<1>2. CASE Fresh(u)
  <2>1. check'[u] \in CheckState
    BY VisibleAssumption DEF TypeOK, CheckState
  <2> QED BY <1>2, <2>1 DEF Fresh, Armed, Excused, CheckState
<1> QED BY <1>1, <1>2

Goal == WInv' /\ ArmedKept

LEMMA SameQueue ==
  ASSUME UNCHANGED queue
  PROVE  SameHolder /\ \A u \in Tab : InFlight(u) => InFlight(u)'
BY DEF SameHolder, InFlight

-----------------------------------------------------------------------------
(* Pages *)

LEMMA SignInKeeps ==
  ASSUME WInv, NEW t \in Tab, SignIn(t) \/ Wake(t)
  PROVE  Goal
<1>1. /\ TypeOK /\ online \in BOOLEAN /\ StartCheck({t}, online) /\ signedIn' \subseteq signedIn \union {t}
      /\ UNCHANGED <<online, dbVars, queue, running>>
  BY DEF WInv, TypeOK, SignIn, Wake
<1>2. /\ check' \in [Tab -> CheckState]
      /\ t \in Visible => check'[t] = IF online THEN "reading" ELSE "none"
      /\ \A u \in Tab \ {t} : check'[u] = check[u]
  BY <1>1, StartCheckType
<1>3. status' \in [Tab -> SyncStatus] /\ shown' \in [Tab -> Shown] /\ signedIn' \in SUBSET Tab
  <2>1. CASE Wake(t)
    BY <1>1, <2>1 DEF Wake, TypeOK, Shown
  <2>2. CASE SignIn(t)
    BY <1>1, <2>2, StatusOfType, EffectType DEF SignIn, TypeOK
  <2> QED BY <2>1, <2>2
<1>4. TypeOK'
  BY <1>1, <1>2, <1>3 DEF TypeOK, CheckState, Shown, dbVars
<1>5. RestoringHasNoQueue' /\ RunFits'
  BY <1>1, SameQueue, WorkspaceStep DEF dbVars, WInv, RestoringHasNoQueue
<1>6. \A u \in signedIn' \intersect Visible : Still(u) \/ Fresh(u)
  <2> SUFFICES ASSUME NEW u \in signedIn' \intersect Visible PROVE Still(u) \/ Fresh(u)
    OBVIOUS
  <2>1. CASE u = t
    BY <1>1, <1>2, <2>1 DEF Fresh
  <2>2. CASE u # t
    BY <1>1, <1>2, <2>2, VisibleAssumption, SameQueue DEF Still, dbVars
  <2> QED BY <2>1, <2>2
<1> QED BY <1>4, <1>5, <1>6, ArmedStep DEF Goal, WInv

LEMMA ConnectionKeeps ==
  ASSUME WInv, ConnectionChanges
  PROVE  Goal
<1>1. /\ TypeOK /\ online \in BOOLEAN /\ online' = ~online
      /\ UNCHANGED <<signedIn, status, shown, dbVars, queue, running>>
  BY DEF WInv, TypeOK, ConnectionChanges
<1>2. CASE online
  <2>1. ~online' /\ UNCHANGED check
    BY <1>1, <1>2 DEF ConnectionChanges
  <2>2. TypeOK'
    BY <1>1, <2>1 DEF TypeOK, dbVars
  <2>3. RestoringHasNoQueue' /\ RunFits'
    BY <1>1, SameQueue, WorkspaceStep DEF dbVars, WInv, RestoringHasNoQueue
  <2>4. \A u \in signedIn' \intersect Visible : Still(u) \/ Fresh(u)
    BY <1>1, <2>1, SameQueue, VisibleAssumption DEF Still, dbVars
  <2> QED BY <2>2, <2>3, <2>4, ArmedStep DEF Goal, WInv
<1>3. CASE ~online
  <2>1. online' /\ StartCheck(signedIn, TRUE)
    BY <1>1, <1>3 DEF ConnectionChanges
  <2>2. check' \in [Tab -> CheckState] /\ \A u \in signedIn \intersect Visible : check'[u] = "reading"
    BY <1>1, <2>1, StartCheckType
  <2>3. TypeOK'
    BY <1>1, <2>2 DEF TypeOK, dbVars, CheckState
  <2>4. RestoringHasNoQueue' /\ RunFits'
    BY <1>1, SameQueue, WorkspaceStep DEF dbVars, WInv, RestoringHasNoQueue
  <2>5. \A u \in signedIn' \intersect Visible : Still(u) \/ Fresh(u)
    BY <1>1, <2>2 DEF Fresh
  <2> QED BY <2>3, <2>4, <2>5, ArmedStep DEF Goal, WInv
<1> QED BY <1>1, <1>2, <1>3

LEMMA SignInAgainKeeps ==
  ASSUME WInv, NEW t \in Tab, SignInAgain(t)
  PROVE  Goal
<1>1. /\ TypeOK /\ online \in BOOLEAN /\ StartCheck({t}, online) /\ queue' = NewGeneration(t)
      /\ UNCHANGED <<signedIn, status, shown, online, dbVars, running>>
  BY DEF WInv, TypeOK, SignInAgain
<1>2. /\ check' \in [Tab -> CheckState]
      /\ t \in Visible => check'[t] = IF online THEN "reading" ELSE "none"
      /\ \A u \in Tab \ {t} : check'[u] = check[u]
  BY <1>1, StartCheckType
<1>3. queue' \in Seq(Run) /\ SameHolder /\ OthersStay(t)
  BY <1>1, NewGenerationStays
<1>4. RestoringHasNoQueue' /\ RunFits'
  BY <1>1, <1>3, WorkspaceStep DEF dbVars, WInv, RestoringHasNoQueue
<1>5. TypeOK'
  BY <1>1, <1>2, <1>3, <1>4, NoneAssumption DEF TypeOK, CheckState, dbVars, RunFits
<1>6. \A u \in signedIn' \intersect Visible : Still(u) \/ Fresh(u)
  <2> SUFFICES ASSUME NEW u \in signedIn' \intersect Visible PROVE Still(u) \/ Fresh(u)
    OBVIOUS
  <2>1. CASE u = t
    BY <1>1, <1>2, <2>1 DEF Fresh
  <2>2. CASE u # t
    BY <1>1, <1>2, <1>3, <2>2, VisibleAssumption DEF Still, OthersStay, dbVars
  <2> QED BY <2>1, <2>2
<1> QED BY <1>4, <1>5, <1>6, ArmedStep DEF Goal, WInv

LEMMA LeavingKeeps ==
  ASSUME WInv, NEW t \in Tab, SignOut(t) \/ CloseTab(t)
  PROVE  Goal
<1>1. TypeOK /\ Clear(t) /\ UNCHANGED <<online, dbVars>>
  BY DEF WInv, SignOut, CloseTab
<1>2. /\ signedIn' = signedIn \ {t} /\ signedIn' \in SUBSET Tab
      /\ status' \in [Tab -> SyncStatus] /\ shown' \in [Tab -> Shown]
      /\ check' \in [Tab -> CheckState]
      /\ \A u \in Tab \ {t} : check'[u] = check[u]
  BY <1>1, ClearType
<1>3. /\ queue' \in Seq(Run) /\ OthersStay(t)
      /\ running' = None \/ (running' = running /\ SameHolder)
  <2>1. CASE SignOut(t)
    BY <1>1, <2>1, NewGenerationStays DEF SignOut
  <2>2. CASE CloseTab(t)
    <3>1. /\ queue' \in Without(t)
          /\ running' = IF queue # <<>> /\ Holder.tab = t THEN None ELSE running
      BY <2>2 DEF CloseTab, Holder
    <3>2. CASE queue = <<>>
      BY <1>1, <3>1, <3>2, WithoutStays DEF TypeOK
    <3>3. CASE queue # <<>> /\ Holder.tab = t
      BY <1>1, <3>1, <3>3, WithoutStays
    <3>4. CASE queue # <<>> /\ Holder.tab # t
      BY <1>1, <3>1, <3>4, WithoutStays
    <3> QED BY <3>2, <3>3, <3>4
  <2> QED BY <2>1, <2>2
<1>4. RestoringHasNoQueue' /\ RunFits'
  BY <1>1, <1>3, WorkspaceStep DEF dbVars, WInv, RestoringHasNoQueue
<1>5. TypeOK'
  BY <1>1, <1>2, <1>3, <1>4, NoneAssumption DEF TypeOK, CheckState, Shown, dbVars, RunFits
<1>6. \A u \in signedIn' \intersect Visible : Still(u) \/ Fresh(u)
  BY <1>1, <1>2, <1>3, VisibleAssumption DEF Still, OthersStay, dbVars
<1> QED BY <1>4, <1>5, <1>6, ArmedStep DEF Goal, WInv

\* A step of a page that asks for a run at most, with check and the session as they are
LEMMA AskingKeeps ==
  ASSUME WInv, NEW t \in Tab,
         UNCHANGED <<signedIn, check, online, meta, vehicles, running>>,
         status' \in [Tab -> SyncStatus], shown' \in [Tab -> Shown],
         outbox' \in {"empty", "pending", "retryable", "blocked"},
         outbox' = outbox \/ meta.operation = "idle",
         UNCHANGED queue \/ runSync(t) \/ Ask(t, "restore") \/ Ask(t, "resume")
  PROVE  Goal
<1>1. TypeOK
  BY DEF WInv
<1>2. queue' \in Seq(Run) /\ SameHolder /\ \A u \in Tab : InFlight(u) => InFlight(u)'
  <2>1. CASE UNCHANGED queue
    BY <1>1, <2>1, SameQueue DEF TypeOK
  <2>2. CASE runSync(t)
    BY <1>1, <2>2, runSyncQueues
  <2>3. CASE Ask(t, "restore")
    BY <1>1, <2>3, AskQueues DEF InFlight
  <2>4. CASE Ask(t, "resume")
    BY <1>1, <2>4, AskQueues DEF InFlight
  <2> QED BY <2>1, <2>2, <2>3, <2>4
<1>3. RestoringHasNoQueue' /\ RunFits'
  BY <1>2, WorkspaceStep DEF WInv, RestoringHasNoQueue
<1>4. TypeOK'
  BY <1>1, <1>2, <1>3, NoneAssumption DEF TypeOK, Shown, RunFits
<1>5. \A u \in signedIn' \intersect Visible : Still(u) \/ Fresh(u)
  BY <1>2, VisibleAssumption DEF Still
<1> QED BY <1>3, <1>4, <1>5, ArmedStep DEF Goal, WInv

LEMMA UserKeeps ==
  ASSUME WInv, NEW t \in Tab,
         \/ AppShell(t) \/ RootRedirect(t) \/ Edit(t) \/ SyncStatusBadge(t)
         \/ handleRepair(t) \/ handleRestore(t) \/ Retry(t)
  PROVE  Goal
<1>1. /\ status \in [Tab -> SyncStatus] /\ shown \in [Tab -> Shown] /\ meta \in Meta
      /\ outbox \in {"empty", "pending", "retryable", "blocked"}
  BY DEF WInv, TypeOK, Shown
<1>2. CASE AppShell(t)
  <2>1. /\ UNCHANGED <<signedIn, status, check, online, dbVars, running>>
        /\ shown' = [shown EXCEPT ![t] = meta.operation]
        /\ UNCHANGED queue \/ Ask(t, "resume")
    BY <1>2 DEF AppShell, WorkspaceRecovery
  <2>2. shown' \in [Tab -> Shown]
    BY <1>1, <2>1 DEF Meta, Shown
  <2> QED BY <1>1, <2>1, <2>2, AskingKeeps DEF dbVars
<1>3. CASE RootRedirect(t) \/ SyncStatusBadge(t) \/ Retry(t)
  BY <1>1, <1>3, AskingKeeps DEF RootRedirect, SyncStatusBadge, Retry, tabVars, dbVars
<1>4. CASE handleRestore(t)
  BY <1>1, <1>4, AskingKeeps DEF handleRestore, tabVars, dbVars
<1>5. CASE Edit(t)
  BY <1>1, <1>5, AskingKeeps DEF Edit, MayChangeWorkspace, tabVars
<1>6. CASE handleRepair(t)
  <2>1. status' \in [Tab -> SyncStatus]
    BY <1>1, <1>6 DEF handleRepair, SyncStatus
  <2> QED BY <1>1, <1>6, <2>1, AskingKeeps DEF handleRepair, MayChangeWorkspace
<1> QED BY <1>2, <1>3, <1>4, <1>5, <1>6

LEMMA EndCheckKeeps ==
  ASSUME WInv, NEW t \in Tab, EndCheck(t)
  PROVE  Goal
<1>1. /\ TypeOK /\ check \in [Tab -> CheckState]
      /\ UNCHANGED <<signedIn, status, shown, online, dbVars, running>>
  BY DEF WInv, TypeOK, CheckState, EndCheck
<1>2. \/ check' = [check EXCEPT ![t] = "running"] /\ runSync(t)
      \/ check' = [check EXCEPT ![t] = "scheduled"] /\ UNCHANGED queue
      \/ check' = [check EXCEPT ![t] = "failed"] /\ meta.failure # None /\ UNCHANGED queue
  BY DEF EndCheck
<1>3. /\ queue' \in Seq(Run) /\ SameHolder /\ \A u \in Tab : InFlight(u) => InFlight(u)'
  BY <1>1, <1>2, runSyncQueues, SameQueue DEF TypeOK
<1>4. /\ check' \in [Tab -> CheckState] /\ \A u \in Tab \ {t} : check'[u] = check[u]
      /\ \/ check'[t] = "scheduled" \/ (check'[t] = "failed" /\ meta.failure # None)
         \/ t \in signedIn => check'[t] = "running" /\ InFlight(t)'
  BY <1>1, <1>2, runSyncQueues DEF CheckState
<1>5. RestoringHasNoQueue' /\ RunFits'
  BY <1>1, <1>3, WorkspaceStep DEF dbVars, WInv, RestoringHasNoQueue
<1>6. TypeOK'
  BY <1>1, <1>3, <1>4, <1>5, NoneAssumption DEF TypeOK, CheckState, dbVars, RunFits
<1>7. \A u \in signedIn' \intersect Visible : Still(u) \/ Fresh(u)
  <2> SUFFICES ASSUME NEW u \in signedIn' \intersect Visible PROVE Still(u) \/ Fresh(u)
    OBVIOUS
  <2>1. CASE u = t
    BY <1>1, <1>4, <2>1 DEF Fresh, dbVars
  <2>2. CASE u # t
    BY <1>1, <1>3, <1>4, <2>2, VisibleAssumption DEF Still, dbVars
  <2> QED BY <2>1, <2>2
<1> QED BY <1>5, <1>6, <1>7, ArmedStep DEF Goal, WInv

LEMMA PageKeeps ==
  ASSUME WInv, NEW t \in Tab, Page(t)
  PROVE  Goal
BY SignInKeeps, SignInAgainKeeps, LeavingKeeps, UserKeeps, EndCheckKeeps DEF Page

LEMMA TimeKeeps ==
  ASSUME WInv, TimePasses
  PROVE  Goal
<1>1. /\ meta' \in Meta /\ meta'.operation = meta.operation /\ meta'.failure = meta.failure
      /\ UNCHANGED <<tabVars, online, outbox, vehicles, queue, running>>
  BY DEF WInv, TypeOK, TimePasses, Meta
<1>2. TypeOK'
  BY <1>1 DEF WInv, TypeOK, tabVars
<1>3. RestoringHasNoQueue' /\ RunFits'
  BY <1>1, SameQueue, WorkspaceStep DEF WInv, RestoringHasNoQueue
<1>4. \A u \in signedIn' \intersect Visible : Still(u) \/ Fresh(u)
  BY <1>1, SameQueue, VisibleAssumption DEF Still, tabVars
<1> QED BY <1>2, <1>3, <1>4, ArmedStep DEF Goal, WInv

-----------------------------------------------------------------------------
(* Runs *)

\* The holder ends, and its tab, the badge and the metadata take the outcome.
LEMMA SettlingKeeps ==
  ASSUME WInv, queue # <<>>, Settle,
         UNCHANGED <<signedIn, shown, online>>, status' \in [Tab -> SyncStatus], meta' \in Meta,
         outbox' \in {"empty", "pending", "retryable", "blocked"}, vehicles' \in BOOLEAN,
         meta'.operation # "idle" => outbox' = "empty",
         meta.failure # None => meta'.failure # None
  PROVE  Goal
<1>1. /\ TypeOK
      /\ queue' \in Seq(Run) /\ running' = None
      /\ check' \in [Tab -> CheckState]
      /\ \A u \in Tab : check'[u] = "running" /\ InFlight(u) => InFlight(u)'
      /\ \A u \in Tab : check'[u] \in {check[u], "scheduled"}
  BY SettleType DEF WInv
<1>2. TypeOK'
  BY <1>1 DEF TypeOK, CheckState
<1>3. RestoringHasNoQueue' /\ RunFits'
  BY <1>1 DEF RestoringHasNoQueue, RunFits
<1>4. \A u \in signedIn' \intersect Visible : Still(u) \/ Fresh(u)
  <2> SUFFICES ASSUME NEW u \in signedIn' \intersect Visible PROVE Still(u) \/ Fresh(u)
    OBVIOUS
  <2>1. CASE check'[u] = check[u]
    BY <1>1, <2>1, VisibleAssumption DEF Still
  <2>2. CASE check'[u] = "scheduled"
    BY <2>2 DEF Fresh
  <2> QED BY <1>1, <2>1, <2>2, VisibleAssumption
<1> QED BY <1>2, <1>3, <1>4, ArmedStep DEF Goal, WInv

\* The holder goes on to its next request.
LEMMA GoingOnKeeps ==
  ASSUME WInv, queue # <<>>,
         UNCHANGED <<signedIn, check, shown, online, queue>>, status' \in [Tab -> SyncStatus],
         meta' \in Meta, vehicles' \in BOOLEAN,
         outbox' \in {"empty", "pending", "retryable", "blocked"},
         running' \in {"pushing", "pulling", "finishing"},
         meta'.operation # "idle" => outbox' = "empty",
         running' = "pushing" => Holder.kind = "sync",
         Holder.kind # "sync" => meta'.operation # "idle",
         meta'.failure = None
  PROVE  Goal
<1>1. TypeOK'
  BY NoneAssumption DEF WInv, TypeOK
<1>2. RestoringHasNoQueue' /\ RunFits'
  BY DEF RestoringHasNoQueue, RunFits, Holder
<1>3. \A u \in signedIn' \intersect Visible : Still(u) \/ Fresh(u)
  <2>1. meta.failure # None => ErrorIsCleared
    BY NoneAssumption DEF WInv, RunFits, ErrorIsCleared
  <2> QED BY <2>1, SameQueue, VisibleAssumption DEF Still
<1> QED BY <1>1, <1>2, <1>3, ArmedStep DEF Goal, WInv

LEMMA ShowsType ==
  ASSUME TypeOK, queue # <<>>, NEW s \in SyncStatus, Shows(s)
  PROVE  status' \in [Tab -> SyncStatus]
<1>1. Holder.tab \in Tab
  BY HeadType DEF Run
<1> QED BY <1>1 DEF Shows, TypeOK

\* A run that fails: a sync leaves the mark of the workspace alone, a restore has set it.
LEMMA MetaAfterFits ==
  ASSUME WInv, queue # <<>>, running # None, NEW failure \in {"blocked", "terminal", "retryable"}
  PROVE  /\ MetaAfter(Holder, failure) \in Meta /\ MetaAfter(Holder, failure).failure # None
         /\ MetaAfter(Holder, failure).operation # "idle" => outbox = "empty" /\ meta.operation # "idle"
         /\ StatusAfter(Holder, failure) \in SyncStatus
<1>1. /\ meta \in Meta
      /\ Holder.kind # "sync" => meta.operation # "idle"
      /\ meta.operation # "idle" => outbox = "empty"
  BY DEF WInv, TypeOK, RunFits, RestoringHasNoQueue
<1>2. CASE Holder.kind = "sync"
  <2>1. MetaAfter(Holder, failure) = [meta EXCEPT !.failure = failure]
    BY <1>2 DEF MetaAfter
  <2>2. StatusAfter(Holder, failure) \in SyncStatus
    BY <1>2 DEF StatusAfter, SyncStatus
  <2> QED BY <1>1, <2>1, <2>2, NoneAssumption DEF Meta
<1>3. CASE Holder.kind # "sync"
  <2>1. MetaAfter(Holder, failure) =
          [meta EXCEPT !.operation = "restore_failed", !.failure = "retryable", !.ready = FALSE]
    BY <1>3 DEF MetaAfter
  <2>2. StatusAfter(Holder, failure) = "retryable"
    BY <1>3 DEF StatusAfter
  <2> QED BY <1>1, <1>3, <2>1, <2>2, NoneAssumption DEF Meta, SyncStatus
<1> QED BY <1>2, <1>3

LEMMA failKeeps ==
  ASSUME WInv, queue # <<>>, running # None, UNCHANGED online,
         NEW failure \in {"blocked", "terminal", "retryable"}, fail(failure),
         outbox' \in {"empty", "pending", "retryable", "blocked"}, vehicles' \in BOOLEAN,
         outbox = "empty" => outbox' = "empty"
  PROVE  Goal
<1>1. PICK m, s : m = MetaAfter(Holder, failure) /\ s = StatusAfter(Holder, failure)
  OBVIOUS
<1>2. m \in Meta /\ m.failure # None /\ s \in SyncStatus /\ (m.operation # "idle" => outbox = "empty")
  BY <1>1, MetaAfterFits
<1>3. meta' = m /\ Shows(s) /\ Settle /\ UNCHANGED <<signedIn, shown>>
  BY <1>1 DEF fail
<1>4. status' \in [Tab -> SyncStatus]
  BY <1>2, <1>3, ShowsType DEF WInv
<1> QED BY <1>2, <1>3, <1>4, SettlingKeeps

LEMMA expireKeeps ==
  ASSUME WInv, queue # <<>>, running # None, UNCHANGED online,
         expireSyncSession,
         outbox' \in {"empty", "pending", "retryable", "blocked"}, vehicles' \in BOOLEAN,
         outbox = "empty" => outbox' = "empty"
  PROVE  Goal
<1>1. PICK h : h = Holder
  OBVIOUS
<1>2. TypeOK /\ h \in Run /\ h.tab \in Tab
  BY <1>1, HeadType DEF Run, WInv
<1>3. PICK m : m = MetaAfter(h, "terminal")
  OBVIOUS
<1>4. m \in Meta /\ m.failure # None /\ (m.operation # "idle" => outbox = "empty")
  BY <1>1, <1>3, MetaAfterFits
<1>5. PICK q : q = NewGeneration(h.tab)
  OBVIOUS
<1>6. meta' = m /\ Clear(h.tab) /\ queue' = Tail(q) /\ running' = None
  BY <1>1, <1>3, <1>5 DEF expireSyncSession
<1>7. /\ signedIn' = signedIn \ {h.tab} /\ signedIn' \in SUBSET Tab
      /\ status' \in [Tab -> SyncStatus] /\ shown' \in [Tab -> Shown]
      /\ check' \in [Tab -> CheckState]
      /\ \A u \in Tab \ {h.tab} : check'[u] = check[u]
  BY <1>2, <1>6, ClearType
<1>8. DOMAIN queue = 1 .. Len(queue) /\ Len(queue) \in Nat \ {0} /\ h = queue[1]
  BY <1>1, <1>2 DEF TypeOK, Holder
<1>9. /\ q \in Seq(Run) /\ Len(q) = Len(queue)
      /\ \A n \in 1 .. Len(queue) : /\ q[n].tab = queue[n].tab
                                    /\ queue[n].tab # h.tab => q[n] = queue[n]
  BY <1>2, <1>5, <1>8, NewGenerationQueues
<1>10. /\ Tail(q) \in Seq(Run) /\ Head(q) = q[1] /\ DOMAIN q = 1 .. Len(queue)
       /\ \A r \in Range(q) : r = Head(q) \/ r \in Range(Tail(q))
  BY <1>8, <1>9, TailStays
<1>11. ASSUME NEW u \in Tab \ {h.tab}, InFlight(u) PROVE InFlight(u)'
  <2>1. PICK r : r = [tab |-> u, kind |-> "sync", current |-> TRUE]
    OBVIOUS
  <2>2. PICK n \in 1 .. Len(queue) : queue[n] = r
    BY <1>8, <1>11, <2>1 DEF InFlight, Range
  <2>3. q[n] = r /\ r.tab = u
    BY <1>9, <1>11, <2>1, <2>2
  <2>4. r \in Range(q)
    BY <1>10, <2>3 DEF Range
  <2>5. r # Head(q)
    BY <1>8, <1>9, <1>10, <1>11, <2>3
  <2> QED BY <1>6, <1>10, <2>1, <2>4, <2>5 DEF InFlight
<1>12. TypeOK'
  BY <1>2, <1>4, <1>6, <1>7, <1>10 DEF TypeOK, CheckState, Shown
<1>13. RestoringHasNoQueue' /\ RunFits'
  BY <1>4, <1>6 DEF RestoringHasNoQueue, RunFits
<1>14. \A u \in signedIn' \intersect Visible : Still(u) \/ Fresh(u)
  BY <1>4, <1>6, <1>7, <1>11, VisibleAssumption DEF Still
<1> QED BY <1>12, <1>13, <1>14, ArmedStep DEF Goal, WInv

LEMMA RefusedKeeps ==
  ASSUME WInv, queue # <<>>, running # None, UNCHANGED online, Refused,
         outbox' \in {"empty", "pending", "retryable", "blocked"}, vehicles' \in BOOLEAN,
         outbox = "empty" => outbox' = "empty"
  PROVE  Goal
BY failKeeps, expireKeeps DEF Refused

LEMMA BeginKeeps ==
  ASSUME WInv, performSync \/ performRestore
  PROVE  Goal
<1>1. /\ queue # <<>> /\ running = None /\ TypeOK /\ meta \in Meta
      /\ meta.operation # "idle" => outbox = "empty"
      /\ outbox \in {"empty", "pending", "retryable", "blocked"} /\ vehicles \in BOOLEAN
      /\ UNCHANGED <<signedIn, check, shown, online, queue>>
  BY DEF performSync, performRestore, At, WInv, TypeOK, RestoringHasNoQueue
<1>2. CASE performSync
  <2>1. /\ Holder.kind = "sync" /\ running' = "pushing"
        /\ UNCHANGED <<outbox, vehicles>>
        /\ meta' = [meta EXCEPT !.failure = None, !.ready = FALSE]
    BY <1>2 DEF performSync
  <2>2. status' \in [Tab -> SyncStatus]
    BY <1>1, <1>2, ShowsType DEF performSync, SyncStatus
  <2>3. meta' \in Meta /\ meta'.operation = meta.operation /\ meta'.failure = None
    BY <1>1, <2>1 DEF Meta
  <2> QED BY <1>1, <2>1, <2>2, <2>3, GoingOnKeeps
<1>3. CASE performRestore
  <2>1. Holder.kind # "sync" /\ running' = "pulling"
    BY <1>3 DEF performRestore
  <2>2. status' \in [Tab -> SyncStatus]
    BY <1>1, <1>3, ShowsType DEF performRestore, SyncStatus
  <2>3. /\ meta' \in Meta /\ meta'.operation = "restoring" /\ meta'.failure = None
        /\ outbox' = "empty" /\ vehicles' \in BOOLEAN
    <3>1. CASE meta.operation = "idle"
      <4>1. /\ meta' = [operation |-> "restoring", failure |-> None, syncedAt |-> None,
                        ready |-> FALSE]
            /\ outbox' = "empty" /\ vehicles' = FALSE
        BY <1>3, <3>1 DEF performRestore
      <4> QED BY <4>1 DEF Meta
    <3>2. CASE meta.operation # "idle"
      BY <1>1, <1>3, <3>2 DEF performRestore, Meta
    <3> QED BY <3>1, <3>2
  <2> QED BY <1>1, <2>1, <2>2, <2>3, GoingOnKeeps
<1> QED BY <1>2, <1>3

LEMMA NothingDoneKeeps ==
  ASSUME WInv, StaleRun \/ skipRestore
  PROVE  Goal
<1>1. /\ queue # <<>> /\ Settle /\ UNCHANGED <<signedIn, status, shown, online, dbVars>>
  BY DEF StaleRun, skipRestore, At
<1> QED BY <1>1, SettlingKeeps DEF dbVars, WInv, TypeOK, RestoringHasNoQueue

LEMMA pushOutboxKeeps ==
  ASSUME WInv, pushOutbox
  PROVE  Goal
<1>1. /\ queue # <<>> /\ running = "pushing" /\ running # None /\ Holder.kind = "sync"
      /\ meta \in Meta /\ meta.failure = None
      /\ outbox \in {"empty", "pending", "retryable", "blocked"}
      /\ UNCHANGED <<online, vehicles>> /\ vehicles \in BOOLEAN /\ status \in [Tab -> SyncStatus]
  BY NoneAssumption DEF pushOutbox, At, WInv, TypeOK, RunFits
<1>2. CASE outbox' = "empty" /\ running' = "pulling" /\ UNCHANGED <<tabVars, meta, queue>>
  BY <1>1, <1>2, GoingOnKeeps DEF tabVars
<1>3. CASE outbox # "empty" /\ outbox' = "blocked" /\ fail("blocked")
  BY <1>1, <1>3, failKeeps
<1>4. CASE outbox' \in {outbox} \union (IF outbox = "pending" THEN {"retryable"} ELSE {}) /\ Refused
  BY <1>1, <1>4, RefusedKeeps
<1> QED BY <1>2, <1>3, <1>4 DEF pushOutbox

LEMMA pullChangesKeeps ==
  ASSUME WInv, pullChanges
  PROVE  Goal
<1>1. /\ queue # <<>> /\ running = "pulling" /\ running # None
      /\ meta \in Meta /\ meta.failure = None
      /\ meta.operation # "idle" => outbox = "empty"
      /\ Holder.kind # "sync" => meta.operation # "idle"
      /\ outbox \in {"empty", "pending", "retryable", "blocked"}
      /\ UNCHANGED <<online, outbox>> /\ vehicles \in BOOLEAN /\ status \in [Tab -> SyncStatus]
  BY NoneAssumption DEF pullChanges, At, WInv, TypeOK, RunFits, RestoringHasNoQueue
<1>2. CASE UNCHANGED vehicles /\ Holder.kind = "sync" /\ deferSync
  <2>1. meta' = [meta EXCEPT !.failure = None] /\ Shows("pending") /\ Settle
        /\ UNCHANGED <<signedIn, shown>>
    BY <1>2 DEF deferSync
  <2>2. status' \in [Tab -> SyncStatus]
    BY <1>1, <2>1, ShowsType DEF WInv, SyncStatus
  <2>3. meta' \in Meta /\ meta'.operation = meta.operation
    BY <1>1, <2>1 DEF Meta
  <2> QED BY <1>1, <1>2, <2>1, <2>2, <2>3, SettlingKeeps
<1>3. CASE UNCHANGED vehicles /\ fail("retryable")
  BY <1>1, <1>3, failKeeps
<1>4. CASE vehicles' = TRUE /\ running' = "finishing" /\ UNCHANGED <<tabVars, meta, queue>>
  BY <1>1, <1>4, GoingOnKeeps DEF tabVars
<1>5. CASE vehicles' \in {vehicles, TRUE} /\ Refused
  BY <1>1, <1>5, RefusedKeeps
<1> QED BY <1>2, <1>3, <1>4, <1>5 DEF pullChanges

LEMMA FinishKeeps ==
  ASSUME WInv, finishSync \/ finishRestore
  PROVE  Goal
<1>1. /\ queue # <<>> /\ Settle /\ meta \in Meta /\ meta.failure = None
      /\ meta.operation # "idle" => outbox = "empty"
      /\ outbox \in {"empty", "pending", "retryable", "blocked"} /\ vehicles \in BOOLEAN
      /\ UNCHANGED <<signedIn, shown, online, outbox, vehicles>>
  BY NoneAssumption DEF finishSync, finishRestore, At, WInv, TypeOK, RunFits, RestoringHasNoQueue
<1>2. CASE finishSync
  <2>1. status' \in [Tab -> SyncStatus]
    BY <1>1, <1>2, ShowsType DEF finishSync, WInv, SyncStatus
  <2>2. meta' = [meta EXCEPT !.syncedAt = IF outbox = "empty" THEN "fresh" ELSE meta.syncedAt,
                             !.failure = None, !.ready = TRUE]
    BY <1>1, <1>2 DEF finishSync, Meta
  <2>3. meta' \in Meta /\ meta'.operation = meta.operation
    BY <1>1, <2>2 DEF Meta
  <2> QED BY <1>1, <2>1, <2>3, SettlingKeeps
<1>3. CASE finishRestore
  <2>1. status' \in [Tab -> SyncStatus]
    BY <1>1, <1>3, ShowsType DEF finishRestore, WInv, SyncStatus
  <2>2. meta' \in Meta /\ meta'.operation = "idle"
    BY <1>3 DEF finishRestore, Meta
  <2> QED BY <1>1, <2>1, <2>2, SettlingKeeps
<1> QED BY <1>2, <1>3

-----------------------------------------------------------------------------
(* Theorems *)

LEMMA InitKeeps == Init => WInv
BY DEF Init, WInv, TypeOK, RestoringHasNoQueue, RunFits, Meta, SyncStatus

LEMMA StepKeeps == WInv /\ [Next]_vars => WInv' /\ ArmedKept
<1> SUFFICES ASSUME WInv, [Next]_vars PROVE Goal
  BY DEF Goal
<1>1. CASE UNCHANGED vars
  <2>1. UNCHANGED <<signedIn, status, check, shown, online, meta, outbox, vehicles, queue, running>>
    BY <1>1 DEF vars, tabVars, dbVars
  <2>2. WInv'
    BY <2>1 DEF WInv, TypeOK, RestoringHasNoQueue, RunFits, Holder
  <2>3. \A u \in signedIn' \intersect Visible : Still(u)
    BY <2>1 DEF Still, InFlight
  <2> QED BY <2>2, <2>3, ArmedStep DEF Goal, WInv
<1>2. CASE \E t \in Tab : Page(t)
  BY <1>2, PageKeeps
<1>3. CASE RunStep
  BY <1>3, BeginKeeps, NothingDoneKeeps, pushOutboxKeeps, pullChangesKeeps, FinishKeeps DEF RunStep
<1>4. CASE ConnectionChanges \/ TimePasses
  BY <1>4, ConnectionKeeps, TimeKeeps
<1> QED BY <1>1, <1>2, <1>3, <1>4 DEF Next

\* Every variable of the tabs, the lock and the account keeps its type.
THEOREM TypeCorrect == Spec => []TypeOK
<1>1. WInv => TypeOK
  BY DEF WInv
<1> QED BY <1>1, InitKeeps, StepKeeps, PTL DEF Spec

\* While a restore is under way or has failed, no mutation waits in the outbox: the
\* wipe of performRestore, the guards of enqueueMutation and repairBlockedMutation and
\* the lock see to it together, for any number of tabs.
THEOREM RestoringIsEmpty == Spec => []RestoringHasNoQueue
<1>1. WInv => RestoringHasNoQueue
  BY DEF WInv
<1> QED BY <1>1, InitKeeps, StepKeeps, PTL DEF Spec

\* autoSync of a signed-in page in view keeps a timer, a run it awaits, or an error on
\* record for which it waits, whatever checks, runs, connections, sessions and other
\* tabs do: only the run that clears this error can take it away (the early return of
\* check, and retries that start a run without a check).
THEOREM ArmedTillCleared == Spec => ArmedUntilErrorCleared
<1>1. WInv /\ [Next]_vars =>
        [\A t \in signedIn' \intersect Visible :
           t \notin signedIn \/ Armed(t) \/ Excused(t)
             => Armed(t)' \/ Excused(t)' \/ ErrorIsCleared]_vars
  BY StepKeeps DEF ArmedKept
<1> QED BY <1>1, StepKeeps, InitKeeps, PTL DEF Spec, ArmedUntilErrorCleared

\* Rows go only in the restore that begins a wipe.
LEMMA OnlyRestoreWipes ==
  ASSUME WInv, [Next]_vars, vehicles, ~vehicles'
  PROVE  performRestore /\ meta.operation = "idle"
<1>1. CASE UNCHANGED vars
  BY <1>1 DEF vars, dbVars
<1>2. ASSUME NEW t \in Tab, Page(t) PROVE FALSE
  <2>1. CASE SignIn(t) \/ SignInAgain(t) \/ SignOut(t) \/ CloseTab(t) \/ AppShell(t) \/ EndCheck(t)
    BY <2>1 DEF SignIn, SignInAgain, SignOut, CloseTab, AppShell, EndCheck, dbVars
  <2>2. CASE Wake(t) \/ RootRedirect(t) \/ Edit(t) \/ SyncStatusBadge(t)
    BY <2>2 DEF Wake, RootRedirect, Edit, SyncStatusBadge, dbVars
  <2>3. CASE handleRepair(t) \/ handleRestore(t) \/ Retry(t)
    BY <2>3 DEF handleRepair, handleRestore, Retry, dbVars
  <2> QED BY <1>2, <2>1, <2>2, <2>3 DEF Page
<1>3. CASE ConnectionChanges \/ TimePasses
  BY <1>3 DEF ConnectionChanges, TimePasses, dbVars
<1>4. CASE StaleRun \/ skipRestore \/ performSync \/ pushOutbox \/ finishSync \/ finishRestore
  BY <1>4 DEF StaleRun, skipRestore, performSync, pushOutbox, finishSync, finishRestore, dbVars
<1>5. CASE pullChanges
  BY <1>5 DEF pullChanges
<1>6. CASE performRestore
  BY <1>6 DEF performRestore
<1> QED BY <1>1, <1>2, <1>3, <1>4, <1>5, <1>6 DEF Next, RunStep

\* Only a restore that the user has confirmed deletes anything; a restore that a page
\* resumes never does (resumeRestoreFromServer), whatever other tabs did meanwhile.
THEOREM ResumesKeepRows == Spec => ResumeDestroysNothing
<1>1. ASSUME WInv, [Next]_vars, vehicles, ~vehicles' PROVE Holder.kind = "restore"
  <2>1. performRestore /\ meta.operation = "idle"
    BY <1>1, OnlyRestoreWipes
  <2>2. Holder.kind # "sync" /\ Holder.kind # "resume" /\ queue # <<>>
    BY <2>1 DEF performRestore, NothingToResume, At
  <2> QED BY <1>1, <2>2, HeadType DEF WInv, Run
<1>2. WInv /\ [Next]_vars => [vehicles /\ ~vehicles' => Holder.kind = "restore"]_vars
  BY <1>1
<1> QED BY <1>2, InitKeeps, StepKeeps, PTL DEF Spec, ResumeDestroysNothing
=============================================================================
