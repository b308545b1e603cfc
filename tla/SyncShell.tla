------------------------------ MODULE SyncShell ------------------------------
(***************************************************************************)
(* Who starts a sync or a restore, when, and what the badge says of it: the *)
(* tabs of one account in one browser.  Every tab has its session and sync  *)
(* store; the tables of the account and the Web Lock are shared.  What a    *)
(* run does to rows and pages is Sync's; here it is its outcome.            *)
(*                                                                         *)
(* A run steps from one request to the next; what it writes to the          *)
(* metadata and the badge on the way is written with that step.  Pages are  *)
(* taken to be visible: a hidden one only does less.                        *)
(***************************************************************************)
EXTENDS Naturals, Sequences, FiniteSets, Functions

CONSTANTS
  Tab,
  Visible,        \* bound: the tabs whose autoSync is followed
  MaxQueue,       \* bound: runs that wait for the lock
  None            \* null

ASSUME VisibleAssumption  == Visible \subseteq Tab
ASSUME MaxQueueAssumption == MaxQueue \in Nat
ASSUME NoneAssumption ==
  None \notin {"blocked", "terminal", "retryable", "fresh", "stale", "pushing", "pulling", "finishing"}

SyncStatus == {"idle", "syncing", "pending", "synced", "retryable", "blocked", "restoring", "error"}

VARIABLES
  signedIn,   \* the tabs that are open and signed in
  status,     \* useSyncStore of a tab
  check,      \* autoSync of a tab: none; reading; running; "scheduled", its timer is set;
              \* or "failed": it met an error and returned without a timer
  shown,      \* the operation the tab's shell last rendered
  online,     \* navigator.onLine
  meta,       \* the account's sync metadata
  outbox,     \* the account's outbox: empty, or what its head is
  vehicles,   \* the account has vehicles here
  queue,      \* the Web Lock: its holder and who waits, in order
  running     \* what the holder does: pushing, pulling, finishing, or null before it begins

tabVars == <<signedIn, status, check, shown>>
dbVars  == <<meta, outbox, vehicles>>
vars    == <<tabVars, online, dbVars, queue, running>>

Meta == [operation : {"idle", "restoring", "restore_failed"},
         failure   : {None, "blocked", "terminal", "retryable"},  \* lastSyncError and its kind
         syncedAt  : {None, "fresh", "stale"},  \* stale: more than AUTO_SYNC_INTERVAL_MS ago
         ready     : BOOLEAN]                   \* bootstrapState
\* current: the session it was started for is still that of its tab
Run     == [tab : Tab, kind : {"sync", "restore", "resume"}, current : BOOLEAN]

\* A device of the account that has synced before, all tabs closed
Init ==
  /\ signedIn   = {}
  /\ status     = [t \in Tab |-> "idle"]
  /\ check      = [t \in Tab |-> "none"]
  /\ shown      = [t \in Tab |-> "idle"]
  /\ online     = TRUE
  /\ meta       = [operation |-> "idle", failure |-> None, syncedAt |-> "stale", ready |-> TRUE]
  /\ outbox     = "empty"
  /\ vehicles   = TRUE
  /\ queue      = <<>>
  /\ running    = None

-----------------------------------------------------------------------------
(* Asking for a run *)

\* Its session is captured when it is asked for, not when it gets the lock.
Ask(t, kind) ==
  /\ Len(queue) < MaxQueue
  /\ queue' = Append(queue, [tab |-> t, kind |-> kind, current |-> TRUE])

\* inFlight: the run of this tab and session that has not settled, on which a
\* second caller waits too
InFlight(t) == [tab |-> t, kind |-> "sync", current |-> TRUE] \in Range(queue)

runSync(t) == IF t \notin signedIn \/ InFlight(t) THEN UNCHANGED queue ELSE Ask(t, "sync")

\* The start of check of autoSync: an older check is out of date.
StartCheck(S, ready) ==
  check' = [t \in Tab |-> IF t \notin S \intersect Visible THEN check[t]
                         ELSE IF ready THEN "reading" ELSE "none"]

\* Its end, from the metadata: after a failure the user has to act, and the run it
\* starts is awaited.
EndCheck(t) ==
  /\ check[t] = "reading"
  /\ IF meta.failure # None
       THEN check' = [check EXCEPT ![t] = "failed"] /\ UNCHANGED queue
     ELSE IF meta.syncedAt # "fresh"
       THEN check' = [check EXCEPT ![t] = "running"] /\ runSync(t)
     ELSE check' = [check EXCEPT ![t] = "scheduled"] /\ UNCHANGED queue
  /\ UNCHANGED <<signedIn, status, shown, online, dbVars, running>>

\* A page comes to the foreground, or its timer fires.
Wake(t) ==
  /\ t \in signedIn
  /\ StartCheck({t}, online)
  /\ UNCHANGED <<signedIn, status, shown, online, dbVars, queue, running>>

\* The connection goes, or comes back and wakes every page.
ConnectionChanges ==
  /\ online' = ~online
  /\ IF online' THEN StartCheck(signedIn, TRUE) ELSE UNCHANGED check
  /\ UNCHANGED <<signedIn, status, shown, dbVars, queue, running>>

TimePasses ==
  /\ meta.syncedAt = "fresh"
  /\ meta' = [meta EXCEPT !.syncedAt = "stale"]
  /\ UNCHANGED <<tabVars, online, outbox, vehicles, queue, running>>

\* The page "/" fills an empty garage.
RootRedirect(t) ==
  /\ t \in signedIn /\ shown[t] = "idle"
  /\ online /\ ~vehicles /\ ~meta.ready /\ meta.failure = None
  /\ ~InFlight(t) /\ runSync(t)
  /\ UNCHANGED <<tabVars, online, dbVars, running>>

-----------------------------------------------------------------------------
(* Sessions and pages.  App resets the sync store when the account on screen    *)
(* changes; autoSync hears every change of the session.                         *)

\* sessionGeneration moves on: no run of the tab is current any more.
NewGeneration(t) ==
  [n \in DOMAIN queue |-> [queue[n] EXCEPT !.current = @ /\ queue[n].tab # t]]

\* The badge as App sets it from the metadata
StatusOf(m) ==
  CASE m.operation = "restoring"                                       -> "restoring"
    [] m.operation = "restore_failed"                                  -> "retryable"
    [] m.operation = "idle" /\ m.failure = "terminal"                  -> "error"
    [] m.operation = "idle" /\ m.failure \in {"blocked", "retryable"}  -> m.failure
    [] OTHER -> IF m.syncedAt # None THEN "synced" ELSE "idle"

\* The effect of App on the account of a tab, whose pages start over.  What it reads
\* it reads at once.
AccountEffect(t, shows) ==
  /\ status' = [status EXCEPT ![t] = shows]
  /\ shown'  = [shown EXCEPT ![t] = "idle"]

\* A tab is opened, already signed in, or the user of an anonymous one signs in.
SignIn(t) ==
  /\ t \notin signedIn
  /\ signedIn' = signedIn \union {t}
  /\ AccountEffect(t, StatusOf(meta))
  /\ StartCheck({t}, online)
  /\ UNCHANGED <<online, dbVars, queue, running>>

\* setAuthenticated of the account that is already on screen: the session is a
\* new one, but for App nothing has changed.
SignInAgain(t) ==
  /\ t \in signedIn
  /\ queue' = NewGeneration(t)
  /\ StartCheck({t}, online)
  /\ UNCHANGED <<signedIn, status, shown, online, dbVars, running>>

\* clear: signed out, or the session has expired.
Clear(t) ==
  /\ signedIn' = signedIn \ {t}
  /\ AccountEffect(t, "idle")
  /\ StartCheck({t}, FALSE)

SignOut(t) ==
  /\ t \in signedIn
  /\ Clear(t)
  /\ queue' = NewGeneration(t)
  /\ UNCHANGED <<online, dbVars, running>>

\* The queue without the runs of tab t, in the order it has
Without(t) ==
  LET kept == {n \in DOMAIN queue : queue[n].tab # t}
      ways == {f \in [1 .. Cardinality(kept) -> kept] :
                 Range(f) = kept /\ \A m, n \in DOMAIN f : m < n => f[m] < f[n]}
  IN {[n \in 1 .. Cardinality(kept) |-> queue[f[n]]] : f \in ways}

\* A closed tab gives the lock back, or its place in the queue.
CloseTab(t) ==
  /\ Clear(t)
  /\ queue'   \in Without(t)
  /\ running' = IF queue # <<>> /\ Head(queue).tab = t THEN None ELSE running
  /\ UNCHANGED <<online, dbVars>>

\* WorkspaceRecovery resumes a restore when it comes up and when its failed turns false.
WorkspaceRecovery(t) ==
  IF meta.operation = "restoring" THEN Ask(t, "resume") ELSE UNCHANGED queue

\* AppShell renders what the live query found last.
AppShell(t) ==
  /\ t \in signedIn /\ shown[t] # meta.operation
  /\ shown' = [shown EXCEPT ![t] = meta.operation]
  /\ WorkspaceRecovery(t)
  /\ UNCHANGED <<signedIn, status, check, online, dbVars, running>>

-----------------------------------------------------------------------------
(* What the user does: edits, the badge, the recovery dialog *)

\* A workspace that is being restored takes no edits and no repairs.  Fault: while it
\* is only failed, it does.
MayChangeWorkspace_once_failed == meta.operation # "restoring"
MayChangeWorkspace == meta.operation = "idle"

\* enqueueMutation; one that is refused or waits stays at the head.
Edit(t) ==
  /\ t \in signedIn /\ outbox = "empty" /\ MayChangeWorkspace
  /\ outbox' = "pending"
  /\ UNCHANGED <<tabVars, online, meta, vehicles, queue, running>>

Busy(t) == status[t] \in {"syncing", "restoring"}

CanRetry(t) == online /\ outbox # "blocked" /\ (status[t] = "retryable" \/ outbox = "retryable")

OpenRecovery(t) == \/ meta.operation = "restore_failed"
                   \/ status[t] = "blocked" \/ outbox = "blocked"
                   \/ status[t] = "error" /\ ~CanRetry(t)

\* The button of the badge; where it opens the dialog, nothing happens yet.
SyncStatusBadge(t) ==
  /\ t \in signedIn /\ online /\ ~Busy(t) /\ ~OpenRecovery(t)
  /\ runSync(t)
  /\ UNCHANGED <<tabVars, online, dbVars, running>>

\* The recovery dialog, which the wrench opens too, stays open over what happens next.
\* Its retry:
Retry(t) ==
  /\ t \in signedIn /\ CanRetry(t)
  /\ runSync(t)
  /\ UNCHANGED <<tabVars, online, dbVars, running>>

\* repairBlockedMutation, and what the dialog does after it
handleRepair(t) ==
  /\ t \in signedIn /\ outbox = "blocked" /\ MayChangeWorkspace
  /\ outbox' = "pending"
  /\ status' = [status EXCEPT ![t] = "pending"]
  /\ UNCHANGED <<signedIn, check, shown, online, meta, vehicles, queue, running>>

\* restoreFromServer, which the user has confirmed
handleRestore(t) ==
  /\ t \in signedIn /\ online /\ status[t] # "restoring"
  /\ Ask(t, "restore")
  /\ UNCHANGED <<tabVars, online, dbVars, running>>

-----------------------------------------------------------------------------
(* The holder of the lock: performSync and performRestore *)

Holder == Head(queue)

At(step) == queue # <<>> /\ Holder.current /\ running = step

\* A run settles: the lock is released, and the check that awaited the run goes on.
\* Fault: only after a run that succeeded.
Awaited_success(r) == r.kind = "sync" /\ r.current /\ check[r.tab] = "running" /\ running = "finishing"
Awaited(r) == r.kind = "sync" /\ r.current /\ check[r.tab] = "running"

Settle ==
  /\ queue'   = Tail(queue)
  /\ running' = None
  /\ check'   = [check EXCEPT ![Holder.tab] = IF Awaited(Holder) THEN "scheduled" ELSE @]

\* Its session is gone: at its next assertion it throws, and says nothing.
StaleRun ==
  /\ queue # <<>> /\ ~Holder.current
  /\ Settle
  /\ UNCHANGED <<signedIn, status, shown, online, dbVars>>

Shows(s) == status' = [status EXCEPT ![Holder.tab] = s]

\* Up to its first push: the last error is forgotten, bootstrapSync begins.
performSync ==
  /\ At(None) /\ Holder.kind = "sync"
  /\ Shows("syncing")
  /\ meta' = [meta EXCEPT !.failure = None, !.ready = FALSE]
  /\ running' = "pushing"
  /\ UNCHANGED <<signedIn, check, shown, online, outbox, vehicles, queue>>

\* A resumed restore finds that another tab has finished it.  Fault: it does not look.
NothingToResume_never(r) == FALSE
NothingToResume(r) == r.kind = "resume" /\ meta.operation = "idle"

skipRestore ==
  /\ At(None) /\ NothingToResume(Holder)
  /\ Settle
  /\ UNCHANGED <<signedIn, status, shown, online, dbVars>>

\* Only a restore that is not under way deletes: its marker, the rows and the
\* outbox in one transaction.
performRestore ==
  /\ At(None) /\ Holder.kind # "sync" /\ ~NothingToResume(Holder)
  /\ Shows("restoring")
  /\ IF meta.operation = "idle"
       THEN /\ meta' = [operation |-> "restoring", failure |-> None, syncedAt |-> None,
                        ready |-> FALSE]
            /\ outbox' = "empty"
            /\ vehicles' = FALSE
       ELSE /\ meta' = [meta EXCEPT !.operation = "restoring", !.failure = None]
            /\ UNCHANGED <<outbox, vehicles>>
  /\ running' = "pulling"
  /\ UNCHANGED <<signedIn, check, shown, online, queue>>

\* The metadata and the badge after a run that failed so
StatusAfter(r, failure) ==
  CASE r.kind # "sync"                           -> "retryable"
    [] r.kind = "sync" /\ failure = "terminal"    -> "error"
    [] OTHER                                      -> failure
MetaAfter(r, failure) ==
  IF r.kind = "sync"
    THEN [meta EXCEPT !.failure = failure]
    ELSE [meta EXCEPT !.operation = "restore_failed", !.failure = "retryable", !.ready = FALSE]

fail(failure) ==
  /\ meta' = MetaAfter(Holder, failure)
  /\ Shows(StatusAfter(Holder, failure))
  /\ Settle
  /\ UNCHANGED <<signedIn, shown>>

\* expireSyncSession: a refused session ends with its run.
expireSyncSession ==
  /\ meta' = MetaAfter(Holder, "terminal")
  /\ Clear(Holder.tab)
  /\ queue' = Tail(NewGeneration(Holder.tab)) /\ running' = None

\* What the network and the server may answer to any request
Refused == fail("retryable") \/ fail("terminal") \/ expireSyncSession

\* A sync that finds edits left over is put off.
deferSync ==
  /\ meta' = [meta EXCEPT !.failure = None]
  /\ Shows("pending")
  /\ Settle
  /\ UNCHANGED <<signedIn, shown>>

pushOutbox ==
  /\ At("pushing")
  /\ \/ /\ online /\ outbox # "blocked" /\ outbox' = "empty"
        /\ running' = "pulling" /\ UNCHANGED <<tabVars, meta, queue>>
     \/ online /\ outbox # "empty" /\ outbox' = "blocked" /\ fail("blocked")
     \/ outbox' \in {outbox} \union (IF outbox = "pending" THEN {"retryable"} ELSE {}) /\ Refused
  /\ UNCHANGED <<online, vehicles>>

\* What is in the outbox by now goes first.  The first pages may be in.
pullChanges ==
  /\ At("pulling")
  /\ \/ /\ outbox # "empty" /\ UNCHANGED vehicles
        /\ IF Holder.kind = "sync" THEN deferSync ELSE fail("retryable")
     \/ /\ outbox = "empty" /\ online /\ vehicles' = TRUE
        /\ running' = "finishing" /\ UNCHANGED <<tabVars, meta, queue>>
     \/ outbox = "empty" /\ vehicles' \in {vehicles, TRUE} /\ Refused
  /\ UNCHANGED <<online, outbox>>

\* The end of performSync looks at the outbox once more, in the transaction of the
\* metadata.
finishSync ==
  /\ At("finishing") /\ Holder.kind = "sync"
  /\ meta' = [meta EXCEPT !.syncedAt = IF outbox = "empty" THEN "fresh" ELSE @,
                          !.failure = None, !.ready = TRUE]
  /\ Shows(IF outbox = "empty" THEN "synced" ELSE "pending")
  /\ Settle
  /\ UNCHANGED <<signedIn, shown, online, outbox, vehicles>>

finishRestore ==
  /\ At("finishing") /\ Holder.kind # "sync"
  /\ meta' = [operation |-> "idle", failure |-> None, syncedAt |-> "fresh", ready |-> TRUE]
  /\ Shows("synced")
  /\ Settle
  /\ UNCHANGED <<signedIn, shown, online, outbox, vehicles>>

RunStep ==
  \/ StaleRun \/ performSync \/ skipRestore \/ performRestore
  \/ pushOutbox \/ pullChanges \/ finishSync \/ finishRestore

Page(t) ==
  \/ SignIn(t) \/ SignInAgain(t) \/ SignOut(t) \/ CloseTab(t)
  \/ AppShell(t) \/ EndCheck(t) \/ Wake(t) \/ RootRedirect(t)
  \/ Edit(t) \/ SyncStatusBadge(t)
  \/ handleRepair(t) \/ handleRestore(t) \/ Retry(t)

Next ==
  \/ \E t \in Tab : Page(t)
  \/ RunStep
  \/ ConnectionChanges
  \/ TimePasses

Spec == Init /\ [][Next]_vars

\* What a run awaits settles, and live queries arrive.  Nothing makes the user act
\* and nothing keeps the connection up.
FairSpec == Spec /\ WF_vars(RunStep) /\ \A t \in Tab : WF_vars(AppShell(t))

-----------------------------------------------------------------------------
(* Properties *)

TypeOK ==
  /\ signedIn \in SUBSET Tab
  /\ status \in [Tab -> SyncStatus]
  /\ check \in [Tab -> {"none", "reading", "running", "scheduled", "failed"}]
  /\ shown \in [Tab -> {"idle", "restoring", "restore_failed"}]
  /\ online \in BOOLEAN /\ meta \in Meta
  /\ outbox \in {"empty", "pending", "retryable", "blocked"} /\ vehicles \in BOOLEAN
  /\ queue \in Seq(Run)
  /\ running \in {None, "pushing", "pulling", "finishing"}
  /\ queue = <<>> => running = None

\* A workspace that is being restored, or whose restore failed, has no mutation
\* waiting: the wipe empties the outbox, and nothing the user does, in any tab and
\* at any moment, puts one in or repairs one (enqueueMutation, repairBlockedMutation
\* and the one transaction of performRestore).
RestoringHasNoQueue == meta.operation # "idle" => outbox = "empty"

\* Only a restore the user has confirmed deletes rows and unsent mutations; one that
\* a page resumes never does, though another tab has finished the restore meanwhile
\* (resumeRestoreFromServer).
ResumeDestroysNothing ==
  [][vehicles /\ ~vehicles' => Holder.kind = "restore"]_vars

\* autoSync of t will look again by itself: it is about to read the metadata, its timer
\* is set, or it awaits a run that is still in flight.
Armed(t) == \/ check[t] \in {"reading", "scheduled"}
            \/ check[t] = "running" /\ InFlight(t)

\* It need not: the event "online" will wake it, or an error on record, which it has
\* met, waits for the user.
Excused(t) == \/ ~online
              \/ check[t] = "failed" /\ meta.failure # None

\* A run begins and forgets the error that is on record: the user's Retry or restore,
\* a resumed restore, or a run that another tab had queued.
ErrorIsCleared == meta.failure # None /\ running = None /\ running' # None

\* A signed-in page in view loses its next check in one way only.  Overtaken checks,
\* runs that fail or lose their session, and connections that come and go leave it a
\* timer, a run in flight or an error on record (the early returns of check); but the
\* run that clears this error calls no check, so from then on the page has neither
\* timer nor error until a wake event.
ArmedUntilErrorCleared ==
  [][\A t \in signedIn' \intersect Visible :
       t \notin signedIn \/ Armed(t) \/ Excused(t)
         => Armed(t)' \/ Excused(t)' \/ ErrorIsCleared]_vars

\* A restore that has failed is not tried again until the user asks for it
\* (decision.md 471, 478, 839).  WorkspaceRecovery breaks this: it queues a resume in
\* the tab that runs the restore too, which starts once that one has failed.
FailedRestoreWaits ==
  [][meta.operation = "restore_failed" /\ meta'.operation = "restoring" =>
       Holder.kind = "restore"]_vars
=============================================================================
