-------------------------------- MODULE Sync --------------------------------
(***************************************************************************)
(* The devices of one account and the server between them: local edits and *)
(* the outbox (client/src/data), a sync run (client/src/sync) that pushes  *)
(* the outbox head by head and then pulls the feed page by page, repair of *)
(* a rejected mutation, and restore.  A device is one browser profile: its *)
(* tabs share the IndexedDB and take one lock for sync and restore.  Every *)
(* action is one IndexedDB transaction or one exchange with the server.    *)
(***************************************************************************)
EXTENDS Integers, Sequences, FiniteSets, FiniteSetsExt, Functions

CONSTANTS
  Device, Id,
  Parent,       \* [Id -> Id or None]: the vehicle a log or reminder refers to
  Seeds,        \* the part types the account is created with: a sequence of ids
  PageLimit,    \* DEFAULT_SYNC_PAGE_SIZE
  Malformed,    \* numbers of the mutations that fail the server's validation
  MaxMinted,    \* bound: mutations ever made
  None

ASSUME ParentAssumption == Parent \in [Id -> Id \union {None}]
ASSUME SeedsAssumption ==
  /\ Seeds \in Seq(Id) /\ IsInjective(Seeds)
  /\ \A n \in 1 .. Len(Seeds) : Parent[Seeds[n]] = None
ASSUME BoundAssumption ==
  /\ PageLimit \in Nat \ {0} /\ MaxMinted \in Nat
  /\ Malformed \subseteq Nat

\* mid: the number it was made as (a fresh UUID); n: its place in the device's
\* queue (localSeq).  Its payload is told from others by mid.
Mutation == [mid : Nat, dev : Device, id : Id, n : Nat]
Item     == [m : Mutation, status : {"pending", "blocked"}]
\* by: the mutation whose values the row shows, 0 for a seed; canonical: as the
\* server stored them (rounded), not as typed; seq: serverSeq, 0 is null.
Entity   == [by : Nat, canonical : BOOLEAN, seq : Nat]
Change   == [seq : Nat, id : Id, by : Nat]
Meta     == [cursor : Nat, next : Nat, error : BOOLEAN,
             operation : {"idle", "restoring", "restore_failed"}]

ASSUME NoneAssumption ==
  None \notin Id /\ None \notin Nat /\ None \notin Mutation /\ None \notin Entity

VARIABLES
  log, answers,  \* the server (ChangeLog)
  stale,         \* push requests still under way whose sender has given up
  ents,          \* the entity tables of each device
  outbox,        \* the outbox of each device: its rows, in the order of n
  meta,          \* syncMeta
  run,           \* what the holder of the account's sync lock is doing
  minted,        \* history: every mutation made
  dropped        \* history: mutations replaced by a repair or wiped by a restore

serverVars == <<log, answers, stale>>
history    == <<minted, dropped>>
vars       == <<serverVars, ents, outbox, meta, run, history>>

Server == INSTANCE ChangeLog WITH Mutation <- Mutation,
            Start <- [n \in 1 .. Len(Seeds) |-> [id |-> Seeds[n], by |-> None]]

Idle == [at |-> "idle"]

Init ==
  /\ log       = [n \in 1 .. Len(Seeds) |-> [id |-> Seeds[n], by |-> None]]
  /\ answers   = {}
  /\ stale     = {}
  /\ ents      = [d \in Device |-> [i \in Id |-> None]]
  /\ outbox    = [d \in Device |-> {}]
  /\ meta      = [d \in Device |-> [cursor |-> 0, next |-> 1, error |-> FALSE,
                                    operation |-> "idle"]]
  /\ run       = [d \in Device |-> Idle]
  /\ minted    = {}
  /\ dropped   = {}

-----------------------------------------------------------------------------
(* Local edits and the outbox *)

Mint(d, i, n) == [mid |-> Cardinality(minted) + 1, dev |-> d, id |-> i, n |-> n]

\* Fault: a later edit of the same entity goes unnoticed.
NewerRevision_never(d, m) == FALSE
\* A later row of the queue changes the same entity.
NewerRevision(d, m) == \E x \in outbox[d] : x.m.id = m.id /\ x.m.n > m.n

\* A repository function: a new row (a fresh id, in a vehicle it has) or a new
\* snapshot of a row it has, and its envelope, in one transaction.  It may run
\* at any moment of a sync, but not while a restore is unfinished.
enqueueMutation(d, i) ==
  LET m == Mint(d, i, meta[d].next) IN
  /\ Cardinality(minted) < MaxMinted
  /\ meta[d].operation = "idle"
  /\ IF ents[d][i] # None THEN TRUE
     ELSE /\ \A x \in minted : x.id # i
          /\ i \notin Range(Seeds)
          /\ Parent[i] # None => ents[d][Parent[i]] # None
  /\ ents' = [ents EXCEPT ![d][i] =
       [by |-> m.mid, canonical |-> FALSE, seq |-> IF @ = None THEN 0 ELSE @.seq]]
  /\ outbox' = [outbox EXCEPT ![d] = @ \union {[m |-> m, status |-> "pending"]}]
  /\ meta' = [meta EXCEPT ![d].next = @ + 1]
  /\ minted' = minted \union {m}
  /\ UNCHANGED <<serverVars, run, dropped>>

\* A blocked row is replaced by a new envelope in the same place; the entity shows
\* the repaired values unless a later row has overwritten them.
repairBlockedMutation(d, x) ==
  LET old == x.m
      m   == Mint(d, old.id, old.n)
  IN /\ Cardinality(minted) < MaxMinted
     /\ x.status = "blocked"
     /\ meta[d].operation = "idle"
     /\ ents[d][old.id] # None
     /\ ents' = IF NewerRevision(d, old) THEN ents
                ELSE [ents EXCEPT ![d][old.id].by = m.mid, ![d][old.id].canonical = FALSE]
     /\ outbox' = [outbox EXCEPT ![d] = (@ \ {x}) \union {[m |-> m, status |-> "pending"]}]
     /\ minted' = minted \union {m}
     /\ dropped' = dropped \union {old.mid}
     /\ UNCHANGED <<serverVars, meta, run>>

-----------------------------------------------------------------------------
(* The server: POST /sync/push of one mutation *)

\* A log or reminder needs its vehicle; any mutation may break a rule that reads
\* rows (SyncStore has them).
Serve(m) ==
  \/ Server!Answered(m) /\ UNCHANGED <<log, answers>>
  \/ ~Server!Answered(m) /\ m.mid \in Malformed /\ UNCHANGED <<log, answers>>
  \/ /\ m.mid \notin Malformed
     /\ Parent[m.id] # None => \E n \in 1 .. Len(log) : log[n].id = Parent[m.id]
     /\ Server!Apply(m)
  \/ m.mid \notin Malformed /\ Server!Refuse(m)

\* server_seq of the answer, 0 for a rejection
Verdict(m) == IF Server!Answered(m) THEN Server!AnswerTo(m).seq ELSE 0

\* A request whose sender has given up arrives after all.
ServeStale(m) ==
  /\ m \in stale
  /\ Serve(m)
  /\ stale' = stale \ {m}
  /\ UNCHANGED <<ents, outbox, meta, run, history>>

-----------------------------------------------------------------------------
(* A sync run: bootstrap, push, pull.  run[d] is what the run remembers from   *)
(* one await to the next.                                                      *)

Goto(d, r)   == run' = [run EXCEPT ![d] = r]
SetError(d, e) == meta' = [meta EXCEPT ![d].error = e]

runSync(d) ==
  /\ run[d] = Idle
  /\ SetError(d, FALSE)
  /\ Goto(d, [at |-> "booting", mode |-> "sync"])
  /\ UNCHANGED <<serverVars, ents, outbox, history>>

\* While no error is on record a run starts for autoSync (OpenApp says when) or the
\* button of the badge.  After an error one starts because the user asks for it, or
\* because another tab had asked before the error and has waited for the lock: even
\* with a blocked row, even after a restore that failed.
AutoSync(d) == ~meta[d].error /\ runSync(d)
Retry(d) == meta[d].error /\ runSync(d)

\* Fault: an exclusive bound.
getOutboxHighWatermark_exclusive(d) ==
  IF outbox[d] = {} THEN 0 ELSE Max({x.m.n : x \in outbox[d]}) - 1
getOutboxHighWatermark(d) == IF outbox[d] = {} THEN 0 ELSE Max({x.m.n : x \in outbox[d]})

\* The device is registered; pushOutbox notes how far the queue goes now.
bootstrapSync(d) ==
  /\ run[d].at = "booting"
  /\ Goto(d, [at |-> "pushing", mode |-> "sync", through |-> getOutboxHighWatermark(d)])
  /\ UNCHANGED <<serverVars, ents, outbox, meta, history>>

\* What remains of a request when its sender stops waiting
StillUnderWay(d) == IF run[d].at = "sent" THEN stale \union {run[d].m} ELSE stale

\* Fault: the newest row is the head.
IsNext_newest(d, x) == \A y \in outbox[d] : y.m.n <= x.m.n
\* getNextOutboxItem: the head of the queue, blocked or not
IsNext(d, x) == \A y \in outbox[d] : x.m.n <= y.m.n

sendNext(d) ==
  \E x \in outbox[d] :
    /\ run[d].at = "pushing"
    /\ IsNext(d, x)
    /\ x.m.n <= run[d].through
    /\ x.status = "pending"
    /\ Goto(d, [at |-> "sent", mode |-> "sync", through |-> run[d].through, m |-> x.m])
    /\ UNCHANGED <<serverVars, ents, outbox, meta, history>>

servePush(d) ==
  /\ run[d].at = "sent"
  /\ \E m \in {run[d].m} :
       /\ Serve(m)
       /\ Goto(d, [at |-> "answered", mode |-> "sync", through |-> run[d].through,
                   m |-> m, seq |-> Verdict(m)'])
  /\ UNCHANGED <<stale, ents, outbox, meta, history>>

\* applied or duplicate: the row leaves the queue; the entity learns its version
\* unless a later edit of it is queued.
acknowledge(d) ==
  LET m == run[d].m
      e == ents[d][m.id]
  IN /\ run[d].at = "answered"
     /\ run[d].seq > 0
     /\ outbox' = [outbox EXCEPT ![d] = {x \in @ : x.m # m}]
     /\ ents' = IF NewerRevision(d, m) \/ e = None THEN ents
                ELSE IF run[d].seq < e.seq THEN ents
                ELSE [ents EXCEPT ![d][m.id].seq = run[d].seq]
     /\ Goto(d, [at |-> "pushing", mode |-> "sync", through |-> run[d].through])
     /\ UNCHANGED <<serverVars, meta, history>>

\* Fault: a rejected row leaves the queue.
block_removes(d) ==
  /\ run[d].at = "answered"
  /\ run[d].seq = 0
  /\ outbox' = [outbox EXCEPT ![d] = {x \in @ : x.m # run[d].m}]
  /\ SetError(d, TRUE)
  /\ Goto(d, Idle)
  /\ UNCHANGED <<serverVars, ents, history>>

\* rejected: the row is blocked and the run ends.
block(d) ==
  /\ run[d].at = "answered"
  /\ run[d].seq = 0
  /\ outbox' = [outbox EXCEPT ![d] =
       {IF x.m = run[d].m THEN [x EXCEPT !.status = "blocked"] ELSE x : x \in @}]
  /\ SetError(d, TRUE)
  /\ Goto(d, Idle)
  /\ UNCHANGED <<serverVars, ents, history>>

\* The push is through with what it set out to send: on to the pull if the queue
\* is empty, otherwise the rest waits for another run.
pushDone(d) ==
  /\ run[d].at = "pushing"
  /\ \/ /\ outbox[d] = {}
        /\ Goto(d, [at |-> "pulling", mode |-> "sync", after |-> meta[d].cursor, until |-> None])
        /\ UNCHANGED meta
     \/ \E x \in outbox[d] :
          /\ IsNext(d, x)
          /\ x.m.n > run[d].through \/ x.status = "blocked"
          /\ SetError(d, x.status = "blocked")
          /\ Goto(d, Idle)
  /\ UNCHANGED <<serverVars, ents, outbox, history>>

\* Change n as the client gets it
ChangeAt(n) == [seq |-> n, id |-> log[n].id, by |-> IF log[n].by = None THEN 0 ELSE log[n].by.mid]

\* The first page fixes the bound of the ones after it.
servePull(d) ==
  LET bound == IF run[d].until = None THEN Len(log) ELSE run[d].until
      next  == Server!UpTo(run[d].after, bound, PageLimit)
  IN /\ run[d].at = "pulling"
     /\ Goto(d, [at |-> "paged", mode |-> run[d].mode, until |-> bound, next |-> next,
                 changes |-> {ChangeAt(n) : n \in run[d].after + 1 .. next}])
     /\ UNCHANGED <<serverVars, ents, outbox, meta, history>>

\* Fault: the row's own version is skipped.
applyChange_skips_equal(e, c) ==
  IF e = None \/ e.seq < c.seq THEN [by |-> c.by, canonical |-> TRUE, seq |-> c.seq] ELSE e

\* A version at or above the row's own replaces it: the ACK has only set the
\* number, the stored values come with the pull.
applyChange(e, c) ==
  IF e = None \/ e.seq <= c.seq THEN [by |-> c.by, canonical |-> TRUE, seq |-> c.seq] ELSE e

\* The rows once the changes have been applied one by one as they ascend: the newest
\* of each row decides.
AppliedTo(es, changes) ==
  [i \in Id |->
     LET cs == {c \in changes : c.id = i}
     IN IF cs = {} THEN es[i]
        ELSE applyChange(es[i], CHOOSE c \in cs : \A b \in cs : b.seq <= c.seq)]

\* assertReferencedVehicle holds for every change when its turn comes.
Applies(es, changes) ==
  \A c \in changes :
    LET p == Parent[c.id]
    IN p # None => es[p] # None \/ \E b \in changes : b.id = p /\ b.seq < c.seq

PageMayApply(d) == outbox[d] = {}

\* One transaction: the queue is empty, the page and the cursor.
applyPage(d) ==
  /\ run[d].at = "paged"
  /\ PageMayApply(d)
  /\ Applies(ents[d], run[d].changes)
  /\ ents' = [ents EXCEPT ![d] = AppliedTo(@, run[d].changes)]
  /\ meta' = [meta EXCEPT ![d].cursor = run[d].next]
  /\ Goto(d, IF run[d].next < run[d].until
             THEN [at |-> "pulling", mode |-> run[d].mode, after |-> run[d].next,
                   until |-> run[d].until]
             ELSE [at |-> "pulled", mode |-> run[d].mode])
  /\ UNCHANGED <<serverVars, outbox, history>>

\* An edit came in while the page was under way: the page is not applied.
deferSync(d) ==
  /\ run[d].at = "paged" /\ run[d].mode = "sync"
  /\ ~PageMayApply(d)
  /\ SetError(d, FALSE)
  /\ Goto(d, Idle)
  /\ UNCHANGED <<serverVars, ents, outbox, history>>

\* The workspace counts as synced if the queue is still empty.
finishSync(d) ==
  /\ run[d].at = "pulled" /\ run[d].mode = "sync"
  /\ SetError(d, FALSE)
  /\ Goto(d, Idle)
  /\ UNCHANGED <<serverVars, ents, outbox, history>>

\* Fault: a restore that failed counts as still running.
OperationAfterFailure_restoring(d) == meta[d].operation
OperationAfterFailure(d) ==
  IF run[d].mode = "restore" THEN "restore_failed" ELSE meta[d].operation

\* An exchange fails or its answer is unusable, a transaction fails: the run ends
\* with an error on record.
fail(d) ==
  /\ run[d] # Idle
  /\ stale' = StillUnderWay(d)
  /\ meta' = [meta EXCEPT ![d].error = TRUE,
                          ![d].operation = OperationAfterFailure(d)]
  /\ Goto(d, Idle)
  /\ UNCHANGED <<log, answers, ents, outbox, history>>

\* The tab closes, or the session of the run is no longer the current one: it
\* ends and writes nothing.
abandon(d) ==
  /\ run[d] # Idle
  /\ stale' = StillUnderWay(d)
  /\ Goto(d, Idle)
  /\ UNCHANGED <<log, answers, ents, outbox, meta, minted, dropped>>

-----------------------------------------------------------------------------
(* Restore *)

\* Fault: the cursor stays.
WipedMeta_keeps_cursor(d) == [meta[d] EXCEPT !.error = FALSE, !.operation = "restoring"]
WipedMeta(d) == [meta[d] EXCEPT !.cursor = 0, !.error = FALSE, !.operation = "restoring"]

\* Drops the account's rows and queue and starts from cursor 0.
restoreFromServer(d) ==
  /\ run[d] = Idle
  /\ meta[d].operation = "idle"
  /\ ents' = [ents EXCEPT ![d] = [i \in Id |-> None]]
  /\ outbox' = [outbox EXCEPT ![d] = {}]
  /\ dropped' = dropped \union {x.m.mid : x \in outbox[d]}
  /\ meta' = [meta EXCEPT ![d] = WipedMeta(d)]
  /\ Goto(d, [at |-> "pulling", mode |-> "restore", after |-> WipedMeta(d).cursor,
              until |-> None])
  /\ UNCHANGED <<serverVars, minted>>

ResumeAfter(d) == meta[d].cursor

\* A restore that was cut short or failed goes on from its cursor.
resumeRestore(d) ==
  /\ run[d] = Idle
  /\ meta[d].operation # "idle"
  /\ meta' = [meta EXCEPT ![d].error = FALSE, ![d].operation = "restoring"]
  /\ Goto(d, [at |-> "pulling", mode |-> "restore", after |-> ResumeAfter(d), until |-> None])
  /\ UNCHANGED <<serverVars, ents, outbox, history>>

finishRestore(d) ==
  /\ run[d].at = "pulled" /\ run[d].mode = "restore"
  /\ meta' = [meta EXCEPT ![d].error = FALSE, ![d].operation = "idle"]
  /\ Goto(d, Idle)
  /\ UNCHANGED <<serverVars, ents, outbox, history>>

-----------------------------------------------------------------------------
\* The steps of a run that carry it on
Step(d) ==
  \/ bootstrapSync(d)
  \/ sendNext(d)
  \/ servePush(d)
  \/ acknowledge(d)
  \/ block(d)
  \/ pushDone(d)
  \/ servePull(d)
  \/ applyPage(d)
  \/ deferSync(d)
  \/ finishSync(d)
  \/ finishRestore(d)

\* Everything but the end of a run that is cut short
Act ==
  \/ \E d \in Device, i \in Id : enqueueMutation(d, i)
  \/ \E d \in Device : \E x \in outbox[d] : repairBlockedMutation(d, x)
  \/ \E m \in stale : ServeStale(m)
  \/ \E d \in Device : AutoSync(d)
  \/ \E d \in Device : Retry(d)
  \/ \E d \in Device : Step(d)
  \/ \E d \in Device : fail(d)
  \/ \E d \in Device : restoreFromServer(d)
  \/ \E d \in Device : resumeRestore(d)

Next == Act \/ \E d \in Device : abandon(d)

Spec == Init /\ [][Next]_vars

-----------------------------------------------------------------------------
(* Properties *)

RunState ==
  {Idle}
  \union [at : {"booting"}, mode : {"sync"}]
  \union [at : {"pushing"}, mode : {"sync"}, through : Nat]
  \union [at : {"sent"}, mode : {"sync"}, through : Nat, m : Mutation]
  \union [at : {"answered"}, mode : {"sync"}, through : Nat, m : Mutation, seq : Nat]
  \union [at : {"pulling"}, mode : {"sync", "restore"}, after : Nat, until : Nat \union {None}]
  \union [at : {"paged"}, mode : {"sync", "restore"}, until : Nat, next : Nat, changes : SUBSET Change]
  \union [at : {"pulled"}, mode : {"sync", "restore"}]

TypeOK ==
  /\ log \in Seq([id : Id, by : Mutation \union {None}])
  /\ answers \subseteq [m : Mutation, status : {"applied", "duplicate", "rejected"}, seq : Nat]
  /\ stale \subseteq Mutation
  /\ ents \in [Device -> [Id -> Entity \union {None}]]
  /\ outbox \in [Device -> SUBSET Item]
  /\ meta \in [Device -> Meta]
  /\ run \in [Device -> RunState]
  /\ minted \subseteq Mutation
  /\ dropped \subseteq Nat

Queued(d, i) == {x \in outbox[d] : x.m.id = i}
Applied(m)   == [m |-> m, status |-> "applied"] \in
                  {[m |-> r.m, status |-> r.status] : r \in answers}
\* The row e is what the first n changes of the log have made of i.
IsCanonical(e, i, n) ==
  IF e = None THEN \A k \in 1 .. n : log[k].id # i
  ELSE /\ e.seq \in 1 .. n
       /\ [id |-> i, by |-> e.by, seq |-> e.seq] = ChangeAt(e.seq)
       /\ e.canonical
       /\ \A k \in e.seq + 1 .. n : log[k].id # i

\* An edit is never lost: until the server has applied it, it is in the queue of
\* its device, or a repair or a restore has knowingly discarded it.
NothingLost ==
  \A m \in minted :
    \/ m.mid \in dropped
    \/ \E x \in outbox[m.dev] : x.m = m
    \/ Applied(m)

\* A device shows the user's last edit of a row as long as it is not pushed: no
\* pull, no ACK of an older edit and no repair of one overwrites it.
LastEditShows ==
  \A d \in Device, i \in Id :
    \A x \in Queued(d, i) :
      ~NewerRevision(d, x.m) => /\ ents[d][i] # None
                                /\ ents[d][i].by = x.m.mid
                                /\ ~ents[d][i].canonical

\* A row with no edit queued is the server's row at the cursor, or what an ACK
\* beyond the cursor has confirmed, values not yet rounded.
RestIsServerState ==
  \A d \in Device, i \in Id :
    Queued(d, i) = {} =>
      \/ IsCanonical(ents[d][i], i, meta[d].cursor)
      \/ /\ ents[d][i] # None
         /\ ents[d][i].seq \in meta[d].cursor + 1 .. Len(log)
         /\ log[ents[d][i].seq].by # None
         /\ log[ents[d][i].seq].id = i
         /\ log[ents[d][i].seq].by.mid = ents[d][i].by

\* The server takes the edits of a device in the order they were made, whatever
\* is lost, retried, delayed or repaired; only a mutation that the device has
\* dropped may come in late.
ServerKeepsLocalOrder ==
  \A p, q \in DOMAIN log :
    /\ p < q /\ log[p].by # None /\ log[q].by # None
    /\ log[p].by.dev = log[q].by.dev
    /\ log[q].by.mid \notin dropped
    => log[p].by.n < log[q].by.n

\* A page that finds the queue empty can always be applied: no change in it refers
\* to a vehicle the device does not have.
PageAlwaysApplies ==
  \A d \in Device :
    run[d].at = "paged" /\ outbox[d] = {} => Applies(ents[d], run[d].changes)
=============================================================================
