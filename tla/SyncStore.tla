------------------------------ MODULE SyncStore ------------------------------
(***************************************************************************)
(* The PostgreSQL side of sync: POST /sync/push, GET /sync/pull, POST      *)
(* /devices and account creation, as the transactions of                   *)
(* server/internal/adapters/postgres run them.  One worker is one HTTP     *)
(* handler; every action is one group of statements between which another  *)
(* transaction may run.  What a transaction writes is staged and becomes   *)
(* visible at Commit (READ COMMITTED).                                     *)
(***************************************************************************)
EXTENDS Integers, Sequences, FiniteSets

CONSTANTS
  Account, Device,
  Worker,      \* handlers of POST /sync/push
  Puller,      \* handlers of GET /sync/pull
  Id,          \* entity ids (UUIDs)
  Value,       \* the part of a payload no rule looks at
  Mutation,    \* the mutations the clients' outboxes ever hold
  Batch,       \* bodies of POST /sync/push: sequences of mutations
  Seed,        \* [Account -> Seq(Id)]: the part types a new account starts with
  PageLimit,   \* rows of one pull page
  None         \* SQL NULL, "no row"

EntityType == {"vehicle", "reminder_config", "odometer_log", "fuel_log",
               "service_log", "part_type"}
MaybeId    == Id \union {None}
\* A snapshot payload: the references the rules read, and the rest as a value.
Body == [type : EntityType, vehicle : MaybeId, part : MaybeId, odo : MaybeId,
         deleted : BOOLEAN, code : MaybeId, val : Value]
\* check: what becomes of the payload's values.  "invalid" fails validatePayload,
\* "unstorable" passes it but breaks a CHECK once NUMERIC has rounded it (an
\* interval of 0.001 km becomes 0.00).
MutationShape == [mid : Nat, account : Account, device : Device, op : {"create", "update"},
                  id : Id, body : Body, check : {"valid", "invalid", "unstorable"}]
Row    == [body : Body, seq : Nat]
Change == [seq : Nat, id : Id, body : Body]
Ack    == [status : {"applied", "duplicate", "rejected"}, seq : Nat] \* seq 0 is NULL
Reply  == [m : Mutation, ok : BOOLEAN, seq : Nat]
Staged == [seq : Nat, row : Row \union {None}, change : Change \union {None}, ack : Ack]
Page   == [account : Account, after : Nat, bound : Nat, changes : SUBSET Change,
           next : Nat, more : BOOLEAN]
Query  == [account : Account, after : Nat, bound : Nat]

ASSUME MutationAssumption ==
  /\ Mutation \subseteq MutationShape
  /\ \A m, n \in Mutation : m.mid = n.mid => m = n
  \* generateId() is a random UUID: an id never names rows of two types
  /\ \A m, n \in Mutation : m.id = n.id => m.body.type = n.body.type
ASSUME BatchAssumption ==
  /\ Batch \subseteq Seq(Mutation)
  /\ \A b \in Batch : /\ Len(b) > 0
                      /\ \A i \in 1 .. Len(b) : /\ b[i].account = b[1].account
                                                /\ b[i].device = b[1].device
ASSUME SeedAssumption ==
  /\ Seed \in [Account -> Seq(Id)]
  /\ \A a, b \in Account : \A i \in 1 .. Len(Seed[a]), j \in 1 .. Len(Seed[b]) :
        Seed[a][i] = Seed[b][j] => a = b /\ i = j
  /\ \A a \in Account : \A i \in 1 .. Len(Seed[a]) : \A m \in Mutation :
        m.id = Seed[a][i] => m.body.type = "part_type"
\* a payload names only what its entity's table has columns for
ASSUME ReferenceAssumption ==
  \A m \in Mutation :
    /\ m.body.type \in {"vehicle", "part_type"} => m.body.vehicle = None
    /\ m.body.type \notin {"reminder_config", "service_log"} => m.body.part = None
    /\ m.body.type # "fuel_log" => m.body.odo = None
ASSUME LimitAssumption == PageLimit \in Nat \ {0}
ASSUME ValueAssumption == Value # {}
ASSUME NoneAssumption ==
  /\ None \notin Id /\ None \notin Worker /\ None \notin Row
  /\ None \notin Change /\ None \notin Ack /\ None \notin Page /\ None \notin Query
  /\ None \notin Staged

VARIABLES
  accounts,   \* rows of accounts
  devices,    \* rows of devices: <<account, device>>
  seqRow,     \* account_sequences.current_seq as committed
  seqLock,    \* the worker whose transaction holds the account_sequences row lock
  rows,       \* the entity tables, by account and id
  feed,       \* change_feed, by account: a set of rows
  processed,  \* processed_mutations, by mutation
  pc,         \* how far a push handler is with its current mutation
  job, at,    \* its request and the position in it
  staged,     \* what its open transaction has written
  replies,    \* history: every answer a client received
  pulling,    \* a pull handler between its two statements
  page        \* the page a pull handler last returned

pushVars == <<pc, job, at, staged>>
dbVars   == <<accounts, devices, seqRow, seqLock, rows, feed, processed>>
pullVars == <<pulling, page>>
vars     == <<dbVars, pushVars, replies, pullVars>>

Init ==
  /\ accounts  = {}
  /\ devices   = {}
  /\ seqRow    = [a \in Account |-> 0]
  /\ seqLock   = [a \in Account |-> None]
  /\ rows      = [a \in Account |-> [i \in Id |-> None]]
  /\ feed      = [a \in Account |-> {}]
  /\ processed = [m \in Mutation |-> None]
  /\ pc        = [w \in Worker |-> "idle"]
  /\ job       = [w \in Worker |-> <<>>]
  /\ at        = [w \in Worker |-> 0]
  /\ staged    = [w \in Worker |-> None]
  /\ replies   = {}
  /\ pulling   = [p \in Puller |-> None]
  /\ page      = [p \in Puller |-> None]

-----------------------------------------------------------------------------
(* Accounts and devices *)

Exists(a, i, t) == IF rows[a][i] = None THEN FALSE ELSE rows[a][i].body.type = t

\* The open transaction of handler w has written row i.
Writes(w, i) == pc[w] = "staged" /\ staged[w].change # None /\ staged[w].change.id = i

SeedBody(a, i) == [type |-> "part_type", vehicle |-> None, part |-> None, odo |-> None,
                   deleted |-> FALSE, code |-> Seed[a][i], val |-> CHOOSE v \in Value : TRUE]

\* Each seed's upsert waits for an INSERT of its id under way, and an id of
\* another account fails the transaction ("ownership conflict").
SeedsFree(a) ==
  \A i \in 1 .. Len(Seed[a]) :
    /\ \A b \in Account : ~Exists(b, Seed[a][i], "part_type")
    /\ \A w \in Worker : ~Writes(w, Seed[a][i])

\* CreateAccount is one transaction nobody else can touch before its commit:
\* the sequence, and for each seed a sequence number, a row and a feed row.
CreateAccount(a) ==
  /\ a \notin accounts
  /\ SeedsFree(a)
  /\ accounts' = accounts \union {a}
  /\ seqRow' = [seqRow EXCEPT ![a] = Len(Seed[a])]
  /\ feed' = [feed EXCEPT ![a] = {[seq |-> i, id |-> Seed[a][i], body |-> SeedBody(a, i)] :
                                     i \in 1 .. Len(Seed[a])}]
  /\ rows' = [rows EXCEPT ![a] = [x \in Id |->
                IF \E i \in 1 .. Len(Seed[a]) : Seed[a][i] = x
                THEN LET i == CHOOSE j \in 1 .. Len(Seed[a]) : Seed[a][j] = x
                     IN [body |-> SeedBody(a, i), seq |-> i]
                ELSE None]]
  /\ UNCHANGED <<devices, seqLock, processed, pushVars, replies, pullVars>>

RegisterDevice(a, d) ==
  /\ a \in accounts
  /\ devices' = devices \union {<<a, d>>}
  /\ UNCHANGED <<accounts, seqRow, seqLock, rows, feed, processed, pushVars, replies, pullVars>>

-----------------------------------------------------------------------------
(* The rules a mutation is held against *)

\* application/datasync: rules that read no row
validateMutation(m) ==
  /\ m.check # "invalid"
  /\ m.body.type = "odometer_log" => m.op = "create"
  /\ m.body.type = "part_type" /\ m.op = "create" => m.body.code = m.id

\* Fault: only a create is held against the scope, so an update can undelete
\* into it.
ActiveReminderConflict_creates(m) ==
  /\ m.op = "create"
  /\ m.body.type = "reminder_config" /\ ~m.body.deleted
  /\ \E i \in Id \ {m.id} :
        /\ Exists(m.account, i, "reminder_config")
        /\ rows[m.account][i].body.vehicle = m.body.vehicle
        /\ rows[m.account][i].body.part = m.body.part
        /\ ~rows[m.account][i].body.deleted

\* An active reminder of the same vehicle and part, other than the one written
ActiveReminderConflict(m) ==
  /\ m.body.type = "reminder_config" /\ ~m.body.deleted
  /\ \E i \in Id \ {m.id} :
        /\ Exists(m.account, i, "reminder_config")
        /\ rows[m.account][i].body.vehicle = m.body.vehicle
        /\ rows[m.account][i].body.part = m.body.part
        /\ ~rows[m.account][i].body.deleted

\* Fault: any reading of the account will do.
OdometerOfVehicle_any(a, o, v) == Exists(a, o, "odometer_log")
OdometerOfVehicle(a, o, v) ==
  IF Exists(a, o, "odometer_log") THEN rows[a][o].body.vehicle = v ELSE FALSE

\* Fault: only part types are looked up.
validateCurrentState_parts(m) ==
  m.body.type \in {"reminder_config", "service_log"} =>
    m.body.part # None /\ Exists(m.account, m.body.part, "part_type")

\* The rules that read rows; TRUE lets the mutation through
validateCurrentState(m) ==
  LET a == m.account
      b == m.body
  IN /\ b.type = "part_type" /\ m.op = "update" => Exists(a, m.id, "part_type")
     /\ b.type \notin {"vehicle", "part_type"} =>
          b.vehicle # None /\ Exists(a, b.vehicle, "vehicle")
     /\ b.type \in {"reminder_config", "service_log"} =>
          b.part # None /\ Exists(a, b.part, "part_type")
     /\ b.type = "fuel_log" /\ b.odo # None => OdometerOfVehicle(a, b.odo, b.vehicle)
     /\ ~ActiveReminderConflict(m)

\* part_types.id is a primary key over all accounts
ForeignPartType(m) ==
  m.body.type = "part_type" /\ \E a \in Account \ {m.account} : Exists(a, m.id, "part_type")

\* The row after the upsert: the submitted snapshot, but a part type keeps its
\* first code.
writeSnapshot(m, n) ==
  [body |-> IF m.body.type = "part_type" /\ Exists(m.account, m.id, "part_type")
            THEN [m.body EXCEPT !.code = rows[m.account][m.id].body.code]
            ELSE m.body,
   seq  |-> n]

\* Fault: the feed gets what the client sent.
canonicalPayload_submitted(m, row) == m.body
\* The feed gets what the row holds, read back.
canonicalPayload(m, row) == row.body

-----------------------------------------------------------------------------
(* POST /sync/push *)

Current(w)  == job[w][at[w]]

\* Fault: numbers are drawn without the row lock.
LockFree_always(w) == TRUE
LockFree(w) == seqLock[Current(w).account] \in {None, w}
Unlocked(w) == [a \in Account |-> IF seqLock[a] = w THEN None ELSE seqLock[a]]

\* The handler leaves mutation at[w] with an answer; Push goes on to the next
\* one only after an ACK.  A rejection ends the batch.
Answer(w, ok, seq) ==
  /\ replies' = replies \union {[m |-> Current(w), ok |-> ok, seq |-> seq]}
  /\ IF ok /\ at[w] < Len(job[w])
     THEN /\ pc' = [pc EXCEPT ![w] = "ready"]
          /\ at' = [at EXCEPT ![w] = @ + 1]
          /\ UNCHANGED job
     ELSE /\ pc' = [pc EXCEPT ![w] = "idle"]
          /\ at' = [at EXCEPT ![w] = 0]
          /\ job' = [job EXCEPT ![w] = <<>>]

\* The handler ends with a retryable error, or the client never hears of it.
GiveUp(w) ==
  /\ pc' = [pc EXCEPT ![w] = "idle"]
  /\ at' = [at EXCEPT ![w] = 0]
  /\ job' = [job EXCEPT ![w] = <<>>]
  /\ UNCHANGED replies

Push(w, b) ==
  /\ pc[w] = "idle"
  /\ <<b[1].account, b[1].device>> \in devices
  /\ pc' = [pc EXCEPT ![w] = "ready"]
  /\ job' = [job EXCEPT ![w] = b]
  /\ at' = [at EXCEPT ![w] = 1]
  /\ UNCHANGED <<dbVars, staged, replies, pullVars>>

RejectInvalid(w) ==
  /\ pc[w] = "ready"
  /\ ~validateMutation(Current(w))
  /\ Answer(w, FALSE, 0)
  /\ UNCHANGED <<dbVars, staged, pullVars>>

LockAccountSequenceForUpdate(w) ==
  /\ pc[w] = "ready"
  /\ validateMutation(Current(w))
  /\ LockFree(w)
  /\ seqLock' = [seqLock EXCEPT ![Current(w).account] = w]
  /\ pc' = [pc EXCEPT ![w] = "locked"]
  /\ UNCHANGED <<accounts, devices, seqRow, rows, feed, processed, job, at, staged,
                 replies, pullVars>>

\* A retry: the stored answer again, applied as duplicate.
findProcessedResult(w) ==
  /\ pc[w] = "locked"
  /\ processed[Current(w)] # None
  /\ Answer(w, processed[Current(w)].status # "rejected", processed[Current(w)].seq)
  /\ seqLock' = Unlocked(w)
  /\ UNCHANGED <<accounts, devices, seqRow, rows, feed, processed, staged, pullVars>>

\* Fault: a rejection after NextAccountSequence keeps the number.
StageAnswer_keeps_number(w, ack) ==
  /\ staged' = [staged EXCEPT ![w] = [seq |-> seqRow[Current(w).account] + 1, row |-> None,
                                      change |-> None, ack |-> ack]]
  /\ pc' = [pc EXCEPT ![w] = "staged"]

\* Stage a row of processed_mutations without a write: a rejection, with the
\* sequence as it was, or an odometer reading that is already there.
StageAnswer(w, ack) ==
  /\ staged' = [staged EXCEPT ![w] = [seq |-> seqRow[Current(w).account], row |-> None,
                                      change |-> None, ack |-> ack]]
  /\ pc' = [pc EXCEPT ![w] = "staged"]

Rejected == [status |-> "rejected", seq |-> 0]

checkCurrentState(w) ==
  /\ pc[w] = "locked"
  /\ processed[Current(w)] = None
  /\ IF validateCurrentState(Current(w))
     THEN pc' = [pc EXCEPT ![w] = "checked"] /\ UNCHANGED staged
     ELSE StageAnswer(w, Rejected)
  /\ UNCHANGED <<dbVars, job, at, replies, pullVars>>

\* NextAccountSequence, the row, the feed row and the ACK.  The UPDATE of the
\* sequence needs its row lock; the INSERT of the ACK needs the key to be free.
StageApplied(w) ==
  LET m == Current(w)
      n == seqRow[m.account] + 1
      r == writeSnapshot(m, n)
  IN /\ LockFree(w)
     /\ processed[m] = None
     /\ seqLock' = [seqLock EXCEPT ![m.account] = w]
     /\ staged' = [staged EXCEPT ![w] =
          [seq |-> n, row |-> r,
           change |-> [seq |-> n, id |-> m.id, body |-> canonicalPayload(m, r)],
           ack |-> [status |-> "applied", seq |-> n]]]
     /\ pc' = [pc EXCEPT ![w] = "staged"]

applyAppendOnlyMutation(w) ==
  LET m == Current(w) IN
  /\ pc[w] = "checked"
  /\ m.body.type = "odometer_log"
  /\ IF Exists(m.account, m.id, "odometer_log")
     THEN /\ StageAnswer(w, [status |-> "duplicate", seq |-> rows[m.account][m.id].seq])
          /\ UNCHANGED seqLock
     ELSE StageApplied(w)
  /\ UNCHANGED <<accounts, devices, seqRow, rows, feed, processed, job, at, replies, pullVars>>

\* Fault: the id is unique per account only, as in the other tables.
PartTypeInsertFree_per_account(w) == TRUE

\* An INSERT of a part type waits for another transaction's INSERT of its id.
PartTypeInsertFree(w) ==
  Current(w).body.type = "part_type" =>
    \A v \in Worker \ {w} : ~Writes(v, Current(w).id)

applyMutableMutation(w) ==
  LET m == Current(w) IN
  /\ pc[w] = "checked"
  /\ m.body.type # "odometer_log"
  /\ m.check = "valid"
  /\ PartTypeInsertFree(w)
  /\ ~ForeignPartType(m) /\ ~ActiveReminderConflict(m)
  /\ StageApplied(w)
  /\ UNCHANGED <<accounts, devices, seqRow, rows, feed, processed, job, at, replies, pullVars>>

\* The write itself says no: the unique index of active reminders, or a part
\* type id of another account.  ROLLBACK TO SAVEPOINT gives the sequence back.
rejectAtWrite(w) ==
  LET m == Current(w) IN
  /\ pc[w] = "checked"
  /\ m.check = "valid"
  /\ PartTypeInsertFree(w)
  /\ ForeignPartType(m) \/ ActiveReminderConflict(m)
  /\ LockFree(w)
  /\ StageAnswer(w, Rejected)
  /\ seqLock' = [seqLock EXCEPT ![m.account] = w]
  /\ UNCHANGED <<accounts, devices, seqRow, rows, feed, processed, job, at, replies, pullVars>>

\* A CHECK fails (SQLSTATE class 23): everything rolls back, the client is told
\* "rejected" and nothing is recorded.
rejectConstraint(w) ==
  /\ pc[w] = "checked"
  /\ Current(w).body.type # "odometer_log"
  /\ Current(w).check = "unstorable"
  /\ Answer(w, FALSE, 0)
  /\ seqLock' = Unlocked(w)
  /\ UNCHANGED <<accounts, devices, seqRow, rows, feed, processed, staged, pullVars>>

\* Fault: a rejection is answered but not recorded.
Publish_applied_only(w) ==
  LET m == Current(w)
      s == staged[w]
  IN /\ pc[w] = "staged"
     /\ seqRow' = [seqRow EXCEPT ![m.account] = s.seq]
     /\ IF s.change = None
        THEN UNCHANGED <<rows, feed, processed>>
        ELSE /\ processed' = [processed EXCEPT ![m] = s.ack]
             /\ feed' = [feed EXCEPT ![m.account] = @ \union {s.change}]
             /\ rows' = [rows EXCEPT ![m.account][m.id] = s.row]
     /\ seqLock' = Unlocked(w)
     /\ staged' = [staged EXCEPT ![w] = None]
     /\ UNCHANGED <<accounts, devices, pullVars>>

\* COMMIT: what the transaction staged becomes visible and its locks go.
Publish(w) ==
  LET m == Current(w)
      s == staged[w]
  IN /\ pc[w] = "staged"
     /\ processed' = [processed EXCEPT ![m] = s.ack]
     /\ seqRow' = [seqRow EXCEPT ![m.account] = s.seq]
     /\ IF s.change = None
        THEN UNCHANGED <<rows, feed>>
        ELSE /\ feed' = [feed EXCEPT ![m.account] = @ \union {s.change}]
             /\ rows' = [rows EXCEPT ![m.account][m.id] = s.row]
     /\ seqLock' = Unlocked(w)
     /\ staged' = [staged EXCEPT ![w] = None]
     /\ UNCHANGED <<accounts, devices, pullVars>>

Commit(w) ==
  /\ Publish(w)
  /\ Answer(w, staged[w].ack.status # "rejected", staged[w].ack.seq)

\* The commit took effect but its outcome did not reach the handler, or the
\* answer did not reach the client.
CommitUnheard(w) == Publish(w) /\ GiveUp(w)

\* Fault: the transaction is left open.
Abort_left_open(w) ==
  /\ pc[w] # "idle"
  /\ GiveUp(w)
  /\ staged' = [staged EXCEPT ![w] = None]
  /\ UNCHANGED <<dbVars, pullVars>>

\* A statement fails, the context ends or the process dies: ROLLBACK.
Abort(w) ==
  /\ pc[w] # "idle"
  /\ GiveUp(w)
  /\ seqLock' = Unlocked(w)
  /\ staged' = [staged EXCEPT ![w] = None]
  /\ UNCHANGED <<accounts, devices, seqRow, rows, feed, processed, pullVars>>

-----------------------------------------------------------------------------
(* GET /sync/pull: two statements, between which pushes commit *)

SmallerOf(x, y) == IF x < y THEN x ELSE y

\* The service accepts any until_seq not below after_seq; a client's after_seq is
\* no further than the feed.
PullReadBound(p, a, after, until) ==
  /\ pulling[p] = None
  /\ a \in accounts
  /\ after <= until
  /\ pulling' = [pulling EXCEPT ![p] =
       [account |-> a, after |-> after, bound |-> SmallerOf(until, seqRow[a])]]
  /\ UNCHANGED <<dbVars, pushVars, replies, page>>

\* Fault: ORDER BY server_seq DESC
FirstChanges_descending(S, n) == {c \in S : Cardinality({d \in S : d.seq > c.seq}) < n}
\* SELECT ... ORDER BY server_seq LIMIT: the first n changes of a set
FirstChanges(S, n) == {c \in S : Cardinality({d \in S : d.seq < c.seq}) < n}

PullListChanges(p) ==
  LET q     == pulling[p]
      found == {c \in feed[q.account] : q.after < c.seq /\ c.seq <= q.bound}
      first == FirstChanges(found, PageLimit)
  IN /\ q # None
     /\ page' = [page EXCEPT ![p] =
          [account |-> q.account, after |-> q.after, bound |-> q.bound, changes |-> first,
           next |-> IF first = {} THEN q.after
                    ELSE (CHOOSE c \in first : \A d \in first : d.seq <= c.seq).seq,
           more |-> found # first]]
     /\ pulling' = [pulling EXCEPT ![p] = None]
     /\ UNCHANGED <<dbVars, pushVars, replies>>

-----------------------------------------------------------------------------
\* The steps of a push handler that its own progress brings about
Work(w) ==
  \/ RejectInvalid(w)
  \/ LockAccountSequenceForUpdate(w)
  \/ findProcessedResult(w)
  \/ checkCurrentState(w)
  \/ applyAppendOnlyMutation(w)
  \/ applyMutableMutation(w)
  \/ rejectAtWrite(w)
  \/ rejectConstraint(w)
  \/ Commit(w)

Next ==
  \/ \E a \in Account : CreateAccount(a)
  \/ \E a \in Account, d \in Device : RegisterDevice(a, d)
  \/ \E w \in Worker, b \in Batch : Push(w, b)
  \/ \E w \in Worker : Work(w)
  \/ \E w \in Worker : CommitUnheard(w)
  \/ \E w \in Worker : Abort(w)
  \/ \E p \in Puller, a \in Account : \E after \in 0 .. seqRow[a], until \in 0 .. seqRow[a] + 1 :
        PullReadBound(p, a, after, until)
  \/ \E p \in Puller : PullListChanges(p)

Spec == Init /\ [][Next]_vars

\* A handler runs on; PostgreSQL queues the waiters of a row lock in order, so
\* one that keeps waiting for it gets it.
FairSpec == Spec /\ \A w \in Worker : SF_vars(Work(w))

-----------------------------------------------------------------------------
(* Properties *)

TypeOK ==
  /\ accounts \in SUBSET Account
  /\ devices \in SUBSET (Account \X Device)
  /\ seqRow \in [Account -> Nat]
  /\ seqLock \in [Account -> Worker \union {None}]
  /\ rows \in [Account -> [Id -> Row \union {None}]]
  /\ feed \in [Account -> SUBSET Change]
  /\ processed \in [Mutation -> Ack \union {None}]
  /\ pc \in [Worker -> {"idle", "ready", "locked", "checked", "staged"}]
  /\ job \in [Worker -> Batch \union {<<>>}]
  /\ at \in [Worker -> Nat]
  /\ \A w \in Worker : pc[w] = "idle" \/ at[w] \in 1 .. Len(job[w])
  /\ staged \in [Worker -> Staged \union {None}]
  /\ replies \in SUBSET Reply
  /\ pulling \in [Puller -> Query \union {None}]
  /\ page \in [Puller -> Page \union {None}]

\* The feed of an account is numbered 1, 2, ..., current_seq, whatever was
\* rejected, rolled back or retried: a cursor that has reached n has missed
\* nothing up to n.
DenseFeed ==
  \A a \in Account :
    /\ {c.seq : c \in feed[a]} = 1 .. seqRow[a]
    /\ \A c, d \in feed[a] : c.seq = d.seq => c = d

\* A row is what the last change of its id in the feed says, so a client that
\* replays the feed ends with the server's rows.
RowIsLatestChange ==
  \A a \in Account, i \in Id :
    LET history == {c \in feed[a] : c.id = i}
    IN IF history = {}
       THEN rows[a][i] = None
       ELSE \E c \in history : /\ \A d \in history : d.seq <= c.seq
                               /\ rows[a][i] = [body |-> c.body, seq |-> c.seq]

\* No two active reminders of one vehicle and part type, whichever devices
\* created them at the same time.
OneActiveReminder ==
  \A a \in Account : \A i, j \in Id :
    (/\ Exists(a, i, "reminder_config") /\ Exists(a, j, "reminder_config")
     /\ i # j) =>
       LET x == rows[a][i].body
           y == rows[a][j].body
       IN x.vehicle = y.vehicle /\ x.part = y.part => x.deleted \/ y.deleted

\* The odometer reading of a fuel log is a reading of the same vehicle; it was
\* so when the log was written, and the reading has not moved since.
FuelReadingOfItsVehicle ==
  \A a \in Account, i \in Id :
    Exists(a, i, "fuel_log") =>
      LET b == rows[a][i].body
      IN b.odo # None => /\ Exists(a, b.odo, "odometer_log")
                         /\ rows[a][b.odo].body.vehicle = b.vehicle

\* A change never refers to a vehicle, part type or reading whose first change
\* comes later in the feed: replay in order never meets a dangling reference.
ReferencesComeFirst ==
  \A a \in Account : \A c \in feed[a] :
    \A r \in {c.body.vehicle, c.body.part, c.body.odo} \ {None} :
      \E d \in feed[a] : d.id = r /\ d.seq < c.seq

\* part_types.id is unique over accounts though each account locks only its
\* own sequence.
PartTypeHasOneOwner ==
  \A i \in Id : \A a, b \in Account :
    Exists(a, i, "part_type") /\ Exists(b, i, "part_type") => a = b

\* What a client was told stays true.  An ACK names the change the mutation
\* made (or found); a mutation that was rejected once is never applied, so the
\* client may replace it by another.
RepliesHold ==
  \A r \in replies :
    IF r.ok
    THEN /\ processed[r.m] # None
         /\ processed[r.m].status # "rejected"
         /\ processed[r.m].seq = r.seq
         /\ \E c \in feed[r.m.account] : c.seq = r.seq /\ c.id = r.m.id
    ELSE processed[r.m] = None \/ processed[r.m] = Rejected

\* A page holds every change between its cursors, now and later: nothing
\* commits below a bound once a pull has read it; has_more says whether the
\* bound is reached.
PagesAreExact ==
  \A p \in Puller : page[p] # None =>
    LET g == page[p]
    IN /\ g.changes = {c \in feed[g.account] : g.after < c.seq /\ c.seq <= g.next}
       /\ {c.seq : c \in g.changes} = g.after + 1 .. g.next
       /\ g.more <=> g.next < g.bound

\* No handler waits for ever: the sequence locks and the waits for a part type
\* id never close a circle, and every way out of a transaction frees its lock.
HandlersFinish == \A w \in Worker : pc[w] # "idle" ~> pc[w] = "idle"
=============================================================================
